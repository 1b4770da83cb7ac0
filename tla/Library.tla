------------------------------- MODULE Library -------------------------------
(***************************************************************************)
(* A project's asset library and the recycle bin behind it: categories     *)
(* inside categories, the assets filed in them, the links between assets   *)
(* and cards, and a copy of each thing deleted with what its delete did to *)
(* the things it left.  A command is one transaction; only the move of a   *)
(* category is split, between the check it makes and the row it writes.    *)
(***************************************************************************)
EXTENDS Naturals

CONSTANTS Category, Asset, Card,
          Name,          \* what a category may be called
          Unorganised,   \* DEFAULT_ASSET_CATEGORY, where assets go
          NoName,        \* a category that is not there
          Person,        \* people with a move in flight
          Still,         \* a person moving nothing
          MostDeletes    \* bound: deletes there may be

Top == "top"         \* parent_id is null
There == "there"     \* a card that exists
Unmade == "unmade"   \* an id not given out yet
Gone == "gone"       \* an id deleted: in the bin, or nowhere

ASSUME LibraryAssumption ==
  /\ \A c \in Category : c \notin {Top, Unmade, Gone}
  /\ Unorganised \in Name
  /\ NoName \notin Name
  /\ \A c \in Category, p \in Category \union {Top} : Still # [category |-> c, to |-> p]
  /\ MostDeletes \in Nat

VARIABLES lib,      \* the rows: parent and name of each category, the category
                    \* of each asset, the cards, and the links between the two
          bin,      \* deleted_thing, each row dated
          deletes,  \* how many there have been, which dates them
          thrown,   \* the categories somebody threw out of the bin
          moving,   \* the move each person has checked and not yet written
          crossed   \* whether two changes of the tree's shape ever overlapped

vars == <<lib, bin, deletes, thrown, moving, crossed>>

-----------------------------------------------------------------------------
(* The library.                                                             *)

Live(l) == {c \in Category : l.parent[c] \notin {Unmade, Gone}}

Inside(l, p) == {c \in Category : l.parent[c] = p}

Filed(l, c) == {a \in Asset : l.filed[a] = c}

Assets(l) == {a \in Asset : l.filed[a] \notin {Unmade, Gone}}

Cards(l) == {k \in Card : l.cards[k] = There}

(* A name is unique among the categories directly inside the same place.    *)
NamesSettle(l) ==
  \A c, d \in Live(l) :
    c # d => l.parent[c] # l.parent[d] \/ l.name[c] # l.name[d]

(* A category and everything it is inside, for refuseToPutItInsideItself.   *)
Ancestors(l, p) ==
  {a \in Category :
     \A S \in SUBSET Category :
       p \in S /\ (\A c \in S : l.parent[c] \in Category => l.parent[c] \in S) => a \in S}

(* Every category is reached from the top: no set of them is only ever      *)
(* inside itself.                                                           *)
Rooted(l) == \A S \in SUBSET Live(l) : S # {} => \E c \in S : l.parent[c] \notin S

(* The foreign keys: parent_id, category_id, and the two of a link.         *)
Standing(l) ==
  /\ \A c \in Live(l) : l.parent[c] \in Live(l) \union {Top}
  /\ \A a \in Assets(l) : l.filed[a] \in Live(l)
  /\ \A x \in l.links : x.card \in Cards(l) /\ x.asset \in Assets(l)

-----------------------------------------------------------------------------
(* A delete, and the copy it puts in the bin.                               *)

(* moveToDefault: any category of that name, wherever it is, or a new one.  *)
(* Picking the one being deleted is the refusal.                            *)
Destinations(l, c) ==
  LET named == {d \in Live(l) : l.name[d] = Unorganised}
  IN IF Filed(l, c) = {} THEN {c}
     ELSE IF named # {} THEN named \ {c}
     ELSE {d \in Category : l.parent[d] = Unmade}

(* createDefault, for one not made yet.                                     *)
WithDefault(l, d) ==
  IF l.parent[d] = Unmade
  THEN [l EXCEPT !.parent[d] = Top, !.name[d] = Unorganised]
  ELSE l

(* nameWhereTheyLand: its own name where that is free, and otherwise one    *)
(* that neither the level nor another category coming up has.               *)
Landings(l, c) ==
  LET taken == {l.name[d] : d \in Inside(l, l.parent[c]) \ {c}}
      up == Inside(l, c)
      clashing == {k \in up : l.name[k] \in taken}
  IN {g \in [up -> Name] :
        /\ \A k \in up \ clashing : g[k] = l.name[k]
        /\ \A k \in clashing : g[k] \notin taken \union {l.name[j] : j \in up}
        /\ \A j, k \in clashing : j # k => g[j] # g[k]}

(* What was filed in it moves, what was inside it comes up, and it goes.    *)
WithoutCategory(l, c, d, g) ==
  [l EXCEPT
     !.filed = [a \in Asset |-> IF l.filed[a] = c THEN d ELSE l.filed[a]],
     !.parent = [k \in Category |->
                   IF k = c THEN Gone
                   ELSE IF l.parent[k] = c THEN l.parent[c] ELSE l.parent[k]],
     !.name = [k \in Category |->
                 IF k = c THEN NoName ELSE IF l.parent[k] = c THEN g[k] ELSE l.name[k]]]

(* Mutant: the names the children came up under are not written down.       *)
BinnedCategoryWithoutNames(l, c, d, g, date) ==
  [kind |-> "category", id |-> c, at |-> l.parent[c], name |-> l.name[c], date |-> date,
   held |-> Filed(l, c), movedTo |-> d,
   up |-> Inside(l, c), called |-> g, cameUpAs |-> g]

(* The row, and the repairs: whatThisDeleteMoved.                           *)
BinnedCategory(l, c, d, g, date) ==
  [kind |-> "category", id |-> c, at |-> l.parent[c], name |-> l.name[c], date |-> date,
   held |-> Filed(l, c), movedTo |-> d,
   up |-> Inside(l, c), called |-> [k \in Inside(l, c) |-> l.name[k]], cameUpAs |-> g]

(* An asset or a card, and the links it takes with it.                      *)
WithoutAsset(l, a) ==
  [l EXCEPT !.filed[a] = Gone, !.links = {x \in l.links : x.asset # a}]

BinnedAsset(l, a, date) ==
  [kind |-> "asset", id |-> a, at |-> l.filed[a], date |-> date,
   links |-> {x \in l.links : x.asset = a}]

WithoutCard(l, k) ==
  [l EXCEPT !.cards[k] = Gone, !.links = {x \in l.links : x.card # k}]

BinnedCard(l, k, date) ==
  [kind |-> "card", id |-> k, at |-> Top, date |-> date,
   links |-> {x \in l.links : x.card = k}]

-----------------------------------------------------------------------------
(* A restore.                                                               *)

(* insertPart and then applyRepair, which writes only over what the delete  *)
(* itself left there.                                                       *)
WithCategory(l, e) ==
  [l EXCEPT
     !.parent = [k \in Category |->
                   IF k = e.id THEN e.at
                   ELSE IF k \in e.up /\ l.parent[k] = e.at THEN e.id ELSE l.parent[k]],
     !.name = [k \in Category |->
                 IF k = e.id THEN e.name
                 ELSE IF k \in e.up /\ l.name[k] = e.cameUpAs[k] THEN e.called[k]
                 ELSE l.name[k]],
     !.filed = [a \in Asset |->
                  IF a \in e.held /\ l.filed[a] = e.movedTo THEN e.id ELSE l.filed[a]]]

(* Mutant: links come back whether or not their other end is there.         *)
WithAssetAndEveryLink(l, e) ==
  [l EXCEPT !.filed[e.id] = e.at, !.links = l.links \union e.links]

(* A link is left out when its other end has gone.                          *)
WithAsset(l, e) ==
  [l EXCEPT !.filed[e.id] = e.at,
            !.links = l.links \union {x \in e.links : x.card \in Cards(l)}]

WithCard(l, e) ==
  [l EXCEPT !.cards[e.id] = There,
            !.links = l.links \union {x \in e.links : x.asset \in Assets(l)}]

Restored(l, e) ==
  CASE e.kind = "category" -> WithCategory(l, e)
    [] e.kind = "asset" -> WithAsset(l, e)
    [] e.kind = "card" -> WithCard(l, e)

(* What it was in, which has to be there: an asset's category is asked for  *)
(* in words, a category's parent by the foreign key alone.                  *)
ItsPlaceIsThere(l, e) == e.at \in Live(l) \union {Top}

(* Names are checked once, when the whole of it is back.                    *)
Fits(l, e) == ItsPlaceIsThere(l, e) /\ NamesSettle(Restored(l, e))

-----------------------------------------------------------------------------
(* Commands.                                                                *)

InFlight(u) == moving[u] # Still

(* A change of the tree's shape, beside a move somebody has checked.        *)
Reshapes(others) == crossed' = (crossed \/ \E v \in others : InFlight(v))

Init ==
  /\ lib = [parent |-> [c \in Category |-> Unmade], name |-> [c \in Category |-> NoName],
            filed |-> [a \in Asset |-> Unmade], cards |-> [k \in Card |-> Unmade],
            links |-> {}]
  /\ bin = {} /\ deletes = 0 /\ thrown = {}
  /\ moving = [u \in Person |-> Still] /\ crossed = FALSE

(* An insert or an update, which fails if it leaves two of a name.          *)
Write(l) ==
  /\ NamesSettle(l)
  /\ lib' = l
  /\ UNCHANGED <<bin, deletes, thrown, moving>>

CreateCategory(c, p, n) ==
  /\ lib.parent[c] = Unmade
  /\ p \in Live(lib) \union {Top}
  /\ Write([lib EXCEPT !.parent[c] = p, !.name[c] = n])
  /\ UNCHANGED crossed

RenameCategory(c, n) ==
  /\ c \in Live(lib)
  /\ Write([lib EXCEPT !.name[c] = n])
  /\ UNCHANGED crossed

(* Mutant: only itself is refused, not what is under it.                    *)
CheckMoveIntoAnother(u, c, p) ==
  /\ moving[u] = Still
  /\ c \in Live(lib)
  /\ p \in (Live(lib) \union {Top}) \ {c, lib.parent[c]}
  /\ moving' = [moving EXCEPT ![u] = [category |-> c, to |-> p]]
  /\ UNCHANGED <<lib, bin, deletes, thrown, crossed>>

(* assets.moveCategory reads the chain above the proposed parent, locking   *)
(* none of it.                                                              *)
CheckMove(u, c, p) ==
  /\ moving[u] = Still
  /\ c \in Live(lib)
  /\ p \in (Live(lib) \union {Top}) \ {c, lib.parent[c]}
  /\ p # Top => c \notin Ancestors(lib, p)
  /\ moving' = [moving EXCEPT ![u] = [category |-> c, to |-> p]]
  /\ UNCHANGED <<lib, bin, deletes, thrown, crossed>>

(* And writes the row: an update by id, which finds nothing if the category *)
(* went meanwhile and fails if its new parent did, or on its name.          *)
WriteMove(u) ==
  /\ InFlight(u)
  /\ LET c == moving[u].category
         p == moving[u].to
         moved == [lib EXCEPT !.parent[c] = p]
     IN IF c \in Live(lib) /\ p \in Live(lib) \union {Top} /\ NamesSettle(moved)
        THEN lib' = moved /\ Reshapes(Person \ {u})
        ELSE UNCHANGED <<lib, crossed>>
  /\ moving' = [moving EXCEPT ![u] = Still]
  /\ UNCHANGED <<bin, deletes, thrown>>

CreateAsset(a, c) ==
  /\ lib.filed[a] = Unmade
  /\ c \in Live(lib)
  /\ Write([lib EXCEPT !.filed[a] = c])
  /\ UNCHANGED crossed

MoveAsset(a, c) ==
  /\ a \in Assets(lib)
  /\ c \in Live(lib)
  /\ Write([lib EXCEPT !.filed[a] = c])
  /\ UNCHANGED crossed

CreateCard(k) ==
  /\ lib.cards[k] = Unmade
  /\ Write([lib EXCEPT !.cards[k] = There])
  /\ UNCHANGED crossed

LinkAsset(k, a) ==
  /\ k \in Cards(lib) /\ a \in Assets(lib)
  /\ Write([lib EXCEPT !.links = @ \union {[card |-> k, asset |-> a]}])
  /\ UNCHANGED crossed

UnlinkAsset(k, a) ==
  /\ [card |-> k, asset |-> a] \in lib.links
  /\ Write([lib EXCEPT !.links = @ \ {[card |-> k, asset |-> a]}])
  /\ UNCHANGED crossed

(* binIt, then the delete, in one transaction.                              *)
Delete(l, e) ==
  /\ deletes < MostDeletes
  /\ NamesSettle(l)
  /\ lib' = l
  /\ bin' = bin \union {e}
  /\ deletes' = deletes + 1
  /\ UNCHANGED <<thrown, moving>>

DeleteCategory(c) ==
  /\ c \in Live(lib)
  /\ \E d \in Destinations(lib, c) :
       LET l == WithDefault(lib, d)
       IN \E g \in Landings(l, c) :
            Delete(WithoutCategory(l, c, d, g), BinnedCategory(l, c, d, g, deletes))
  /\ Reshapes(Person)

DeleteAsset(a) ==
  /\ a \in Assets(lib)
  /\ Delete(WithoutAsset(lib, a), BinnedAsset(lib, a, deletes))
  /\ UNCHANGED crossed

DeleteCard(k) ==
  /\ k \in Cards(lib)
  /\ Delete(WithoutCard(lib, k), BinnedCard(lib, k, deletes))
  /\ UNCHANGED crossed

(* take: the bin's row goes with whatever happens next, or not at all.      *)
Restore(e) ==
  /\ Fits(lib, e)
  /\ lib' = Restored(lib, e)
  /\ bin' = bin \ {e}
  /\ IF e.kind = "category" THEN Reshapes(Person) ELSE UNCHANGED crossed
  /\ UNCHANGED <<deletes, thrown, moving>>

PurgeByHand(e) ==
  /\ bin' = bin \ {e}
  /\ thrown' = IF e.kind = "category" THEN thrown \union {e.id} ELSE thrown
  /\ UNCHANGED <<lib, deletes, moving, crossed>>

(* Mutant: what was deleted last goes first.                                *)
PurgeNewest(date) ==
  /\ \E e \in bin : e.date >= date
  /\ bin' = {e \in bin : e.date < date}
  /\ UNCHANGED <<lib, deletes, thrown, moving, crossed>>

(* purgeExpired: everything past its date, and all are kept equally long.   *)
PurgeExpired(date) ==
  /\ \E e \in bin : e.date <= date
  /\ bin' = {e \in bin : e.date > date}
  /\ UNCHANGED <<lib, deletes, thrown, moving, crossed>>

Next ==
  \/ \E c \in Category, p \in Category \union {Top}, n \in Name : CreateCategory(c, p, n)
  \/ \E c \in Category, n \in Name : RenameCategory(c, n)
  \/ \E u \in Person, c \in Category, p \in Category \union {Top} : CheckMove(u, c, p)
  \/ \E u \in Person : WriteMove(u)
  \/ \E c \in Category : DeleteCategory(c)
  \/ \E a \in Asset, c \in Category : CreateAsset(a, c) \/ MoveAsset(a, c)
  \/ \E a \in Asset : DeleteAsset(a)
  \/ \E k \in Card : CreateCard(k) \/ DeleteCard(k)
  \/ \E k \in Card, a \in Asset : LinkAsset(k, a) \/ UnlinkAsset(k, a)
  \/ \E e \in bin : Restore(e) \/ PurgeByHand(e)
  \/ \E date \in 0 .. MostDeletes : PurgeExpired(date)

Spec == Init /\ [][Next]_vars

-----------------------------------------------------------------------------
(* Properties.                                                              *)

Link == [card : Card, asset : Asset]
Date == 0 .. MostDeletes

Library ==
  [parent : [Category -> Category \union {Top, Unmade, Gone}],
   name : [Category -> Name \union {NoName}],
   filed : [Asset -> Category \union {Unmade, Gone}],
   cards : [Card -> {There, Unmade, Gone}],
   links : SUBSET Link]

(* A row of the bin, and what is written down with it.                      *)
BinRow(e) ==
  /\ e.kind \in {"category", "asset", "card"}
  /\ e.date \in Date
  /\ e.kind = "category" =>
       /\ e.id \in Category /\ e.at \in Category \union {Top} /\ e.name \in Name
       /\ e.held \subseteq Asset /\ e.movedTo \in Category
       /\ e.up \subseteq Category /\ e.called \in [e.up -> Name] /\ e.cameUpAs \in [e.up -> Name]
  /\ e.kind = "asset" =>
       e.id \in Asset /\ e.at \in Category /\ e.links \subseteq [card : Card, asset : {e.id}]
  /\ e.kind = "card" =>
       e.id \in Card /\ e.at = Top /\ e.links \subseteq [card : {e.id}, asset : Asset]

TypeOK ==
  /\ lib \in Library
  /\ \A e \in bin : BinRow(e)
  /\ deletes \in Date
  /\ thrown \subseteq Category
  /\ moving \in [Person -> [category : Category, to : Category \union {Top}] \union {Still}]
  /\ crossed \in BOOLEAN

(* Every category is reached from the top: "a cycle is a subtree that has   *)
(* left the library" (refuseToPutItInsideItself).  Moves, deletes that lift *)
(* and restores that put back keep it so, unless two of them overlap:       *)
(* nothing locks what a move has read.                                      *)
NothingIsInsideItself == ~crossed => Rooted(lib)

(* Every category, asset and link stands on rows that are there, whatever   *)
(* was deleted, restored and thrown away in between, unless two changes of  *)
(* the tree's shape overlapped.                                             *)
NothingDangles == ~crossed => Standing(lib)

(* "It went after the asset did, so it is still in the bin to be put back   *)
(* first" (RECIPES): what a thing in the bin was in is there, or was        *)
(* deleted later and waits in the bin too, unless it was thrown away.       *)
WhatItWasInCanComeFirst ==
  ~crossed =>
    \A e \in bin :
      \/ ItsPlaceIsThere(lib, e)
      \/ e.at \in thrown
      \/ \E f \in bin : f.kind = "category" /\ f.id = e.at /\ f.date > e.date

(* "Puts a thing back where it was" (restoreFrom): deleting anything there  *)
(* is and restoring it at once gives back the library as it was, down to    *)
(* every name, place and link; only an Unorganised made by the delete       *)
(* stays.                                                                   *)
RestoringUndoesDeleting ==
  ~crossed =>
    /\ \A c \in Live(lib) : \A d \in Destinations(lib, c) :
         LET l == WithDefault(lib, d)
         IN \A g \in Landings(l, c) :
              LET without == WithoutCategory(l, c, d, g)
                  e == BinnedCategory(l, c, d, g, deletes)
              IN Fits(without, e) /\ Restored(without, e) = l
    /\ \A a \in Assets(lib) :
         LET e == BinnedAsset(lib, a, deletes)
         IN Fits(WithoutAsset(lib, a), e) /\ Restored(WithoutAsset(lib, a), e) = lib
    /\ \A k \in Cards(lib) :
         LET e == BinnedCard(lib, k, deletes)
         IN Fits(WithoutCard(lib, k), e) /\ Restored(WithoutCard(lib, k), e) = lib
=============================================================================
