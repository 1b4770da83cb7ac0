-------------------------- MODULE RecycleBinProofs --------------------------
(***************************************************************************)
(* Proofs about the recycle bin, for any categories, assets, cards,        *)
(* milestones and kinds of link: of the library, of what ties cards, and   *)
(* that the bin that serves both disturbs neither.                         *)
(***************************************************************************)
EXTENDS RecycleBin, TLAPS

-----------------------------------------------------------------------------
(* No command of the board and no row of its part of the bin disturbs the   *)
(* library, and no command of the library the ties: the bin that serves both *)
(* is an implementation of each.                                            *)
THEOREM TheHalvesKeepApart == BinSpec => Spec /\ Ties!Spec
<1>1. BinInit => Init /\ Ties!Init
  BY DEF BinInit
<1>2. [BinNext]_<<vars, ties>> => [Next]_vars
  BY DEF BinNext, LibraryStep, BoardStep
<1>3. [BinNext]_<<vars, ties>> => [Ties!Next]_Ties!vars
  BY DEF BinNext, LibraryStep, BoardStep, ties, Ties!vars
<1> QED
  BY <1>1, <1>2, <1>3, PTL DEF BinSpec, Spec, Ties!Spec

-----------------------------------------------------------------------------
(* The library.                                                             *)

USE DEF Top, There, Unmade, Gone

-----------------------------------------------------------------------------
(* What the operators on a library return.                                  *)

Named(l) == \A c \in Live(l) : l.name[c] \in Name

LEMMA DefaultIsTyped ==
  ASSUME NEW l \in Library, NEW d \in Category, Named(l)
  PROVE  WithDefault(l, d) \in Library /\ Named(WithDefault(l, d))
BY LibraryAssumption DEF WithDefault, Library, Named, Live

LEMMA WithoutCategoryIsTyped ==
  ASSUME NEW l \in Library, NEW c \in Live(l), NEW d \in Category,
         NEW g \in [Inside(l, c) -> Name], Named(l)
  PROVE  WithoutCategory(l, c, d, g) \in Library /\ Named(WithoutCategory(l, c, d, g))
<1> DEFINE m == WithoutCategory(l, c, d, g)
<1>1. l.parent[c] \in Category \union {Top}
  BY DEF Live, Library
<1>2. m.parent \in [Category -> Category \union {Top, Unmade, Gone}]
  BY <1>1 DEF WithoutCategory, Library
<1>3. m.name \in [Category -> Name \union {NoName}]
  BY DEF WithoutCategory, Library, Inside
<1>4. m.filed \in [Asset -> Category \union {Unmade, Gone}]
  BY DEF WithoutCategory, Library
<1>5. m.name = [k \in Category |->
                  IF k = c THEN NoName ELSE IF l.parent[k] = c THEN g[k] ELSE l.name[k]]
  BY DEF WithoutCategory, Library
<1>6. \A k \in Live(m) : k # c /\ (l.parent[k] = c \/ k \in Live(l))
  BY DEF WithoutCategory, Library, Live
<1>7. Named(m)
  BY <1>5, <1>6 DEF Named, Inside, Live
<1> QED
  BY <1>2, <1>3, <1>4, <1>7 DEF WithoutCategory, Library

-----------------------------------------------------------------------------
(* The tree: what keeps every category reached from the top.                *)

LEMMA NoneIsItsOwnParent ==
  ASSUME NEW l \in Library, Rooted(l), NEW c \in Live(l)
  PROVE  l.parent[c] # c
<1>1. {c} \in SUBSET Live(l) /\ {c} # {}
  OBVIOUS
<1> QED
  BY <1>1 DEF Rooted

LEMMA DefaultKeepsTheTree ==
  ASSUME NEW l \in Library, NEW d \in Category, Rooted(l), Standing(l)
  PROVE  /\ Rooted(WithDefault(l, d)) /\ Standing(WithDefault(l, d))
         /\ Live(WithDefault(l, d)) = Live(l) \union (IF l.parent[d] = Unmade THEN {d} ELSE {})
<1> DEFINE m == WithDefault(l, d)
<1>1. CASE l.parent[d] # Unmade
  BY <1>1 DEF WithDefault
<1>2. CASE l.parent[d] = Unmade
  <2>1. /\ m.parent = [l.parent EXCEPT ![d] = Top] /\ m.filed = l.filed
        /\ m.cards = l.cards /\ m.links = l.links
    BY <1>2 DEF WithDefault, Library
  <2>2. Live(m) = Live(l) \union {d}
    BY <1>2, <2>1 DEF Live, Library
  <2>3. \A c \in Live(l) : c # d
    BY <1>2 DEF Live
  <2>4. Standing(m)
    BY <2>1, <2>2, <2>3 DEF Standing, Assets, Cards, Library
  <2>5. ASSUME NEW S \in SUBSET Live(m), S # {} PROVE \E c \in S : m.parent[c] \notin S
    <3>1. CASE d \in S
      BY <2>1, <3>1, LibraryAssumption, <2>2 DEF Library, Live
    <3>2. CASE d \notin S
      BY <2>1, <2>2, <2>5, <3>2 DEF Rooted, Library, Live
    <3> QED
      BY <3>1, <3>2
  <2> QED
    BY <1>2, <2>2, <2>4, <2>5 DEF Rooted
<1> QED
  BY <1>1, <1>2

(* Lifting the children of a category to where it sat, and dropping it.     *)
LEMMA LiftingKeepsTheTree ==
  ASSUME NEW l \in Library, NEW c \in Live(l), NEW d \in Category, NEW g,
         Rooted(l), Standing(l),
         Filed(l, c) # {} => d \in Live(l) \ {c}
  PROVE  /\ Rooted(WithoutCategory(l, c, d, g))
         /\ Standing(WithoutCategory(l, c, d, g))
         /\ Live(WithoutCategory(l, c, d, g)) = Live(l) \ {c}
<1> DEFINE m == WithoutCategory(l, c, d, g)
<1>1. /\ m.parent = [k \in Category |-> IF k = c THEN Gone
                                         ELSE IF l.parent[k] = c THEN l.parent[c] ELSE l.parent[k]]
      /\ m.filed = [a \in Asset |-> IF l.filed[a] = c THEN d ELSE l.filed[a]]
      /\ m.cards = l.cards /\ m.links = l.links
  BY DEF WithoutCategory, Library
<1>2. l.parent[c] \in (Live(l) \ {c}) \union {Top}
  BY NoneIsItsOwnParent DEF Standing
<1>3. Live(m) = Live(l) \ {c}
  <2>1. l.parent[c] \notin {Unmade, Gone}
    BY DEF Live
  <2>2. \A k \in Category : m.parent[k] \notin {Unmade, Gone} <=> k \in Live(l) \ {c}
    <3>1. TAKE k \in Category
    <3>2. CASE k = c
      BY <1>1, <3>2
    <3>3. CASE k # c /\ l.parent[k] = c
      <4>1. m.parent[k] = l.parent[c]
        BY <1>1, <3>3
      <4>2. k \in Live(l)
        BY <3>3, LibraryAssumption DEF Live
      <4> QED
        BY <2>1, <3>3, <4>1, <4>2
    <3>4. CASE k # c /\ l.parent[k] # c
      BY <1>1, <3>4 DEF Live
    <3> QED
      BY <3>2, <3>3, <3>4
  <2> QED
    BY <2>2 DEF Live
<1>4. Standing(m)
  <2>1. \A k \in Live(m) : m.parent[k] \in Live(m) \union {Top}
    <3>1. TAKE k \in Live(m)
    <3>2. k \in Category /\ k \in Live(l) /\ k # c /\ l.parent[k] \in Live(l) \union {Top}
      BY <1>3 DEF Standing, Live
    <3>3. CASE l.parent[k] = c
      BY <1>1, <1>2, <1>3, <3>2, <3>3
    <3>4. CASE l.parent[k] # c
      BY <1>1, <1>3, <3>2, <3>4
    <3> QED
      BY <3>3, <3>4
  <2>2. Assets(m) = Assets(l)
    BY <1>1, LibraryAssumption DEF Assets, Library, Filed, Live
  <2>3. \A a \in Assets(m) : m.filed[a] \in Live(m)
    BY <1>1, <1>3, <2>2 DEF Standing, Filed, Assets
  <2> QED
    BY <1>1, <2>1, <2>2, <2>3 DEF Standing, Cards
<1>5. ASSUME NEW S \in SUBSET Live(m), S # {}, \A k \in S : m.parent[k] \in S
      PROVE  FALSE
  <2>1. CASE \E k \in S : l.parent[k] = c
    <3>1. l.parent[c] \in S
      BY <1>1, <1>3, <1>5, <2>1 DEF Live
    <3>2. S \union {c} \in SUBSET Live(l)
      BY <1>3
    <3>3. \A k \in S \union {c} : l.parent[k] \in S \union {c}
      BY <1>1, <1>3, <1>5, <3>1 DEF Live
    <3> QED
      BY <3>2, <3>3 DEF Rooted
  <2>2. CASE \A k \in S : l.parent[k] # c
    BY <1>1, <1>3, <1>5, <2>2 DEF Rooted, Live
  <2> QED
    BY <2>1, <2>2
<1> QED
  BY <1>3, <1>4, <1>5 DEF Rooted

(* Putting one back over the children it had.                               *)
LEMMA PuttingBackKeepsTheTree ==
  ASSUME NEW l \in Library, Rooted(l), Standing(l), NEW e, BinRow(e), e.kind = "category",
         l.parent[e.id] = Gone, ItsPlaceIsThere(l, e), Named(l)
  PROVE  /\ WithCategory(l, e) \in Library /\ Named(WithCategory(l, e))
         /\ Rooted(WithCategory(l, e)) /\ Standing(WithCategory(l, e))
         /\ Live(WithCategory(l, e)) = Live(l) \union {e.id}
<1> DEFINE m == WithCategory(l, e)
<1>1. /\ e.id \in Category /\ e.at \in Category \union {Top} /\ e.name \in Name
      /\ e.held \subseteq Asset /\ e.movedTo \in Category
      /\ e.up \subseteq Category /\ e.called \in [e.up -> Name]
  BY DEF BinRow
<1>2. /\ m.parent = [k \in Category |->
                       IF k = e.id THEN e.at
                       ELSE IF k \in e.up /\ l.parent[k] = e.at THEN e.id ELSE l.parent[k]]
      /\ m.filed = [a \in Asset |->
                      IF a \in e.held /\ l.filed[a] = e.movedTo THEN e.id ELSE l.filed[a]]
      /\ m.cards = l.cards /\ m.links = l.links
  BY DEF WithCategory, Library
<1>3. m \in Library
  <2>1. m.parent \in [Category -> Category \union {Top, Unmade, Gone}]
    BY <1>1, <1>2 DEF Library
  <2>2. m.name \in [Category -> Name \union {NoName}]
    BY <1>1 DEF WithCategory, Library
  <2>3. m.filed \in [Asset -> Category \union {Unmade, Gone}]
    BY <1>1, <1>2 DEF Library
  <2> QED
    BY <2>1, <2>2, <2>3 DEF WithCategory, Library
<1>4. e.id \notin Live(l) /\ e.at \in Live(l) \union {Top} /\ e.at # e.id /\ e.at \notin {Unmade, Gone}
  BY <1>1, LibraryAssumption DEF Live, ItsPlaceIsThere
<1>5. \A k \in Category : k # e.id => (m.parent[k] \notin {Unmade, Gone} <=> k \in Live(l))
  <2>1. TAKE k \in Category
  <2>2. HAVE k # e.id
  <2>3. CASE k \in e.up /\ l.parent[k] = e.at
    <3>1. m.parent[k] = e.id
      BY <1>2, <2>2, <2>3
    <3> QED
      BY <1>1, <1>4, <2>3, <3>1, LibraryAssumption DEF Live
  <2>4. CASE ~(k \in e.up /\ l.parent[k] = e.at)
    BY <1>2, <2>2, <2>4 DEF Live
  <2> QED
    BY <2>3, <2>4
<1>6. Live(m) = Live(l) \union {e.id}
  <2>1. m.parent[e.id] \notin {Unmade, Gone}
    BY <1>1, <1>2, <1>4
  <2> QED
    BY <1>1, <1>5, <2>1 DEF Live
<1>7. \A k \in Live(l) : l.parent[k] \in Live(l) \union {Top} /\ l.parent[k] # e.id
  BY <1>1, <1>4, LibraryAssumption DEF Standing
<1>8. Standing(m)
  <2>1. \A k \in Live(m) : m.parent[k] \in Live(m) \union {Top}
    <3>1. TAKE k \in Live(m)
    <3>2. CASE k = e.id
      BY <1>1, <1>2, <1>4, <1>6, <3>2
    <3>3. CASE k \in Live(l) /\ k # e.id
      <4>1. m.parent[k] \in {e.id, l.parent[k]}
        BY <1>2, <3>3 DEF Live
      <4> QED
        BY <1>6, <1>7, <3>3, <4>1
    <3> QED
      BY <1>6, <3>2, <3>3
  <2>2. Assets(m) = Assets(l)
    BY <1>1, <1>2, LibraryAssumption DEF Assets, Library
  <2>3. \A a \in Assets(m) : m.filed[a] \in Live(m)
    BY <1>2, <1>6, <2>2 DEF Standing, Assets
  <2> QED
    BY <1>2, <2>1, <2>2, <2>3 DEF Standing, Cards
<1>9. ASSUME NEW S \in SUBSET Live(m), S # {}, \A k \in S : m.parent[k] \in S
      PROVE  FALSE
  <2>1. CASE e.id \notin S
    <3>1. S \subseteq Live(l)
      BY <1>6, <2>1
    <3>2. \A k \in S : m.parent[k] = l.parent[k]
      BY <1>2, <1>9, <2>1, <3>1 DEF Live
    <3> QED
      BY <1>9, <3>1, <3>2 DEF Rooted
  <2>2. CASE e.id \in S
    <3> DEFINE R == S \ {e.id}
    <3>1. R \subseteq Live(l)
      BY <1>6
    <3>2. e.at \in R
      BY <1>1, <1>2, <1>4, <1>9, <2>2
    <3>3. \A k \in R : l.parent[k] \in R
      <4>1. TAKE k \in R
      <4>2. CASE l.parent[k] = e.at
        BY <3>2, <4>2
      <4>3. CASE l.parent[k] # e.at
        <5>1. m.parent[k] = l.parent[k]
          BY <1>2, <3>1, <4>3 DEF Live
        <5> QED
          BY <1>7, <1>9, <3>1, <5>1
      <4> QED
        BY <4>2, <4>3
    <3> QED
      BY <3>1, <3>2, <3>3 DEF Rooted
  <2> QED
    BY <2>1, <2>2
<1>10. Named(m)
  <2>1. m.name = [k \in Category |->
                    IF k = e.id THEN e.name
                    ELSE IF k \in e.up /\ l.name[k] = e.cameUpAs[k] THEN e.called[k]
                    ELSE l.name[k]]
    BY DEF WithCategory, Library
  <2> QED
    BY <1>1, <1>6, <2>1 DEF Named, Live
<1> QED
  BY <1>3, <1>6, <1>8, <1>9, <1>10 DEF Rooted

(* What a move has checked: some set of categories holds the one it goes    *)
(* into and everything that one is inside, and not the one that moves.      *)
Above(l, p, c) ==
  \E A \in SUBSET Live(l) :
    /\ p \in A /\ c \notin A
    /\ \A k \in A : l.parent[k] \in Category => l.parent[k] \in A

LEMMA WhatAMoveChecks ==
  ASSUME NEW l \in Library, Standing(l), NEW p \in Live(l), NEW c \in Category, c \notin Ancestors(l, p)
  PROVE  Above(l, p, c)
<1>1. PICK S \in SUBSET Category :
        p \in S /\ (\A k \in S : l.parent[k] \in Category => l.parent[k] \in S) /\ c \notin S
  BY DEF Ancestors
<1> DEFINE A == S \intersect Live(l)
<1>2. \A k \in A : l.parent[k] \in Category => l.parent[k] \in A
  BY <1>1, LibraryAssumption DEF Standing
<1>3. A \in SUBSET Live(l) /\ p \in A /\ c \notin A
  BY <1>1
<1> QED
  BY <1>2, <1>3 DEF Above

LEMMA MovingKeepsTheTree ==
  ASSUME NEW l \in Library, Rooted(l), Standing(l), NEW c \in Live(l),
         NEW p \in Live(l) \union {Top}, p # Top => Above(l, p, c)
  PROVE  /\ [l EXCEPT !.parent[c] = p] \in Library
         /\ Rooted([l EXCEPT !.parent[c] = p]) /\ Standing([l EXCEPT !.parent[c] = p])
         /\ Live([l EXCEPT !.parent[c] = p]) = Live(l)
<1> DEFINE m == [l EXCEPT !.parent[c] = p]
<1>1. /\ m \in Library
      /\ m.parent = [l.parent EXCEPT ![c] = p] /\ m.filed = l.filed
      /\ m.cards = l.cards /\ m.links = l.links
      /\ c \in Category /\ p \notin {Unmade, Gone}
  BY LibraryAssumption DEF Library, Live
<1>2. Live(m) = Live(l)
  BY <1>1 DEF Live, Library
<1>3. Standing(m)
  BY <1>1, <1>2 DEF Standing, Assets, Cards, Library, Live
<1>4. ASSUME NEW S \in SUBSET Live(l), S # {}, \A k \in S : m.parent[k] \in S
      PROVE  FALSE
  <2>1. \A k \in S : k # c => l.parent[k] \in S
    BY <1>1, <1>4 DEF Library, Live
  <2>2. CASE c \notin S
    BY <1>4, <2>1, <2>2 DEF Rooted
  <2>3. CASE c \in S
    <3>1. p \in S
      BY <1>1, <1>4, <2>3 DEF Library, Live
    <3>2. p # Top
      BY <3>1, LibraryAssumption DEF Live
    <3>3. PICK A \in SUBSET Live(l) :
            /\ p \in A /\ c \notin A
            /\ \A k \in A : l.parent[k] \in Category => l.parent[k] \in A
      BY <3>2 DEF Above
    <3>4. \A k \in S \intersect A : l.parent[k] \in S \intersect A
      BY <2>1, <3>3 DEF Live
    <3>5. S \intersect A \in SUBSET Live(l) /\ S \intersect A # {}
      BY <3>1, <3>3
    <3> QED
      BY <3>4, <3>5 DEF Rooted
  <2> QED
    BY <2>2, <2>3
<1> QED
  BY <1>1, <1>2, <1>3, <1>4 DEF Rooted

(* One made, at the end of a branch.                                        *)
LEMMA MakingKeepsTheTree ==
  ASSUME NEW l \in Library, Rooted(l), Standing(l), NEW c \in Category, l.parent[c] = Unmade,
         NEW p \in Live(l) \union {Top}, NEW n \in Name
  PROVE  LET m == [l EXCEPT !.parent[c] = p, !.name[c] = n]
         IN /\ m \in Library /\ Rooted(m) /\ Standing(m)
            /\ Live(m) = Live(l) \union {c}
<1> DEFINE m == [l EXCEPT !.parent[c] = p, !.name[c] = n]
<1>1. /\ m \in Library
      /\ m.parent = [l.parent EXCEPT ![c] = p] /\ m.filed = l.filed
      /\ m.cards = l.cards /\ m.links = l.links
      /\ p \notin {Unmade, Gone} /\ c \notin Live(l) /\ p # c
  BY LibraryAssumption DEF Library, Live
<1>2. Live(m) = Live(l) \union {c}
  BY <1>1 DEF Live, Library
<1>3. Standing(m)
  BY <1>1, <1>2 DEF Standing, Assets, Cards, Library, Live
<1>4. ASSUME NEW S \in SUBSET Live(m), S # {}, \A k \in S : m.parent[k] \in S
      PROVE  FALSE
  <2>1. \A k \in S : k # c => k \in Live(l) /\ l.parent[k] \in S
    BY <1>1, <1>2, <1>4 DEF Library, Live
  <2>2. \A k \in S : k # c => l.parent[k] # c
    BY <1>1, <2>1, LibraryAssumption DEF Standing
  <2>3. S \ {c} \in SUBSET Live(l) /\ \A k \in S \ {c} : l.parent[k] \in S \ {c}
    BY <1>2, <2>1, <2>2
  <2>4. S \ {c} # {}
    BY <1>1, <1>4 DEF Library
  <2> QED
    BY <2>3, <2>4 DEF Rooted
<1> QED
  BY <1>1, <1>2, <1>3, <1>4 DEF Rooted

-----------------------------------------------------------------------------
(* The invariant.                                                           *)

(* What is in the bin is not in the library as well, nor there twice, and   *)
(* was deleted before whatever is deleted next.                             *)
BinIsApart ==
  /\ \A e \in bin : e.date < deletes
  /\ \A e \in bin : e.kind = "category" => lib.parent[e.id] = Gone
  /\ \A e, f \in bin : e.kind = "category" /\ f.kind = "category" /\ e.id = f.id => e = f

(* While nothing has overlapped, each move in flight may still be written.  *)
MovesAreSafe ==
  \A u \in Person :
    InFlight(u) /\ moving[u].to # Top => Above(lib, moving[u].to, moving[u].category)

Order ==
  \A e \in bin :
    \/ ItsPlaceIsThere(lib, e)
    \/ e.at \in thrown
    \/ \E f \in bin : f.kind = "category" /\ f.id = e.at /\ f.date > e.date

Shape == Rooted(lib) /\ Standing(lib) /\ MovesAreSafe /\ Order

LibraryInv == TypeOK /\ Named(lib) /\ BinIsApart /\ NamesSettle(lib) /\ (~crossed => Shape)

LEMMA InitEstablishesLibraryInv == Init => LibraryInv
<1> SUFFICES ASSUME Init PROVE LibraryInv
  OBVIOUS
<1> USE LibraryAssumption
<1>1. Live(lib) = {} /\ Assets(lib) = {} /\ Cards(lib) = {} /\ lib.links = {} /\ bin = {}
  BY DEF Init, Live, Assets, Cards
<1>2. TypeOK
  <2>1. lib \in Library
    BY DEF Init, Library, Link
  <2>2. thrown \subseteq Category /\ crossed \in BOOLEAN
    BY DEF Init
  <2>3. moving \in [Person -> [category : Category, to : Category \union {Top}] \union {Still}]
    BY DEF Init
  <2>4. deletes \in Date
    BY DEF Init, Date
  <2> QED
    BY <1>1, <2>1, <2>2, <2>3, <2>4 DEF TypeOK
<1>3. Rooted(lib) /\ Standing(lib) /\ NamesSettle(lib) /\ Named(lib)
  BY <1>1 DEF Rooted, Standing, NamesSettle, Named
<1>4. BinIsApart /\ MovesAreSafe /\ Order
  BY <1>1 DEF Init, BinIsApart, MovesAreSafe, Order, InFlight
<1> QED
  BY <1>2, <1>3, <1>4 DEF LibraryInv, Shape

(* A command that leaves the tree alone leaves the moves alone too.         *)
LEMMA MovesStandWithTheTree ==
  ASSUME LibraryInv, ~crossed, lib'.parent = lib.parent, moving' = moving
  PROVE  MovesAreSafe'
<1>1. Live(lib') = Live(lib)
  BY DEF Live
<1>2. MovesAreSafe
  BY DEF LibraryInv, Shape
<1>3. ASSUME NEW p, NEW c, Above(lib, p, c)
      PROVE  Above(lib', p, c)
  BY <1>1, <1>3 DEF Above
<1> QED
  BY <1>2, <1>3 DEF MovesAreSafe, InFlight

(* What reshapes the tree without crossing anything leaves no move in       *)
(* flight.                                                                  *)
LEMMA NoneInFlight ==
  ASSUME Reshapes(Person), ~crossed', moving' = moving
  PROVE  MovesAreSafe' /\ ~crossed
BY DEF Reshapes, MovesAreSafe, InFlight


LEMMA CreateCategoryKeepsLibraryInv ==
  ASSUME LibraryInv, NEW c \in Category, NEW p \in Category \union {Top}, NEW n \in Name,
         CreateCategory(c, p, n)
  PROVE  LibraryInv'
<1>1. /\ lib.parent[c] = Unmade /\ p \in Live(lib) \union {Top}
      /\ lib' = [lib EXCEPT !.parent[c] = p, !.name[c] = n] /\ NamesSettle(lib')
      /\ UNCHANGED <<bin, deletes, thrown, moving, crossed>>
  BY DEF CreateCategory, Write
<1>2. TypeOK /\ lib \in Library
  BY DEF LibraryInv, TypeOK
<1>3. lib' \in Library /\ Named(lib')
  BY <1>1, <1>2, LibraryAssumption DEF Library, Live, LibraryInv, Named
<1>4. TypeOK'
  BY <1>1, <1>2, <1>3 DEF TypeOK
<1>5. BinIsApart'
  <2>1. \A e \in bin : e.kind = "category" => e.id # c
    BY <1>1 DEF LibraryInv, BinIsApart
  <2> QED
    BY <1>1, <1>2, <2>1 DEF LibraryInv, BinIsApart, TypeOK, BinRow, Library
<1>6. ASSUME ~crossed'
      PROVE  Shape'
  <2>1. Shape /\ Rooted(lib) /\ Standing(lib) /\ Order
    BY <1>1, <1>6 DEF LibraryInv, Shape
  <2>2. Rooted(lib') /\ Standing(lib') /\ Live(lib') = Live(lib) \union {c}
    BY <1>1, <1>2, <2>1, MakingKeepsTheTree
  <2>3. Order'
    BY <1>1, <2>1, <2>2 DEF Order, ItsPlaceIsThere
  <2>4. ASSUME NEW q, NEW k, Above(lib, q, k)
        PROVE  Above(lib', q, k)
    <3>1. PICK A \in SUBSET Live(lib) :
            /\ q \in A /\ k \notin A
            /\ \A j \in A : lib.parent[j] \in Category => lib.parent[j] \in A
      BY <2>4 DEF Above
    <3>2. \A j \in A : lib'.parent[j] = lib.parent[j]
      BY <1>1, <1>2 DEF Live, Library
    <3> QED
      BY <2>2, <3>1, <3>2 DEF Above
  <2>5. MovesAreSafe'
    BY <1>1, <2>1, <2>4 DEF MovesAreSafe, InFlight, Shape
  <2> QED
    BY <2>2, <2>3, <2>5 DEF Shape
<1> QED
  BY <1>1, <1>3, <1>4, <1>5, <1>6 DEF LibraryInv

(* The commands that touch neither a parent nor the bin.                    *)
LEMMA WritingKeepsLibraryInv ==
  ASSUME LibraryInv, NEW l \in Library, Named(l), Write(l), UNCHANGED crossed,
         l.parent = lib.parent, Standing(lib) => Standing(l)
  PROVE  LibraryInv'
<1>1. lib' = l /\ NamesSettle(lib') /\ UNCHANGED <<bin, deletes, thrown, moving, crossed>>
  BY DEF Write
<1>2. TypeOK'
  BY <1>1 DEF LibraryInv, TypeOK
<1>3. BinIsApart'
  BY <1>1 DEF LibraryInv, BinIsApart
<1>4. Live(lib') = Live(lib) /\ (Rooted(lib) => Rooted(lib'))
  BY <1>1 DEF Live, Rooted
<1>5. ~crossed => Order' /\ MovesAreSafe'
  BY <1>1, <1>4, MovesStandWithTheTree DEF LibraryInv, Shape, Order, ItsPlaceIsThere
<1> QED
  BY <1>1, <1>2, <1>3, <1>4, <1>5 DEF LibraryInv, Shape

LEMMA RenameCategoryKeepsLibraryInv ==
  ASSUME LibraryInv, NEW c \in Category, NEW n \in Name, RenameCategory(c, n)
  PROVE  LibraryInv'
<1> DEFINE l == [lib EXCEPT !.name[c] = n]
<1>1. l \in Library /\ Named(l) /\ l.parent = lib.parent
  BY DEF LibraryInv, TypeOK, Library, Named, Live
<1>2. Standing(lib) => Standing(l)
  BY DEF LibraryInv, TypeOK, Library, Standing, Live, Assets, Cards
<1> QED
  BY <1>1, <1>2, WritingKeepsLibraryInv DEF RenameCategory

LEMMA FilingKeepsLibraryInv ==
  ASSUME LibraryInv, NEW a \in Asset, NEW c \in Category, CreateAsset(a, c) \/ MoveAsset(a, c)
  PROVE  LibraryInv'
<1> DEFINE l == [lib EXCEPT !.filed[a] = c]
<1>1. l \in Library /\ Named(l) /\ l.parent = lib.parent /\ l.links = lib.links /\ l.cards = lib.cards
      /\ l.filed = [lib.filed EXCEPT ![a] = c]
  BY DEF LibraryInv, TypeOK, Library, Named, Live
<1>2. c \in Live(lib) /\ Write(l) /\ UNCHANGED crossed
  BY DEF CreateAsset, MoveAsset
<1>3. Assets(l) = Assets(lib) \union {a}
  BY <1>1, <1>2, LibraryAssumption DEF Assets, LibraryInv, TypeOK, Library, Live
<1>4. Live(l) = Live(lib) /\ Cards(l) = Cards(lib)
  BY <1>1 DEF Live, Cards
<1>5. Standing(lib) => Standing(l)
  BY <1>1, <1>2, <1>3, <1>4 DEF Standing, Assets, LibraryInv, TypeOK, Library
<1> QED
  BY <1>1, <1>2, <1>5, WritingKeepsLibraryInv

LEMMA CreateCardKeepsLibraryInv ==
  ASSUME LibraryInv, NEW k \in Card, CreateCard(k)
  PROVE  LibraryInv'
<1> DEFINE l == [lib EXCEPT !.cards[k] = There]
<1>1. lib \in Library /\ Named(lib)
  BY DEF LibraryInv, TypeOK
<1>2. l \in Library /\ Named(l) /\ l.parent = lib.parent /\ (Standing(lib) => Standing(l))
  BY <1>1 DEF Library, Named, Standing, Live, Assets, Cards
<1> QED
  BY <1>2, WritingKeepsLibraryInv DEF CreateCard

LEMMA LinksKeepLibraryInv ==
  ASSUME LibraryInv, NEW k \in Card, NEW a \in Asset, LinkAsset(k, a) \/ UnlinkAsset(k, a)
  PROVE  LibraryInv'
<1>1. lib \in Library /\ Named(lib)
  BY DEF LibraryInv, TypeOK
<1>2. CASE LinkAsset(k, a)
  <2> DEFINE l == [lib EXCEPT !.links = @ \union {[card |-> k, asset |-> a]}]
  <2>1. l \in Library /\ Named(l) /\ l.parent = lib.parent
    BY <1>1 DEF Library, Link, Named, Live
  <2>2. Standing(lib) => Standing(l)
    BY <1>1, <1>2 DEF Library, Standing, Live, Assets, Cards, LinkAsset
  <2> QED
    BY <1>2, <2>1, <2>2, WritingKeepsLibraryInv DEF LinkAsset
<1>3. CASE UnlinkAsset(k, a)
  <2> DEFINE l == [lib EXCEPT !.links = @ \ {[card |-> k, asset |-> a]}]
  <2>1. l \in Library /\ Named(l) /\ l.parent = lib.parent /\ (Standing(lib) => Standing(l))
    BY <1>1 DEF Library, Named, Standing, Live, Assets, Cards
  <2> QED
    BY <1>3, <2>1, WritingKeepsLibraryInv DEF UnlinkAsset
<1> QED
  BY <1>2, <1>3

LEMMA CheckMoveKeepsLibraryInv ==
  ASSUME LibraryInv, NEW u \in Person, NEW c \in Category, NEW p \in Category \union {Top},
         CheckMove(u, c, p)
  PROVE  LibraryInv'
<1>1. /\ c \in Live(lib) /\ p \in Live(lib) \union {Top}
      /\ p # Top => c \notin Ancestors(lib, p)
      /\ moving' = [moving EXCEPT ![u] = [category |-> c, to |-> p]]
      /\ UNCHANGED <<lib, bin, deletes, thrown, crossed>>
  BY DEF CheckMove
<1>2. TypeOK /\ TypeOK'
  BY <1>1 DEF LibraryInv, TypeOK
<1>3. ASSUME ~crossed
      PROVE  MovesAreSafe'
  <2>1. Standing(lib) /\ MovesAreSafe /\ lib \in Library
    BY <1>2, <1>3 DEF LibraryInv, Shape, TypeOK
  <2>2. p # Top => Above(lib, p, c)
    BY <1>1, <2>1, WhatAMoveChecks
  <2>3. ASSUME NEW v \in Person, InFlight(v)', moving'[v].to # Top
        PROVE  Above(lib, moving'[v].to, moving'[v].category)
    <3>1. CASE v = u
      BY <1>1, <1>2, <2>2, <2>3, <3>1 DEF TypeOK
    <3>2. CASE v # u
      BY <1>1, <1>2, <2>1, <2>3, <3>2 DEF TypeOK, MovesAreSafe, InFlight
    <3> QED
      BY <3>1, <3>2
  <2> QED
    BY <1>1, <2>3 DEF MovesAreSafe
<1> QED
  BY <1>1, <1>2, <1>3 DEF LibraryInv, Shape, BinIsApart, Order

LEMMA WriteMoveKeepsLibraryInv ==
  ASSUME LibraryInv, NEW u \in Person, WriteMove(u)
  PROVE  LibraryInv'
<1> DEFINE c == moving[u].category
           p == moving[u].to
           moved == [lib EXCEPT !.parent[c] = p]
<1>1. /\ InFlight(u) /\ moving' = [moving EXCEPT ![u] = Still]
      /\ UNCHANGED <<bin, deletes, thrown>>
      /\ \/ /\ c \in Live(lib) /\ p \in Live(lib) \union {Top} /\ NamesSettle(moved)
            /\ lib' = moved /\ Reshapes(Person \ {u})
         \/ UNCHANGED <<lib, crossed>>
  BY DEF WriteMove
<1>2. TypeOK /\ lib \in Library
  BY DEF LibraryInv, TypeOK
<1>3. moving' \in [Person -> [category : Category, to : Category \union {Top}] \union {Still}]
  BY <1>1, <1>2 DEF TypeOK
<1>4. \A v \in Person : InFlight(v)' => v # u /\ InFlight(v) /\ moving'[v] = moving[v]
  BY <1>1, <1>2 DEF TypeOK, InFlight
<1>5. CASE UNCHANGED <<lib, crossed>>
  <2>1. TypeOK' /\ Named(lib') /\ BinIsApart' /\ NamesSettle(lib')
    BY <1>1, <1>2, <1>3, <1>5 DEF LibraryInv, TypeOK, BinIsApart
  <2>2. ASSUME ~crossed
        PROVE  Shape'
    <3>1. Rooted(lib) /\ Standing(lib) /\ MovesAreSafe /\ Order
      BY <2>2 DEF LibraryInv, Shape
    <3>2. MovesAreSafe'
      BY <1>4, <1>5, <3>1 DEF MovesAreSafe
    <3>3. Order'
      BY <1>1, <1>5, <3>1 DEF Order
    <3> QED
      BY <1>5, <3>1, <3>2, <3>3 DEF Shape
  <2> QED
    BY <1>5, <2>1, <2>2 DEF LibraryInv
<1>6. CASE /\ c \in Live(lib) /\ p \in Live(lib) \union {Top} /\ NamesSettle(moved)
           /\ lib' = moved /\ Reshapes(Person \ {u})
  <2>1. lib' \in Library /\ Live(lib') = Live(lib) /\ c \in Category /\ Named(lib')
        /\ lib'.parent = [lib.parent EXCEPT ![c] = p]
    BY <1>2, <1>6, LibraryAssumption DEF Library, Live, Named, LibraryInv
  <2>2. crossed' \in BOOLEAN
    BY <1>2, <1>6 DEF Reshapes, TypeOK
  <2>3. TypeOK'
    BY <1>1, <1>2, <1>3, <2>1, <2>2 DEF TypeOK
  <2>4. BinIsApart'
    <3>1. lib.parent[c] # Gone
      BY <1>6 DEF Live
    <3>2. \A e \in bin : e.kind = "category" => lib'.parent[e.id] = Gone
      BY <1>2, <2>1, <3>1 DEF LibraryInv, BinIsApart, TypeOK, BinRow, Library
    <3> QED
      BY <1>1, <3>2 DEF LibraryInv, BinIsApart
  <2>5. ASSUME ~crossed'
        PROVE  Shape'
    <3>1. ~crossed /\ \A v \in Person \ {u} : ~InFlight(v)
      BY <1>6, <2>5 DEF Reshapes
    <3>2. Rooted(lib) /\ Standing(lib) /\ MovesAreSafe /\ Order
      BY <3>1 DEF LibraryInv, Shape
    <3>3. p # Top => Above(lib, p, c)
      BY <1>1, <3>2 DEF MovesAreSafe
    <3>4. Rooted(lib') /\ Standing(lib')
      BY <1>2, <1>6, <3>2, <3>3, MovingKeepsTheTree
    <3>5. MovesAreSafe'
      BY <1>4, <3>1 DEF MovesAreSafe
    <3>6. Order'
      BY <1>1, <2>1, <3>2 DEF Order, ItsPlaceIsThere
    <3> QED
      BY <3>4, <3>5, <3>6 DEF Shape
  <2> QED
    BY <1>6, <2>1, <2>3, <2>4, <2>5 DEF LibraryInv
<1> QED
  BY <1>1, <1>5, <1>6

(* Deletes.                                                                 *)
LEMMA DeleteCategoryKeepsLibraryInv ==
  ASSUME LibraryInv, NEW c \in Category, DeleteCategory(c)
  PROVE  LibraryInv'
<1>0. PICK d \in Destinations(lib, c) : \E g \in Landings(WithDefault(lib, d), c) :
        Delete(WithoutCategory(WithDefault(lib, d), c, d, g),
               BinnedCategory(WithDefault(lib, d), c, d, g, deletes))
  BY DEF DeleteCategory
<1>1. PICK g \in Landings(WithDefault(lib, d), c) :
        Delete(WithoutCategory(WithDefault(lib, d), c, d, g),
               BinnedCategory(WithDefault(lib, d), c, d, g, deletes))
  BY <1>0
<1> DEFINE l == WithDefault(lib, d)
           m == WithoutCategory(l, c, d, g)
           e0 == BinnedCategory(l, c, d, g, deletes)
<1>2. /\ c \in Live(lib) /\ Reshapes(Person)
      /\ deletes < MostDeletes /\ NamesSettle(m) /\ lib' = m /\ bin' = bin \union {e0}
      /\ deletes' = deletes + 1 /\ UNCHANGED <<thrown, moving>>
  BY <1>1 DEF DeleteCategory, Delete
<1>3. TypeOK /\ lib \in Library /\ Named(lib) /\ deletes \in Date
  BY DEF LibraryInv, TypeOK
<1>4. d \in Category /\ (Filed(lib, c) = {} => d = c) /\ (Filed(lib, c) # {} => d # c)
  BY <1>2 DEF Destinations, Live
<1>5. /\ l \in Library /\ Named(l) /\ c \in Live(l) /\ l.parent[c] = lib.parent[c] /\ l.name[c] = lib.name[c]
      /\ l.filed = lib.filed /\ Filed(l, c) = Filed(lib, c)
      /\ \A k \in Live(lib) : l.parent[k] = lib.parent[k]
      /\ \A k \in Category : l.parent[k] = Gone <=> lib.parent[k] = Gone
  <2>1. l \in Library /\ Named(l)
    BY <1>3, <1>4, DefaultIsTyped
  <2>2. c \in Category /\ lib.parent[c] # Unmade
    BY <1>2 DEF Live
  <2>3. CASE lib.parent[d] = Unmade
    <3>1. /\ l.parent = [lib.parent EXCEPT ![d] = Top]
          /\ l.name = [lib.name EXCEPT ![d] = Unorganised] /\ l.filed = lib.filed
      BY <1>3, <2>3 DEF WithDefault, Library
    <3>2. c # d
      BY <2>2, <2>3
    <3> QED
      BY <1>2, <1>3, <1>4, <2>1, <2>2, <2>3, <3>1, <3>2 DEF Library, Live, Filed
  <2>4. CASE lib.parent[d] # Unmade
    BY <1>2, <2>1, <2>4 DEF WithDefault
  <2> QED
    BY <2>3, <2>4
<1>6. g \in [Inside(l, c) -> Name]
  BY <1>1 DEF Landings
<1>7. lib' \in Library /\ Named(lib')
  BY <1>2, <1>4, <1>5, <1>6, WithoutCategoryIsTyped
<1>8. BinRow(e0)
  <2>1. l.name[c] \in Name /\ l.parent[c] \in Category \union {Top} /\ c \in Category
    BY <1>5 DEF Named, Library, Live
  <2>2. \A k \in Inside(l, c) : k \in Live(l)
    BY <2>1, LibraryAssumption DEF Inside, Live
  <2>3. \A k \in Inside(l, c) : l.name[k] \in Name
    BY <1>5, <2>2 DEF Named
  <2> QED
    BY <1>3, <1>4, <1>6, <2>1, <2>3 DEF BinRow, BinnedCategory, Filed, Inside
<1>9. TypeOK'
  <2>1. deletes' \in Date /\ crossed' \in BOOLEAN
    BY <1>2, <1>3, LibraryAssumption DEF Date, Reshapes, TypeOK
  <2> QED
    BY <1>2, <1>3, <1>7, <1>8, <2>1 DEF TypeOK
<1>10. BinIsApart'
  <2>1. \A k \in Category : lib'.parent[k] = Gone <=> k = c \/ lib.parent[k] = Gone
    <3>1. TAKE k \in Category
    <3>2. lib'.parent[k] = IF k = c THEN Gone
                            ELSE IF l.parent[k] = c THEN l.parent[c] ELSE l.parent[k]
      BY <1>2 DEF WithoutCategory, Library
    <3>3. c # Gone /\ l.parent[c] # Gone
      BY <1>5, LibraryAssumption DEF Live
    <3> QED
      BY <1>5, <3>2, <3>3
  <2>2. e0.kind = "category" /\ e0.id = c /\ e0.date = deletes
    BY DEF BinnedCategory
  <2>3. \A e \in bin : e.kind = "category" => e.id \in Category /\ e.id # c
    BY <1>2, <1>3 DEF LibraryInv, BinIsApart, Live, TypeOK, BinRow
  <2>4. \A e \in bin : e.date < deletes /\ e.date \in Nat
    BY <1>3 DEF LibraryInv, BinIsApart, TypeOK, BinRow, Date
  <2>5. \A e \in bin' : e.date < deletes'
    BY <1>2, <1>3, <2>2, <2>4, LibraryAssumption DEF Date
  <2>6. \A e \in bin' : e.kind = "category" => lib'.parent[e.id] = Gone
    BY <1>2, <2>1, <2>2, <2>3 DEF LibraryInv, BinIsApart, Live
  <2>7. \A e, f \in bin' : e.kind = "category" /\ f.kind = "category" /\ e.id = f.id => e = f
    BY <1>2, <2>2, <2>3 DEF LibraryInv, BinIsApart
  <2> QED
    BY <2>5, <2>6, <2>7 DEF BinIsApart
<1>11. ASSUME ~crossed'
       PROVE  Shape'
  <2>1. MovesAreSafe' /\ ~crossed
    BY <1>2, <1>11, NoneInFlight
  <2>2. Rooted(lib) /\ Standing(lib) /\ Order
    BY <2>1 DEF LibraryInv, Shape
  <2>3. Rooted(l) /\ Standing(l)
        /\ Live(l) = Live(lib) \union (IF lib.parent[d] = Unmade THEN {d} ELSE {})
    BY <1>3, <1>4, <2>2, DefaultKeepsTheTree
  <2>4. Filed(l, c) # {} => d \in Live(l) \ {c}
    BY <1>4, <1>5, <2>3 DEF Destinations
  <2>5. Rooted(lib') /\ Standing(lib') /\ Live(lib') = Live(l) \ {c}
    BY <1>2, <1>4, <1>5, <2>3, <2>4, LiftingKeepsTheTree
  <2>6. Order'
    <3>1. ASSUME NEW e \in bin'
          PROVE  \/ ItsPlaceIsThere(lib', e)
                 \/ e.at \in thrown'
                 \/ \E f \in bin' : f.kind = "category" /\ f.id = e.at /\ f.date > e.date
      <4>1. CASE e = e0
        <5>1. e.at = l.parent[c]
          BY <4>1 DEF BinnedCategory
        <5>2. l.parent[c] # c /\ l.parent[c] \in Live(l) \union {Top}
          BY <1>5, <2>3, NoneIsItsOwnParent DEF Standing
        <5> QED
          BY <2>5, <5>1, <5>2 DEF ItsPlaceIsThere
      <4>2. CASE e \in bin /\ e.at = c
        <5>1. e0 \in bin' /\ e0.kind = "category" /\ e0.id = c /\ e0.date = deletes
          BY <1>2 DEF BinnedCategory
        <5>2. deletes > e.date
          BY <1>3, <4>2 DEF LibraryInv, BinIsApart, TypeOK, BinRow, Date
        <5> QED
          BY <4>2, <5>1, <5>2
      <4>3. CASE e \in bin /\ e.at # c
        <5>1. ItsPlaceIsThere(lib, e) => ItsPlaceIsThere(lib', e)
          BY <2>3, <2>5, <4>3 DEF ItsPlaceIsThere
        <5> QED
          BY <1>2, <2>2, <4>3, <5>1 DEF Order
      <4> QED
        BY <1>2, <4>1, <4>2, <4>3
    <3> QED
      BY <3>1 DEF Order
  <2> QED
    BY <2>1, <2>5, <2>6 DEF Shape
<1> QED
  BY <1>2, <1>7, <1>9, <1>10, <1>11 DEF LibraryInv

LEMMA DeleteAssetKeepsLibraryInv ==
  ASSUME LibraryInv, NEW a \in Asset, DeleteAsset(a)
  PROVE  LibraryInv'
<1> DEFINE m == WithoutAsset(lib, a)
           e0 == BinnedAsset(lib, a, deletes)
<1>1. /\ a \in Assets(lib) /\ lib' = m /\ bin' = bin \union {e0} /\ NamesSettle(lib')
      /\ deletes < MostDeletes /\ deletes' = deletes + 1
      /\ UNCHANGED <<thrown, moving, crossed>>
  BY DEF DeleteAsset, Delete
<1>2. TypeOK /\ lib \in Library
  BY DEF LibraryInv, TypeOK
<1>3. /\ lib' \in Library /\ lib'.parent = lib.parent /\ lib'.cards = lib.cards
      /\ lib'.name = lib.name
      /\ lib'.filed = [lib.filed EXCEPT ![a] = Gone]
      /\ lib'.links = {x \in lib.links : x.asset # a}
  BY <1>1, <1>2 DEF WithoutAsset, Library, Link
<1>4. Live(lib') = Live(lib) /\ Cards(lib') = Cards(lib) /\ Assets(lib') = Assets(lib) \ {a}
  BY <1>2, <1>3 DEF Live, Cards, Assets, Library
<1>5. /\ e0.kind = "asset" /\ e0.date = deletes /\ e0.at = lib.filed[a]
      /\ e0.id = a /\ e0.links \subseteq [card : Card, asset : {a}]
  BY <1>2 DEF BinnedAsset, Library, Link
<1>6. BinRow(e0)
  BY <1>1, <1>2, <1>5 DEF BinRow, TypeOK, Assets, Library
<1>7. TypeOK'
  <2>1. deletes' \in Date
    BY <1>1, <1>2, LibraryAssumption DEF Date, TypeOK
  <2> QED
    BY <1>1, <1>2, <1>3, <1>6, <2>1 DEF TypeOK
<1>8. BinIsApart'
  <2>1. \A e \in bin' : e.date < deletes'
    BY <1>1, <1>2, <1>5, LibraryAssumption DEF LibraryInv, BinIsApart, TypeOK, BinRow, Date
  <2> QED
    BY <1>1, <1>3, <1>5, <2>1 DEF LibraryInv, BinIsApart
<1>9. ASSUME ~crossed
      PROVE  Shape'
  <2>1. Rooted(lib) /\ Standing(lib) /\ Order
    BY <1>9 DEF LibraryInv, Shape
  <2>2. Rooted(lib')
    BY <1>3, <1>4, <2>1 DEF Rooted
  <2>3. Standing(lib')
    BY <1>2, <1>3, <1>4, <2>1 DEF Standing, Library, Assets
  <2>4. MovesAreSafe'
    BY <1>1, <1>3, <1>9, MovesStandWithTheTree
  <2>5. ItsPlaceIsThere(lib', e0)
    BY <1>1, <1>4, <1>5, <2>1 DEF ItsPlaceIsThere, Standing
  <2>6. Order'
    BY <1>1, <1>4, <2>1, <2>5 DEF Order, ItsPlaceIsThere
  <2> QED
    BY <2>2, <2>3, <2>4, <2>6 DEF Shape
<1>10. Named(lib')
  BY <1>3, <1>4 DEF LibraryInv, Named
<1> QED
  BY <1>1, <1>7, <1>8, <1>9, <1>10 DEF LibraryInv

LEMMA DeleteCardKeepsLibraryInv ==
  ASSUME LibraryInv, NEW k \in Card, DeleteCard(k)
  PROVE  LibraryInv'
<1> DEFINE m == WithoutCard(lib, k)
           e0 == BinnedCard(lib, k, deletes)
<1>1. /\ k \in Cards(lib) /\ lib' = m /\ bin' = bin \union {e0} /\ NamesSettle(lib')
      /\ deletes < MostDeletes /\ deletes' = deletes + 1
      /\ UNCHANGED <<thrown, moving, crossed>>
  BY DEF DeleteCard, Delete
<1>2. TypeOK /\ lib \in Library
  BY DEF LibraryInv, TypeOK
<1>3. /\ lib' \in Library /\ lib'.parent = lib.parent /\ lib'.filed = lib.filed
      /\ lib'.name = lib.name
      /\ lib'.cards = [lib.cards EXCEPT ![k] = Gone]
      /\ lib'.links = {x \in lib.links : x.card # k}
  BY <1>1, <1>2 DEF WithoutCard, Library, Link
<1>4. Live(lib') = Live(lib) /\ Assets(lib') = Assets(lib) /\ Cards(lib') = Cards(lib) \ {k}
  BY <1>2, <1>3 DEF Live, Cards, Assets, Library
<1>5. /\ e0.kind = "card" /\ e0.date = deletes /\ e0.at = Top
      /\ e0.id = k /\ e0.links \subseteq [card : {k}, asset : Asset]
  BY <1>2 DEF BinnedCard, Library, Link
<1>6. BinRow(e0)
  BY <1>2, <1>5 DEF BinRow, TypeOK
<1>7. TypeOK'
  <2>1. deletes' \in Date
    BY <1>1, <1>2, LibraryAssumption DEF Date, TypeOK
  <2> QED
    BY <1>1, <1>2, <1>3, <1>6, <2>1 DEF TypeOK
<1>8. BinIsApart'
  <2>1. \A e \in bin' : e.date < deletes'
    BY <1>1, <1>2, <1>5, LibraryAssumption DEF LibraryInv, BinIsApart, TypeOK, BinRow, Date
  <2> QED
    BY <1>1, <1>3, <1>5, <2>1 DEF LibraryInv, BinIsApart
<1>9. ASSUME ~crossed
      PROVE  Shape'
  <2>1. Rooted(lib) /\ Standing(lib) /\ Order
    BY <1>9 DEF LibraryInv, Shape
  <2>2. Rooted(lib')
    BY <1>3, <1>4, <2>1 DEF Rooted
  <2>3. Standing(lib')
    BY <1>2, <1>3, <1>4, <2>1 DEF Standing, Library, Assets
  <2>4. MovesAreSafe'
    BY <1>1, <1>3, <1>9, MovesStandWithTheTree
  <2>5. Order'
    BY <1>1, <1>4, <1>5, <2>1 DEF Order, ItsPlaceIsThere
  <2> QED
    BY <2>2, <2>3, <2>4, <2>5 DEF Shape
<1>10. Named(lib')
  BY <1>3, <1>4 DEF LibraryInv, Named
<1> QED
  BY <1>1, <1>7, <1>8, <1>9, <1>10 DEF LibraryInv

(* The bin.                                                                 *)
LEMMA RestoreKeepsLibraryInv ==
  ASSUME LibraryInv, NEW x \in bin, Restore(x)
  PROVE  LibraryInv'
<1>1. /\ ItsPlaceIsThere(lib, x) /\ NamesSettle(lib') /\ lib' = Restored(lib, x)
      /\ bin' = bin \ {x} /\ UNCHANGED <<deletes, thrown, moving>>
      /\ IF x.kind = "category" THEN Reshapes(Person) ELSE UNCHANGED crossed
  BY DEF Restore, Fits
<1>2. TypeOK /\ lib \in Library /\ BinRow(x) /\ Named(lib) /\ BinIsApart
  BY DEF LibraryInv, TypeOK
<1>3. crossed' \in BOOLEAN /\ (crossed => crossed')
  BY <1>1, <1>2 DEF Reshapes, TypeOK
<1>4. CASE x.kind = "category"
  <2>1. lib.parent[x.id] = Gone /\ x.id \in Category
    BY <1>2, <1>4 DEF BinIsApart, BinRow
  <2>2. lib' = WithCategory(lib, x)
    BY <1>1, <1>4 DEF Restored
  <2>3. lib'.parent = [k \in Category |->
                         IF k = x.id THEN x.at
                         ELSE IF k \in x.up /\ lib.parent[k] = x.at THEN x.id ELSE lib.parent[k]]
    BY <1>2, <2>2 DEF WithCategory, Library
  <2>4. x.at # Gone
    BY <1>2, <1>4, LibraryAssumption DEF BinRow
  <2>5. lib' \in Library /\ Named(lib')
    <3>1. /\ x.at \in Category \union {Top} /\ x.name \in Name
          /\ x.up \subseteq Category /\ x.called \in [x.up -> Name]
      BY <1>2, <1>4 DEF BinRow
    <3>2. lib'.parent \in [Category -> Category \union {Top, Unmade, Gone}]
      BY <1>2, <2>1, <2>3, <3>1 DEF Library
    <3>3. lib'.name = [k \in Category |->
                         IF k = x.id THEN x.name
                         ELSE IF k \in x.up /\ lib.name[k] = x.cameUpAs[k] THEN x.called[k]
                         ELSE lib.name[k]]
      BY <1>2, <2>2 DEF WithCategory, Library
    <3>4. lib'.name \in [Category -> Name \union {NoName}]
      BY <1>2, <3>1, <3>3 DEF Library
    <3>5. lib'.filed = [a \in Asset |->
                         IF a \in x.held /\ lib.filed[a] = x.movedTo THEN x.id ELSE lib.filed[a]]
      BY <1>2, <2>2 DEF WithCategory, Library
    <3>6. lib'.filed \in [Asset -> Category \union {Unmade, Gone}]
      BY <1>2, <2>1, <3>5 DEF Library
    <3>7. lib' \in Library
      BY <1>2, <2>2, <3>2, <3>4, <3>6 DEF WithCategory, Library
    <3>8. \A k \in Live(lib') : k = x.id \/ k \in Live(lib)
      <4>1. \A k \in Category : lib.parent[k] = x.at => lib.parent[k] \notin {Unmade, Gone}
        BY <3>1, LibraryAssumption
      <4> QED
        BY <2>3, <4>1 DEF Live
    <3>9. Named(lib')
      BY <1>2, <3>1, <3>3, <3>8 DEF Named, Live
    <3> QED
      BY <3>7, <3>9
  <2>6. TypeOK'
    BY <1>1, <1>2, <1>3, <2>5 DEF TypeOK
  <2>7. \A k \in Category : k # x.id /\ lib.parent[k] = Gone => lib'.parent[k] = Gone
    BY <2>3, <2>4
  <2>8. BinIsApart'
    <3>1. \A e \in bin' : e.kind = "category" => e.id \in Category /\ e.id # x.id /\ e \in bin
      BY <1>1, <1>2, <1>4 DEF BinIsApart, TypeOK, BinRow
    <3>2. \A e \in bin' : e.kind = "category" => lib'.parent[e.id] = Gone
      BY <1>2, <2>7, <3>1 DEF BinIsApart
    <3> QED
      BY <1>1, <1>2, <3>2 DEF BinIsApart
  <2>9. ASSUME ~crossed'
        PROVE  Shape'
    <3>1. MovesAreSafe' /\ ~crossed
      BY <1>1, <1>4, <2>9, NoneInFlight
    <3>2. Rooted(lib) /\ Standing(lib) /\ Order
      BY <3>1 DEF LibraryInv, Shape
    <3>3. Rooted(lib') /\ Standing(lib') /\ Live(lib') = Live(lib) \union {x.id}
      BY <1>1, <1>2, <1>4, <2>1, <2>2, <3>2, PuttingBackKeepsTheTree
    <3>4. Order'
      BY <1>1, <3>2, <3>3 DEF Order, ItsPlaceIsThere
    <3> QED
      BY <3>1, <3>3, <3>4 DEF Shape
  <2> QED
    BY <1>1, <2>5, <2>6, <2>8, <2>9 DEF LibraryInv
<1>5. CASE x.kind # "category"
  <2>1. lib' = IF x.kind = "asset" THEN WithAsset(lib, x) ELSE WithCard(lib, x)
    BY <1>1, <1>2, <1>5 DEF Restored, BinRow
  <2>2. lib' \in Library /\ lib'.parent = lib.parent /\ lib'.name = lib.name
    BY <1>2, <1>5, <2>1, LibraryAssumption DEF WithAsset, WithCard, Library, BinRow, Link
  <2>3. Live(lib') = Live(lib) /\ (Rooted(lib) => Rooted(lib')) /\ Named(lib')
    BY <1>2, <2>2 DEF Live, Rooted, Named
  <2>4. TypeOK' /\ BinIsApart'
    BY <1>1, <1>2, <1>3, <2>2 DEF TypeOK, BinIsApart
  <2>5. ASSUME Standing(lib)
        PROVE  Standing(lib')
    <3>1. CASE x.kind = "asset"
      <4>1. /\ x.id \in Asset /\ x.at \in Live(lib)
            /\ x.links \subseteq [card : Card, asset : {x.id}]
        BY <1>1, <1>2, <3>1, LibraryAssumption DEF BinRow, ItsPlaceIsThere
      <4>2. /\ lib'.filed = [lib.filed EXCEPT ![x.id] = x.at] /\ lib'.cards = lib.cards
            /\ lib'.links = lib.links \union {y \in x.links : y.card \in Cards(lib)}
        BY <1>2, <2>1, <3>1 DEF WithAsset, Library
      <4>3. Assets(lib') = Assets(lib) \union {x.id} /\ Cards(lib') = Cards(lib)
        BY <1>2, <4>1, <4>2, LibraryAssumption DEF Assets, Cards, Library, Live
      <4>4. \A a \in Assets(lib') : lib'.filed[a] \in Live(lib')
        BY <1>2, <2>3, <2>5, <4>1, <4>2, <4>3 DEF Standing, Library, Assets
      <4>5. \A y \in lib'.links : y.card \in Cards(lib') /\ y.asset \in Assets(lib')
        BY <2>5, <4>1, <4>2, <4>3 DEF Standing
      <4> QED
        BY <2>2, <2>3, <2>5, <4>4, <4>5 DEF Standing
    <3>2. CASE x.kind = "card"
      <4>1. x.id \in Card /\ x.links \subseteq [card : {x.id}, asset : Asset]
        BY <1>2, <3>2 DEF BinRow
      <4>2. /\ lib'.cards = [lib.cards EXCEPT ![x.id] = There] /\ lib'.filed = lib.filed
            /\ lib'.links = lib.links \union {y \in x.links : y.asset \in Assets(lib)}
        BY <1>2, <2>1, <3>2 DEF WithCard, Library
      <4>3. Cards(lib') = Cards(lib) \union {x.id} /\ Assets(lib') = Assets(lib)
        BY <1>2, <4>1, <4>2 DEF Assets, Cards, Library
      <4>4. \A y \in lib'.links : y.card \in Cards(lib') /\ y.asset \in Assets(lib')
        BY <2>5, <4>1, <4>2, <4>3 DEF Standing
      <4> QED
        BY <2>2, <2>3, <2>5, <4>2, <4>3, <4>4 DEF Standing
    <3> QED
      BY <1>2, <1>5, <3>1, <3>2 DEF BinRow
  <2>6. ASSUME ~crossed
        PROVE  MovesAreSafe' /\ Order'
    <3>1. MovesAreSafe'
      BY <1>1, <2>2, <2>6, MovesStandWithTheTree
    <3>2. Order
      BY <2>6 DEF LibraryInv, Shape
    <3>3. Order'
      BY <1>1, <1>5, <2>3, <3>2 DEF Order, ItsPlaceIsThere
    <3> QED
      BY <3>1, <3>3
  <2> QED
    BY <1>1, <1>5, <2>3, <2>4, <2>5, <2>6 DEF LibraryInv, Shape
<1> QED
  BY <1>4, <1>5

LEMMA PurgingKeepsLibraryInv ==
  ASSUME LibraryInv,
         (\E x \in bin : PurgeByHand(x)) \/ (\E date \in Date : PurgeExpired(date))
  PROVE  LibraryInv'
<1>1. UNCHANGED <<lib, deletes, moving, crossed>> /\ bin' \subseteq bin
  BY DEF PurgeByHand, PurgeExpired
<1>2. thrown' \subseteq Category /\ thrown \subseteq thrown'
  BY DEF PurgeByHand, PurgeExpired, LibraryInv, TypeOK, BinRow
<1>3. TypeOK' /\ BinIsApart' /\ Named(lib') /\ NamesSettle(lib')
  BY <1>1, <1>2 DEF LibraryInv, TypeOK, BinIsApart
<1>4. ASSUME ~crossed
      PROVE  Shape'
  <2>1. Rooted(lib) /\ Standing(lib) /\ Order
    BY <1>4 DEF LibraryInv, Shape
  <2>2. MovesAreSafe'
    BY <1>1, <1>4, MovesStandWithTheTree
  <2>3. ASSUME \E x \in bin : PurgeByHand(x) PROVE Order'
    <3>1. PICK x \in bin : PurgeByHand(x)
      BY <2>3
    <3>2. \A e \in bin', f \in bin : f.kind = "category" /\ f.id = e.at => f \in bin' \/ e.at \in thrown'
      BY <3>1 DEF PurgeByHand
    <3>3. Order'
      BY <1>1, <1>2, <2>1, <3>2 DEF Order, ItsPlaceIsThere
    <3> QED
      BY <3>3
  <2>4. ASSUME \E date \in Date : PurgeExpired(date) PROVE Order'
    <3>1. PICK date \in Date : PurgeExpired(date)
      BY <2>4
    <3>2. \A e \in bin : e.date \in Nat
      BY DEF LibraryInv, TypeOK, BinRow, Date
    <3>3. \A e \in bin', f \in bin : f.date > e.date => f \in bin'
      BY <3>1, <3>2 DEF PurgeExpired, Date
    <3>4. Order'
      BY <1>1, <1>2, <2>1, <3>3 DEF Order, ItsPlaceIsThere
    <3> QED
      BY <3>4
  <2>5. Order'
    BY <2>3, <2>4
  <2> QED
    BY <1>1, <2>1, <2>2, <2>5 DEF Shape
<1> QED
  BY <1>1, <1>3, <1>4 DEF LibraryInv

LEMMA LibraryInvIsInductive ==
  LibraryInv /\ [Next]_vars => LibraryInv'
<1> SUFFICES ASSUME LibraryInv, [Next]_vars PROVE LibraryInv'
  OBVIOUS
<1>1. CASE UNCHANGED vars
  BY <1>1 DEF vars, LibraryInv, TypeOK, BinIsApart, Shape, MovesAreSafe, Order, InFlight
<1>2. ASSUME NEW c \in Category, NEW p \in Category \union {Top}, NEW n \in Name,
             CreateCategory(c, p, n)
      PROVE  LibraryInv'
  BY <1>2, CreateCategoryKeepsLibraryInv
<1>3. ASSUME NEW c \in Category, NEW n \in Name, RenameCategory(c, n)
      PROVE  LibraryInv'
  BY <1>3, RenameCategoryKeepsLibraryInv
<1>4. ASSUME NEW u \in Person, NEW c \in Category, NEW p \in Category \union {Top},
             CheckMove(u, c, p)
      PROVE  LibraryInv'
  BY <1>4, CheckMoveKeepsLibraryInv
<1>5. ASSUME NEW u \in Person, WriteMove(u)
      PROVE  LibraryInv'
  BY <1>5, WriteMoveKeepsLibraryInv
<1>6. ASSUME NEW c \in Category, DeleteCategory(c)
      PROVE  LibraryInv'
  BY <1>6, DeleteCategoryKeepsLibraryInv
<1>7. ASSUME NEW a \in Asset, NEW c \in Category, CreateAsset(a, c) \/ MoveAsset(a, c)
      PROVE  LibraryInv'
  BY <1>7, FilingKeepsLibraryInv
<1>8. ASSUME NEW a \in Asset, DeleteAsset(a)
      PROVE  LibraryInv'
  BY <1>8, DeleteAssetKeepsLibraryInv
<1>9. ASSUME NEW k \in Card, DeleteCard(k)
      PROVE  LibraryInv'
  BY <1>9, DeleteCardKeepsLibraryInv
<1>10. ASSUME NEW k \in Card, CreateCard(k)
       PROVE  LibraryInv'
  BY <1>10, CreateCardKeepsLibraryInv
<1>11. ASSUME NEW k \in Card, NEW a \in Asset, LinkAsset(k, a) \/ UnlinkAsset(k, a)
       PROVE  LibraryInv'
  BY <1>11, LinksKeepLibraryInv
<1>12. ASSUME NEW e \in bin, Restore(e)
       PROVE  LibraryInv'
  BY <1>12, RestoreKeepsLibraryInv
<1>13. ASSUME (\E e \in bin : PurgeByHand(e)) \/ (\E date \in 0 .. MostDeletes : PurgeExpired(date))
       PROVE  LibraryInv'
  BY <1>13, PurgingKeepsLibraryInv DEF Date
<1> QED
  BY <1>1, <1>2, <1>3, <1>4, <1>5, <1>6, <1>7, <1>8, <1>9, <1>10, <1>11, <1>12, <1>13 DEF Next

(* The variables keep their types.                                          *)
THEOREM LibraryIsTyped == Spec => []TypeOK
<1>1. LibraryInv => TypeOK
  BY DEF LibraryInv
<1> QED
  BY <1>1, InitEstablishesLibraryInv, LibraryInvIsInductive, PTL DEF Spec

(* However many categories there are, and whatever is made, moved, lifted,  *)
(* deleted and put back, no set of them is left inside itself unless two    *)
(* changes of the tree overlap (refuseToPutItInsideItself, liftTheChildren, *)
(* applyRepair).                                                            *)
THEOREM TheTreeHasOneTop == Spec => []NothingIsInsideItself
<1>1. LibraryInv => NothingIsInsideItself
  BY DEF LibraryInv, Shape, NothingIsInsideItself
<1> QED
  BY <1>1, InitEstablishesLibraryInv, LibraryInvIsInductive, PTL DEF Spec

(* No category, asset or link is left pointing at a row that is not there,  *)
(* unless two changes of the tree's shape overlapped (moveToDefault,        *)
(* forgetWhatIsGone).                                                       *)
THEOREM EveryKeyIsMet == Spec => []NothingDangles
<1>1. LibraryInv => NothingDangles
  BY DEF LibraryInv, Shape, NothingDangles
<1> QED
  BY <1>1, InitEstablishesLibraryInv, LibraryInvIsInductive, PTL DEF Spec

(* What a thing in the bin was in can be put back before it, unless         *)
(* somebody threw it away or two changes of the tree's shape overlapped:    *)
(* deletes are dated in order and purged in order (RECIPES, purgeExpired).  *)
THEOREM TheBinComesBackInOrder == Spec => []WhatItWasInCanComeFirst
<1>1. LibraryInv => WhatItWasInCanComeFirst
  BY DEF LibraryInv, Shape, Order, WhatItWasInCanComeFirst
<1> QED
  BY <1>1, InitEstablishesLibraryInv, LibraryInvIsInductive, PTL DEF Spec

-----------------------------------------------------------------------------
(* A restore gives back what the delete took.                               *)

LEMMA TheDefaultFits ==
  ASSUME NEW l \in Library, NamesSettle(l), NEW c \in Live(l), NEW d \in Destinations(l, c)
  PROVE  NamesSettle(WithDefault(l, d))
<1> DEFINE m == WithDefault(l, d)
<1>1. CASE l.parent[d] # Unmade
  BY <1>1 DEF WithDefault
<1>2. CASE l.parent[d] = Unmade
  <2>1. d \in Category /\ d # c /\ \A k \in Live(l) : l.name[k] # Unorganised
    BY <1>2 DEF Destinations, Live
  <2>2. m.parent = [l.parent EXCEPT ![d] = Top] /\ m.name = [l.name EXCEPT ![d] = Unorganised]
    BY <1>2 DEF WithDefault, Library
  <2>3. Live(m) = Live(l) \union {d} /\ d \notin Live(l)
    BY <1>2, <2>1, <2>2 DEF Live, Library
  <2> QED
    BY <2>1, <2>2, <2>3 DEF NamesSettle, Library, Live
<1> QED
  BY <1>1, <1>2

LEMMA SameLibrary ==
  ASSUME NEW l \in Library, NEW m \in Library,
         m.parent = l.parent, m.name = l.name, m.filed = l.filed,
         m.cards = l.cards, m.links = l.links
  PROVE  m = l
BY DEF Library

LEMMA PuttingACategoryBackUndoesItsDelete ==
  ASSUME NEW l \in Library, Rooted(l), Standing(l), NamesSettle(l), Named(l),
         NEW c \in Live(l), NEW d \in Category, NEW g \in Landings(l, c), NEW date,
         Filed(l, c) # {} => d \in Live(l) \ {c}
  PROVE  LET m == WithoutCategory(l, c, d, g)
             e == BinnedCategory(l, c, d, g, date)
         IN Fits(m, e) /\ Restored(m, e) = l
<1> DEFINE m == WithoutCategory(l, c, d, g)
           e == BinnedCategory(l, c, d, g, date)
<1>1. /\ e.kind = "category" /\ e.id = c /\ e.at = l.parent[c] /\ e.name = l.name[c]
      /\ e.held = Filed(l, c) /\ e.movedTo = d /\ e.up = Inside(l, c) /\ e.cameUpAs = g
      /\ \A k \in Inside(l, c) : e.called[k] = l.name[k]
  BY DEF BinnedCategory
<1>2. /\ m.parent = [k \in Category |-> IF k = c THEN Gone
                                         ELSE IF l.parent[k] = c THEN l.parent[c] ELSE l.parent[k]]
      /\ m.name = [k \in Category |-> IF k = c THEN NoName
                                       ELSE IF l.parent[k] = c THEN g[k] ELSE l.name[k]]
      /\ m.filed = [a \in Asset |-> IF l.filed[a] = c THEN d ELSE l.filed[a]]
      /\ m.cards = l.cards /\ m.links = l.links
  BY DEF WithoutCategory, Library
<1>3. m \in Library
  BY WithoutCategoryIsTyped DEF Landings
<1>4. c \in Category /\ l.parent[c] # c
  BY NoneIsItsOwnParent DEF Live
<1> DEFINE r == WithCategory(m, e)
<1>5. Restored(m, e) = r
  BY <1>1 DEF Restored
<1>6. r.parent = l.parent
  <2>1. r.parent = [k \in Category |->
                      IF k = e.id THEN e.at
                      ELSE IF k \in e.up /\ m.parent[k] = e.at THEN e.id ELSE m.parent[k]]
    BY <1>2, <1>3 DEF WithCategory, Library
  <2>2. ASSUME NEW k \in Category
        PROVE  r.parent[k] = l.parent[k]
    BY <1>1, <1>2, <1>4, <2>1 DEF Inside
  <2> QED
    BY <2>1, <2>2 DEF Library
<1>7. r.name = l.name
  <2>1. r.name = [k \in Category |->
                    IF k = e.id THEN e.name
                    ELSE IF k \in e.up /\ m.name[k] = e.cameUpAs[k] THEN e.called[k]
                    ELSE m.name[k]]
    BY <1>2, <1>3 DEF WithCategory, Library
  <2>2. ASSUME NEW k \in Category
        PROVE  r.name[k] = l.name[k]
    BY <1>1, <1>2, <1>4, <2>1 DEF Inside
  <2> QED
    BY <2>1, <2>2 DEF Library
<1>8. r.filed = l.filed
  <2>1. r.filed = [a \in Asset |->
                     IF a \in e.held /\ m.filed[a] = e.movedTo THEN e.id ELSE m.filed[a]]
    BY <1>2, <1>3 DEF WithCategory, Library
  <2>2. ASSUME NEW a \in Asset
        PROVE  r.filed[a] = l.filed[a]
    BY <1>1, <1>2, <1>4, <2>1 DEF Filed
  <2> QED
    BY <2>1, <2>2 DEF Library
<1>9. r = l
  <2>1. r.cards = l.cards /\ r.links = l.links
    BY <1>2, <1>3 DEF WithCategory, Library
  <2>2. r \in Library
    BY <1>6, <1>7, <1>8, <1>3, <2>1 DEF WithCategory, Library
  <2> QED
    BY <1>6, <1>7, <1>8, <2>1, <2>2, SameLibrary
<1>10. ItsPlaceIsThere(m, e)
  <2>1. Live(m) = Live(l) \ {c}
    BY LiftingKeepsTheTree
  <2> QED
    BY <1>1, <1>4, <2>1 DEF ItsPlaceIsThere, Standing
<1> QED
  BY <1>5, <1>9, <1>10 DEF Fits

LEMMA PuttingAnAssetBackUndoesItsDelete ==
  ASSUME NEW l \in Library, Standing(l), NamesSettle(l), NEW a \in Assets(l), NEW date
  PROVE  LET m == WithoutAsset(l, a)
             e == BinnedAsset(l, a, date)
         IN Fits(m, e) /\ Restored(m, e) = l
<1> DEFINE m == WithoutAsset(l, a)
           e == BinnedAsset(l, a, date)
<1>1. /\ e.kind = "asset" /\ e.id = a /\ e.at = l.filed[a]
      /\ e.links = {x \in l.links : x.asset = a}
  BY DEF BinnedAsset
<1>2. /\ m \in Library /\ m.parent = l.parent /\ m.name = l.name /\ m.cards = l.cards
      /\ m.filed = [l.filed EXCEPT ![a] = Gone] /\ m.links = {x \in l.links : x.asset # a}
  BY DEF WithoutAsset, Library
<1> DEFINE r == WithAsset(m, e)
<1>3. Restored(m, e) = r
  BY <1>1 DEF Restored
<1>4. /\ r.parent = m.parent /\ r.name = m.name /\ r.cards = m.cards
      /\ r.filed = [m.filed EXCEPT ![a] = l.filed[a]]
      /\ r.links = m.links \union {x \in e.links : x.card \in Cards(m)}
  BY <1>1, <1>2 DEF WithAsset, Library
<1>5. \A x \in l.links : x.card \in Cards(m)
  BY <1>2 DEF Standing, Cards
<1>6. r.links = l.links
  BY <1>1, <1>2, <1>4, <1>5
<1>7. r.filed = l.filed
  <2>1. l.filed \in [Asset -> Category \union {Unmade, Gone}] /\ a \in Asset
    BY DEF Library, Assets
  <2> QED
    BY <1>2, <1>4, <2>1
<1>8. r = l
  <2>1. r \in Library
    BY <1>2, <1>4, <1>6, <1>7 DEF WithAsset, Library
  <2> QED
    BY <1>2, <1>4, <1>6, <1>7, <2>1, SameLibrary
<1>9. ItsPlaceIsThere(m, e)
  BY <1>1, <1>2 DEF ItsPlaceIsThere, Standing, Live
<1> QED
  BY <1>3, <1>8, <1>9 DEF Fits

LEMMA PuttingACardBackUndoesItsDelete ==
  ASSUME NEW l \in Library, Standing(l), NamesSettle(l), NEW k \in Cards(l), NEW date
  PROVE  LET m == WithoutCard(l, k)
             e == BinnedCard(l, k, date)
         IN Fits(m, e) /\ Restored(m, e) = l
<1> DEFINE m == WithoutCard(l, k)
           e == BinnedCard(l, k, date)
<1>1. /\ e.kind = "card" /\ e.id = k /\ e.at = Top
      /\ e.links = {x \in l.links : x.card = k}
  BY DEF BinnedCard
<1>2. /\ m \in Library /\ m.parent = l.parent /\ m.name = l.name /\ m.filed = l.filed
      /\ m.cards = [l.cards EXCEPT ![k] = Gone] /\ m.links = {x \in l.links : x.card # k}
  BY DEF WithoutCard, Library
<1> DEFINE r == WithCard(m, e)
<1>3. Restored(m, e) = r
  BY <1>1 DEF Restored
<1>4. /\ r.parent = m.parent /\ r.name = m.name /\ r.filed = m.filed
      /\ r.cards = [m.cards EXCEPT ![k] = There]
      /\ r.links = m.links \union {x \in e.links : x.asset \in Assets(m)}
  BY <1>1, <1>2 DEF WithCard, Library
<1>5. \A x \in l.links : x.asset \in Assets(m)
  BY <1>2 DEF Standing, Assets
<1>6. r.links = l.links
  BY <1>1, <1>2, <1>4, <1>5
<1>7. r.cards = l.cards
  <2>1. l.cards \in [Card -> {There, Unmade, Gone}] /\ k \in Card /\ l.cards[k] = There
    BY DEF Library, Cards
  <2> QED
    BY <1>2, <1>4, <2>1
<1>8. r = l
  <2>1. r \in Library
    BY <1>2, <1>4, <1>6, <1>7 DEF WithCard, Library
  <2> QED
    BY <1>2, <1>4, <1>6, <1>7, <2>1, SameLibrary
<1>9. ItsPlaceIsThere(m, e)
  BY <1>1 DEF ItsPlaceIsThere
<1> QED
  BY <1>3, <1>8, <1>9 DEF Fits

(* A delete undone gives back every name, place and link, unless two        *)
(* changes of the tree's shape overlapped (restoreFrom, applyRepair).       *)
THEOREM ARestoreIsADeleteUndone == Spec => []RestoringUndoesDeleting
<1>1. LibraryInv => RestoringUndoesDeleting
  <2> SUFFICES ASSUME LibraryInv, ~crossed PROVE RestoringUndoesDeleting
    BY DEF RestoringUndoesDeleting
  <2>1. lib \in Library /\ Named(lib) /\ NamesSettle(lib) /\ Rooted(lib) /\ Standing(lib)
    BY DEF LibraryInv, Shape, TypeOK
  <2>2. ASSUME NEW c \in Live(lib), NEW d \in Destinations(lib, c),
               NEW g \in Landings(WithDefault(lib, d), c)
        PROVE  LET l == WithDefault(lib, d)
                   without == WithoutCategory(l, c, d, g)
                   e == BinnedCategory(l, c, d, g, deletes)
               IN Fits(without, e) /\ Restored(without, e) = l
    <3> DEFINE l == WithDefault(lib, d)
    <3>1. d \in Category /\ (Filed(lib, c) # {} => d # c)
      BY DEF Destinations, Live
    <3>2. /\ l \in Library /\ Named(l) /\ Rooted(l) /\ Standing(l) /\ NamesSettle(l)
          /\ Live(l) = Live(lib) \union (IF lib.parent[d] = Unmade THEN {d} ELSE {})
      BY <2>1, <3>1, DefaultIsTyped, DefaultKeepsTheTree, TheDefaultFits
    <3>3. l.filed = lib.filed
      BY <2>1 DEF WithDefault, Library
    <3>4. Filed(l, c) # {} => d \in Live(l) \ {c}
      BY <3>1, <3>2, <3>3 DEF Destinations, Filed
    <3>5. c \in Live(l)
      BY <3>2
    <3> QED
      BY <3>1, <3>2, <3>4, <3>5, PuttingACategoryBackUndoesItsDelete
  <2>3. \A a \in Assets(lib) :
          LET e == BinnedAsset(lib, a, deletes)
          IN Fits(WithoutAsset(lib, a), e) /\ Restored(WithoutAsset(lib, a), e) = lib
    BY <2>1, PuttingAnAssetBackUndoesItsDelete
  <2>4. \A k \in Cards(lib) :
          LET e == BinnedCard(lib, k, deletes)
          IN Fits(WithoutCard(lib, k), e) /\ Restored(WithoutCard(lib, k), e) = lib
    BY <2>1, PuttingACardBackUndoesItsDelete
  <2> QED
    BY <2>2, <2>3, <2>4 DEF RestoringUndoesDeleting
<1> QED
  BY <1>1, InitEstablishesLibraryInv, LibraryInvIsInductive, PTL DEF Spec

HIDE DEF Top, There, Unmade, Gone

-----------------------------------------------------------------------------
(* What ties cards.                                                         *)

USE DEF Ties!Null

-----------------------------------------------------------------------------
(* The inductive invariant.                                                 *)

(* What is not there is tied to nothing, and what ever was has had its id.  *)
BoardInv(b) ==
  /\ Ties!Standing(b)
  /\ b.here \subseteq b.spent /\ b.legends \subseteq b.here /\ b.milestones \subseteq b.added
  /\ \A k \in TiedCard \ b.here : b.under[k] = Ties!Null /\ b.milestone[k] = Ties!Null
  /\ \A x \in b.links : Ties!OtherHalf(x) \in b.links

(* A row of the bin is of what has gone, and its links all touch it.        *)
RowInv(b, e) ==
  /\ e.what = "card" =>
       /\ e.id \in b.spent \ b.here
       /\ e.id \notin e.under /\ e.id \notin e.gathered
       /\ \A x \in e.links : (x.from = e.id \/ x.to = e.id) /\ Ties!OtherHalf(x) \in e.links
  /\ e.what = "milestone" => e.id \in b.added \ b.milestones

OneRowEach == \A e, f \in binned : e.what = f.what /\ e.id = f.id => e = f

TiesInv ==
  /\ Ties!TypeOK
  /\ BoardInv(board)
  /\ \A e \in binned : RowInv(board, e)
  /\ OneRowEach

-----------------------------------------------------------------------------
(* The operators.                                                           *)

LEMMA HalvesAreEachOthers ==
  ASSUME NEW x \in Ties!Link
  PROVE  /\ Ties!OtherHalf(x) \in [from : TiedCard, to : TiedCard, kind : Ties!AnyKind]
         /\ Ties!OtherHalf(Ties!OtherHalf(x)) = x
BY DEF Ties!Link, Ties!OtherHalf, Ties!Reciprocal, Ties!AnyKind

LEMMA WithoutCardIsSound ==
  ASSUME NEW b \in Ties!Board, BoardInv(b), NEW c \in b.here
  PROVE  /\ Ties!WithoutCard(b, c) \in Ties!Board /\ BoardInv(Ties!WithoutCard(b, c))
         /\ Ties!BinRow(Ties!BinnedCard(b, c)) /\ RowInv(Ties!WithoutCard(b, c), Ties!BinnedCard(b, c))
<1> DEFINE w == Ties!WithoutCard(b, c)
           e == Ties!BinnedCard(b, c)
<1>1. c \in TiedCard
  BY DEF Ties!Board
<1>2. /\ w.here = b.here \ {c} /\ w.legends = b.legends \ {c} /\ w.spent = b.spent
      /\ w.under = [k \in TiedCard |-> IF k = c THEN Ties!Null ELSE b.under[k] \ {c}]
      /\ w.milestone = [b.milestone EXCEPT ![c] = Ties!Null]
      /\ w.milestones = b.milestones /\ w.added = b.added
      /\ w.links = b.links \ Ties!Of(b, c)
  BY DEF Ties!WithoutCard, Ties!Board
<1>3. \A k \in TiedCard : b.under[k] \ {c} \in Ties!AtMostOne(TiedCard)
  BY DEF Ties!Board, Ties!AtMostOne
<1>4. w \in Ties!Board
  <2>1. w.under \in [TiedCard -> Ties!AtMostOne(TiedCard)]
    BY <1>2, <1>3 DEF Ties!AtMostOne
  <2>2. w.milestone \in [TiedCard -> Ties!AtMostOne(Milestone)]
    BY <1>2 DEF Ties!Board, Ties!AtMostOne
  <2> QED
    BY <1>2, <2>1, <2>2 DEF Ties!WithoutCard, Ties!Board
<1>5. \A x \in b.links : x \in Ties!Of(b, c) <=> Ties!OtherHalf(x) \in Ties!Of(b, c)
  BY HalvesAreEachOthers DEF Ties!Of, Ties!OtherHalf, BoardInv, Ties!Board
<1>6. BoardInv(w)
  <2>0. \A k \in TiedCard : /\ w.under[k] = (IF k = c THEN Ties!Null ELSE b.under[k] \ {c})
                         /\ w.milestone[k] = (IF k = c THEN Ties!Null ELSE b.milestone[k])
    BY <1>1, <1>2 DEF Ties!Board
  <2>1. Ties!Standing(w)
    <3>1. \A k \in w.here : k \in b.here /\ k # c /\ k \in TiedCard
      BY <1>2 DEF Ties!Board
    <3>2. \A k \in w.here : w.under[k] \subseteq w.here \ {k} /\ w.milestone[k] \subseteq w.milestones
      <4>1. TAKE k \in w.here
      <4>2. w.under[k] = b.under[k] \ {c} /\ w.milestone[k] = b.milestone[k]
        BY <2>0, <3>1
      <4>3. b.under[k] \subseteq b.here \ {k} /\ b.milestone[k] \subseteq b.milestones
        BY <3>1 DEF BoardInv, Ties!Standing
      <4> QED
        BY <1>2, <4>2, <4>3
    <3>3. \A x \in w.links : x.from \in w.here /\ x.to \in w.here
      BY <1>2 DEF BoardInv, Ties!Standing, Ties!Of
    <3> QED
      BY <3>2, <3>3 DEF Ties!Standing
  <2>2. \A x \in w.links : Ties!OtherHalf(x) \in w.links
    BY <1>2, <1>5 DEF BoardInv
  <2>3. \A k \in TiedCard \ w.here : w.under[k] = Ties!Null /\ w.milestone[k] = Ties!Null
    BY <1>1, <1>2, <2>0 DEF BoardInv
  <2> QED
    BY <1>2, <2>1, <2>2, <2>3 DEF BoardInv
<1>7. e.gathered \subseteq b.here \ {c}
  BY <1>1 DEF Ties!BinnedCard, Ties!Gathered, BoardInv, Ties!Standing
<1>8. Ties!BinRow(e)
  BY <1>1, <1>7 DEF Ties!BinnedCard, Ties!BinRow, Ties!Board, Ties!Of
<1>9. RowInv(w, e)
  <2>1. e.what = "card" /\ e.id = c /\ e.under = b.under[c] /\ e.links = Ties!Of(b, c)
    BY DEF Ties!BinnedCard
  <2>2. \A x \in Ties!Of(b, c) : (x.from = c \/ x.to = c) /\ Ties!OtherHalf(x) \in Ties!Of(b, c)
    BY <1>5 DEF Ties!Of
  <2> QED
    BY <1>2, <1>7, <2>1, <2>2 DEF RowInv, BoardInv, Ties!Standing
<1> QED
  BY <1>4, <1>6, <1>8, <1>9

LEMMA WithoutMilestoneIsSound ==
  ASSUME NEW b \in Ties!Board, BoardInv(b), NEW m \in b.milestones
  PROVE  /\ Ties!WithoutMilestone(b, m) \in Ties!Board /\ BoardInv(Ties!WithoutMilestone(b, m))
         /\ Ties!BinRow(Ties!BinnedMilestone(b, m))
         /\ RowInv(Ties!WithoutMilestone(b, m), Ties!BinnedMilestone(b, m))
<1> DEFINE w == Ties!WithoutMilestone(b, m)
<1>1. /\ w.milestones = b.milestones \ {m} /\ w.here = b.here /\ w.under = b.under
      /\ w.milestone = [k \in TiedCard |-> b.milestone[k] \ {m}]
      /\ w.links = b.links /\ w.spent = b.spent /\ w.legends = b.legends /\ w.added = b.added
  BY DEF Ties!WithoutMilestone, Ties!Board
<1>2. w.milestone \in [TiedCard -> Ties!AtMostOne(Milestone)]
  BY <1>1 DEF Ties!Board, Ties!AtMostOne
<1>3. w \in Ties!Board
  BY <1>1, <1>2 DEF Ties!WithoutMilestone, Ties!Board
<1>4. BoardInv(w)
  <2>1. \A k \in TiedCard : w.milestone[k] = b.milestone[k] \ {m}
    BY <1>1
  <2>2. \A k \in b.here : k \in TiedCard
    BY DEF Ties!Board
  <2>3. Ties!Standing(w)
    <3>1. \A k \in w.here : w.under[k] \subseteq w.here \ {k}
      BY <1>1 DEF BoardInv, Ties!Standing
    <3>2. ASSUME NEW k \in w.here PROVE w.milestone[k] \subseteq w.milestones
      <4>1. b.milestone[k] \subseteq b.milestones /\ w.milestone[k] = b.milestone[k] \ {m}
        BY <1>1, <2>1, <2>2 DEF BoardInv, Ties!Standing
      <4> QED
        BY <1>1, <4>1
    <3>3. \A x \in w.links : x.from \in w.here /\ x.to \in w.here
      BY <1>1 DEF BoardInv, Ties!Standing
    <3> QED
      BY <3>1, <3>2, <3>3 DEF Ties!Standing
  <2>4. \A k \in TiedCard \ w.here : w.under[k] = Ties!Null /\ w.milestone[k] = Ties!Null
    BY <1>1, <2>1 DEF BoardInv
  <2> QED
    BY <1>1, <2>3, <2>4 DEF BoardInv
<1>5. Ties!BinRow(Ties!BinnedMilestone(b, m)) /\ RowInv(w, Ties!BinnedMilestone(b, m))
  BY <1>1 DEF Ties!BinnedMilestone, Ties!BinRow, RowInv, Ties!Promised, BoardInv, Ties!Board
<1> QED
  BY <1>3, <1>4, <1>5

LEMMA WithCardIsSound ==
  ASSUME NEW b \in Ties!Board, BoardInv(b), NEW e, Ties!BinRow(e), e.what = "card", RowInv(b, e)
  PROVE  Ties!WithCard(b, e) \in Ties!Board /\ BoardInv(Ties!WithCard(b, e)) /\ Ties!Fits(b, e)
<1> DEFINE w == Ties!WithCard(b, e)
<1>1. /\ e.id \in TiedCard /\ e.under \in Ties!AtMostOne(TiedCard) /\ e.milestone \in Ties!AtMostOne(Milestone)
      /\ e.links \subseteq Ties!Link /\ e.id \notin b.here
  BY DEF Ties!BinRow, RowInv
<1>2. /\ w.here = b.here \union {e.id} /\ w.spent = b.spent
      /\ w.legends = (IF e.legend THEN b.legends \union {e.id} ELSE b.legends)
      /\ w.under = [k \in TiedCard |->
                      IF k = e.id THEN e.under \intersect b.here
                      ELSE IF k \in e.gathered \intersect b.here /\ b.under[k] = Ties!Null
                           THEN {e.id} ELSE b.under[k]]
      /\ w.milestone = [b.milestone EXCEPT ![e.id] = e.milestone \intersect b.milestones]
      /\ w.milestones = b.milestones /\ w.added = b.added
      /\ w.links = b.links \union Ties!ComingBack(b, e)
  BY DEF Ties!WithCard, Ties!Board
<1>3. w \in Ties!Board
  <2>1. w.under \in [TiedCard -> Ties!AtMostOne(TiedCard)]
    BY <1>1, <1>2 DEF Ties!AtMostOne, Ties!Board
  <2>2. w.milestone \in [TiedCard -> Ties!AtMostOne(Milestone)]
    BY <1>1, <1>2 DEF Ties!AtMostOne, Ties!Board
  <2>3. w.links \subseteq Ties!Link
    BY <1>1, <1>2 DEF Ties!ComingBack, Ties!Board
  <2>4. w.here \subseteq TiedCard /\ w.legends \subseteq TiedCard
    BY <1>1, <1>2 DEF Ties!Board
  <2> QED
    BY <1>2, <2>1, <2>2, <2>3, <2>4 DEF Ties!WithCard, Ties!Board
<1>4. Ties!Standing(w)
  <2>0. \A k \in TiedCard :
          /\ w.under[k] = (IF k = e.id THEN e.under \intersect b.here
                           ELSE IF k \in e.gathered \intersect b.here /\ b.under[k] = Ties!Null
                                THEN {e.id} ELSE b.under[k])
          /\ w.milestone[k] = (IF k = e.id THEN e.milestone \intersect b.milestones
                               ELSE b.milestone[k])
    BY <1>1, <1>2 DEF Ties!Board
  <2>6. \A k \in w.here : k \in TiedCard /\ (k \in b.here \/ k = e.id)
    BY <1>1, <1>2 DEF Ties!Board
  <2>7. \A k \in b.here : b.under[k] \subseteq b.here \ {k} /\ b.milestone[k] \subseteq b.milestones
    BY DEF BoardInv, Ties!Standing
  <2>1. ASSUME NEW k \in w.here PROVE w.under[k] \subseteq w.here \ {k}
    <3>1. CASE k = e.id
      <4>1. w.under[k] = e.under \intersect b.here
        BY <1>1, <2>0, <3>1
      <4> QED
        BY <1>1, <1>2, <3>1, <4>1
    <3>2. CASE k # e.id /\ w.under[k] = {e.id}
      BY <1>2, <3>2
    <3>3. CASE k # e.id /\ w.under[k] = b.under[k]
      <4>1. b.under[k] \subseteq b.here \ {k}
        BY <2>6, <2>7, <3>3
      <4> QED
        BY <1>2, <3>3, <4>1
    <3> QED
      BY <2>0, <2>6, <3>1, <3>2, <3>3
  <2>2. ASSUME NEW k \in w.here PROVE w.milestone[k] \subseteq w.milestones
    <3>1. CASE k = e.id
      BY <1>2, <2>0, <2>6, <3>1
    <3>2. CASE k # e.id
      BY <1>2, <2>0, <2>6, <2>7, <3>2
    <3> QED
      BY <3>1, <3>2
  <2>3. \A x \in w.links : x.from \in w.here /\ x.to \in w.here
    BY <1>2 DEF BoardInv, Ties!Standing, Ties!ComingBack
  <2> QED
    BY <2>1, <2>2, <2>3 DEF Ties!Standing
<1>5. \A x \in w.links : Ties!OtherHalf(x) \in w.links
  <2>1. \A x \in Ties!ComingBack(b, e) : Ties!OtherHalf(x) \in Ties!ComingBack(b, e)
    BY DEF Ties!ComingBack, RowInv, Ties!OtherHalf
  <2> QED
    BY <1>2, <2>1 DEF BoardInv
<1>6. BoardInv(w)
  BY <1>1, <1>2, <1>4, <1>5 DEF BoardInv, RowInv, Ties!Board
<1>7. Ties!ComingBack(b, e) \intersect b.links = {}
  BY <1>1 DEF Ties!ComingBack, RowInv, BoardInv, Ties!Standing
<1>8. Ties!Fits(b, e)
  BY <1>1, <1>4, <1>7 DEF Ties!Fits, Ties!Restored
<1> QED
  BY <1>3, <1>6, <1>8

LEMMA WithMilestoneIsSound ==
  ASSUME NEW b \in Ties!Board, BoardInv(b), NEW e, Ties!BinRow(e), e.what # "card", RowInv(b, e)
  PROVE  Ties!WithMilestone(b, e) \in Ties!Board /\ BoardInv(Ties!WithMilestone(b, e)) /\ Ties!Fits(b, e)
<1> DEFINE w == Ties!WithMilestone(b, e)
<1>1. e.what = "milestone" /\ e.id \in Milestone /\ e.id \in b.added \ b.milestones
  BY DEF Ties!BinRow, RowInv
<1>2. /\ w.milestones = b.milestones \union {e.id} /\ w.here = b.here /\ w.under = b.under
      /\ w.milestone = [k \in TiedCard |->
                          IF k \in e.promised \intersect b.here /\ b.milestone[k] = Ties!Null
                          THEN {e.id} ELSE b.milestone[k]]
      /\ w.links = b.links /\ w.spent = b.spent /\ w.legends = b.legends /\ w.added = b.added
  BY DEF Ties!WithMilestone, Ties!Board
<1>3. w.milestone \in [TiedCard -> Ties!AtMostOne(Milestone)]
  BY <1>1, <1>2 DEF Ties!AtMostOne, Ties!Board
<1>4. w \in Ties!Board
  BY <1>1, <1>2, <1>3 DEF Ties!WithMilestone, Ties!Board
<1>5. BoardInv(w)
  BY <1>1, <1>2 DEF BoardInv, Ties!Standing, Ties!Board
<1>6. Ties!Fits(b, e)
  BY <1>1, <1>5 DEF Ties!Fits, Ties!Restored, BoardInv
<1> QED
  BY <1>4, <1>5, <1>6
-----------------------------------------------------------------------------
(* The machine.                                                             *)

LEMMA TiesInvInit == Ties!Init => TiesInv
BY DEF Ties!Init, TiesInv, Ties!TypeOK, Ties!Board, Ties!AtMostOne, BoardInv, Ties!Standing, OneRowEach

(* A command that touches no id and no key of what is gone keeps the bin.   *)
LEMMA RowsKeep ==
  ASSUME NEW b, NEW w, NEW e, RowInv(b, e),
         b.spent \subseteq w.spent, b.added \subseteq w.added,
         w.here \ b.here \subseteq w.spent \ b.spent,
         w.milestones \ b.milestones \subseteq w.added \ b.added
  PROVE  RowInv(w, e)
BY DEF RowInv

LEMMA WriteKeeps ==
  ASSUME TiesInv, NEW w \in Ties!Board, BoardInv(w), Ties!Write(w),
         board.spent \subseteq w.spent, board.added \subseteq w.added,
         w.here \ board.here \subseteq w.spent \ board.spent,
         w.milestones \ board.milestones \subseteq w.added \ board.added
  PROVE  TiesInv'
<1>1. board' = w /\ binned' = binned
  BY DEF Ties!Write
<1>2. \A e \in binned : RowInv(w, e)
  BY RowsKeep DEF TiesInv
<1> QED
  BY <1>1, <1>2 DEF TiesInv, Ties!TypeOK, OneRowEach

(* A command that changes only who is a legend, and what is under what.     *)
LEMMA UnderKeeps ==
  ASSUME TiesInv, NEW u \in [TiedCard -> Ties!AtMostOne(TiedCard)], NEW l \in SUBSET board.here,
         Ties!Write([board EXCEPT !.legends = l, !.under = u]),
         \A k \in board.here : u[k] \subseteq board.here \ {k},
         \A k \in TiedCard \ board.here : u[k] = Ties!Null
  PROVE  TiesInv'
<1> DEFINE w == [board EXCEPT !.legends = l, !.under = u]
<1>0. board \in Ties!Board /\ BoardInv(board)
  BY DEF TiesInv, Ties!TypeOK
<1>1. /\ w.here = board.here /\ w.spent = board.spent /\ w.under = u
      /\ w.milestone = board.milestone /\ w.legends = l
      /\ w.milestones = board.milestones /\ w.added = board.added /\ w.links = board.links
  BY <1>0 DEF Ties!Board
<1>2. w \in Ties!Board
  BY <1>0, <1>1 DEF Ties!Board
<1>3. BoardInv(w)
  BY <1>0, <1>1 DEF BoardInv, Ties!Standing
<1> QED
  BY <1>1, <1>2, <1>3, WriteKeeps

LEMMA TiesInvNext == TiesInv /\ [Ties!Next]_Ties!vars => TiesInv'
<1> SUFFICES ASSUME TiesInv, [Ties!Next]_Ties!vars PROVE TiesInv'
  OBVIOUS
<1> USE DEF TiesInv
<1>0. board \in Ties!Board /\ BoardInv(board)
  BY DEF Ties!TypeOK
<1>1. ASSUME NEW c \in TiedCard, NEW m \in Ties!AtMostOne(Milestone), Ties!CreateCard(c, m) PROVE TiesInv'
  <2> DEFINE w == [board EXCEPT !.here = @ \union {c}, !.spent = @ \union {c}, !.milestone[c] = m]
  <2>1. Ties!Write(w) /\ c \notin board.spent /\ m \subseteq board.milestones
    BY <1>1 DEF Ties!CreateCard
  <2>2. /\ w.here = board.here \union {c} /\ w.spent = board.spent \union {c}
        /\ w.milestone = [board.milestone EXCEPT ![c] = m] /\ w.under = board.under
        /\ w.legends = board.legends /\ w.milestones = board.milestones
        /\ w.added = board.added /\ w.links = board.links
    BY <1>0 DEF Ties!Board
  <2>3. w \in Ties!Board
    BY <1>0, <2>2 DEF Ties!Board
  <2>4. BoardInv(w)
    <3>1. \A k \in TiedCard : w.milestone[k] = IF k = c THEN m ELSE board.milestone[k]
      BY <1>0, <2>2 DEF Ties!Board
    <3>2. c \notin board.here /\ board.under[c] = Ties!Null
      BY <1>0, <2>1 DEF BoardInv
    <3>3. Ties!Standing(w)
      BY <1>0, <2>1, <2>2, <3>1, <3>2 DEF BoardInv, Ties!Standing, Ties!Board
    <3> QED
      BY <1>0, <2>2, <3>1, <3>2, <3>3 DEF BoardInv
  <2> QED
    BY <2>1, <2>2, <2>3, <2>4, WriteKeeps
<1>2. ASSUME NEW c \in TiedCard, NEW m \in Ties!AtMostOne(Milestone), Ties!UpdateCard(c, m) PROVE TiesInv'
  <2> DEFINE w == [board EXCEPT !.milestone[c] = m]
  <2>1. Ties!Write(w) /\ c \in board.here /\ m \subseteq board.milestones
    BY <1>2 DEF Ties!UpdateCard
  <2>2. /\ w.here = board.here /\ w.spent = board.spent /\ w.under = board.under
        /\ w.milestone = [board.milestone EXCEPT ![c] = m]
        /\ w.legends = board.legends /\ w.milestones = board.milestones
        /\ w.added = board.added /\ w.links = board.links
    BY <1>0 DEF Ties!Board
  <2>3. w \in Ties!Board
    BY <1>0, <2>2 DEF Ties!Board
  <2>4. BoardInv(w)
    <3>1. \A k \in TiedCard : w.milestone[k] = IF k = c THEN m ELSE board.milestone[k]
      BY <1>0, <2>2 DEF Ties!Board
    <3>2. Ties!Standing(w)
      BY <1>0, <2>1, <2>2, <3>1 DEF BoardInv, Ties!Standing, Ties!Board
    <3> QED
      BY <1>0, <2>1, <2>2, <3>1, <3>2 DEF BoardInv
  <2> QED
    BY <2>1, <2>2, <2>3, <2>4, WriteKeeps
<1>3. ASSUME NEW m \in Milestone, Ties!CreateMilestone(m) PROVE TiesInv'
  <2> DEFINE w == [board EXCEPT !.milestones = @ \union {m}, !.added = @ \union {m}]
  <2>1. Ties!Write(w) /\ m \notin board.added
    BY <1>3 DEF Ties!CreateMilestone
  <2>2. /\ w.here = board.here /\ w.spent = board.spent /\ w.under = board.under
        /\ w.milestone = board.milestone /\ w.legends = board.legends
        /\ w.milestones = board.milestones \union {m}
        /\ w.added = board.added \union {m} /\ w.links = board.links
    BY <1>0 DEF Ties!Board
  <2>3. w \in Ties!Board
    BY <1>0, <2>2 DEF Ties!Board
  <2>4. BoardInv(w)
    BY <1>0, <2>2 DEF BoardInv, Ties!Standing
  <2> QED
    BY <2>1, <2>2, <2>3, <2>4, WriteKeeps
<1>4. ASSUME NEW c \in TiedCard, Ties!MakeLegend(c) PROVE TiesInv'
  <2> DEFINE w == [board EXCEPT !.legends = @ \union {c}]
  <2>1. Ties!Write(w) /\ c \in board.here
    BY <1>4 DEF Ties!MakeLegend
  <2>2. /\ w.here = board.here /\ w.spent = board.spent /\ w.under = board.under
        /\ w.milestone = board.milestone /\ w.legends = board.legends \union {c}
        /\ w.milestones = board.milestones /\ w.added = board.added /\ w.links = board.links
    BY <1>0 DEF Ties!Board
  <2>3. w \in Ties!Board
    BY <1>0, <2>2 DEF Ties!Board
  <2>4. BoardInv(w)
    BY <1>0, <2>1, <2>2 DEF BoardInv, Ties!Standing
  <2> QED
    BY <2>1, <2>2, <2>3, <2>4, WriteKeeps
<1>6. ASSUME NEW c \in TiedCard, Ties!UnmakeLegend(c) PROVE TiesInv'
  <2> DEFINE u == [k \in TiedCard |-> board.under[k] \ {c}]
             l == board.legends \ {c}
  <2>1. u \in [TiedCard -> Ties!AtMostOne(TiedCard)]
    BY <1>0 DEF Ties!Board, Ties!AtMostOne
  <2>2. \A k \in board.here : u[k] \subseteq board.here \ {k}
    <3>1. \A k \in board.here : k \in TiedCard /\ board.under[k] \subseteq board.here \ {k}
      BY <1>0 DEF BoardInv, Ties!Standing, Ties!Board
    <3>2. TAKE k \in board.here
    <3>3. u[k] = board.under[k] \ {c}
      BY <3>1
    <3> QED
      BY <3>1, <3>3
  <2>3. l \in SUBSET board.here /\ \A k \in TiedCard \ board.here : u[k] = Ties!Null
    BY <1>0 DEF BoardInv
  <2>4. Ties!Write([board EXCEPT !.legends = l, !.under = u])
    BY <1>6 DEF Ties!UnmakeLegend
  <2> HIDE DEF u, l
  <2> QED
    BY <2>1, <2>2, <2>3, <2>4, UnderKeeps
<1>7. ASSUME NEW c \in TiedCard, NEW t \in Ties!AtMostOne(TiedCard), c \in board.here,
             t \subseteq board.here \ {c}, Ties!Write([board EXCEPT !.under[c] = t])
      PROVE  TiesInv'
  <2> DEFINE u == [board.under EXCEPT ![c] = t]
  <2>1. u \in [TiedCard -> Ties!AtMostOne(TiedCard)]
    BY <1>0 DEF Ties!Board
  <2>2. \A k \in TiedCard : u[k] = IF k = c THEN t ELSE board.under[k]
    BY <1>0 DEF Ties!Board
  <2>3. \A k \in board.here : u[k] \subseteq board.here \ {k}
    BY <1>0, <1>7, <2>2 DEF BoardInv, Ties!Standing, Ties!Board
  <2>4. \A k \in TiedCard \ board.here : u[k] = Ties!Null
    BY <1>0, <1>7, <2>2 DEF BoardInv
  <2>5. [board EXCEPT !.under[c] = t] = [board EXCEPT !.legends = board.legends, !.under = u]
    BY <1>0 DEF Ties!Board
  <2>6. board.legends \in SUBSET board.here
    BY <1>0 DEF BoardInv
  <2>7. Ties!Write([board EXCEPT !.legends = board.legends, !.under = u])
    BY <1>7, <2>5
  <2> HIDE DEF u
  <2> QED
    BY <2>1, <2>3, <2>4, <2>6, <2>7, UnderKeeps
<1>8. ASSUME NEW c \in TiedCard, NEW l \in TiedCard, Ties!PutUnderLegend(c, l) PROVE TiesInv'
  <2>1. l \in board.here \ {c} /\ c \in board.here /\ Ties!Write([board EXCEPT !.under[c] = {l}])
    BY <1>0, <1>8 DEF Ties!PutUnderLegend, BoardInv
  <2>2. {l} \in Ties!AtMostOne(TiedCard) /\ {l} \subseteq board.here \ {c}
    BY <2>1 DEF Ties!AtMostOne
  <2> QED
    BY <1>7, <2>1, <2>2
<1>9. ASSUME NEW c \in TiedCard, Ties!TakeFromLegend(c) PROVE TiesInv'
  <2>1. c \in board.here /\ Ties!Write([board EXCEPT !.under[c] = Ties!Null])
    BY <1>9 DEF Ties!TakeFromLegend
  <2>2. Ties!Null \in Ties!AtMostOne(TiedCard) /\ Ties!Null \subseteq board.here \ {c}
    BY DEF Ties!AtMostOne
  <2> QED
    BY <1>7, <2>1, <2>2
<1>10. ASSUME NEW n \in SUBSET Ties!Link, Ties!Write([board EXCEPT !.links = n]),
              \A x \in n : x.from \in board.here /\ x.to \in board.here,
              \A x \in n : Ties!OtherHalf(x) \in n
       PROVE  TiesInv'
  <2> DEFINE w == [board EXCEPT !.links = n]
  <2>1. /\ w.here = board.here /\ w.spent = board.spent /\ w.under = board.under
        /\ w.milestone = board.milestone /\ w.legends = board.legends
        /\ w.milestones = board.milestones /\ w.added = board.added /\ w.links = n
    BY <1>0 DEF Ties!Board
  <2>2. w \in Ties!Board
    BY <1>0, <2>1 DEF Ties!Board
  <2>3. BoardInv(w)
    BY <1>0, <1>10, <2>1 DEF BoardInv, Ties!Standing
  <2> QED
    BY <1>10, <2>1, <2>2, <2>3, WriteKeeps
<1>11. ASSUME NEW c \in TiedCard, NEW d \in TiedCard, NEW kind \in Kind, Ties!LinkCard(c, d, kind)
       PROVE  TiesInv'
  <2> DEFINE x == [from |-> c, to |-> d, kind |-> kind]
             n == board.links \union {x, Ties!OtherHalf(x)}
  <2>1. x \in Ties!Link /\ Ties!OtherHalf(x) \in Ties!Link
    BY HalvesAreEachOthers DEF Ties!Link, Ties!AnyKind
  <2>2. n \in SUBSET Ties!Link
    BY <1>0, <2>1 DEF Ties!Board
  <2>3. \A y \in n : Ties!OtherHalf(y) \in n
    BY <1>0, <2>1, HalvesAreEachOthers DEF BoardInv
  <2>4. Ties!Write([board EXCEPT !.links = n]) /\ c \in board.here /\ d \in board.here
    BY <1>11 DEF Ties!LinkCard
  <2>5. \A y \in n : y.from \in board.here /\ y.to \in board.here
    BY <1>0, <2>4 DEF BoardInv, Ties!Standing, Ties!OtherHalf
  <2> QED
    BY <1>10, <2>2, <2>3, <2>4, <2>5
<1>12. ASSUME NEW x \in board.links, Ties!UnlinkCard(x) PROVE TiesInv'
  <2> DEFINE n == board.links \ {x, Ties!OtherHalf(x)}
  <2>1. n \in SUBSET Ties!Link /\ x \in Ties!Link
    BY <1>0 DEF Ties!Board
  <2>2. \A y \in n : Ties!OtherHalf(y) \in n
    <3>1. TAKE y \in n
    <3>2. y \in Ties!Link /\ Ties!OtherHalf(y) \in board.links
      BY <1>0, <2>1 DEF BoardInv
    <3>3. Ties!OtherHalf(y) # x /\ Ties!OtherHalf(y) # Ties!OtherHalf(x)
      BY <2>1, <3>2, HalvesAreEachOthers
    <3> QED
      BY <3>2, <3>3
  <2>3. \A y \in n : y.from \in board.here /\ y.to \in board.here
    BY <1>0 DEF BoardInv, Ties!Standing
  <2>4. Ties!Write([board EXCEPT !.links = n])
    BY <1>12 DEF Ties!UnlinkCard
  <2> QED
    BY <1>10, <2>1, <2>2, <2>3, <2>4
<1>13. ASSUME NEW c \in TiedCard, Ties!DeleteCard(c) PROVE TiesInv'
  <2> DEFINE e == Ties!BinnedCard(board, c)
             w == Ties!WithoutCard(board, c)
  <2>1. c \in board.here /\ binned' = binned \union {e} /\ board' = w
    BY <1>13 DEF Ties!DeleteCard
  <2>2. w \in Ties!Board /\ BoardInv(w) /\ Ties!BinRow(e) /\ RowInv(w, e)
    BY <1>0, <2>1, WithoutCardIsSound
  <2>3. e.what = "card" /\ e.id = c
    BY DEF Ties!BinnedCard
  <2>4. w.here = board.here \ {c} /\ w.spent = board.spent /\ w.added = board.added
        /\ w.milestones = board.milestones
    BY <1>0 DEF Ties!WithoutCard, Ties!Board
  <2>5. \A f \in binned : RowInv(w, f)
    BY <2>4, RowsKeep
  <2>6. \A f \in binned : ~(f.what = "card" /\ f.id = c)
    BY <2>1 DEF RowInv
  <2> QED
    BY <2>1, <2>2, <2>3, <2>5, <2>6 DEF Ties!TypeOK, OneRowEach
<1>14. ASSUME NEW m \in Milestone, Ties!DeleteMilestone(m) PROVE TiesInv'
  <2> DEFINE e == Ties!BinnedMilestone(board, m)
             w == Ties!WithoutMilestone(board, m)
  <2>1. m \in board.milestones /\ binned' = binned \union {e} /\ board' = w
    BY <1>14 DEF Ties!DeleteMilestone
  <2>2. w \in Ties!Board /\ BoardInv(w) /\ Ties!BinRow(e) /\ RowInv(w, e)
    BY <1>0, <2>1, WithoutMilestoneIsSound
  <2>3. e.what = "milestone" /\ e.id = m
    BY DEF Ties!BinnedMilestone
  <2>4. w.here = board.here /\ w.spent = board.spent /\ w.added = board.added
        /\ w.milestones = board.milestones \ {m}
    BY <1>0 DEF Ties!WithoutMilestone, Ties!Board
  <2>5. \A f \in binned : RowInv(w, f)
    BY <2>4, RowsKeep
  <2>6. \A f \in binned : ~(f.what = "milestone" /\ f.id = m)
    BY <2>1 DEF RowInv
  <2> QED
    BY <2>1, <2>2, <2>3, <2>5, <2>6 DEF Ties!TypeOK, OneRowEach
<1>15. ASSUME NEW e \in binned, Ties!Restore(e) PROVE TiesInv'
  <2> DEFINE w == Ties!Restored(board, e)
  <2>1. binned' = binned \ {e} /\ board' = w /\ Ties!BinRow(e) /\ RowInv(board, e)
    BY <1>15 DEF Ties!Restore, Ties!TypeOK
  <2>2. w \in Ties!Board /\ BoardInv(w)
    BY <1>0, <2>1, WithCardIsSound, WithMilestoneIsSound DEF Ties!Restored
  <2>3. \A f \in binned \ {e} : RowInv(w, f)
    <3>1. TAKE f \in binned \ {e}
    <3>2. RowInv(board, f) /\ Ties!BinRow(f) /\ ~(f.what = e.what /\ f.id = e.id)
      BY DEF OneRowEach, Ties!TypeOK
    <3>3. CASE e.what = "card"
      <4>1. w.here = board.here \union {e.id} /\ w.spent = board.spent
            /\ w.added = board.added /\ w.milestones = board.milestones
        BY <1>0, <3>3 DEF Ties!Restored, Ties!WithCard, Ties!Board
      <4> QED
        BY <3>2, <3>3, <4>1 DEF RowInv
    <3>4. CASE e.what # "card"
      <4>1. w.here = board.here /\ w.spent = board.spent /\ w.added = board.added
            /\ w.milestones = board.milestones \union {e.id}
        BY <1>0, <3>4 DEF Ties!Restored, Ties!WithMilestone, Ties!Board
      <4>2. e.what = "milestone"
        BY <2>1, <3>4 DEF Ties!BinRow
      <4> QED
        BY <3>2, <4>1, <4>2 DEF RowInv
    <3> QED
      BY <3>3, <3>4
  <2> QED
    BY <2>1, <2>2, <2>3 DEF Ties!TypeOK, OneRowEach
<1>16. ASSUME NEW e \in binned, Ties!Purge(e) PROVE TiesInv'
  BY <1>16 DEF Ties!Purge, Ties!TypeOK, OneRowEach
<1>17. CASE UNCHANGED Ties!vars
  BY <1>17 DEF Ties!vars, Ties!TypeOK, OneRowEach
<1> QED
  BY <1>1, <1>2, <1>3, <1>4, <1>6, <1>8, <1>9, <1>11, <1>12, <1>13, <1>14, <1>15, <1>16, <1>17
  DEF Ties!Next

(* The bin serves the ties as they would be served alone.                   *)
LEMMA TiesHold == BinSpec => []TiesInv
<1>1. Ties!Init => TiesInv
  BY TiesInvInit
<1>2. TiesInv /\ [Ties!Next]_Ties!vars => TiesInv'
  BY TiesInvNext
<1> QED
  BY <1>1, <1>2, TheHalvesKeepApart, PTL DEF Ties!Spec

(* Every row of the board and of the bin keeps its type.                    *)
THEOREM TiesAreTyped == BinSpec => []Ties!TypeOK
<1>1. TiesInv => Ties!TypeOK
  BY DEF TiesInv
<1> QED
  BY <1>1, TiesHold, PTL

(* linkCard and unlinkCard write both halves, and so do the bin's restores, *)
(* whichever end was deleted first and whichever comes back first.          *)
THEOREM LinksAreWhole == BinSpec => []LinksGoBothWays
<1>1. TiesInv => LinksGoBothWays
  BY DEF TiesInv, BoardInv, LinksGoBothWays, Ties!LinksGoBothWays
<1> QED
  BY <1>1, TiesHold, PTL

(* forgetWhatIsGone and needs are enough: no key and no unique index of the *)
(* database ever refuses a card or a milestone that the bin still has.      *)
THEOREM TheBinAlwaysGivesBack == BinSpec => []NothingIsRefused
<1>1. TiesInv => NothingIsRefused
  BY WithCardIsSound, WithMilestoneIsSound
     DEF TiesInv, Ties!TypeOK, NothingIsRefused, Ties!NothingIsRefused
<1> QED
  BY <1>1, TiesHold, PTL

LEMMA SameBoard ==
  ASSUME NEW b \in Ties!Board, NEW r \in Ties!Board,
         r.here = b.here, r.spent = b.spent, r.legends = b.legends, r.under = b.under,
         r.milestone = b.milestone, r.milestones = b.milestones, r.added = b.added,
         r.links = b.links
  PROVE  r = b
BY DEF Ties!Board

LEMMA CardsComeBack ==
  ASSUME NEW b \in Ties!Board, BoardInv(b), NEW c \in b.here,
         Ties!Gathered(b, c) # {} => c \in b.legends
  PROVE  Ties!WithCard(Ties!WithoutCard(b, c), Ties!BinnedCard(b, c)) = b
<1> DEFINE w == Ties!WithoutCard(b, c)
           e == Ties!BinnedCard(b, c)
           r == Ties!WithCard(w, e)
<1>1. c \in TiedCard
  BY DEF Ties!Board
<1>2. /\ w.here = b.here \ {c} /\ w.legends = b.legends \ {c}
      /\ w.under = [k \in TiedCard |-> IF k = c THEN Ties!Null ELSE b.under[k] \ {c}]
      /\ w.milestone = [b.milestone EXCEPT ![c] = Ties!Null]
      /\ w.milestones = b.milestones /\ w.links = b.links \ Ties!Of(b, c)
  BY DEF Ties!WithoutCard, Ties!Board
<1>3. /\ e.id = c /\ e.legend = (c \in b.legends) /\ e.under = b.under[c]
      /\ e.milestone = b.milestone[c] /\ e.links = Ties!Of(b, c)
      /\ e.gathered = IF c \in b.legends THEN Ties!Gathered(b, c) ELSE {}
  BY DEF Ties!BinnedCard
<1>4. w \in Ties!Board /\ RowInv(w, e)
  BY WithoutCardIsSound
<1> HIDE DEF w, e
<1>5. /\ r.here = w.here \union {c} /\ r.legends = (IF e.legend THEN w.legends \union {c} ELSE w.legends)
      /\ r.under = [k \in TiedCard |->
                      IF k = c THEN b.under[c] \intersect w.here
                      ELSE IF k \in e.gathered \intersect w.here /\ w.under[k] = Ties!Null
                           THEN {c} ELSE w.under[k]]
      /\ r.milestone = [w.milestone EXCEPT ![c] = b.milestone[c] \intersect b.milestones]
      /\ r.links = w.links \union Ties!ComingBack(w, e)
  <2>1. DOMAIN w = {"here", "spent", "legends", "under", "milestone", "milestones", "added", "links"}
    BY <1>4 DEF Ties!Board
  <2>2. /\ r.here = w.here \union {e.id} /\ r.links = w.links \union Ties!ComingBack(w, e)
        /\ r.legends = (IF e.legend THEN w.legends \union {e.id} ELSE w.legends)
    BY <1>4 DEF Ties!WithCard, Ties!Board
  <2>3. r.under = [k \in TiedCard |->
                    IF k = e.id THEN e.under \intersect w.here
                    ELSE IF k \in e.gathered \intersect w.here /\ w.under[k] = Ties!Null
                         THEN {e.id} ELSE w.under[k]]
    BY <1>4 DEF Ties!WithCard, Ties!Board
  <2>4. r.milestone = [w.milestone EXCEPT ![e.id] = e.milestone \intersect w.milestones]
    BY <1>4 DEF Ties!WithCard, Ties!Board
  <2> HIDE DEF r
  <2> QED
    BY <1>2, <1>3, <2>2, <2>3, <2>4
<1>6. r.here = b.here /\ r.legends = b.legends
  <2>1. r.here = b.here
    BY <1>2, <1>5
  <2>2. r.legends = (IF c \in b.legends THEN w.legends \union {c} ELSE w.legends)
    <3>1. e.legend <=> c \in b.legends
      BY ZenonT(30) DEF e, Ties!BinnedCard
    <3>2. r.legends = (IF e.legend THEN w.legends \union {c} ELSE w.legends)
      BY <1>5
    <3> HIDE DEF r
    <3> QED
      BY <3>1, <3>2
  <2>3. w.legends = b.legends \ {c}
    BY <1>2
  <2> HIDE DEF r
  <2> QED
    BY <2>1, <2>2, <2>3
<1>7. r.milestone = b.milestone
  <2>1. b.milestone[c] \intersect b.milestones = b.milestone[c]
    BY DEF BoardInv, Ties!Standing
  <2>2. r.milestone = [[b.milestone EXCEPT ![c] = Ties!Null] EXCEPT ![c] = b.milestone[c]]
    BY <1>2, <1>5, <2>1
  <2>3. b.milestone \in [TiedCard -> Ties!AtMostOne(Milestone)]
    BY DEF Ties!Board
  <2> QED
    BY <1>1, <2>2, <2>3
<1>8. r.links = b.links
  <2>1. \A x \in Ties!Of(b, c) : x \in b.links /\ x.from \in b.here /\ x.to \in b.here
    BY DEF Ties!Of, BoardInv, Ties!Standing
  <2>2. Ties!ComingBack(w, e) = Ties!Of(b, c)
    BY <1>2, <1>3, <2>1 DEF Ties!ComingBack
  <2> QED
    BY <1>2, <1>5, <2>1, <2>2
<1>11. r \in Ties!Board
  BY <1>3, <1>4, WithoutCardIsSound, WithCardIsSound DEF w, e, Ties!BinnedCard
<1>9. r.under = b.under
  <2>1. b.under \in [TiedCard -> Ties!AtMostOne(TiedCard)]
    BY DEF Ties!Board
  <2>2. ASSUME NEW k \in TiedCard PROVE r.under[k] = b.under[k]
    <3>1. CASE k = c
      <4>1. b.under[c] \subseteq b.here \ {c}
        BY DEF BoardInv, Ties!Standing
      <4> QED
        BY <1>2, <1>5, <3>1, <4>1
    <3>2. CASE k # c /\ b.under[k] = {c}
      <4>1. k \in b.here
        BY <3>2 DEF BoardInv
      <4>2. k \in Ties!Gathered(b, c)
        BY <3>2, <4>1 DEF Ties!Gathered
      <4>3. k \in e.gathered \intersect w.here /\ w.under[k] = Ties!Null
        BY <1>2, <1>3, <3>2, <4>1, <4>2
      <4> QED
        BY <1>5, <3>2, <4>3
    <3>3. CASE k # c /\ b.under[k] # {c}
      <4>1. b.under[k] \ {c} = b.under[k]
        BY <2>1, <3>3 DEF Ties!AtMostOne
      <4>2. k \notin e.gathered
        BY <1>3, <3>3 DEF Ties!Gathered
      <4> QED
        BY <1>2, <1>5, <3>3, <4>1, <4>2
    <3> QED
      BY <3>1, <3>2, <3>3
  <2>3. r.under \in [TiedCard -> Ties!AtMostOne(TiedCard)]
    BY <1>11 DEF Ties!Board
  <2> HIDE DEF r
  <2> QED
    BY <2>1, <2>2, <2>3
<1>10. r.spent = b.spent /\ r.milestones = b.milestones /\ r.added = b.added
  BY DEF w, Ties!WithCard, Ties!WithoutCard, Ties!Board
<1> HIDE DEF r
<1>12. r = b
  BY <1>6, <1>7, <1>8, <1>9, <1>10, <1>11, SameBoard
<1> QED
  BY <1>12 DEF r, w, e

LEMMA MilestonesComeBack ==
  ASSUME NEW b \in Ties!Board, BoardInv(b), NEW m \in b.milestones
  PROVE  Ties!WithMilestone(Ties!WithoutMilestone(b, m), Ties!BinnedMilestone(b, m)) = b
<1> DEFINE w == Ties!WithoutMilestone(b, m)
           e == Ties!BinnedMilestone(b, m)
           r == Ties!WithMilestone(w, e)
<1>1. /\ w.milestones = b.milestones \ {m} /\ w.here = b.here
      /\ w.milestone = [k \in TiedCard |-> b.milestone[k] \ {m}]
  BY DEF Ties!WithoutMilestone, Ties!Board
<1>2. e.id = m /\ e.promised = Ties!Promised(b, m)
  BY DEF Ties!BinnedMilestone
<1>3. b.milestone \in [TiedCard -> Ties!AtMostOne(Milestone)]
  BY DEF Ties!Board
<1>4. w \in Ties!Board
  BY WithoutMilestoneIsSound
<1>5. r.milestones = b.milestones /\ r.milestone = b.milestone
  <2>1. w.milestones \union {m} = b.milestones
    BY <1>1
  <2>2. ASSUME NEW k \in TiedCard
        PROVE  (IF k \in Ties!Promised(b, m) \intersect b.here /\ w.milestone[k] = Ties!Null
                THEN {m} ELSE w.milestone[k]) = b.milestone[k]
    <3>1. CASE b.milestone[k] = {m}
      BY <1>1, <3>1 DEF Ties!Promised, BoardInv
    <3>2. CASE b.milestone[k] # {m}
      <4>1. b.milestone[k] \ {m} = b.milestone[k]
        BY <1>3, <3>2 DEF Ties!AtMostOne
      <4> QED
        BY <1>1, <3>2, <4>1 DEF Ties!Promised
    <3> QED
      BY <3>1, <3>2
  <2>3. [k \in TiedCard |-> IF k \in Ties!Promised(b, m) \intersect b.here /\ w.milestone[k] = Ties!Null
                        THEN {m} ELSE w.milestone[k]] = b.milestone
    BY <1>3, <2>2
  <2> QED
    BY <1>1, <1>2, <2>1, <2>3, <1>4 DEF Ties!WithMilestone, Ties!Board
<1>6. /\ r.here = b.here /\ r.spent = b.spent /\ r.legends = b.legends
      /\ r.under = b.under /\ r.added = b.added /\ r.links = b.links
  BY DEF Ties!WithMilestone, Ties!WithoutMilestone, Ties!Board
<1>7. r \in Ties!Board
  BY <1>4, WithoutMilestoneIsSound, WithMilestoneIsSound DEF Ties!BinnedMilestone
<1> QED
  BY <1>5, <1>6, <1>7, SameBoard

(* The repairs and the copied rows undo what the delete and its foreign     *)
(* keys do, for any number of cards under a legend or held to a milestone.  *)
THEOREM TheTiesComeBack == BinSpec => []TiesComeBack
<1>1. TiesInv => TiesComeBack
  <2> SUFFICES ASSUME TiesInv PROVE TiesComeBack
    OBVIOUS
  <2>1. board \in Ties!Board /\ BoardInv(board)
    BY DEF TiesInv, Ties!TypeOK
  <2>2. ASSUME NEW c \in board.here, Ties!Gathered(board, c) # {} => c \in board.legends
        PROVE  Ties!Restored(Ties!WithoutCard(board, c), Ties!BinnedCard(board, c)) = board
    BY <2>1, <2>2, CardsComeBack DEF Ties!Restored, Ties!BinnedCard
  <2>3. ASSUME NEW m \in board.milestones
        PROVE  Ties!Restored(Ties!WithoutMilestone(board, m), Ties!BinnedMilestone(board, m)) = board
    BY <2>1, MilestonesComeBack DEF Ties!Restored, Ties!BinnedMilestone
  <2> QED
    BY <2>2, <2>3 DEF TiesComeBack, Ties!TiesComeBack
<1> QED
  BY <1>1, TiesHold, PTL
=============================================================================
