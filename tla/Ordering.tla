------------------------------ MODULE Ordering ------------------------------
(***************************************************************************)
(* Where a row lands in an order people arrange by hand.  A request names  *)
(* the rows it should sit between, and by the time it is served others may *)
(* have moved them.  Cards, assets and headings ask the database for each  *)
(* neighbour (placeInOrder); lists and documents are read whole            *)
(* (placeAmong); pictures go between the two named (moveReference).  The   *)
(* positions are whole multiples of the finest gap the drops can make.     *)
(***************************************************************************)
EXTENDS Integers, FiniteSets, FiniteSetsExt, Sequences, SequencesExt

CONSTANTS Row,
          Nobody,    \* a neighbour that is not named
          Step,      \* POSITION_STEP
          Tight,     \* SMALLEST_USEFUL_GAP
          MaxMoves   \* bound on the changes made to the set

(* How far apart rows may be after so many moves: each may halve a gap, and *)
(* none rounds.                                                             *)
Gaps ==
  {gap \in [0 .. MaxMoves -> 1 .. Step] :
     gap[0] = Step /\ \A n \in 1 .. MaxMoves : gap[n - 1] = 2 * gap[n]}

ASSUME OrderAssumption ==
  /\ IsFiniteSet(Row) /\ Nobody \notin Row
  /\ Step \in Nat \ {0} /\ Tight \in 1 .. Step
  /\ MaxMoves \in Nat /\ Gaps # {}

VARIABLES position,  \* where each row sits, or Null
          asked,     \* the last drop: the row, and the neighbours it named
          way,       \* how a place is found: "asked" as for cards, "whole" as for lists,
                     \* "named" as for pictures
          upToDate,  \* whether requests name the two rows they would land between now
          moves      \* how many changes were made

orderVars == <<position, asked, way, upToDate, moves>>

Null == -1

Ways == {"asked", "whole", "named"}

Here == {r \in Row : position[r] # Null}
Others(r) == Here \ {r}
Lowest(S) == IF S = {} THEN Null ELSE Min(S)
Highest(S) == IF S = {} THEN Null ELSE Max(S)

(* Mutant: the step is forgotten at the bottom.                             *)
BetweenWithoutAStep(lower, upper) ==
  CASE lower = Null /\ upper = Null -> Step
    [] lower = Null /\ upper # Null -> upper \div 2
    [] lower # Null /\ upper = Null -> lower
    [] OTHER -> (lower + upper) \div 2

(* positionBetween.                                                         *)
Between(lower, upper) ==
  CASE lower = Null /\ upper = Null -> Step
    [] lower = Null /\ upper # Null -> upper \div 2
    [] lower # Null /\ upper = Null -> lower + Step
    [] OTHER -> (lower + upper) \div 2

TooTight(lower, upper) == lower # Null /\ upper # Null /\ upper - lower < Tight

(* ORDER BY position: rows that share one come in any order.                *)
InOrder(S) ==
  {s \in SetToSeqs(S) : \A i \in 1 .. Len(s) - 1 : position[s[i]] <= position[s[i + 1]]}

(* Mutant: the set is spread by name, not by where its rows are.            *)
SpreadBackwards(s) ==
  [r \in Row |-> IF r \in ToSet(s)
                   THEN (Len(s) + 1 - CHOOSE i \in DOMAIN s : s[i] = r) * Step ELSE position[r]]

Spread(s) ==
  [r \in Row |-> IF r \in ToSet(s) THEN (CHOOSE i \in DOMAIN s : s[i] = r) * Step ELSE position[r]]

(* Some of the rows, added one after another.                               *)
OrderInit ==
  /\ \E some \in SUBSET Row : \E s \in SetToSeqs(some) :
       position = [r \in Row |-> IF r \in some THEN (CHOOSE i \in DOMAIN s : s[i] = r) * Step ELSE Null]
  /\ asked = [row |-> Nobody, after |-> Nobody, before |-> Nobody]
  /\ way \in Ways
  /\ upToDate \in BOOLEAN
  /\ moves = 0

-----------------------------------------------------------------------------
(* placeInOrder: each neighbour is a question to the database.              *)

At(where, r) == IF r \in Here THEN where[r] ELSE Null

FirstAbove(where, r, p) == Lowest({where[x] : x \in {x \in Others(r) : where[x] > p}})
LastBelow(where, r, p) == Highest({where[x] : x \in {x \in Others(r) : where[x] < p}})
LastOf(where, r) == Highest({where[x] : x \in Others(r)})

NeighbourAbove(where, r, below) == IF below = Null THEN Null ELSE FirstAbove(where, r, below)

NeighbourBelow(where, r, above) ==
  IF above = Null THEN LastOf(where, r) ELSE LastBelow(where, r, above)

Lower(where, r, after, before) ==
  IF At(where, after) # Null THEN At(where, after) ELSE NeighbourBelow(where, r, At(where, before))

Upper(where, r, after, before) ==
  IF At(where, before) # Null THEN At(where, before) ELSE NeighbourAbove(where, r, At(where, after))

(* Mutant: lands between where the neighbours were before the spread.       *)
ReindexAndPlaceWhereTheyWere(r, after, before) ==
  \E s \in InOrder(Here) :
    position' = [Spread(s) EXCEPT ![r] =
                   Between(Lower(position, r, after, before), At(position, before))]

(* The row being moved is spread with the rest; the row above is not looked *)
(* for again.                                                               *)
ReindexAndPlace(r, after, before) ==
  \E s \in InOrder(Here) :
    LET where == Spread(s) IN
    position' = [where EXCEPT ![r] = Between(Lower(where, r, after, before), At(where, before))]

PlaceInOrder(r, after, before) ==
  LET lower == Lower(position, r, after, before)
      upper == Upper(position, r, after, before)
  IN \/ /\ TooTight(lower, upper)
        /\ ReindexAndPlace(r, after, before)
     \/ /\ ~TooTight(lower, upper)
        /\ position' = [position EXCEPT ![r] = Between(lower, upper)]

-----------------------------------------------------------------------------
(* placeAmong: the siblings in order, without the row being moved.          *)

Where(s, r) == SelectInSeq(s, LAMBDA x : x = r)

PlaceOf(where, s, i) == IF i \in DOMAIN s THEN where[s[i]] ELSE Null

(* The row it goes in front of decides, when both were named.               *)
GapFor(where, s, after, before) ==
  LET inFront == Where(s, before)
      behind == Where(s, after)
  IN CASE inFront # 0 -> [lower |-> PlaceOf(where, s, inFront - 1), upper |-> PlaceOf(where, s, inFront)]
       [] inFront = 0 /\ behind # 0 ->
            [lower |-> PlaceOf(where, s, behind), upper |-> PlaceOf(where, s, behind + 1)]
       [] OTHER -> [lower |-> PlaceOf(where, s, Len(s)), upper |-> Null]

PlaceAmong(r, after, before) ==
  \E s \in InOrder(Others(r)) :
    LET gap == GapFor(position, s, after, before)
        room == GapFor(Spread(s), s, after, before)
    IN position' = IF TooTight(gap.lower, gap.upper)
                     THEN [Spread(s) EXCEPT ![r] = Between(room.lower, room.upper)]
                     ELSE [position EXCEPT ![r] = Between(gap.lower, gap.upper)]

-----------------------------------------------------------------------------

NameAt(s, i) == IF i \in DOMAIN s THEN s[i] ELSE Nobody

(* The two rows a drop lands between on a screen that is up to date.        *)
Adjacent(r) ==
  {<<NameAt(s, i), NameAt(s, i + 1)>> :
     s \in InOrder(Others(r)), i \in 0 .. Cardinality(Others(r))}

(* Two rows a screen showed side by side once, or one, or none.             *)
Requests(r) ==
  IF upToDate THEN Adjacent(r)
  ELSE {p \in ((Row \ {r}) \union {Nobody}) \X ((Row \ {r}) \union {Nobody}) :
          p[1] = p[2] => p[1] = Nobody}

-----------------------------------------------------------------------------
(* A picture: no neighbour is looked for, and the set is never spread.      *)

PlaceBetweenNamed(r, after, before) ==
  /\ r \in Here
  /\ {after, before} \subseteq Here \union {Nobody}
  /\ position' = [position EXCEPT ![r] = Between(At(position, after), At(position, before))]

(* Ahead of whatever is first, itself included.                             *)
PromoteReference(r) ==
  /\ r \in Here
  /\ position' = [position EXCEPT ![r] = Between(Null, Lowest({position[x] : x \in Here}))]

-----------------------------------------------------------------------------

Place(r, after, before) ==
  CASE way = "asked" -> PlaceInOrder(r, after, before)
    [] way = "whole" -> PlaceAmong(r, after, before)
    [] way = "named" -> PlaceBetweenNamed(r, after, before)

Changed(r, after, before) ==
  /\ moves < MaxMoves
  /\ asked' = [row |-> r, after |-> after, before |-> before]
  /\ moves' = moves + 1
  /\ UNCHANGED <<way, upToDate>>

(* A row moved within the set, or into it from another.                     *)
DropBetween(r, after, before) ==
  /\ Changed(r, after, before)
  /\ Place(r, after, before)

Drop(r) == \E p \in Requests(r) : DropBetween(r, p[1], p[2])

Promote(r) ==
  /\ way = "named"
  /\ Changed(r, Nobody, Nobody)
  /\ PromoteReference(r)

(* placeAtEnd: a new row.                                                   *)
Add(r) ==
  /\ r \notin Here
  /\ Changed(r, Nobody, Nobody)
  /\ position' = [position EXCEPT ![r] = Between(LastOf(position, r), Null)]

(* A row deleted, archived or moved to another set.                         *)
Leave(r) ==
  /\ r \in Here
  /\ Changed(r, Nobody, Nobody)
  /\ position' = [position EXCEPT ![r] = Null]

OrderNext == \E r \in Row : Drop(r) \/ Promote(r) \/ Add(r) \/ Leave(r)

OrderSpec == OrderInit /\ [][OrderNext]_orderVars

-----------------------------------------------------------------------------

OrderTypeOK ==
  /\ position \in [Row -> Null .. Step * (Cardinality(Row) + MaxMoves)]
  /\ asked \in [row : Row \union {Nobody}, after : Row \union {Nobody}, before : Row \union {Nobody}]
  /\ way \in Ways /\ upToDate \in BOOLEAN
  /\ moves \in 0 .. MaxMoves

(* No two rows share a position, so everybody sees one order: always in a   *)
(* set read whole, and in the others while no request is behind the set.    *)
PositionsAreDistinct ==
  way = "whole" \/ upToDate => \A r, s \in Here : position[r] = position[s] => r = s

(* "A request that still makes sense when the set has moved on"             *)
(* (placeInOrder): a row named between two that are still there, in that    *)
(* order, lands between them, however far apart they are by now and though  *)
(* the set is spread out on the way.                                        *)
LandsWhereAsked ==
  [][way # "whole" /\ asked'.after # Nobody /\ asked'.before # Nobody =>
       LET a == asked'.after
           b == asked'.before
       IN {a, b} \subseteq Here /\ position[a] < position[b]
            => position'[a] < position'[asked'.row] /\ position'[asked'.row] < position'[b]]_orderVars

(* A drop never changes the order of the rows it does not move.             *)
OthersKeepTheirOrder ==
  [][\A r, s \in Here \intersect Here' :
       r # asked'.row /\ s # asked'.row /\ position[r] < position[s] => position'[r] < position'[s]]_orderVars
=============================================================================
