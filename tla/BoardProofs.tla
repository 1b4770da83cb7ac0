----------------------------- MODULE BoardProofs -----------------------------
(***************************************************************************)
(* Proofs about what is arranged by hand: Board's lists, for any cards,    *)
(* lists, people and limits and every use of the board that Uses allows;   *)
(* Ordering's rows, for any number of them, any step that halves as often  *)
(* as there are moves, and any gap counted as too tight; and Dragging's    *)
(* screens, for any of the six, whoever else moves and hides rows.         *)
(***************************************************************************)
EXTENDS Board, Dragging, SequenceTheorems, FiniteInduction

-----------------------------------------------------------------------------
(* A list taken out of the order, and one put into it.                      *)

LEMMA RemovedAt ==
  ASSUME NEW Thing, NEW s \in Seq(Thing), NEW i \in DOMAIN s
  PROVE  /\ RemoveAt(s, i) \in Seq(Thing)
         /\ Len(RemoveAt(s, i)) = Len(s) - 1
         /\ \A j \in 1 .. Len(s) - 1 : RemoveAt(s, i)[j] = IF j < i THEN s[j] ELSE s[j + 1]
<1> DEFINE front == SubSeq(s, 1, i - 1)
           back == SubSeq(s, i + 1, Len(s))
<1>1. i \in 1 .. Len(s) /\ Len(s) \in Nat /\ \A j \in 1 .. Len(s) : s[j] \in Thing
  OBVIOUS
<1>2. /\ front \in Seq(Thing) /\ Len(front) = i - 1
      /\ \A j \in 1 .. i - 1 : front[j] = s[j]
  <2>1. \A j \in 1 .. i - 1 : s[j] \in Thing
    BY <1>1
  <2> QED
    BY <1>1, <2>1, SubSeqProperties, Z3
<1>3. /\ back \in Seq(Thing) /\ Len(back) = Len(s) - i
      /\ \A j \in 1 .. Len(s) - i : back[j] = s[i + j]
  <2>1. \A j \in i + 1 .. Len(s) : s[j] \in Thing
    BY <1>1
  <2> QED
    BY <1>1, <2>1, SubSeqProperties, Z3
<1> HIDE DEF front, back
<1>4. RemoveAt(s, i) = front \o back
  BY DEF RemoveAt, front, back
<1>5. /\ front \o back \in Seq(Thing)
      /\ Len(front \o back) = Len(front) + Len(back)
      /\ \A j \in 1 .. Len(front) + Len(back) :
           (front \o back)[j] = IF j <= Len(front) THEN front[j] ELSE back[j - Len(front)]
  BY <1>2, <1>3, ConcatProperties
<1> DEFINE r == front \o back
<1>6. ASSUME NEW j \in 1 .. Len(s) - 1 PROVE r[j] = IF j < i THEN s[j] ELSE s[j + 1]
  <2>1. CASE j < i
    <3>1. j \in 1 .. i - 1 /\ j \in 1 .. Len(front) + Len(back) /\ j <= Len(front)
      BY <1>1, <1>2, <1>3, <2>1
    <3>2. r[j] = front[j]
      BY <1>5, <3>1
    <3>3. front[j] = s[j]
      BY <1>2, <3>1
    <3> QED
      BY <2>1, <3>2, <3>3
  <2>2. CASE ~(j < i)
    <3>1. j \in 1 .. Len(front) + Len(back) /\ ~(j <= Len(front))
      BY <1>1, <1>2, <1>3, <2>2
    <3>2. r[j] = back[j - Len(front)]
      BY <1>5, <3>1
    <3>3. j - Len(front) \in 1 .. Len(s) - i /\ i + (j - Len(front)) = j + 1
      BY <1>1, <1>2, <2>2
    <3> QED
      BY <1>3, <2>2, <3>2, <3>3
  <2> QED
    BY <2>1, <2>2
<1>7. r \in Seq(Thing) /\ Len(r) = Len(s) - 1
  BY <1>1, <1>2, <1>3, <1>5
<1>8. RemoveAt(s, i) = r
  BY <1>4
<1> HIDE DEF r
<1> QED
  BY ONLY <1>6, <1>7, <1>8

LEMMA InsertedAt ==
  ASSUME NEW Thing, NEW s \in Seq(Thing), NEW i \in 1 .. Len(s) + 1, NEW l \in Thing
  PROVE  /\ InsertAt(s, i, l) \in Seq(Thing)
         /\ Len(InsertAt(s, i, l)) = Len(s) + 1
         /\ \A j \in 1 .. Len(s) + 1 :
              InsertAt(s, i, l)[j] = IF j < i THEN s[j] ELSE IF j = i THEN l ELSE s[j - 1]
<1> DEFINE front == SubSeq(s, 1, i - 1)
           back == SubSeq(s, i, Len(s))
<1>1. Len(s) \in Nat /\ \A j \in 1 .. Len(s) : s[j] \in Thing
  OBVIOUS
<1>2. /\ front \in Seq(Thing) /\ Len(front) = i - 1
      /\ \A j \in 1 .. i - 1 : front[j] = s[j]
  <2>1. \A j \in 1 .. i - 1 : s[j] \in Thing
    BY <1>1
  <2> QED
    BY <1>1, <2>1, SubSeqProperties, Z3
<1>3. /\ back \in Seq(Thing) /\ Len(back) = Len(s) - i + 1
      /\ \A j \in 1 .. Len(s) - i + 1 : back[j] = s[i + j - 1]
  <2>1. \A j \in i .. Len(s) : s[j] \in Thing
    BY <1>1
  <2> QED
    BY <1>1, <2>1, SubSeqProperties, Z3
<1> HIDE DEF front, back
<1>4. <<l>> \in Seq(Thing) /\ Len(<<l>>) = 1 /\ <<l>>[1] = l
  OBVIOUS
<1> DEFINE start == front \o <<l>>
<1>5. /\ start \in Seq(Thing) /\ Len(start) = i
      /\ \A j \in 1 .. i : start[j] = IF j < i THEN s[j] ELSE l
  BY <1>1, <1>2, <1>4, ConcatProperties
<1>6. InsertAt(s, i, l) = start \o back
  BY DEF InsertAt, front, back
<1> HIDE DEF start
<1>7. /\ start \o back \in Seq(Thing)
      /\ Len(start \o back) = Len(start) + Len(back)
      /\ \A j \in 1 .. Len(start) + Len(back) :
           (start \o back)[j] = IF j <= Len(start) THEN start[j] ELSE back[j - Len(start)]
  BY <1>3, <1>5, ConcatProperties
<1> DEFINE r == start \o back
<1>8. ASSUME NEW j \in 1 .. Len(s) + 1
      PROVE  r[j] = IF j < i THEN s[j] ELSE IF j = i THEN l ELSE s[j - 1]
  <2>1. CASE j <= i
    <3>1. j \in 1 .. i /\ j \in 1 .. Len(start) + Len(back) /\ j <= Len(start)
      BY <1>1, <1>3, <1>5, <2>1
    <3>2. r[j] = start[j]
      BY <1>7, <3>1
    <3>3. start[j] = IF j < i THEN s[j] ELSE l
      BY <1>5, <3>1
    <3> QED
      BY <2>1, <3>2, <3>3
  <2>2. CASE ~(j <= i)
    <3>0. j \in 1 .. Len(start) + Len(back) /\ ~(j <= Len(start)) /\ Len(start) = i
      BY <1>1, <1>3, <1>5, <2>2
    <3>1. r[j] = back[j - i] /\ j - i \in 1 .. Len(s) - i + 1
      BY <1>1, <1>3, <1>7, <2>2, <3>0
    <3> QED
      BY <1>1, <1>3, <2>2, <3>1
  <2> QED
    BY <2>1, <2>2
<1>9. r \in Seq(Thing) /\ Len(r) = Len(s) + 1
  BY <1>1, <1>3, <1>5, <1>7
<1>10. InsertAt(s, i, l) = r
  BY <1>6
<1> HIDE DEF r
<1> QED
  BY ONLY <1>8, <1>9, <1>10

-----------------------------------------------------------------------------
(* The order of the lists.                                                  *)

NoListTwice(s) == \A i, j \in DOMAIN s : s[i] = s[j] => i = j

OrderInv == order \in Seq(List) /\ NoListTwice(order)

(* Archiving takes exactly one list off the board.                          *)
LEMMA WithoutOne ==
  ASSUME OrderInv, NEW l \in Live
  PROVE  /\ Without(l) \in Seq(List) /\ NoListTwice(Without(l))
         /\ Len(Without(l)) = Len(order) - 1
         /\ ToSet(Without(l)) = Live \ {l}
<1> DEFINE n == Len(order)
           s == Without(l)
<1>1. PICK i \in DOMAIN order : order[i] = l /\ s = RemoveAt(order, i)
  BY DEF Live, ToSet, Without
<1>2. n \in Nat /\ DOMAIN order = 1 .. n /\ i \in 1 .. n
  BY DEF OrderInv
<1>3. /\ s \in Seq(List) /\ Len(s) = n - 1
      /\ \A j \in 1 .. n - 1 : s[j] = IF j < i THEN order[j] ELSE order[j + 1]
  BY <1>1, RemovedAt DEF OrderInv
<1> HIDE DEF s, n
<1>4. DOMAIN s = 1 .. n - 1
  BY <1>2, <1>3
<1>5. ASSUME NEW j \in 1 .. n - 1
      PROVE  \E k \in 1 .. n : s[j] = order[k] /\ k # i /\ k = IF j < i THEN j ELSE j + 1
  <2>1. CASE j < i
    BY <1>2, <1>3, <2>1
  <2>2. CASE ~(j < i)
    BY <1>2, <1>3, <2>2
  <2> QED
    BY <2>1, <2>2
<1>6. NoListTwice(s)
  <2> SUFFICES ASSUME NEW j \in 1 .. n - 1, NEW k \in 1 .. n - 1, s[j] = s[k]
               PROVE  j = k
    BY <1>4 DEF NoListTwice
  <2>1. PICK p \in 1 .. n : s[j] = order[p] /\ p # i /\ p = IF j < i THEN j ELSE j + 1
    BY <1>5
  <2>2. PICK q \in 1 .. n : s[k] = order[q] /\ q # i /\ q = IF k < i THEN k ELSE k + 1
    BY <1>5
  <2>3. p = q
    BY <1>2, <2>1, <2>2 DEF OrderInv, NoListTwice
  <2> QED
    BY <1>2, <2>1, <2>2, <2>3
<1>7. ASSUME NEW x \in ToSet(s) PROVE x \in Live \ {l}
  <2>1. PICK j \in 1 .. n - 1 : x = s[j]
    BY <1>4, <1>7 DEF ToSet
  <2>2. PICK k \in 1 .. n : k # i /\ x = order[k]
    BY <1>5, <2>1
  <2> QED
    BY <1>1, <1>2, <2>2 DEF OrderInv, NoListTwice, Live, ToSet
<1>8. ASSUME NEW x \in Live \ {l} PROVE x \in ToSet(s)
  <2>1. PICK k \in 1 .. n : x = order[k] /\ k # i
    BY <1>1, <1>2 DEF Live, ToSet
  <2>2. PICK j \in 1 .. n - 1 : x = s[j]
    <3>1. CASE k < i
      BY <1>2, <1>3, <2>1, <3>1
    <3>2. CASE ~(k < i)
      <4>1. k - 1 \in 1 .. n - 1 /\ ~(k - 1 < i) /\ (k - 1) + 1 = k
        BY <1>2, <2>1, <3>2
      <4> QED
        BY <1>3, <2>1, <4>1
    <3> QED
      BY <3>1, <3>2
  <2> QED
    BY <1>4, <2>2 DEF ToSet
<1>9. ToSet(s) = Live \ {l}
  BY <1>7, <1>8
<1> QED
  BY <1>3, <1>6, <1>9 DEF s, n

(* Moving a list leaves the board with the lists it had.                    *)
LEMMA MovedWithin ==
  ASSUME OrderInv, NEW l \in Live, NEW i \in DOMAIN order
  PROVE  LET s == InsertAt(Without(l), i, l) IN
           s \in Seq(List) /\ NoListTwice(s) /\ ToSet(s) = Live
<1> DEFINE w == Without(l)
           n == Len(w)
           s == InsertAt(w, i, l)
<1>1. /\ w \in Seq(List) /\ NoListTwice(w) /\ n = Len(order) - 1
      /\ ToSet(w) = Live \ {l}
  BY WithoutOne
<1>2. l \in List /\ n \in Nat /\ i \in 1 .. n + 1 /\ DOMAIN w = 1 .. n
  BY <1>1 DEF OrderInv, Live, ToSet
<1> HIDE DEF w
<1>3. /\ s \in Seq(List) /\ Len(s) = n + 1
      /\ \A j \in 1 .. n + 1 : s[j] = IF j < i THEN w[j] ELSE IF j = i THEN l ELSE w[j - 1]
  <2>1. \A k \in 1 .. Len(w) + 1, x \in List :
          /\ InsertAt(w, k, x) \in Seq(List) /\ Len(InsertAt(w, k, x)) = Len(w) + 1
          /\ \A j \in 1 .. Len(w) + 1 :
               InsertAt(w, k, x)[j] = IF j < k THEN w[j] ELSE IF j = k THEN x ELSE w[j - 1]
    BY <1>1, InsertedAt
  <2> QED
    BY <1>2, <2>1
<1>4. DOMAIN s = 1 .. n + 1
  BY <1>2, <1>3
<1>5. \A j \in 1 .. n : w[j] # l
  BY <1>1, <1>2 DEF ToSet
<1> HIDE DEF s, n
<1>6. NoListTwice(s)
  <2> SUFFICES ASSUME NEW j \in 1 .. n + 1, NEW k \in 1 .. n + 1, s[j] = s[k], j < k
               PROVE FALSE
    BY <1>2, <1>4 DEF NoListTwice
  <2>1. CASE j = i
    BY <1>2, <1>3, <1>5, <2>1
  <2>2. CASE k = i
    BY <1>2, <1>3, <1>5, <2>2
  <2>3. CASE j # i /\ k # i
    <3>1. PICK p \in 1 .. n : s[j] = w[p] /\ p = IF j < i THEN j ELSE j - 1
      BY <1>2, <1>3, <2>3
    <3>2. PICK q \in 1 .. n : s[k] = w[q] /\ q = IF k < i THEN k ELSE k - 1
      BY <1>2, <1>3, <2>3
    <3>3. p # q
      BY <1>2, <2>3, <3>1, <3>2
    <3> QED
      BY <1>1, <1>2, <3>1, <3>2, <3>3 DEF NoListTwice
  <2> QED
    BY <2>1, <2>2, <2>3
<1>7. ASSUME NEW x \in ToSet(s) PROVE x \in Live
  <2>1. PICK j \in 1 .. n + 1 : x = s[j]
    BY <1>4, <1>7 DEF ToSet
  <2>2. x = l \/ \E p \in 1 .. n : x = w[p]
    <3>1. CASE j < i
      BY <1>2, <1>3, <2>1, <3>1
    <3>2. CASE j = i
      BY <1>2, <1>3, <2>1, <3>2
    <3>3. CASE i < j
      <4>1. j - 1 \in 1 .. n /\ ~(j < i) /\ j # i
        BY <1>2, <3>3
      <4> QED
        BY <1>3, <2>1, <4>1
    <3> QED
      BY <1>2, <3>1, <3>2, <3>3
  <2> QED
    BY <1>1, <1>2, <2>2 DEF ToSet
<1>8. ASSUME NEW x \in Live PROVE x \in ToSet(s)
  <2>1. CASE x = l
    BY <1>2, <1>3, <1>4, <2>1 DEF ToSet
  <2>2. CASE x # l
    <3>1. PICK p \in 1 .. n : x = w[p]
      BY <1>1, <1>2, <2>2 DEF ToSet
    <3>2. PICK j \in 1 .. n + 1 : x = s[j]
      <4>1. CASE p < i
        BY <1>2, <1>3, <3>1, <4>1
      <4>2. CASE ~(p < i)
        <5>1. p + 1 \in 1 .. n + 1 /\ ~(p + 1 < i) /\ p + 1 # i /\ (p + 1) - 1 = p
          BY <1>2, <4>2
        <5> QED
          BY <1>3, <3>1, <5>1
      <4> QED
        BY <4>1, <4>2
    <3> QED
      BY <1>4, <3>2 DEF ToSet
  <2> QED
    BY <2>1, <2>2
<1>9. ToSet(s) = Live
  BY <1>7, <1>8
<1> QED
  BY <1>3, <1>6, <1>9 DEF s, w

-----------------------------------------------------------------------------
(* Types.                                                                   *)

TypeInv == TypeOK /\ NoListTwice(order)

LEMMA PutIsTyped ==
  ASSUME TypeOK, NEW cards, NEW l \in List, Put(cards, l)
  PROVE  on' \in [Card -> List \union {Nowhere}]
  BY DEF TypeOK, Put

LEMMA TypeInvariance ==
  ASSUME TypeInv, [Next]_vars
  PROVE  TypeInv'
<1> USE DEF TypeInv, TypeOK
<1>1. ASSUME NEW u \in User, NEW work \in Work, Begin(u, work) PROVE TypeInv'
  BY <1>1 DEF Begin, listVars
<1>2. ASSUME NEW u \in User, NEW c \in Card, NEW l \in List, BeginCreate(u, c, l) PROVE TypeInv'
  <2>1. [does |-> "create", cards |-> {c}, to |-> l, closing |-> FALSE] \in Work
    BY DEF Work
  <2> QED
    BY <1>1, <1>2, <2>1 DEF BeginCreate
<1>3. ASSUME NEW u \in User, NEW c \in Card, NEW l \in List, BeginMove(u, c, l) PROVE TypeInv'
  <2>1. [does |-> "move", cards |-> {c}, to |-> l, closing |-> (l = Finishing)] \in Work
    BY DEF Work
  <2> QED
    BY <1>1, <1>3, <2>1 DEF BeginMove
<1>4. ASSUME NEW u \in User, NEW l \in List, BeginArchive(u, l) PROVE TypeInv'
  <2>1. \A cards \in SUBSET Card, d \in List :
          [does |-> "archive", list |-> l, cards |-> cards, to |-> d] \in Work
    BY DEF Work
  <2>2. CardsOn(l) \in SUBSET Card /\ {} \in SUBSET Card
    BY DEF CardsOn
  <2>3. Live \subseteq List
    BY DEF Live, ToSet
  <2> QED
    BY <1>1, <1>4, <2>1, <2>2, <2>3 DEF BeginArchive
<1>5. ASSUME NEW u \in User, CommitCreate(u) PROVE TypeInv'
  <2>1. tx[u] \in Work
    BY <1>5 DEF CommitCreate
  <2>2. tx[u].to \in List
    BY <2>1 DEF Work
  <2> QED
    BY <1>5, <2>2 DEF CommitCreate, Done, listVars
<1>6. ASSUME NEW u \in User, CommitMove(u) PROVE TypeInv'
  <2>1. tx[u] \in Work /\ tx[u].does = "move"
    BY <1>6 DEF CommitMove
  <2>2. tx[u].to \in List /\ tx[u].closing \in BOOLEAN
    BY <2>1 DEF Work
  <2>3. on' \in [Card -> List \union {Nowhere}]
    BY <1>6, <2>2, PutIsTyped DEF CommitMove
  <2> QED
    BY <1>6, <2>2, <2>3 DEF CommitMove, Done, listVars
<1>7. ASSUME NEW u \in User, CommitArchive(u) PROVE TypeInv'
  <2>1. tx[u] \in Work /\ tx[u].does = "archive"
    BY <1>7 DEF CommitArchive
  <2>2. tx[u].to \in List /\ tx[u].list \in List
    BY <2>1 DEF Work
  <2>3. on' \in [Card -> List \union {Nowhere}]
    BY <1>7, <2>2, PutIsTyped DEF CommitArchive
  <2>4. order' \in Seq(List) /\ NoListTwice(order')
    BY <1>7, WithoutOne DEF CommitArchive, OrderInv
  <2> QED
    BY <1>7, <2>2, <2>3, <2>4 DEF CommitArchive, Done
<1>8. ASSUME NEW u \in User, Rollback(u) PROVE TypeInv'
  BY <1>8 DEF Rollback, Done, listVars
<1>9. ASSUME NEW c \in Card, DeleteCard(c) PROVE TypeInv'
  BY <1>9 DEF DeleteCard, listVars
<1>10. ASSUME NEW l \in List, NEW limit \in WipLimits \union {NoLimit},
              CreateList(l, limit) \/ UpdateList(l, limit)
       PROVE  TypeInv'
  <2>1. order' \in Seq(List)
    BY <1>10 DEF CreateList, UpdateList
  <2>2. NoListTwice(order')
    <3>1. CASE UpdateList(l, limit)
      BY <3>1 DEF UpdateList, NoListTwice
    <3>2. CASE CreateList(l, limit)
      <4>1. order' = Append(order, l) /\ l \notin Live
        BY <3>2 DEF CreateList
      <4>2. \A j \in DOMAIN order : order[j] # l
        BY <4>1 DEF Live, ToSet
      <4>3. /\ DOMAIN order = 1..Len(order) /\ Len(order) \in Nat
            /\ DOMAIN order' = 1..(Len(order) + 1)
            /\ order'[Len(order) + 1] = l
            /\ \A j \in 1..Len(order) : order'[j] = order[j]
        BY <4>1
      <4>4. ASSUME NEW i \in DOMAIN order', NEW j \in DOMAIN order',
                   order'[i] = order'[j]
            PROVE  i = j
        <5>1. /\ i \in 1..Len(order) \/ i = Len(order) + 1
              /\ j \in 1..Len(order) \/ j = Len(order) + 1
          BY <4>3
        <5> QED
          BY <4>2, <4>3, <4>4, <5>1 DEF NoListTwice
      <4> QED
        BY <4>4 DEF NoListTwice
    <3> QED
      BY <1>10, <3>1, <3>2
  <2> QED
    BY <1>10, <2>1, <2>2 DEF CreateList, UpdateList
<1>11. ASSUME NEW l \in List, NEW i \in DOMAIN order, MoveList(l, i) PROVE TypeInv'
  BY <1>11, MovedWithin DEF MoveList, OrderInv
<1>12. CASE UNCHANGED vars
  BY <1>12 DEF vars
<1> QED
  BY <1>2, <1>3, <1>4, <1>5, <1>6, <1>7, <1>8, <1>9, <1>10, <1>11, <1>12 DEF Next, Structure

LEMMA TypeHolds == Spec => []TypeInv
<1>1. Init => TypeInv
  BY BoardAssumption DEF Init, TypeInv, TypeOK, NoListTwice
<1> QED
  BY <1>1, TypeInvariance, PTL DEF Spec

(* Type correctness of every behaviour (Board.TypeOK): lists keep coming    *)
(* and going without one ever being on the board twice.                     *)
THEOREM TypeCorrect == Spec => []TypeOK
  BY TypeHolds, PTL DEF TypeInv

(* How a board is used is settled at its beginning.                         *)
LEMMA UseIsKept ==
  ASSUME [Next]_vars
  PROVE  use' = use
  BY DEF Next, Structure, vars, listVars, BeginCreate, BeginMove, BeginArchive, Begin, CommitCreate,
         CommitMove, CommitArchive, Rollback, DeleteCard, CreateList, MoveList, UpdateList

-----------------------------------------------------------------------------
(* Closed means finished.                                                   *)

(* A board whose lists stay as they are, on the last of which no card is    *)
(* created.                                                                 *)
Fixed == ~use.restructured /\ ~use.bornFinished

Open(u) == tx[u] # NotStarted

(* What is in flight creates cards elsewhere than on the last list, and     *)
(* stamps the cards it moves as the list they go to asks.                   *)
WorkIsRight ==
  \A u \in User : Open(u) =>
    /\ tx[u].does = "create" => tx[u].to # Finishing
    /\ tx[u].does = "move" => tx[u].closing = (tx[u].to = Finishing)
    /\ tx[u].does # "archive"

(* A card being created is nowhere yet and in no other transaction, so that *)
(* nothing can have stamped it when it comes.                               *)
UnbornAreAlone ==
  \A u \in User : Open(u) /\ tx[u].does = "create" =>
    /\ \A c \in tx[u].cards : on[c] = Nowhere
    /\ \A v \in User \ {u} : Open(v) => tx[u].cards \intersect tx[v].cards = {}

StampsAreRight ==
  \A c \in Card : IF on[c] = Nowhere THEN ~closed[c] ELSE closed[c] <=> on[c] = Finishing

FixedInv == WorkIsRight /\ UnbornAreAlone /\ StampsAreRight

(* Only cards that are somewhere can be taken up by a move, and a new card  *)
(* only by one transaction.                                                 *)
LEMMA BeginningKeepsFixed ==
  ASSUME TypeInv, FixedInv, NEW u \in User, NEW work, Begin(u, work),
         work.does \in {"create", "move"},
         work.does = "create" =>
           /\ work.to # Finishing
           /\ \A c \in work.cards : on[c] = Nowhere
           /\ \A v \in User : Open(v) => work.cards \intersect tx[v].cards = {},
         work.does = "move" =>
           /\ work.closing = (work.to = Finishing)
           /\ \A c \in work.cards : on[c] # Nowhere
  PROVE  FixedInv'
<1>1. /\ tx' = [tx EXCEPT ![u] = work] /\ DOMAIN tx = User
      /\ on' = on /\ closed' = closed /\ Finishing' = Finishing
      /\ ~Open(u)
  BY DEF Begin, listVars, Finishing, TypeInv, TypeOK, Open
<1>2. tx'[u] = work /\ \A v \in User \ {u} : tx'[v] = tx[v]
  BY <1>1
<1>3. WorkIsRight'
  BY <1>1, <1>2 DEF WorkIsRight, Open, FixedInv
<1>4. UnbornAreAlone'
  <2> SUFFICES ASSUME NEW v \in User, Open(v)', tx'[v].does = "create"
               PROVE  /\ \A c \in tx'[v].cards : on[c] = Nowhere
                      /\ \A w \in User \ {v} : Open(w)' => tx'[v].cards \intersect tx'[w].cards = {}
    BY <1>1 DEF UnbornAreAlone
  <2>1. CASE v = u
    BY <1>2, <2>1 DEF Open
  <2>2. CASE v # u
    <3>1. /\ \A c \in tx[v].cards : on[c] = Nowhere
          /\ \A w \in User \ {v} : Open(w) => tx[v].cards \intersect tx[w].cards = {}
      BY <1>2, <2>2 DEF FixedInv, UnbornAreAlone, Open
    <3>2. tx[v].cards \intersect work.cards = {}
      BY <1>2, <2>2, <3>1 DEF Open
    <3> QED
      BY <1>2, <2>2, <3>1, <3>2 DEF Open
  <2> QED
    BY <2>1, <2>2
<1>5. StampsAreRight'
  BY <1>1 DEF FixedInv, StampsAreRight
<1> QED
  BY <1>3, <1>4, <1>5 DEF FixedInv

(* Ending a transaction leaves what the others have in flight as it was, if *)
(* the cards it writes were somewhere before or in no other transaction.    *)
LEMMA EndingKeepsFixed ==
  ASSUME TypeInv, FixedInv, NEW u \in User, Done(u), Finishing' = Finishing,
         \A c \in Card : on'[c] # on[c] => on[c] # Nowhere \/ (Open(u) /\ tx[u].does = "create" /\ c \in tx[u].cards),
         \A c \in Card : on'[c] # on[c] => on'[c] # Nowhere
  PROVE  WorkIsRight' /\ UnbornAreAlone'
<1>1. tx'[u] = NotStarted /\ \A v \in User \ {u} : tx'[v] = tx[v]
  BY DEF Done, TypeInv, TypeOK
<1>2. WorkIsRight'
  BY <1>1 DEF WorkIsRight, Open, FixedInv
<1>3. ASSUME NEW v \in User, Open(v)', tx'[v].does = "create"
      PROVE  /\ \A c \in tx'[v].cards : on'[c] = Nowhere
             /\ \A w \in User \ {v} : Open(w)' => tx'[v].cards \intersect tx'[w].cards = {}
  <2>1. v # u /\ tx'[v] = tx[v] /\ Open(v)
    BY <1>1, <1>3 DEF Open
  <2>2. /\ \A c \in tx[v].cards : on[c] = Nowhere
        /\ \A w \in User \ {v} : Open(w) => tx[v].cards \intersect tx[w].cards = {}
    BY <1>3, <2>1 DEF FixedInv, UnbornAreAlone
  <2>3. tx[v].cards \subseteq Card
    <3>1. tx[v] \in Work
      BY <2>1 DEF Open, TypeInv, TypeOK
    <3> QED
      BY <3>1 DEF Work
  <2>4. \A c \in tx[v].cards : on'[c] = Nowhere
    BY <2>1, <2>2, <2>3
  <2> QED
    BY <1>1, <2>1, <2>2, <2>4 DEF Open
<1>4. UnbornAreAlone'
  BY <1>3 DEF UnbornAreAlone
<1> QED
  BY <1>2, <1>4

LEMMA FixedInductive ==
  ASSUME TypeInv, Fixed, FixedInv, [Next]_vars
  PROVE  FixedInv'
<1>1. ASSUME NEW u \in User, NEW c \in Card, NEW l \in List, BeginCreate(u, c, l)
      PROVE  FixedInv'
  BY <1>1, BeginningKeepsFixed DEF BeginCreate, Fixed, Open
<1>2. ASSUME NEW u \in User, NEW c \in Card, NEW l \in List, BeginMove(u, c, l)
      PROVE  FixedInv'
  BY <1>2, BeginningKeepsFixed DEF BeginMove
<1>3. ASSUME NEW u \in User, CommitCreate(u) PROVE FixedInv'
  <2>1. tx[u] \in Work /\ Open(u) /\ tx[u].does = "create"
    BY <1>3 DEF CommitCreate, TypeInv, TypeOK, Open
  <2>2. tx[u].to \in List /\ tx[u].to # Finishing /\ \A c \in tx[u].cards : on[c] = Nowhere
    BY <2>1 DEF Work, FixedInv, WorkIsRight, UnbornAreAlone
  <2>3. /\ on' = [c \in Card |-> IF c \in tx[u].cards THEN tx[u].to ELSE on[c]]
        /\ closed' = closed /\ Finishing' = Finishing /\ Done(u)
    BY <1>3 DEF CommitCreate, listVars, Finishing
  <2>4. StampsAreRight'
    BY <2>2, <2>3, BoardAssumption DEF FixedInv, StampsAreRight
  <2>5. WorkIsRight' /\ UnbornAreAlone'
    BY <2>1, <2>2, <2>3, BoardAssumption, EndingKeepsFixed
  <2> QED
    BY <2>4, <2>5 DEF FixedInv
<1>4. ASSUME NEW u \in User, CommitMove(u) PROVE FixedInv'
  <2>1. tx[u] \in Work /\ Open(u) /\ tx[u].does = "move"
    BY <1>4 DEF CommitMove, TypeInv, TypeOK, Open
  <2>2. tx[u].to \in List /\ tx[u].closing = (tx[u].to = Finishing)
    BY <2>1 DEF Work, FixedInv, WorkIsRight
  <2>3. /\ on' = [c \in Card |-> IF c \in tx[u].cards /\ on[c] # Nowhere THEN tx[u].to ELSE on[c]]
        /\ closed' = [c \in Card |-> IF c \in tx[u].cards /\ on[c] # Nowhere
                                       THEN tx[u].closing ELSE closed[c]]
        /\ Finishing' = Finishing /\ Done(u)
    BY <1>4 DEF CommitMove, Put, listVars, Finishing
  <2>4. StampsAreRight'
    BY <2>2, <2>3, BoardAssumption DEF FixedInv, StampsAreRight
  <2>5. WorkIsRight' /\ UnbornAreAlone'
    BY <2>2, <2>3, BoardAssumption, EndingKeepsFixed
  <2> QED
    BY <2>4, <2>5 DEF FixedInv
<1>5. ASSUME NEW u \in User, Rollback(u) PROVE FixedInv'
  <2>1. on' = on /\ closed' = closed /\ Finishing' = Finishing /\ Done(u)
    BY <1>5 DEF Rollback, listVars, Finishing
  <2>2. WorkIsRight' /\ UnbornAreAlone'
    BY <2>1, EndingKeepsFixed
  <2> QED
    BY <2>1, <2>2 DEF FixedInv, StampsAreRight
<1>6. ASSUME NEW c \in Card, DeleteCard(c) PROVE FixedInv'
  BY <1>6 DEF DeleteCard, listVars, TypeInv, TypeOK, FixedInv, WorkIsRight, UnbornAreAlone,
              StampsAreRight, Open, Finishing
<1>7. ASSUME UNCHANGED <<order, on, closed, tx>> PROVE FixedInv'
  BY <1>7 DEF FixedInv, WorkIsRight, UnbornAreAlone, StampsAreRight, Open, Finishing
<1> QED
  BY <1>1, <1>2, <1>3, <1>4, <1>5, <1>6, <1>7 DEF Next, Fixed, UpdateList, vars

(* "A card on the list the board finishes on is closed; a card anywhere     *)
(* else is open": always, however many people move cards at once, on a      *)
(* board whose lists stay and on whose last list no card is created         *)
(* (Board.ClosedMeansFinished).                                             *)
THEOREM ClosedIsFinished == Spec => []ClosedMeansFinished
<1>1. Init => (Fixed => FixedInv)
  BY DEF Init, FixedInv, WorkIsRight, UnbornAreAlone, StampsAreRight, Open
<1>2. TypeInv /\ (Fixed => FixedInv) /\ [Next]_vars => (Fixed => FixedInv)'
  BY UseIsKept, FixedInductive DEF Fixed
<1>3. (Fixed => FixedInv) => ClosedMeansFinished
  BY DEF Fixed, FixedInv, StampsAreRight, ClosedMeansFinished
<1> QED
  BY <1>1, <1>2, <1>3, TypeHolds, PTL DEF Spec

-----------------------------------------------------------------------------
(* Open cards are on the board.                                             *)

OpenCardsAreLive == \A c \in Card : on[c] # Nowhere /\ ~closed[c] => on[c] \in Live

OneAtATime == \A u, v \in User : Open(u) /\ Open(v) => u = v

(* What is in flight goes to a list that is still there, and an archive     *)
(* takes every open card of its list to another one.                        *)
WorkGoesSomewhere ==
  \A u \in User : Open(u) =>
    /\ tx[u].to \in Live
    /\ tx[u].does = "archive" =>
         /\ tx[u].list \in Live
         /\ \A c \in Card : on[c] = tx[u].list /\ ~closed[c] => c \in tx[u].cards
         /\ tx[u].cards # {} => tx[u].to # tx[u].list

AloneInv == OpenCardsAreLive /\ OneAtATime /\ WorkGoesSomewhere

LEMMA BeginningAlone ==
  ASSUME TypeInv, use.alone, AloneInv, NEW u \in User, NEW work, Begin(u, work), work.to \in Live,
         work.does = "archive" =>
           /\ work.list \in Live
           /\ \A c \in Card : on[c] = work.list /\ ~closed[c] => c \in work.cards
           /\ work.cards # {} => work.to # work.list
  PROVE  AloneInv'
<1>1. /\ tx' = [tx EXCEPT ![u] = work] /\ DOMAIN tx = User
      /\ on' = on /\ closed' = closed /\ order' = order
      /\ \A v \in User : ~Open(v)
  BY DEF Begin, listVars, TypeInv, TypeOK, Open
<1>2. tx'[u] = work /\ \A v \in User \ {u} : tx'[v] = tx[v]
  BY <1>1
<1>3. Live' = Live
  BY <1>1 DEF Live
<1>4. OpenCardsAreLive'
  BY <1>1, <1>3 DEF AloneInv, OpenCardsAreLive
<1>5. OneAtATime'
  BY <1>1, <1>2 DEF OneAtATime, Open
<1>6. WorkGoesSomewhere'
  <2>1. \A v \in User : Open(v)' => tx'[v] = work
    BY <1>1, <1>2 DEF Open
  <2> QED
    BY <1>1, <1>3, <2>1 DEF WorkGoesSomewhere
<1> QED
  BY <1>4, <1>5, <1>6 DEF AloneInv

LEMMA EndingAlone ==
  ASSUME TypeInv, AloneInv, NEW u \in User, Open(u), Done(u), OpenCardsAreLive'
  PROVE  AloneInv'
<1>1. tx'[u] = NotStarted /\ \A v \in User \ {u} : tx'[v] = tx[v]
  BY DEF Done, TypeInv, TypeOK
<1>2. \A v \in User : ~Open(v)'
  BY <1>1 DEF Open, AloneInv, OneAtATime
<1> QED
  BY <1>2 DEF AloneInv, OneAtATime, WorkGoesSomewhere

(* With nothing in flight, a change of the lists that leaves the live ones  *)
(* live leaves the cards where they may be.                                 *)
LEMMA QuietKeepsAlone ==
  ASSUME TypeInv, AloneInv, tx' = tx, \A v \in User : ~Open(v), Live \subseteq Live',
         \A c \in Card : /\ on'[c] \in {on[c], Nowhere}
                         /\ on'[c] # Nowhere => closed'[c] = closed[c]
  PROVE  AloneInv'
  BY DEF AloneInv, OpenCardsAreLive, OneAtATime, WorkGoesSomewhere, Open

LEMMA AloneInductive ==
  ASSUME TypeInv, use.alone, AloneInv, [Next]_vars
  PROVE  AloneInv'
<1>1. ASSUME NEW u \in User, NEW c \in Card, NEW l \in List,
             BeginCreate(u, c, l) \/ BeginMove(u, c, l)
      PROVE  AloneInv'
  BY <1>1, BeginningAlone DEF BeginCreate, BeginMove
<1>2. ASSUME NEW u \in User, NEW l \in List, BeginArchive(u, l) PROVE AloneInv'
  <2>1. CASE OpenOn(l) = {}
    BY <1>2, <2>1, BeginningAlone DEF BeginArchive, OpenOn, CardsOn
  <2>2. CASE OpenOn(l) # {}
    <3>1. PICK d \in Live \ {l} :
            Begin(u, [does |-> "archive", list |-> l, cards |-> CardsOn(l), to |-> d])
      BY <1>2, <2>2 DEF BeginArchive
    <3>2. l \in Live /\ \A c \in Card : on[c] = l => c \in CardsOn(l)
      BY <1>2 DEF BeginArchive, CardsOn
    <3> QED
      BY <3>1, <3>2, BeginningAlone
  <2> QED
    BY <2>1, <2>2
<1>3. ASSUME NEW u \in User, CommitCreate(u) \/ CommitMove(u) \/ Rollback(u) PROVE AloneInv'
  <2>1. Open(u) /\ tx[u] \in Work /\ tx[u].to \in Live /\ Done(u)
    BY <1>3 DEF CommitCreate, CommitMove, Rollback, Open, TypeInv, TypeOK, AloneInv, WorkGoesSomewhere
  <2>2. Live' = Live
    BY <1>3 DEF CommitCreate, CommitMove, Rollback, listVars, Live
  <2>3. OpenCardsAreLive'
    <3>1. CASE CommitCreate(u)
      BY <2>1, <2>2, <3>1 DEF CommitCreate, AloneInv, OpenCardsAreLive
    <3>2. CASE CommitMove(u)
      BY <2>1, <2>2, <3>2 DEF CommitMove, Put, AloneInv, OpenCardsAreLive
    <3>3. CASE Rollback(u)
      BY <2>2, <3>3 DEF Rollback, AloneInv, OpenCardsAreLive
    <3> QED
      BY <1>3, <3>1, <3>2, <3>3
  <2> QED
    BY <2>1, <2>3, EndingAlone
<1>4. ASSUME NEW u \in User, CommitArchive(u) PROVE AloneInv'
  <2> DEFINE l == tx[u].list
             d == tx[u].to
  <2>1. /\ Open(u) /\ Done(u) /\ d \in Live /\ l \in Live
        /\ (\A c \in Card : on[c] = l /\ ~closed[c] => c \in tx[u].cards)
        /\ (tx[u].cards # {} => d # l)
    BY <1>4 DEF CommitArchive, Open, AloneInv, WorkGoesSomewhere
  <2>2. Live' = Live \ {l}
    BY <1>4, <2>1, WithoutOne DEF CommitArchive, Live, OrderInv, TypeInv, TypeOK
  <2>3. ASSUME NEW c \in Card, on'[c] # Nowhere, ~closed'[c] PROVE on'[c] \in Live'
    <3>1. closed' = closed /\ on'[c] = IF c \in tx[u].cards /\ on[c] # Nowhere THEN d ELSE on[c]
      BY <1>4 DEF CommitArchive, Put
    <3>2. CASE c \in tx[u].cards /\ on[c] # Nowhere
      BY <2>1, <2>2, <3>1, <3>2
    <3>3. CASE ~(c \in tx[u].cards /\ on[c] # Nowhere)
      <4>1. on[c] \in Live
        BY <2>3, <3>1, <3>3 DEF AloneInv, OpenCardsAreLive
      <4>2. on[c] # l
        BY <2>1, <2>3, <3>1, <3>3
      <4> QED
        BY <2>2, <3>1, <3>3, <4>1, <4>2
    <3> QED
      BY <3>2, <3>3
  <2> QED
    BY <2>1, <2>3, EndingAlone DEF OpenCardsAreLive
<1>5. ASSUME NEW c \in Card, DeleteCard(c) PROVE AloneInv'
  BY <1>5, QuietKeepsAlone DEF DeleteCard, Quiet, Open, listVars, Live, TypeInv, TypeOK
<1>6. ASSUME NEW l \in List, NEW limit \in WipLimits \union {NoLimit},
             CreateList(l, limit) \/ UpdateList(l, limit)
      PROVE  AloneInv'
  <2>1. Live \subseteq Live'
    BY <1>6 DEF CreateList, UpdateList, Live, ToSet, TypeInv, TypeOK
  <2> QED
    BY <1>6, <2>1, QuietKeepsAlone DEF CreateList, UpdateList, Quiet, Open
<1>7. ASSUME NEW l \in List, NEW i \in DOMAIN order, MoveList(l, i) PROVE AloneInv'
  <2>1. Live' = Live
    BY <1>7, MovedWithin DEF MoveList, Live, OrderInv, TypeInv, TypeOK
  <2> QED
    BY <1>7, <2>1, QuietKeepsAlone DEF MoveList, Quiet, Open
<1>8. CASE UNCHANGED vars
  BY <1>8 DEF vars, AloneInv, OpenCardsAreLive, OneAtATime, WorkGoesSomewhere, Open, Live
<1> QED
  BY <1>1, <1>2, <1>3, <1>4, <1>5, <1>6, <1>7, <1>8 DEF Next, Structure

(* Where commands come one at a time, archiving a list never leaves open    *)
(* work behind on it, whatever lists are added, moved, limited or archived  *)
(* in between (Board.OpenCardsAreOnTheBoard).                               *)
THEOREM OpenWorkIsOnTheBoard == Spec => []OpenCardsAreOnTheBoard
<1>1. Init => (use.alone => AloneInv)
  BY DEF Init, AloneInv, OpenCardsAreLive, OneAtATime, WorkGoesSomewhere, Open
<1>2. TypeInv /\ (use.alone => AloneInv) /\ [Next]_vars => (use.alone => AloneInv)'
  BY UseIsKept, AloneInductive
<1>3. (use.alone => AloneInv) => OpenCardsAreOnTheBoard
  BY DEF AloneInv, OpenCardsAreLive, OpenCardsAreOnTheBoard
<1> QED
  BY <1>1, <1>2, <1>3, TypeHolds, PTL DEF Spec

-----------------------------------------------------------------------------
(* Limits are kept.                                                         *)

Roomy == {l \in List : HasRoom(l)}

(* What is in flight brings a card to a list that had room when it was      *)
(* read, and has it still.                                                  *)
RoomIsKept ==
  \A u \in User :
    Open(u) /\ tx[u].does # "archive" /\ (\E c \in tx[u].cards : on[c] # tx[u].to)
      => tx[u].to \in Roomy

RoomInv == OneAtATime /\ RoomIsKept

LEMMA BeginningWithRoom ==
  ASSUME TypeInv, use.alone, NEW u \in User, NEW work, Begin(u, work),
         work.does # "archive" /\ (\E c \in work.cards : on[c] # work.to) => work.to \in Roomy
  PROVE  RoomInv'
<1>1. /\ tx' = [tx EXCEPT ![u] = work] /\ DOMAIN tx = User
      /\ on' = on
      /\ \A v \in User : ~Open(v)
  BY DEF Begin, TypeInv, TypeOK, Open
<1>2. \A v \in User : Open(v)' => v = u /\ tx'[v] = work
  BY <1>1 DEF Open
<1>3. Roomy' = Roomy
  BY DEF Begin, listVars, Roomy, HasRoom, OpenOn, CardsOn
<1> QED
  BY <1>1, <1>2, <1>3 DEF RoomInv, OneAtATime, RoomIsKept

LEMMA RoomInductive ==
  ASSUME TypeInv, use.alone, RoomInv, [Next]_vars
  PROVE  RoomInv'
<1>1. ASSUME NEW u \in User, NEW c \in Card, NEW l \in List,
             BeginCreate(u, c, l) \/ BeginMove(u, c, l)
      PROVE  RoomInv'
  BY <1>1, BeginningWithRoom DEF BeginCreate, BeginMove, Roomy
<1>2. ASSUME NEW u \in User, NEW l \in List, BeginArchive(u, l) PROVE RoomInv'
  BY <1>2, BeginningWithRoom DEF BeginArchive
<1>3. ASSUME NEW u \in User, Open(u), Done(u) PROVE RoomInv'
  <2>1. tx'[u] = NotStarted /\ \A v \in User \ {u} : tx'[v] = tx[v]
    BY <1>3 DEF Done, TypeInv, TypeOK
  <2>2. \A v \in User : ~Open(v)'
    BY <1>3, <2>1 DEF Open, RoomInv, OneAtATime
  <2> QED
    BY <2>2 DEF RoomInv, OneAtATime, RoomIsKept
<1>4. ASSUME tx' = tx, \A v \in User : ~Open(v) PROVE RoomInv'
  BY <1>4 DEF RoomInv, OneAtATime, RoomIsKept, Open
<1>5. CASE UNCHANGED vars
  <2>1. Roomy' = Roomy
    BY <1>5 DEF vars, Roomy, HasRoom, OpenOn, CardsOn
  <2> QED
    BY <1>5, <2>1 DEF vars, RoomInv, OneAtATime, RoomIsKept, Open
<1> QED
  BY <1>1, <1>2, <1>3, <1>4, <1>5
     DEF Next, Structure, CommitCreate, CommitMove, CommitArchive, Rollback, Open,
         DeleteCard, CreateList, MoveList, UpdateList, Quiet

(* Only a create or a move that commits brings a card to a list without     *)
(* changing which lists there are.                                          *)
LEMMA ArrivalsAreCommits ==
  ASSUME TypeInv, AloneInv, RoomInv, Next
  PROVE  ArrivalsFindRoom(Card)
<1> SUFFICES ASSUME NEW l \in Live \intersect Live', Live' = Live,
                    NEW c \in Card, on[c] # l, on'[c] = l
             PROVE  HasRoom(l)
  BY DEF ArrivalsFindRoom
<1>0. l \in List
  BY DEF Live, ToSet, TypeInv, TypeOK
<1>1. ASSUME NEW u \in User, CommitCreate(u) \/ CommitMove(u) PROVE HasRoom(l)
  <2>1. /\ Open(u) /\ tx[u].does # "archive"
        /\ c \in tx[u].cards /\ l = tx[u].to
    <3>1. CASE CommitCreate(u)
      BY <3>1 DEF CommitCreate, Open
    <3>2. CASE CommitMove(u)
      BY <3>2 DEF CommitMove, Put, Open
    <3> QED
      BY <1>1, <3>1, <3>2
  <2> QED
    BY <2>1 DEF RoomInv, RoomIsKept, Roomy
<1>2. ASSUME NEW u \in User, CommitArchive(u) PROVE HasRoom(l)
  <2>1. tx[u].list \in Live
    BY <1>2 DEF CommitArchive, Open, AloneInv, WorkGoesSomewhere
  <2>2. Live' = Live \ {tx[u].list}
    BY <1>2, <2>1, WithoutOne DEF CommitArchive, Live, OrderInv, TypeInv, TypeOK
  <2> QED
    BY <2>1, <2>2
<1>3. ASSUME NEW d \in Card, DeleteCard(d) PROVE FALSE
  BY <1>3, <1>0, BoardAssumption DEF DeleteCard, TypeInv, TypeOK
<1>4. ASSUME UNCHANGED on PROVE FALSE
  BY <1>4
<1> QED
  BY <1>1, <1>2, <1>3, <1>4
     DEF Next, Structure, BeginCreate, BeginMove, BeginArchive, Begin, Rollback, CreateList,
         MoveList, UpdateList

(* "The whole point of a work-in-progress limit is that it says no": no     *)
(* card comes onto a list that is full, new, dragged or otherwise, where    *)
(* commands come one at a time (Board.ArrivalsRespectTheLimit).             *)
THEOREM ArrivalsFindTheirRoom == Spec => ArrivalsRespectTheLimit
<1> DEFINE Kept == use.alone => ArrivalsFindRoom(Card)
           Inv == TypeInv /\ (use.alone => AloneInv /\ RoomInv)
<1>1. Init => (use.alone => AloneInv /\ RoomInv)
  BY DEF Init, AloneInv, OpenCardsAreLive, OneAtATime, WorkGoesSomewhere, RoomInv, RoomIsKept, Open
<1>2. Inv /\ [Next]_vars => (use.alone => AloneInv /\ RoomInv)'
  BY UseIsKept, AloneInductive, RoomInductive
<1>3. Inv /\ [Next]_vars => [Kept]_vars
  BY ArrivalsAreCommits
<1>4. ArrivalsRespectTheLimit <=> [][Kept]_vars
  BY PTL DEF ArrivalsRespectTheLimit
<1> QED
  BY <1>1, <1>2, <1>3, <1>4, TypeHolds, PTL DEF Spec

-----------------------------------------------------------------------------
(* Places.  After n moves every row sits on a multiple of the gap there may *)
(* be by then, so the next move finds room between any two.                 *)

Gap == CHOOSE gap \in Gaps : TRUE

Bound(n) == Step * (Cardinality(Row) + n)

Multiple(g) == {m * g : m \in Nat \ {0}}

Places(n) == Multiple(Gap[n]) \cap 1 .. Bound(n)

LEMMA GapsHalve ==
  /\ Gap \in [0 .. MaxMoves -> 1 .. Step] /\ Gap[0] = Step
  /\ \A n \in 1 .. MaxMoves : Gap[n - 1] = 2 * Gap[n]
BY OrderAssumption DEF Gap, Gaps

LEMMA MultiplesHalve ==
  ASSUME NEW g \in Nat \ {0}
  PROVE  /\ Multiple(2 * g) \subseteq Multiple(g) /\ Multiple(g) \subseteq Nat \ {0}
         /\ \A x \in Multiple(2 * g) : x \div 2 \in Multiple(g) /\ 2 * (x \div 2) = x
         /\ \A x, y \in Multiple(2 * g) :
              (x + y) \div 2 \in Multiple(g) /\ 2 * ((x + y) \div 2) = x + y
         /\ \A x, y \in Multiple(g) : x + y \in Multiple(g)
<1>1. ASSUME NEW x \in Multiple(g) PROVE x \in Nat \ {0}
  <2>1. PICK m \in Nat \ {0} : x = m * g
    BY DEF Multiple
  <2> QED
    BY <2>1
<1>2. ASSUME NEW x \in Multiple(2 * g)
      PROVE  x \in Multiple(g) /\ x \div 2 \in Multiple(g) /\ 2 * (x \div 2) = x
  <2>1. PICK m \in Nat \ {0} : x = m * (2 * g)
    BY DEF Multiple
  <2>2. m * g \in Nat /\ x = 2 * (m * g) /\ x = (2 * m) * g
    BY <2>1
  <2>3. x \div 2 = m * g
    <3> DEFINE z == m * g
    <3>1. z \in Nat /\ x = 2 * z
      BY <2>2
    <3> HIDE DEF z
    <3>2. x \div 2 = z
      BY <3>1
    <3> QED
      BY <3>2 DEF z
  <2>4. x \in Multiple(g) /\ x \div 2 \in Multiple(g)
    BY <2>2, <2>3 DEF Multiple
  <2> QED
    BY <2>2, <2>3, <2>4
<1>3. ASSUME NEW x \in Multiple(g), NEW y \in Multiple(g)
      PROVE  x + y \in Multiple(g)
  <2>1. PICK m \in Nat \ {0}, k \in Nat \ {0} : x = m * g /\ y = k * g
    BY DEF Multiple
  <2>2. x + y = (m + k) * g /\ m + k \in Nat \ {0}
    BY <2>1
  <2> QED
    BY <2>2 DEF Multiple
<1>4. ASSUME NEW x \in Multiple(2 * g), NEW y \in Multiple(2 * g)
      PROVE  (x + y) \div 2 \in Multiple(g) /\ 2 * ((x + y) \div 2) = x + y
  <2>1. PICK m \in Nat \ {0}, k \in Nat \ {0} : x = m * (2 * g) /\ y = k * (2 * g)
    BY DEF Multiple
  <2>2. x + y = (m + k) * (2 * g) /\ m + k \in Nat \ {0}
    BY <2>1
  <2>3. x + y \in Multiple(2 * g)
    BY <2>2 DEF Multiple
  <2> QED
    BY <1>2, <2>3
<1> QED
  BY <1>1, <1>2, <1>3, <1>4

LEMMA StepIsAPlace ==
  ASSUME NEW n \in 0 .. MaxMoves
  PROVE  Multiple(Step) \subseteq Multiple(Gap[n]) /\ Gap[n] \in Nat \ {0}
<1> USE OrderAssumption
<1> DEFINE Bad == {k \in 0 .. MaxMoves : ~(Multiple(Step) \subseteq Multiple(Gap[k]))}
<1>1. ASSUME Bad # {} PROVE FALSE
  <2> Bad \in SUBSET Nat
    OBVIOUS
  <2> HIDE DEF Bad
  <2>1. PICK k \in Bad : \A l \in Bad : k <= l
    BY <1>1, LeastNumber
  <2> USE DEF Bad
  <2>2. k \in 1 .. MaxMoves /\ k - 1 \in 0 .. MaxMoves /\ k - 1 \notin Bad
    BY <2>1, GapsHalve
  <2>3. Gap[k] \in Nat \ {0} /\ Gap[k - 1] = 2 * Gap[k]
    BY <2>2, GapsHalve
  <2>4. Multiple(Gap[k - 1]) \subseteq Multiple(Gap[k])
    BY <2>3, MultiplesHalve
  <2> QED
    BY <2>1, <2>2, <2>4
<1>2. Gap[n] \in Nat \ {0}
  BY GapsHalve
<1> QED
  BY <1>1, <1>2

LEMMA BoundGrows ==
  ASSUME NEW n \in Nat
  PROVE  /\ Bound(n) \in Nat /\ Bound(n + 1) = Bound(n) + Step
         /\ \A i \in 0 .. Cardinality(Row) : i * Step \in Nat /\ i * Step <= Bound(n)
<1> DEFINE C == Cardinality(Row)
<1>1. C \in Nat /\ Step \in Nat
  BY OrderAssumption, FS_CardinalityType
<1> HIDE DEF C
<1>2. Bound(n) = Step * C + Step * n /\ Bound(n + 1) = Step * (C + (n + 1))
  BY <1>1 DEF Bound, C
<1>3. Step * C \in Nat /\ Step * n \in Nat /\ Step * (C + (n + 1)) = Step * C + Step * n + Step
  BY <1>1
<1>4. ASSUME NEW i \in 0 .. C PROVE i * Step \in Nat /\ i * Step <= Step * C
  <2>1. i \in Nat /\ C - i \in Nat /\ Step * C = i * Step + (C - i) * Step
    BY <1>1
  <2>2. (C - i) * Step \in Nat /\ i * Step \in Nat
    BY <1>1, <2>1
  <2> QED
    BY <1>1, <2>1, <2>2
<1> QED
  BY <1>1, <1>2, <1>3, <1>4 DEF C

LEMMA StepsArePlaces ==
  ASSUME NEW n \in 0 .. MaxMoves
  PROVE  Places(n) \subseteq Nat \ {0} /\ \A i \in 1 .. Cardinality(Row) : i * Step \in Places(n)
<1>1. ASSUME NEW i \in 1 .. Cardinality(Row) PROVE i * Step \in Places(n)
  <2>1. Cardinality(Row) \in Nat /\ n \in Nat /\ Step \in Nat \ {0}
    BY OrderAssumption, FS_CardinalityType
  <2>2. i * Step \in Multiple(Step)
    BY <2>1 DEF Multiple
  <2>3. i * Step \in Nat \ {0}
    BY <2>1, <2>2, MultiplesHalve
  <2>4. i * Step <= Bound(n) /\ Bound(n) \in Nat
    BY <2>1, BoundGrows
  <2> QED
    BY <2>2, <2>3, <2>4, StepIsAPlace DEF Places
<1> QED
  BY <1>1 DEF Places

LEMMA PlacesGrow ==
  ASSUME NEW n \in 0 .. MaxMoves - 1
  PROVE  Places(n) \subseteq Places(n + 1)
<1>1. n \in Nat /\ n + 1 \in 1 .. MaxMoves /\ n + 1 - 1 = n
  BY OrderAssumption
<1>2. Gap[n + 1] \in Nat \ {0} /\ Gap[n] = 2 * Gap[n + 1]
  BY <1>1, GapsHalve
<1>3. Multiple(Gap[n]) \subseteq Multiple(Gap[n + 1])
  BY <1>2, MultiplesHalve
<1>4. Bound(n) \in Nat /\ Bound(n + 1) = Bound(n) + Step /\ Step \in Nat
  BY <1>1, BoundGrows, OrderAssumption
<1> QED
  BY <1>3, <1>4 DEF Places

(* positionBetween, from places there may be after n moves.                 *)
LEMMA BetweenIsAPlace ==
  ASSUME NEW n \in 0 .. MaxMoves - 1,
         NEW lower \in Places(n) \union {Null}, NEW upper \in Places(n) \union {Null}
  PROVE  /\ Between(lower, upper) \in Places(n + 1)
         /\ lower # Null /\ upper # Null /\ lower < upper
              => lower < Between(lower, upper) /\ Between(lower, upper) < upper
         /\ lower # Null /\ upper = Null => lower < Between(lower, upper)
         /\ lower = Null /\ upper # Null => Between(lower, upper) < upper
<1>1. n \in Nat /\ n + 1 \in 1 .. MaxMoves /\ n + 1 - 1 = n /\ Step \in Nat \ {0}
  BY OrderAssumption
<1> DEFINE g == Gap[n + 1]
           b == Bound(n)
<1>2. g \in Nat \ {0} /\ Gap[n] = 2 * g
  BY <1>1, GapsHalve
<1>3. b \in Nat /\ Bound(n + 1) = b + Step
  BY <1>1, BoundGrows
<1>4. Step \in Multiple(g)
  <2>1. Step \in Multiple(Step)
    BY <1>1 DEF Multiple
  <2> QED
    BY <1>1, <2>1, StepIsAPlace
<1>5. Places(n) = Multiple(2 * g) \cap 1 .. b /\ Places(n + 1) = Multiple(g) \cap 1 .. b + Step
  BY <1>2, <1>3 DEF Places
<1> HIDE DEF g, b
<1>6. Null = -1 /\ Null \notin Places(n)
  BY <1>3, <1>5 DEF Null
<1>7. CASE lower = Null /\ upper = Null
  BY <1>1, <1>3, <1>4, <1>5, <1>7 DEF Between
<1>8. CASE lower = Null /\ upper # Null
  <2>1. upper \div 2 \in Multiple(g) /\ 2 * (upper \div 2) = upper /\ upper \in 1 .. b
    BY <1>2, <1>5, <1>8, MultiplesHalve
  <2>2. upper \div 2 \in Nat \ {0}
    BY <1>2, <2>1, MultiplesHalve
  <2>3. Between(lower, upper) = upper \div 2
    BY <1>8 DEF Between
  <2> QED
    BY <1>1, <1>3, <1>5, <1>8, <2>1, <2>2, <2>3
<1>9. CASE lower # Null /\ upper = Null
  <2>1. lower \in Multiple(g) /\ lower \in 1 .. b
    BY <1>2, <1>5, <1>9, MultiplesHalve
  <2>2. lower + Step \in Multiple(g)
    BY <1>2, <1>4, <2>1, MultiplesHalve
  <2>3. Between(lower, upper) = lower + Step
    BY <1>9 DEF Between
  <2> QED
    BY <1>1, <1>3, <1>5, <1>9, <2>1, <2>2, <2>3
<1>10. CASE lower # Null /\ upper # Null
  <2>1. /\ (lower + upper) \div 2 \in Multiple(g) /\ 2 * ((lower + upper) \div 2) = lower + upper
        /\ lower \in 1 .. b /\ upper \in 1 .. b
    BY <1>2, <1>5, <1>10, MultiplesHalve
  <2>2. (lower + upper) \div 2 \in Nat \ {0}
    BY <1>2, <2>1, MultiplesHalve
  <2>3. Between(lower, upper) = (lower + upper) \div 2
    BY <1>10 DEF Between
  <2> QED
    BY <1>1, <1>3, <1>5, <1>10, <2>1, <2>2, <2>3
<1> QED
  BY <1>7, <1>8, <1>9, <1>10

-----------------------------------------------------------------------------
(* Rows in order.                                                           *)

(* The ways to put some rows in a row that never go down.                   *)
Arranged(where, S) ==
  {s \in SetToSeqs(S) : \A i \in 1 .. Len(s) - 1 : where[s[i]] <= where[s[i + 1]]}

LEMMA ArrangedIs ==
  ASSUME NEW where \in [Row -> Int], NEW S \in SUBSET Row, NEW s \in Arranged(where, S)
  PROVE  /\ Len(s) = Cardinality(S) /\ Len(s) \in 0 .. Cardinality(Row) /\ Cardinality(Row) \in Nat
         /\ s \in [1 .. Len(s) -> S] /\ s \in Seq(S) /\ DOMAIN s = 1 .. Len(s)
         /\ \A i, j \in 1 .. Len(s) : i # j => s[i] # s[j]
         /\ \A x \in S : \E i \in 1 .. Len(s) : s[i] = x
         /\ ToSet(s) = S
         /\ \A i, j \in 1 .. Len(s) : i < j => where[s[i]] <= where[s[j]]
<1> DEFINE n == Cardinality(S)
<1>1. IsFiniteSet(S) /\ n \in 0 .. Cardinality(Row) /\ Cardinality(Row) \in Nat
  BY OrderAssumption, FS_CardinalityType, FS_Subset
<1>2. s \in [1 .. n -> S] /\ \A i, j \in 1 .. n : i # j => s[i] # s[j]
  BY DEF Arranged, SetToSeqs
<1> HIDE DEF n
<1>3. s \in Seq(S) /\ Len(s) = n
  BY <1>1, <1>2, LenProperties
<1>4. \A i \in 1 .. n - 1 : where[s[i]] <= where[s[i + 1]]
  BY <1>3 DEF Arranged
<1>5. \A x \in S : \E i \in 1 .. n : s[i] = x
  <2>1. IsFiniteSet(1 .. n) /\ Cardinality(1 .. n) = n
    BY <1>1, FS_Interval
  <2>2. s \in Injection(1 .. n, S)
    BY <1>2 DEF Injection, IsInjective
  <2>3. s \in Surjection(1 .. n, S)
    BY <1>1, <2>1, <2>2, FS_Injection DEF n
  <2> QED
    BY <2>3 DEF Surjection
<1>6. ASSUME NEW i \in 1 .. n, NEW j \in 1 .. n, i < j PROVE where[s[i]] <= where[s[j]]
  <2> DEFINE Bad == {k \in i .. n : ~(where[s[i]] <= where[s[k]])}
  <2>1. ASSUME Bad # {} PROVE FALSE
    <3>1. Bad \in SUBSET Nat
      BY <1>1
    <3> HIDE DEF Bad
    <3>2. PICK k \in Bad : \A l \in Bad : k <= l
      BY <2>1, <3>1, LeastNumber
    <3> USE DEF Bad
    <3>3. s[i] \in Row /\ where[s[i]] \in Int
      BY <1>2
    <3>4. k \in i + 1 .. n
      BY <1>1, <3>2, <3>3
    <3>5. k - 1 \in i .. n /\ k - 1 \in 1 .. n - 1 /\ k - 1 < k /\ k - 1 + 1 = k
      BY <1>1, <3>4
    <3>6. where[s[i]] <= where[s[k - 1]]
      BY <3>2, <3>5
    <3>7. where[s[k - 1]] <= where[s[k]]
      BY <1>4, <3>5
    <3>8. where[s[k - 1]] \in Int /\ where[s[k]] \in Int
      BY <1>2, <3>4, <3>5
    <3> QED
      BY <3>2, <3>3, <3>6, <3>7, <3>8
  <2> QED
    BY <1>1, <1>6, <2>1
<1>7. ToSet(s) = S
  BY <1>2, <1>5 DEF ToSet
<1> QED
  BY <1>1, <1>2, <1>3, <1>5, <1>6, <1>7 DEF n

LEMMA InOrderIs ==
  ASSUME NEW S \in SUBSET Row, NEW s \in InOrder(S), position \in [Row -> Int]
  PROVE  /\ Len(s) = Cardinality(S) /\ Len(s) \in 0 .. Cardinality(Row) /\ Cardinality(Row) \in Nat
         /\ s \in [1 .. Len(s) -> S] /\ s \in Seq(S) /\ DOMAIN s = 1 .. Len(s)
         /\ \A i, j \in 1 .. Len(s) : i # j => s[i] # s[j]
         /\ \A x \in S : \E i \in 1 .. Len(s) : s[i] = x
         /\ ToSet(s) = S
         /\ \A i, j \in 1 .. Len(s) : i < j => position[s[i]] <= position[s[j]]
<1>1. s \in Arranged(position, S)
  BY DEF InOrder, Arranged
<1> QED
  BY ONLY S \in SUBSET Row, position \in [Row -> Int], <1>1, ArrangedIs

(* No two rows of a set share a place.                                      *)
Apart(where, S) == \A x, y \in S : where[x] = where[y] => x = y

(* A sequence goes up.                                                      *)
Climbs(where, s) == \A i, j \in 1 .. Len(s) : i < j => where[s[i]] < where[s[j]]

LEMMA ApartClimbs ==
  ASSUME NEW S \in SUBSET Row, NEW s \in InOrder(S), position \in [Row -> Int], Apart(position, S)
  PROVE  Climbs(position, s)
BY InOrderIs DEF Apart, Climbs

LEMMA SpreadIs ==
  ASSUME NEW S \in SUBSET Row, NEW s \in InOrder(S), position \in [Row -> Int]
  PROVE  LET where == Spread(s) IN
         /\ where \in [Row -> Int] /\ Climbs(where, s)
         /\ \A x \in Row \ S : where[x] = position[x]
         /\ \A n \in 0 .. MaxMoves, x \in S : where[x] \in Places(n)
         /\ \A x, y \in S : position[x] < position[y] => where[x] < where[y]
         /\ Apart(where, S)
<1> DEFINE Index(x) == CHOOSE i \in DOMAIN s : s[i] = x
           where == Spread(s)
<1>1. /\ Len(s) \in 0 .. Cardinality(Row) /\ Cardinality(Row) \in Nat
      /\ s \in [1 .. Len(s) -> S] /\ DOMAIN s = 1 .. Len(s) /\ ToSet(s) = S
      /\ \A i, j \in 1 .. Len(s) : i # j => s[i] # s[j]
      /\ \A x \in S : \E i \in 1 .. Len(s) : s[i] = x
      /\ \A i, j \in 1 .. Len(s) : i < j => position[s[i]] <= position[s[j]]
  BY InOrderIs
<1>2. \A x \in S : Index(x) \in 1 .. Len(s) /\ s[Index(x)] = x
  BY <1>1
<1>3. \A i \in 1 .. Len(s) : Index(s[i]) = i
  BY <1>1, <1>2
<1>4. where = [r \in Row |-> IF r \in S THEN Index(r) * Step ELSE position[r]]
  BY <1>1 DEF Spread
<1> HIDE DEF Index, where
<1>5. Step \in Nat \ {0}
  BY OrderAssumption
<1>6. \A x \in S : where[x] = Index(x) * Step /\ Index(x) * Step \in Int
  BY <1>1, <1>2, <1>4, <1>5
<1>7. where \in [Row -> Int] /\ \A x \in Row \ S : where[x] = position[x]
  BY <1>4, <1>6
<1>8. ASSUME NEW x \in S, NEW y \in S, Index(x) < Index(y) PROVE where[x] < where[y]
  <2>1. PICK a \in Nat, d \in Nat \ {0} : Index(x) = a /\ Index(y) = a + d
    <3>1. Index(x) \in Nat /\ Index(y) \in Nat
      BY <1>1, <1>2
    <3>2. Index(y) - Index(x) \in Nat \ {0} /\ Index(y) = Index(x) + (Index(y) - Index(x))
      BY <1>8, <3>1
    <3> QED
      BY <3>1, <3>2
  <2>2. (a + d) * Step = a * Step + d * Step /\ a * Step \in Nat /\ d * Step \in Nat
    BY <1>5, <2>1
  <2>3. d * Step # 0
    BY <1>5, <2>1
  <2> QED
    BY <1>6, <2>1, <2>2, <2>3
<1>9. Climbs(where, s)
  BY <1>1, <1>3, <1>8 DEF Climbs
<1>10. \A n \in 0 .. MaxMoves, x \in S : where[x] \in Places(n)
  <2>1. \A x \in S : Index(x) \in 1 .. Cardinality(Row)
    BY <1>1, <1>2
  <2> QED
    BY <1>6, <2>1, StepsArePlaces
<1>11. ASSUME NEW x \in S, NEW y \in S, position[x] < position[y] PROVE where[x] < where[y]
  <2>1. Index(x) \in 1 .. Len(s) /\ Index(y) \in 1 .. Len(s) /\ s[Index(x)] = x /\ s[Index(y)] = y
    BY <1>2
  <2>2. position[x] \in Int /\ position[y] \in Int
    OBVIOUS
  <2>3. Index(x) < Index(y)
    BY <1>1, <1>11, <2>1, <2>2
  <2> QED
    BY <1>8, <2>3
<1>12. Apart(where, S)
  <2> SUFFICES ASSUME NEW x \in S, NEW y \in S, where[x] = where[y] PROVE x = y
    BY DEF Apart
  <2>1. Index(x) \in Nat /\ Index(y) \in Nat /\ where[x] \in Int
    BY <1>1, <1>2, <1>7
  <2>2. ~(Index(x) < Index(y)) /\ ~(Index(y) < Index(x))
    BY <1>8, <2>1
  <2> QED
    BY <1>2, <2>1, <2>2
<1> QED
  BY <1>7, <1>9, <1>10, <1>11, <1>12 DEF where

-----------------------------------------------------------------------------
(* Where a row lands.                                                       *)

LEMMA LowestIs ==
  ASSUME NEW S \in SUBSET Nat
  PROVE  /\ S = {} => Lowest(S) = Null
         /\ S # {} => Lowest(S) \in S /\ \A x \in S : Lowest(S) <= x
<1>1. ASSUME S # {} PROVE \E x \in S : \A y \in S : x <= y
  BY <1>1, LeastNumber
<1> QED
  BY <1>1 DEF Lowest, Min

LEMMA HighestIs ==
  ASSUME NEW b \in Nat, NEW S \in SUBSET (1 .. b)
  PROVE  /\ S = {} => Highest(S) = Null
         /\ S # {} => Highest(S) \in S /\ \A x \in S : Highest(S) >= x
<1> DEFINE T == {b - x : x \in S}
<1>1. ASSUME S # {} PROVE \E x \in S : \A y \in S : x >= y
  <2>1. \A x \in S : x \in Nat /\ b - x \in Nat /\ b - (b - x) = x
    OBVIOUS
  <2>5. T \in SUBSET Nat /\ T # {} /\ \A t \in T : b - t \in S
    BY <1>1, <2>1
  <2>2. \A y \in S : b - y \in T
    OBVIOUS
  <2> HIDE DEF T
  <2>3. PICK t \in T : \A u \in T : t <= u
    BY <2>5, LeastNumber
  <2>4. ASSUME NEW y \in S PROVE b - t >= y
    <3>1. t \in Nat /\ t <= b - y /\ y \in Int
      BY <2>5, <2>2, <2>3
    <3> QED
      BY <3>1
  <2> QED
    BY <2>5, <2>3, <2>4
<1> QED
  BY <1>1 DEF Highest, Max

(* Where rows may be before the next move, with the same rows there.        *)
Stands(where) ==
  /\ where \in [Row -> Places(moves) \union {Null}]
  /\ \A x \in Row : where[x] = Null <=> position[x] = Null

OrderShape ==
  /\ moves \in 0 .. MaxMoves
  /\ position \in [Row -> Places(moves) \union {Null}]
  /\ asked \in [row : Row \union {Nobody}, after : Row \union {Nobody}, before : Row \union {Nobody}]
  /\ way \in Ways /\ upToDate \in BOOLEAN

PlaceInv == OrderShape /\ PositionsAreDistinct

LEMMA PlacesAreNumbers ==
  ASSUME moves \in 0 .. MaxMoves
  PROVE  /\ Places(moves) \subseteq Nat \ {0} /\ Null \notin Places(moves) /\ Null \in Int
         /\ Bound(moves) \in Nat /\ Places(moves) \subseteq 1 .. Bound(moves)
BY StepsArePlaces, BoundGrows, OrderAssumption DEF Null, Places

LEMMA WhereItStands ==
  ASSUME moves \in 0 .. MaxMoves, NEW where, Stands(where)
  PROVE  /\ where \in [Row -> Int]
         /\ \A x \in Here : x \in Row /\ where[x] \in Places(moves) /\ where[x] # Null
BY PlacesAreNumbers DEF Stands, Here

LEMMA NeighboursArePlaces ==
  ASSUME moves \in 0 .. MaxMoves, NEW where, Stands(where), NEW r, NEW after, NEW ahead
  PROVE  /\ Lower(where, r, after, ahead) \in Places(moves) \union {Null}
         /\ Upper(where, r, after, ahead) \in Places(moves) \union {Null}
         /\ At(where, after) \in Places(moves) \union {Null}
         /\ At(where, ahead) \in Places(moves) \union {Null}
<1> DEFINE b == Bound(moves)
<1>1. /\ Places(moves) \subseteq 1 .. b /\ b \in Nat
      /\ \A x \in Here : where[x] \in Places(moves)
  BY PlacesAreNumbers, WhereItStands
<1> HIDE DEF b
<1>2. ASSUME NEW S \in SUBSET Here
      PROVE  LET W == {where[x] : x \in S} IN
             Lowest(W) \in Places(moves) \union {Null} /\ Highest(W) \in Places(moves) \union {Null}
  <2> DEFINE W == {where[x] : x \in S}
  <2>1. W \in SUBSET Places(moves)
    BY <1>1
  <2> HIDE DEF W
  <2>2. W \in SUBSET Nat /\ W \in SUBSET (1 .. b)
    BY <1>1, <2>1
  <2>3. Lowest(W) \in Places(moves) \union {Null} /\ Highest(W) \in Places(moves) \union {Null}
    BY <1>1, <2>1, <2>2, LowestIs, HighestIs
  <2> QED
    BY <2>3 DEF W
<1>3. \A x : At(where, x) \in Places(moves) \union {Null}
  BY <1>1 DEF At
<1>4. \A p : FirstAbove(where, r, p) \in Places(moves) \union {Null}
  <2> TAKE p
  <2> DEFINE S == {x \in Others(r) : where[x] > p}
  <2>1. S \in SUBSET Here
    BY DEF Others
  <2> QED
    BY <1>2, <2>1 DEF FirstAbove
<1>5. \A p : LastBelow(where, r, p) \in Places(moves) \union {Null}
  <2> TAKE p
  <2> DEFINE S == {x \in Others(r) : where[x] < p}
  <2>1. S \in SUBSET Here
    BY DEF Others
  <2> QED
    BY <1>2, <2>1 DEF LastBelow
<1>6. LastOf(where, r) \in Places(moves) \union {Null}
  <2>1. Others(r) \in SUBSET Here
    BY DEF Others
  <2> QED
    BY <1>2, <2>1 DEF LastOf
<1> QED
  BY <1>3, <1>4, <1>5, <1>6 DEF Lower, Upper, NeighbourAbove, NeighbourBelow

(* What the database finds above is above, and below below.                 *)
LEMMA NeighboursAreBeyond ==
  ASSUME moves \in 0 .. MaxMoves, NEW where, Stands(where), NEW r, NEW p \in Places(moves)
  PROVE  /\ FirstAbove(where, r, p) # Null => p < FirstAbove(where, r, p)
         /\ LastBelow(where, r, p) # Null => LastBelow(where, r, p) < p
<1> DEFINE b == Bound(moves)
           Above == {where[x] : x \in {x \in Others(r) : where[x] > p}}
           Below == {where[x] : x \in {x \in Others(r) : where[x] < p}}
<1>1. /\ Places(moves) \subseteq 1 .. b /\ b \in Nat
      /\ \A x \in Others(r) : where[x] \in Places(moves)
  BY PlacesAreNumbers, WhereItStands DEF Others
<1> HIDE DEF b
<1>2. /\ Above \in SUBSET (1 .. b) /\ \A y \in Above : p < y
      /\ Below \in SUBSET (1 .. b) /\ \A y \in Below : y < p
  BY <1>1
<1>3. FirstAbove(where, r, p) = Lowest(Above) /\ LastBelow(where, r, p) = Highest(Below)
  BY DEF FirstAbove, LastBelow
<1> HIDE DEF Above, Below
<1>4. Above \in SUBSET Nat
  BY <1>2
<1>5. Above # {} => Lowest(Above) \in Above
  BY <1>4, LowestIs
<1>6. Below # {} => Highest(Below) \in Below
  BY <1>1, <1>2, HighestIs
<1>7. Lowest({}) = Null /\ Highest({}) = Null
  BY DEF Lowest, Highest
<1> QED
  BY <1>2, <1>3, <1>5, <1>6, <1>7

(* Between two that are next to each other there is room from all.          *)
LEMMA ThereIsRoom ==
  ASSUME moves \in 0 .. MaxMoves - 1, NEW where, Stands(where),
         NEW S \in SUBSET Here, NEW s \in InOrder(S), position \in [Row -> Int],
         Climbs(where, s), NEW j \in 0 .. Len(s)
  PROVE  LET b == Between(PlaceOf(where, s, j), PlaceOf(where, s, j + 1)) IN
         b \in Places(moves + 1) /\ \A x \in S : where[x] # b
<1> DEFINE lower == PlaceOf(where, s, j)
           upper == PlaceOf(where, s, j + 1)
           b == Between(lower, upper)
<1>1. /\ Len(s) \in Nat /\ DOMAIN s = 1 .. Len(s) /\ s \in [1 .. Len(s) -> S]
      /\ \A x \in S : \E i \in 1 .. Len(s) : s[i] = x
  <2>1. S \in SUBSET Row
    BY DEF Here
  <2> QED
    BY ONLY <2>1, position \in [Row -> Int], InOrderIs, OrderAssumption
<1>2. moves \in 0 .. MaxMoves /\ moves \in Nat /\ moves + 1 \in 0 .. MaxMoves
  BY OrderAssumption
<1>3. /\ Null \notin Places(moves) /\ Places(moves) \subseteq Int
      /\ \A x \in S : where[x] \in Places(moves) /\ where[x] \in Int
  BY <1>2, PlacesAreNumbers, WhereItStands
<1>4. /\ lower \in Places(moves) \union {Null} /\ upper \in Places(moves) \union {Null}
      /\ lower = IF j = 0 THEN Null ELSE where[s[j]]
      /\ upper = IF j = Len(s) THEN Null ELSE where[s[j + 1]]
  BY <1>1, <1>3 DEF PlaceOf
<1>5. ASSUME lower # Null, upper # Null PROVE lower < upper
  <2>1. j \in 1 .. Len(s) /\ j + 1 \in 1 .. Len(s) /\ j < j + 1
    BY <1>1, <1>4, <1>5
  <2>2. lower = where[s[j]] /\ upper = where[s[j + 1]]
    BY <1>4, <2>1
  <2>3. where[s[j]] < where[s[j + 1]]
    BY <2>1 DEF Climbs
  <2> QED
    BY <2>2, <2>3
<1> HIDE DEF lower, upper
<1>6. /\ b \in Places(moves + 1)
      /\ lower # Null => lower < b
      /\ upper # Null => b < upper
  <2>1. /\ moves \in 0 .. MaxMoves - 1
        /\ lower \in Places(moves) \union {Null} /\ upper \in Places(moves) \union {Null}
    BY <1>4
  <2>2. /\ Between(lower, upper) \in Places(moves + 1)
        /\ lower # Null /\ upper # Null /\ lower < upper
             => lower < Between(lower, upper) /\ Between(lower, upper) < upper
        /\ lower # Null /\ upper = Null => lower < Between(lower, upper)
        /\ lower = Null /\ upper # Null => Between(lower, upper) < upper
    BY ONLY <2>1, BetweenIsAPlace
  <2> QED
    BY <1>5, <2>2
<1> HIDE DEF b
<1>7. ASSUME NEW x \in S PROVE where[x] # b
  <2>1. PICK i \in 1 .. Len(s) : s[i] = x
    BY <1>1
  <2>2. b \in Int /\ where[x] \in Int
    BY <1>2, <1>3, <1>6, StepsArePlaces
  <2>3. CASE i <= j
    <3>1. j # 0 /\ lower = where[s[j]] /\ lower < b /\ j \in 1 .. Len(s) /\ lower # Null
      BY <1>1, <1>3, <1>4, <1>6, <2>3
    <3>2. i = j \/ where[s[i]] < where[s[j]]
      BY <1>1, <2>3, <3>1 DEF Climbs
    <3>3. where[s[j]] \in Int
      BY <1>1, <1>3, <3>1
    <3> QED
      BY <2>1, <2>2, <3>1, <3>2, <3>3
  <2>4. CASE i > j
    <3>1. j # Len(s) /\ upper = where[s[j + 1]] /\ b < upper /\ j + 1 \in 1 .. Len(s) /\ upper # Null
      BY <1>1, <1>3, <1>4, <1>6, <2>4
    <3>2. i = j + 1 \/ where[s[j + 1]] < where[s[i]]
      BY <1>1, <2>4, <3>1 DEF Climbs
    <3>3. where[s[j + 1]] \in Int
      BY <1>1, <1>3, <3>1
    <3> QED
      BY <2>1, <2>2, <3>1, <3>2, <3>3
  <2> QED
    BY <1>1, <2>3, <2>4
<1> QED
  BY <1>6, <1>7 DEF b, lower, upper

(* The other rows stand in their order, and the moved one at b.             *)
Moved(r, where, b) ==
  /\ Stands(where)
  /\ \A x, y \in Others(r) : position[x] < position[y] => where[x] < where[y]
  /\ b \in Places(moves + 1)
  /\ position' = [where EXCEPT ![r] = b]

Landed(after, ahead, where, b) ==
  /\ after \in Here /\ ahead \in Here /\ position[after] < position[ahead]
       => where[after] < b /\ b < where[ahead]
  /\ after \in Here /\ ahead = Nobody => where[after] < b
  /\ after = Nobody /\ ahead \in Here => b < where[ahead]

Clear(r, where, b) == \A x \in Others(r) : where[x] # b

LEMMA StandsNow == ASSUME OrderShape PROVE Stands(position) /\ position \in [Row -> Int]
BY PlacesAreNumbers DEF OrderShape, Stands

LEMMA SpreadStands ==
  ASSUME OrderShape, NEW S \in SUBSET Here, NEW s \in InOrder(S)
  PROVE  /\ Stands(Spread(s)) /\ Climbs(Spread(s), s)
         /\ \A x, y \in S : position[x] < position[y] => Spread(s)[x] < Spread(s)[y]
<1> DEFINE where == Spread(s)
<1>1. position \in [Row -> Int] /\ S \in SUBSET Row /\ moves \in 0 .. MaxMoves
  BY StandsNow DEF Here, OrderShape
<1>2. /\ where \in [Row -> Int] /\ Climbs(where, s)
      /\ \A x \in Row \ S : where[x] = position[x]
      /\ \A x \in S : where[x] \in Places(moves)
      /\ \A x, y \in S : position[x] < position[y] => where[x] < where[y]
  BY <1>1, SpreadIs
<1> HIDE DEF where
<1>3. \A x \in S : where[x] # Null /\ position[x] # Null
  BY <1>1, <1>2, PlacesAreNumbers DEF Here
<1>4. \A x \in Row : where[x] \in Places(moves) \union {Null} /\ (where[x] = Null <=> position[x] = Null)
  BY <1>2, <1>3 DEF OrderShape
<1> QED
  BY <1>2, <1>4 DEF Stands, where

(* The names a request gives, and what stands there.                        *)
LEMMA RequestsName ==
  ASSUME OrderShape, NEW r \in Row, NEW p \in Requests(r)
  PROVE  /\ p[1] \in (Row \ {r}) \union {Nobody} /\ p[2] \in (Row \ {r}) \union {Nobody}
         /\ upToDate => \E s \in InOrder(Others(r)) : \E j \in 0 .. Len(s) :
                          p[1] = NameAt(s, j) /\ p[2] = NameAt(s, j + 1)
<1>1. Others(r) \in SUBSET Row /\ r \notin Others(r) /\ position \in [Row -> Int]
  BY StandsNow DEF Others, Here
<1>2. CASE upToDate
  <2>1. PICK s \in InOrder(Others(r)), j \in 0 .. Cardinality(Others(r)) :
               p = <<NameAt(s, j), NameAt(s, j + 1)>>
    BY <1>2 DEF Requests, Adjacent
  <2>2. Len(s) = Cardinality(Others(r)) /\ DOMAIN s = 1 .. Len(s) /\ s \in [1 .. Len(s) -> Others(r)]
    BY <1>1, InOrderIs
  <2>3. NameAt(s, j) \in Others(r) \union {Nobody} /\ NameAt(s, j + 1) \in Others(r) \union {Nobody}
    BY <2>2 DEF NameAt
  <2> QED
    BY <1>1, <2>1, <2>2, <2>3
<1>3. CASE ~upToDate
  BY <1>3 DEF Requests
<1> QED
  BY <1>2, <1>3

LEMMA NamesStand ==
  ASSUME OrderShape, NEW S \in SUBSET Here, NEW s \in InOrder(S), NEW where, NEW j \in Int
  PROVE  /\ At(where, NameAt(s, j)) = PlaceOf(where, s, j)
         /\ NameAt(s, j) # Nobody <=> j \in 1 .. Len(s)
         /\ NameAt(s, j) \in S \union {Nobody}
<1>1. DOMAIN s = 1 .. Len(s) /\ s \in [1 .. Len(s) -> S] /\ Nobody \notin Row /\ S \in SUBSET Row
  BY InOrderIs, StandsNow, OrderAssumption DEF Here
<1> QED
  BY <1>1 DEF At, NameAt, PlaceOf, Here

(* At the ends the database finds nobody beyond.                            *)
LEMMA NobodyBeyond ==
  ASSUME OrderShape, NEW r \in Row, NEW s \in InOrder(Others(r)), Climbs(position, s), NEW j \in 0 .. Len(s)
  PROVE  /\ Lower(position, r, NameAt(s, j), NameAt(s, j + 1)) = PlaceOf(position, s, j)
         /\ Upper(position, r, NameAt(s, j), NameAt(s, j + 1)) = PlaceOf(position, s, j + 1)
<1> DEFINE S == Others(r)
           after == NameAt(s, j)
           ahead == NameAt(s, j + 1)
<1>1. /\ S \in SUBSET Here /\ S \in SUBSET Row /\ position \in [Row -> Int]
      /\ \A x \in S : position[x] # Null
  BY StandsNow DEF Others, Here
<1>2. /\ Len(s) \in Nat /\ DOMAIN s = 1 .. Len(s) /\ s \in [1 .. Len(s) -> S]
      /\ \A x \in S : \E i \in 1 .. Len(s) : s[i] = x
  BY <1>1, InOrderIs, OrderAssumption
<1>3. /\ At(position, after) = PlaceOf(position, s, j)
      /\ At(position, ahead) = PlaceOf(position, s, j + 1)
  BY <1>1, NamesStand
<1> HIDE DEF S, after, ahead
<1>4. /\ j # 0 => PlaceOf(position, s, j) = position[s[j]] /\ position[s[j]] # Null
      /\ j = 0 => PlaceOf(position, s, j) = Null
      /\ j # Len(s) => PlaceOf(position, s, j + 1) = position[s[j + 1]] /\ position[s[j + 1]] # Null
      /\ j = Len(s) => PlaceOf(position, s, j + 1) = Null
  <2>1. /\ j # 0 => j \in 1 .. Len(s)
        /\ j # Len(s) => j + 1 \in 1 .. Len(s)
        /\ 0 \notin 1 .. Len(s) /\ Len(s) + 1 \notin 1 .. Len(s)
    BY <1>2
  <2>2. \A i \in 1 .. Len(s) : s[i] \in S /\ PlaceOf(position, s, i) = position[s[i]]
    BY <1>2 DEF PlaceOf
  <2> QED
    BY <1>1, <1>2, <2>1, <2>2 DEF PlaceOf
<1>5. Lowest({}) = Null /\ Highest({}) = Null
  BY DEF Lowest, Highest
<1>6. ASSUME j = 0 PROVE NeighbourBelow(position, r, PlaceOf(position, s, 1)) = Null
  <2>1. CASE Len(s) = 0
    <3>1. S = {} /\ PlaceOf(position, s, 1) = Null
      BY <1>2, <1>4, <1>6, <2>1
    <3>2. {position[x] : x \in Others(r)} = {}
      BY <3>1 DEF S
    <3> QED
      BY <1>5, <3>1, <3>2 DEF NeighbourBelow, LastOf
  <2>2. CASE Len(s) # 0
    <3>1. PlaceOf(position, s, 1) = position[s[1]] /\ position[s[1]] # Null /\ s[1] \in S
      BY <1>2, <1>4, <1>6, <2>2
    <3>2. ASSUME NEW x \in S PROVE ~(position[x] < position[s[1]])
      <4>1. PICK i \in 1 .. Len(s) : s[i] = x
        BY <1>2
      <4>2. i = 1 \/ position[s[1]] < position[s[i]]
        BY <1>2, <4>1 DEF Climbs
      <4>3. position[x] \in Int /\ position[s[1]] \in Int
        BY <1>1, <3>1
      <4> QED
        BY <4>1, <4>2, <4>3
    <3>3. {position[x] : x \in {x \in Others(r) : position[x] < position[s[1]]}} = {}
      BY <3>2 DEF S
    <3>4. LastBelow(position, r, position[s[1]]) = Null
      BY <1>5, <3>3 DEF LastBelow
    <3> QED
      BY <3>1, <3>4 DEF NeighbourBelow
  <2> QED
    BY <2>1, <2>2
<1>7. ASSUME j = Len(s) PROVE NeighbourAbove(position, r, PlaceOf(position, s, j)) = Null
  <2>1. CASE j = 0
    BY <1>4, <2>1 DEF NeighbourAbove
  <2>2. CASE j # 0
    <3>1. PlaceOf(position, s, j) = position[s[j]] /\ position[s[j]] # Null /\ s[j] \in S /\ j \in 1 .. Len(s)
      BY <1>2, <1>4, <1>7, <2>2
    <3>2. ASSUME NEW x \in S PROVE ~(position[x] > position[s[j]])
      <4>1. PICK i \in 1 .. Len(s) : s[i] = x
        BY <1>2
      <4>2. i = j \/ i < j
        BY <1>2, <1>7, <4>1
      <4>4. i = j \/ position[s[i]] < position[s[j]]
        BY <3>1, <4>2 DEF Climbs
      <4>3. position[x] \in Int /\ position[s[j]] \in Int
        BY <1>1, <3>1
      <4> QED
        BY <4>1, <4>3, <4>4
    <3>3. {position[x] : x \in {x \in Others(r) : position[x] > position[s[j]]}} = {}
      BY <3>2 DEF S
    <3>4. FirstAbove(position, r, position[s[j]]) = Null
      BY <1>5, <3>3 DEF FirstAbove
    <3> QED
      BY <3>1, <3>4 DEF NeighbourAbove
  <2> QED
    BY <2>1, <2>2
<1>8. Lower(position, r, after, ahead) = PlaceOf(position, s, j)
  BY <1>3, <1>4, <1>6 DEF Lower
<1>9. Upper(position, r, after, ahead) = PlaceOf(position, s, j + 1)
  BY <1>3, <1>4, <1>7 DEF Upper
<1> QED
  BY <1>8, <1>9 DEF after, ahead

LEMMA AskedLands ==
  ASSUME OrderShape, moves < MaxMoves, NEW r \in Row, NEW after, NEW ahead,
         <<after, ahead>> \in Requests(r), PlaceInOrder(r, after, ahead)
  PROVE  \E where, b : /\ Moved(r, where, b) /\ Landed(after, ahead, where, b)
                       /\ upToDate /\ Apart(position, Here) => Clear(r, where, b)
<1> DEFINE lower == Lower(position, r, after, ahead)
           upper == Upper(position, r, after, ahead)
           S == Others(r)
<1>1. /\ moves \in 0 .. MaxMoves /\ moves \in 0 .. MaxMoves - 1 /\ position \in [Row -> Int]
      /\ S \in SUBSET Here /\ S \in SUBSET Row /\ Here \in SUBSET Row /\ Here \in SUBSET Here
      /\ Stands(position)
  BY StandsNow, OrderAssumption DEF OrderShape, Others, Here
<1>2. lower \in Places(moves) \union {Null} /\ upper \in Places(moves) \union {Null}
  BY <1>1, NeighboursArePlaces
<1>3. /\ after \in (Row \ {r}) \union {Nobody} /\ ahead \in (Row \ {r}) \union {Nobody}
      /\ upToDate => \E s \in InOrder(S) : \E j \in 0 .. Len(s) :
                       after = NameAt(s, j) /\ ahead = NameAt(s, j + 1)
  <2> DEFINE p == <<after, ahead>>
  <2>2. p[1] = after /\ p[2] = ahead /\ p \in Requests(r)
    OBVIOUS
  <2> HIDE DEF p
  <2> QED
    BY <2>2, RequestsName
<1>4. ASSUME after # Nobody, ahead # Nobody, {after, ahead} \subseteq Here
      PROVE  /\ \A where : Stands(where) =>
                  /\ Lower(where, r, after, ahead) = where[after]
                  /\ At(where, ahead) = where[ahead]
             /\ upper = position[ahead]
             /\ after \in Here /\ ahead \in Here
  BY <1>1, <1>4, WhereItStands DEF At, Lower, Upper
<1>8. Nobody \notin Here /\ At(position, Nobody) = Null
  BY <1>1, OrderAssumption DEF At
<1>9. ASSUME after \in Here, ahead = Nobody, NEW where, Stands(where)
      PROVE  /\ Lower(where, r, after, ahead) = where[after] /\ where[after] \in Places(moves)
             /\ At(where, ahead) = Null
             /\ upper # Null => position[after] < upper
  <2>1. /\ where[after] \in Places(moves) /\ where[after] # Null
        /\ position[after] \in Places(moves) /\ position[after] # Null
    BY <1>1, <1>9, WhereItStands
  <2>2. /\ Lower(where, r, after, ahead) = where[after] /\ At(where, ahead) = Null
        /\ upper = FirstAbove(position, r, position[after])
    BY <1>8, <1>9, <2>1 DEF Lower, Upper, At, NeighbourAbove
  <2> HIDE DEF upper
  <2> QED
    BY <1>1, <2>1, <2>2, NeighboursAreBeyond
<1>10. ASSUME after = Nobody, ahead \in Here, NEW where, Stands(where)
       PROVE  /\ At(where, ahead) = where[ahead] /\ where[ahead] \in Places(moves)
              /\ LET l == Lower(where, r, after, ahead) IN l # Null => l < where[ahead]
              /\ upper = position[ahead]
  <2>1. /\ where[ahead] \in Places(moves) /\ where[ahead] # Null
        /\ position[ahead] # Null
    BY <1>1, <1>10, WhereItStands
  <2>2. /\ At(where, ahead) = where[ahead] /\ upper = position[ahead]
        /\ Lower(where, r, after, ahead) = LastBelow(where, r, where[ahead])
    BY <1>8, <1>10, <2>1 DEF Lower, Upper, At, NeighbourBelow
  <2> QED
    BY <1>1, <1>10, <2>1, <2>2, NeighboursAreBeyond
<1>5. ASSUME upToDate, Apart(position, Here)
      PROVE  \E s \in InOrder(S) : \E j \in 0 .. Len(s) :
               /\ after = NameAt(s, j) /\ ahead = NameAt(s, j + 1)
               /\ Climbs(position, s)
               /\ lower = PlaceOf(position, s, j) /\ upper = PlaceOf(position, s, j + 1)
  <2>0. PICK s \in InOrder(S) :
          \E j \in 0 .. Len(s) : after = NameAt(s, j) /\ ahead = NameAt(s, j + 1)
    BY <1>3, <1>5
  <2>1. PICK j \in 0 .. Len(s) : after = NameAt(s, j) /\ ahead = NameAt(s, j + 1)
    BY <2>0
  <2>2. Climbs(position, s)
    BY <1>1, <1>5, ApartClimbs DEF Apart
  <2> QED
    BY <2>1, <2>2, NobodyBeyond
<1>6. CASE ~TooTight(lower, upper) /\ position' = [position EXCEPT ![r] = Between(lower, upper)]
  <2> DEFINE b == Between(lower, upper)
  <2>1. Moved(r, position, b)
    BY <1>1, <1>2, <1>6, BetweenIsAPlace DEF Moved
  <2>2. Landed(after, ahead, position, b)
    <3>1. ASSUME after \in Here, ahead \in Here, position[after] < position[ahead]
          PROVE  position[after] < b /\ b < position[ahead]
      BY <1>1, <1>2, <1>4, <1>8, <3>1, BetweenIsAPlace, WhereItStands
    <3>2. ASSUME after \in Here, ahead = Nobody PROVE position[after] < b
      <4>1. lower = position[after] /\ lower # Null /\ (upper # Null => lower < upper)
        BY <1>1, <1>9, <3>2, WhereItStands
      <4> HIDE DEF lower, upper
      <4> QED
        BY <1>1, <1>2, <4>1, BetweenIsAPlace
    <3>3. ASSUME after = Nobody, ahead \in Here PROVE b < position[ahead]
      <4>1. upper = position[ahead] /\ upper # Null /\ (lower # Null => lower < upper)
        BY <1>1, <1>10, <3>3, WhereItStands
      <4> HIDE DEF lower, upper
      <4> QED
        BY <1>1, <1>2, <4>1, BetweenIsAPlace
    <3> QED
      BY <3>1, <3>2, <3>3 DEF Landed
  <2>3. ASSUME upToDate, Apart(position, Here) PROVE Clear(r, position, b)
    <3>0. PICK s \in InOrder(S) : \E j \in 0 .. Len(s) :
            /\ Climbs(position, s)
            /\ lower = PlaceOf(position, s, j) /\ upper = PlaceOf(position, s, j + 1)
      BY <1>5, <2>3
    <3>1. PICK j \in 0 .. Len(s) :
            /\ Climbs(position, s)
            /\ lower = PlaceOf(position, s, j) /\ upper = PlaceOf(position, s, j + 1)
      BY <3>0
    <3> QED
      BY <1>1, <3>1, ThereIsRoom DEF Clear
  <2> QED
    BY <2>1, <2>2, <2>3
<1>7. CASE TooTight(lower, upper) /\ ReindexAndPlace(r, after, ahead)
  <2>1. PICK t \in InOrder(Here) :
          position' = [Spread(t) EXCEPT ![r] = Between(Lower(Spread(t), r, after, ahead), At(Spread(t), ahead))]
    BY <1>7 DEF ReindexAndPlace
  <2> DEFINE where == Spread(t)
             l == Lower(where, r, after, ahead)
             u == At(where, ahead)
             b == Between(l, u)
  <2>2. /\ Stands(where)
        /\ \A x, y \in Here : position[x] < position[y] => where[x] < where[y]
    BY <1>1, SpreadStands
  <2>3. position' = [where EXCEPT ![r] = b]
    BY <2>1
  <2> HIDE DEF where
  <2>4. l \in Places(moves) \union {Null} /\ u \in Places(moves) \union {Null}
    BY <1>1, <2>2, NeighboursArePlaces
  <2>5. Moved(r, where, b)
    BY <1>1, <2>2, <2>3, <2>4, BetweenIsAPlace DEF Moved
  <2>6. Landed(after, ahead, where, b)
    <3>1. ASSUME after \in Here, ahead \in Here, position[after] < position[ahead]
          PROVE  where[after] < b /\ b < where[ahead]
      <4>1. l = where[after] /\ u = where[ahead] /\ after \in Here /\ ahead \in Here
        BY <1>4, <1>8, <2>2, <3>1
      <4>2. l # Null /\ u # Null /\ l < u
        BY <1>1, <2>2, <3>1, <4>1, WhereItStands
      <4> QED
        BY <1>1, <2>4, <4>1, <4>2, BetweenIsAPlace
    <3>2. ASSUME after \in Here, ahead = Nobody PROVE where[after] < b
      <4>1. l = where[after] /\ l # Null /\ u = Null
        BY <1>1, <1>9, <2>2, <3>2, WhereItStands
      <4> HIDE DEF l, u
      <4> QED
        BY <1>1, <2>4, <4>1, BetweenIsAPlace
    <3>3. ASSUME after = Nobody, ahead \in Here PROVE b < where[ahead]
      <4>1. u = where[ahead] /\ u # Null /\ (l # Null => l < u)
        BY <1>1, <1>10, <2>2, <3>3, WhereItStands
      <4> HIDE DEF l, u
      <4> QED
        BY <1>1, <2>4, <4>1, BetweenIsAPlace
    <3> QED
      BY <3>1, <3>2, <3>3 DEF Landed
  <2>7. ASSUME upToDate, Apart(position, Here) PROVE Clear(r, where, b)
    <3>0. PICK s \in InOrder(S) : \E j \in 0 .. Len(s) :
            /\ after = NameAt(s, j) /\ ahead = NameAt(s, j + 1)
            /\ Climbs(position, s)
            /\ lower = PlaceOf(position, s, j) /\ upper = PlaceOf(position, s, j + 1)
      BY <1>5, <2>7
    <3>1. PICK j \in 0 .. Len(s) :
            /\ after = NameAt(s, j) /\ ahead = NameAt(s, j + 1)
            /\ Climbs(position, s)
            /\ lower = PlaceOf(position, s, j) /\ upper = PlaceOf(position, s, j + 1)
      BY <3>0
    <3>2. Len(s) \in Nat /\ DOMAIN s = 1 .. Len(s) /\ s \in [1 .. Len(s) -> S]
      BY <1>1, InOrderIs, OrderAssumption
    <3>3. j \in 1 .. Len(s) /\ j + 1 \in 1 .. Len(s)
      BY <1>7, <3>1, <3>2 DEF TooTight, PlaceOf
    <3>4. Climbs(where, s)
      BY <2>2, <3>1, <3>2 DEF Climbs, Others
    <3>5. after = s[j] /\ ahead = s[j + 1] /\ after \in Here /\ ahead \in Here
      BY <1>1, <3>1, <3>2, <3>3 DEF NameAt
    <3>6. after # Nobody /\ ahead # Nobody
      BY <1>1, <3>5, OrderAssumption
    <3>7. l = PlaceOf(where, s, j) /\ u = PlaceOf(where, s, j + 1)
      BY <1>4, <2>2, <3>2, <3>3, <3>5, <3>6 DEF PlaceOf
    <3> QED
      BY <1>1, <2>2, <3>4, <3>7, ThereIsRoom DEF Clear
  <2> QED
    BY <2>5, <2>6, <2>7
<1> QED
  BY <1>6, <1>7 DEF PlaceInOrder

LEMMA WhereIs ==
  ASSUME NEW s, Len(s) \in Nat, NEW x
  PROVE  Where(s, x) \in 0 .. Len(s)
<1> DEFINE I == {i \in 1 .. Len(s) : s[i] = x}
<1>1. Where(s, x) = IF I # {} THEN Min(I) ELSE 0
  BY DEF Where, SelectInSeq
<1>2. I \in SUBSET Nat /\ I \in SUBSET (1 .. Len(s))
  OBVIOUS
<1> HIDE DEF I
<1>3. I # {} => Min(I) \in I
  BY <1>2, LeastNumber DEF Min
<1>4. CASE I = {}
  BY <1>1, <1>4
<1>5. CASE I # {}
  <2>1. Where(s, x) = Min(I) /\ Min(I) \in 1 .. Len(s)
    BY <1>1, <1>2, <1>3, <1>5
  <2> QED
    BY <2>1
<1> QED
  BY <1>4, <1>5

(* The gap a request finds among its siblings is between two that are next  *)
(* to each other, or at an end.                                             *)
LEMMA GapIsBetweenTwo ==
  ASSUME OrderShape, NEW S \in SUBSET Here, NEW s \in InOrder(S), NEW after, NEW ahead
  PROVE  \E j \in 0 .. Len(s) : \A where :
           LET gap == GapFor(where, s, after, ahead) IN
           gap.lower = PlaceOf(where, s, j) /\ gap.upper = PlaceOf(where, s, j + 1)
<1>1. DOMAIN s = 1 .. Len(s) /\ Len(s) \in Nat
  BY InOrderIs, StandsNow, OrderAssumption DEF Here
<1> DEFINE inFront == Where(s, ahead)
           behind == Where(s, after)
           j == IF inFront # 0 THEN inFront - 1 ELSE IF behind # 0 THEN behind ELSE Len(s)
<1>2. inFront \in 0 .. Len(s) /\ behind \in 0 .. Len(s)
  BY <1>1, WhereIs
<1>3. j \in 0 .. Len(s)
  BY <1>1, <1>2
<1>4. ASSUME NEW where
      PROVE  LET gap == GapFor(where, s, after, ahead) IN
             gap.lower = PlaceOf(where, s, j) /\ gap.upper = PlaceOf(where, s, j + 1)
  <2>1. PlaceOf(where, s, Len(s) + 1) = Null
    BY <1>1 DEF PlaceOf
  <2>2. CASE inFront # 0
    <3>1. GapFor(where, s, after, ahead) =
            [lower |-> PlaceOf(where, s, inFront - 1), upper |-> PlaceOf(where, s, inFront)]
      BY <2>2 DEF GapFor
    <3>2. j = inFront - 1 /\ j + 1 = inFront
      BY <1>2, <2>2
    <3> QED
      BY <3>1, <3>2
  <2>3. CASE inFront = 0 /\ behind # 0
    BY <2>3 DEF GapFor
  <2>4. CASE inFront = 0 /\ behind = 0
    BY <2>1, <2>4 DEF GapFor
  <2> QED
    BY <2>2, <2>3, <2>4
<1> QED
  BY <1>3, <1>4

LEMMA WholeLands ==
  ASSUME OrderShape, moves < MaxMoves, NEW r \in Row, NEW after, NEW ahead,
         PlaceAmong(r, after, ahead)
  PROVE  \E where, b : Moved(r, where, b) /\ (Apart(position, Here) => Clear(r, where, b))
<1> DEFINE S == Others(r)
<1>1. /\ moves \in 0 .. MaxMoves /\ moves \in 0 .. MaxMoves - 1 /\ position \in [Row -> Int]
      /\ S \in SUBSET Here /\ S \in SUBSET Row /\ Stands(position)
  BY StandsNow, OrderAssumption DEF OrderShape, Others, Here
<1>2. PICK s \in InOrder(S) :
        LET gap == GapFor(position, s, after, ahead)
            room == GapFor(Spread(s), s, after, ahead)
        IN position' = IF TooTight(gap.lower, gap.upper)
                         THEN [Spread(s) EXCEPT ![r] = Between(room.lower, room.upper)]
                         ELSE [position EXCEPT ![r] = Between(gap.lower, gap.upper)]
  BY DEF PlaceAmong
<1>3. PICK j \in 0 .. Len(s) : \A where :
        LET gap == GapFor(where, s, after, ahead) IN
        gap.lower = PlaceOf(where, s, j) /\ gap.upper = PlaceOf(where, s, j + 1)
  BY <1>1, GapIsBetweenTwo
<1>4. ASSUME NEW where, Stands(where)
      PROVE  PlaceOf(where, s, j) \in Places(moves) \union {Null}
             /\ PlaceOf(where, s, j + 1) \in Places(moves) \union {Null}
  <2>1. DOMAIN s = 1 .. Len(s) /\ s \in [1 .. Len(s) -> S]
    BY <1>1, InOrderIs
  <2> QED
    BY <1>1, <1>4, <2>1, WhereItStands DEF PlaceOf
<1> DEFINE b(where) == Between(PlaceOf(where, s, j), PlaceOf(where, s, j + 1))
<1>5. ASSUME NEW where, Stands(where),
             \A x, y \in S : position[x] < position[y] => where[x] < where[y],
             position' = [where EXCEPT ![r] = b(where)]
      PROVE  Moved(r, where, b(where)) /\ (Climbs(where, s) => Clear(r, where, b(where)))
  <2>1. b(where) \in Places(moves + 1)
    BY <1>1, <1>4, <1>5, BetweenIsAPlace
  <2>2. ASSUME Climbs(where, s) PROVE Clear(r, where, b(where))
    BY <1>1, <1>5, <2>2, ThereIsRoom DEF Clear
  <2> QED
    BY <1>5, <2>1, <2>2 DEF Moved
<1>6. CASE position' = [Spread(s) EXCEPT ![r] = b(Spread(s))]
  <2>1. /\ Stands(Spread(s)) /\ Climbs(Spread(s), s)
        /\ \A x, y \in S : position[x] < position[y] => Spread(s)[x] < Spread(s)[y]
    BY <1>1, SpreadStands
  <2> QED
    BY <1>5, <1>6, <2>1
<1>7. CASE position' = [position EXCEPT ![r] = b(position)]
  <2>1. Apart(position, Here) => Climbs(position, s)
    BY <1>1, ApartClimbs DEF Apart
  <2> QED
    BY <1>1, <1>5, <1>7, <2>1
<1> QED
  BY <1>2, <1>3, <1>6, <1>7

LEMMA NamedLands ==
  ASSUME OrderShape, moves < MaxMoves, NEW r \in Row, NEW after, NEW ahead,
         <<after, ahead>> \in Requests(r), PlaceBetweenNamed(r, after, ahead)
  PROVE  \E b : /\ Moved(r, position, b) /\ Landed(after, ahead, position, b)
                /\ upToDate /\ Apart(position, Here) => Clear(r, position, b)
<1> DEFINE S == Others(r)
           b == Between(At(position, after), At(position, ahead))
<1>1. /\ moves \in 0 .. MaxMoves /\ moves \in 0 .. MaxMoves - 1 /\ position \in [Row -> Int]
      /\ S \in SUBSET Here /\ S \in SUBSET Row /\ Stands(position)
  BY StandsNow, OrderAssumption DEF OrderShape, Others, Here
<1>2. /\ At(position, after) \in Places(moves) \union {Null}
      /\ At(position, ahead) \in Places(moves) \union {Null}
  BY <1>1, NeighboursArePlaces
<1>3. Moved(r, position, b)
  <2>1. position' = [position EXCEPT ![r] = b]
    BY DEF PlaceBetweenNamed
  <2> HIDE DEF b
  <2>2. b \in Places(moves + 1)
    BY <1>1, <1>2, BetweenIsAPlace DEF b
  <2> QED
    BY <1>1, <2>1, <2>2 DEF Moved
<1>4. Landed(after, ahead, position, b)
  <2>1. Nobody \notin Here /\ At(position, Nobody) = Null
    BY <1>1, OrderAssumption DEF At, Here
  <2>2. \A x \in Here : At(position, x) = position[x] /\ position[x] # Null
    BY DEF At, Here
  <2> HIDE DEF S
  <2> QED
    BY <1>1, <1>2, <2>1, <2>2, BetweenIsAPlace DEF Landed
<1>5. ASSUME upToDate, Apart(position, Here) PROVE Clear(r, position, b)
  <2> DEFINE p == <<after, ahead>>
  <2>1. p[1] = after /\ p[2] = ahead /\ p \in Requests(r)
    OBVIOUS
  <2> HIDE DEF p
  <2>2. PICK s \in InOrder(S) : \E j \in 0 .. Len(s) : after = NameAt(s, j) /\ ahead = NameAt(s, j + 1)
    BY <1>5, <2>1, RequestsName
  <2>3. PICK j \in 0 .. Len(s) : after = NameAt(s, j) /\ ahead = NameAt(s, j + 1)
    BY <2>2
  <2>4. Climbs(position, s)
    BY <1>1, <1>5, ApartClimbs DEF Apart
  <2>5. At(position, after) = PlaceOf(position, s, j) /\ At(position, ahead) = PlaceOf(position, s, j + 1)
    BY <1>1, <2>3, <2>4, NamesStand
  <2> QED
    BY <1>1, <2>4, <2>5, ThereIsRoom DEF Clear
<1> QED
  BY <1>3, <1>4, <1>5

LEMMA PromotedIsFirst ==
  ASSUME OrderShape, moves < MaxMoves, NEW r \in Row, PromoteReference(r)
  PROVE  \E b : Moved(r, position, b) /\ Clear(r, position, b)
<1> DEFINE W == {position[x] : x \in Here}
           b == Between(Null, Lowest(W))
<1>1. /\ moves \in 0 .. MaxMoves /\ moves \in 0 .. MaxMoves - 1 /\ position \in [Row -> Int]
      /\ Stands(position) /\ Places(moves) \subseteq Nat /\ Null \notin Places(moves)
      /\ \A x \in Here : position[x] \in Places(moves)
      /\ Places(moves + 1) \subseteq Nat
  BY StandsNow, WhereItStands, StepsArePlaces, PlacesAreNumbers, OrderAssumption DEF OrderShape
<1>2. W \in SUBSET Nat /\ W \in SUBSET Places(moves) /\ W # {} /\ \A x \in Here : position[x] \in W
  BY <1>1 DEF PromoteReference
<1>3. position' = [position EXCEPT ![r] = b]
  BY DEF PromoteReference
<1> HIDE DEF W
<1>4. Lowest(W) \in Places(moves) /\ \A x \in W : Lowest(W) <= x
  BY <1>2, LowestIs
<1>5. b \in Places(moves + 1) /\ b < Lowest(W)
  BY <1>1, <1>4, BetweenIsAPlace
<1> HIDE DEF b
<1>6. Clear(r, position, b)
  BY <1>1, <1>2, <1>4, <1>5 DEF Clear, Others
<1>7. Moved(r, position, b)
  BY <1>1, <1>3, <1>5 DEF Moved
<1> QED
  BY <1>6, <1>7

LEMMA AddedIsLast ==
  ASSUME OrderShape, moves < MaxMoves, NEW r \in Row,
         position' = [position EXCEPT ![r] = Between(LastOf(position, r), Null)]
  PROVE  \E b : Moved(r, position, b) /\ Clear(r, position, b)
<1> DEFINE W == {position[x] : x \in Others(r)}
           b == Between(Highest(W), Null)
<1>1. /\ moves \in 0 .. MaxMoves /\ moves \in 0 .. MaxMoves - 1 /\ position \in [Row -> Int]
      /\ Stands(position) /\ Null \notin Places(moves)
      /\ \A x \in Others(r) : position[x] \in Places(moves)
      /\ Places(moves) \subseteq 1 .. Bound(moves) /\ Bound(moves) \in Nat
      /\ Places(moves + 1) \subseteq Nat
  BY StandsNow, WhereItStands, StepsArePlaces, PlacesAreNumbers, OrderAssumption DEF OrderShape, Others
<1>2. W \in SUBSET (1 .. Bound(moves)) /\ W \in SUBSET Places(moves) /\ \A x \in Others(r) : position[x] \in W
  BY <1>1
<1>3. position' = [position EXCEPT ![r] = b]
  BY DEF LastOf
<1> HIDE DEF W
<1>4. /\ Highest(W) \in Places(moves) \union {Null}
      /\ W # {} => Highest(W) # Null /\ \A x \in W : Highest(W) >= x
  BY <1>1, <1>2, HighestIs
<1>5. b \in Places(moves + 1) /\ (W # {} => Highest(W) < b)
  BY <1>1, <1>4, BetweenIsAPlace
<1> HIDE DEF b
<1>6. ASSUME NEW x \in Others(r) PROVE position[x] # b
  <2>1. position[x] \in W /\ Highest(W) < b /\ Highest(W) >= position[x] /\ Highest(W) \in Places(moves)
    BY <1>2, <1>4, <1>5
  <2>2. Highest(W) \in Int /\ position[x] \in Int /\ b \in Int
    BY <1>1, <1>2, <1>5, <2>1
  <2> QED
    BY <2>1, <2>2
<1>7. Moved(r, position, b)
  BY <1>1, <1>3, <1>5 DEF Moved
<1> QED
  BY <1>6, <1>7 DEF Clear

-----------------------------------------------------------------------------
(* The inductive invariant.                                                 *)

(* What every move but a departure does.                                    *)
LEMMA AMoveIs ==
  ASSUME OrderShape, NEW r \in Row, Drop(r) \/ Promote(r) \/ Add(r)
  PROVE  /\ moves < MaxMoves /\ moves' = moves + 1 /\ way' = way /\ upToDate' = upToDate
         /\ asked' \in [row : {r}, after : (Row \ {r}) \union {Nobody}, before : (Row \ {r}) \union {Nobody}]
         /\ \E where, b : /\ Moved(r, where, b)
                          /\ way = "whole" \/ Landed(asked'.after, asked'.before, where, b)
                          /\ (way = "whole" \/ upToDate) /\ Apart(position, Here) => Clear(r, where, b)
<1>1. ASSUME Drop(r)
      PROVE  /\ asked' \in [row : {r}, after : (Row \ {r}) \union {Nobody}, before : (Row \ {r}) \union {Nobody}]
             /\ \E where, b : /\ Moved(r, where, b)
                              /\ way = "whole" \/ Landed(asked'.after, asked'.before, where, b)
                              /\ (way = "whole" \/ upToDate) /\ Apart(position, Here) => Clear(r, where, b)
  <2>1. PICK p \in Requests(r) : DropBetween(r, p[1], p[2])
    BY <1>1 DEF Drop
  <2>2. p[1] \in (Row \ {r}) \union {Nobody} /\ p[2] \in (Row \ {r}) \union {Nobody}
    BY RequestsName
  <2>3. /\ asked' = [row |-> r, after |-> p[1], before |-> p[2]]
        /\ moves < MaxMoves /\ Place(r, p[1], p[2])
    BY <2>1 DEF DropBetween, Changed
  <2>4. p = <<p[1], p[2]>>
    <3>1. ASSUME upToDate PROVE p = <<p[1], p[2]>>
      BY <3>1 DEF Requests, Adjacent
    <3>2. ASSUME ~upToDate PROVE p = <<p[1], p[2]>>
      BY <3>2 DEF Requests
    <3> QED
      BY <3>1, <3>2
  <2>5. <<p[1], p[2]>> \in Requests(r)
    BY <2>4
  <2>6. CASE way = "asked"
    <3>1. PlaceInOrder(r, p[1], p[2])
      BY <2>3, <2>6 DEF Place
    <3>2. \E where, b : /\ Moved(r, where, b) /\ Landed(p[1], p[2], where, b)
                        /\ upToDate /\ Apart(position, Here) => Clear(r, where, b)
      BY <2>3, <2>5, <3>1, AskedLands
    <3> QED
      BY <2>2, <2>3, <2>6, <3>2
  <2>7. CASE way = "whole"
    <3>1. PlaceAmong(r, p[1], p[2])
      BY <2>3, <2>7 DEF Place
    <3>2. \E where, b : Moved(r, where, b) /\ (Apart(position, Here) => Clear(r, where, b))
      BY <2>3, <3>1, WholeLands
    <3> QED
      BY <2>2, <2>3, <2>7, <3>2
  <2>8. CASE way = "named"
    <3>1. PlaceBetweenNamed(r, p[1], p[2])
      BY <2>3, <2>8 DEF Place
    <3>2. \E b : /\ Moved(r, position, b) /\ Landed(p[1], p[2], position, b)
                 /\ upToDate /\ Apart(position, Here) => Clear(r, position, b)
      BY <2>3, <2>5, <3>1, NamedLands
    <3> QED
      BY <2>2, <2>3, <2>8, <3>2
  <2> QED
    BY <2>6, <2>7, <2>8 DEF OrderShape, Ways
<1>2. ASSUME Promote(r) \/ Add(r)
      PROVE  /\ asked' = [row |-> r, after |-> Nobody, before |-> Nobody]
             /\ \E b : Moved(r, position, b) /\ Clear(r, position, b)
  <2>1. CASE Promote(r)
    BY <2>1, PromotedIsFirst DEF Promote, Changed
  <2>2. CASE Add(r)
    BY <2>2, AddedIsLast DEF Add, Changed
  <2> QED
    BY <1>2, <2>1, <2>2
<1>3. /\ moves < MaxMoves /\ moves' = moves + 1 /\ way' = way /\ upToDate' = upToDate
  BY DEF Drop, DropBetween, Promote, Add, Changed
<1>4. CASE Drop(r)
  BY <1>1, <1>3, <1>4
<1>5. CASE Promote(r) \/ Add(r)
  <2>1. PICK b : Moved(r, position, b) /\ Clear(r, position, b)
    BY <1>2, <1>5
  <2>2. asked'.after = Nobody /\ asked' \in [row : {r}, after : (Row \ {r}) \union {Nobody}, before : (Row \ {r}) \union {Nobody}]
    BY <1>2, <1>5
  <2>3. Nobody \notin Here /\ asked'.before = Nobody
    BY <1>2, <1>5, OrderAssumption DEF Here
  <2>4. Landed(asked'.after, asked'.before, position, b)
    BY <2>2, <2>3 DEF Landed
  <2> QED
    BY <1>3, <2>1, <2>2, <2>4
<1> QED
  BY <1>4, <1>5

LEMMA WhereItEndsUp ==
  ASSUME OrderShape, NEW r \in Row, moves < MaxMoves, moves' = moves + 1,
         NEW where, NEW b, Moved(r, where, b)
  PROVE  /\ position' \in [Row -> Places(moves') \union {Null}]
         /\ position'[r] = b /\ \A x \in Row \ {r} : position'[x] = where[x]
         /\ Here' = Here \union {r} /\ Others(r) = Here' \ {r}
         /\ \A x \in Others(r) : where[x] \in Int /\ position[x] \in Int
<1>1. moves \in 0 .. MaxMoves - 1 /\ moves + 1 \in 0 .. MaxMoves /\ moves \in 0 .. MaxMoves
  BY OrderAssumption DEF OrderShape
<1>2. Places(moves) \subseteq Places(moves') /\ Null \notin Places(moves')
  <2>1. Places(moves + 1) \subseteq Nat \ {0}
    BY <1>1, StepsArePlaces
  <2> QED
    BY <1>1, <2>1, PlacesGrow DEF Null
<1>3. /\ where \in [Row -> Places(moves) \union {Null}] /\ b \in Places(moves')
      /\ position' = [where EXCEPT ![r] = b]
      /\ \A x \in Row : where[x] = Null <=> position[x] = Null
  BY DEF Moved, Stands
<1>4. /\ position' \in [Row -> Places(moves') \union {Null}]
      /\ position'[r] = b /\ \A x \in Row \ {r} : position'[x] = where[x]
  BY <1>2, <1>3
<1>5. Here' = Here \union {r} /\ Others(r) = Here' \ {r}
  BY <1>2, <1>3, <1>4 DEF Here, Others
<1>6. \A x \in Others(r) : where[x] \in Int /\ position[x] \in Int
  BY <1>1, WhereItStands, StandsNow DEF Moved, Others, Here
<1> QED
  BY <1>4, <1>5, <1>6

LEMMA PlaceInvStep == PlaceInv /\ [OrderNext]_orderVars => PlaceInv'
<1> SUFFICES ASSUME PlaceInv, [OrderNext]_orderVars PROVE PlaceInv'
  OBVIOUS
<1> USE DEF PlaceInv
<1>1. ASSUME NEW r \in Row, Drop(r) \/ Promote(r) \/ Add(r) PROVE PlaceInv'
  <2>1. /\ moves < MaxMoves /\ moves' = moves + 1 /\ way' = way /\ upToDate' = upToDate
        /\ asked' \in [row : {r}, after : (Row \ {r}) \union {Nobody}, before : (Row \ {r}) \union {Nobody}]
    BY <1>1, AMoveIs
  <2>2. PICK where, b : /\ Moved(r, where, b)
                        /\ (way = "whole" \/ upToDate) /\ Apart(position, Here) => Clear(r, where, b)
    BY <1>1, AMoveIs
  <2>3. /\ position' \in [Row -> Places(moves') \union {Null}]
        /\ position'[r] = b /\ \A x \in Row \ {r} : position'[x] = where[x]
        /\ Here' = Here \union {r} /\ Others(r) = Here' \ {r}
        /\ \A x \in Others(r) : where[x] \in Int /\ position[x] \in Int
    BY <2>1, <2>2, WhereItEndsUp
  <2>4. OrderShape'
    <3>1. moves' \in 0 .. MaxMoves
      BY <2>1, OrderAssumption DEF OrderShape
    <3>2. asked' \in [row : Row \union {Nobody}, after : Row \union {Nobody}, before : Row \union {Nobody}]
      BY <2>1
    <3> QED
      BY <2>1, <2>3, <3>1, <3>2 DEF OrderShape
  <2>5. ASSUME way = "whole" \/ upToDate, NEW x \in Here', NEW y \in Here', position'[x] = position'[y]
        PROVE  x = y
    <3>1. Apart(position, Here)
      BY <2>5 DEF PositionsAreDistinct, Apart
    <3>2. Clear(r, where, b) /\ \A u, v \in Others(r) : position[u] < position[v] => where[u] < where[v]
      BY <2>2, <2>5, <3>1 DEF Moved
    <3>3. CASE x = r \/ y = r
      BY <2>3, <2>5, <3>2, <3>3 DEF Clear, Here
    <3>4. CASE x # r /\ y # r
      <4>1. x \in Others(r) /\ y \in Others(r) /\ where[x] = where[y]
        BY <2>3, <2>5, <3>4 DEF Here
      <4>2. ~(position[x] < position[y]) /\ ~(position[y] < position[x])
        BY <2>3, <3>2, <4>1
      <4>3. position[x] = position[y]
        BY <2>3, <4>1, <4>2
      <4> QED
        BY <3>1, <4>1, <4>3 DEF Apart, Others
    <3> QED
      BY <3>3, <3>4
  <2>6. PositionsAreDistinct'
    BY <2>1, <2>5 DEF PositionsAreDistinct
  <2> QED
    BY <2>4, <2>6
<1>2. ASSUME NEW r \in Row, Leave(r) PROVE PlaceInv'
  <2>1. /\ moves < MaxMoves /\ moves' = moves + 1 /\ way' = way /\ upToDate' = upToDate
        /\ asked' = [row |-> r, after |-> Nobody, before |-> Nobody]
        /\ position' = [position EXCEPT ![r] = Null]
    BY <1>2 DEF Leave, Changed
  <2>2. moves \in 0 .. MaxMoves - 1 /\ moves' \in 0 .. MaxMoves
    BY <2>1, OrderAssumption DEF OrderShape
  <2>3. position \in [Row -> Places(moves') \union {Null}]
    BY <2>1, <2>2, PlacesGrow DEF OrderShape
  <2>4. OrderShape'
    BY <2>1, <2>2, <2>3 DEF OrderShape
  <2>5. Here' = Here \ {r} /\ \A x \in Here' : position'[x] = position[x]
    BY <2>1, <2>3 DEF Here
  <2>6. PositionsAreDistinct'
    BY <2>1, <2>5 DEF PositionsAreDistinct
  <2> QED
    BY <2>4, <2>6
<1>3. CASE UNCHANGED orderVars
  BY <1>3 DEF orderVars, OrderShape, PositionsAreDistinct, Here
<1> QED
  BY <1>1, <1>2, <1>3 DEF OrderNext

LEMMA PlaceInvInit == OrderInit => PlaceInv
<1> SUFFICES ASSUME OrderInit PROVE PlaceInv
  OBVIOUS
<1>1. PICK some \in SUBSET Row : \E s \in SetToSeqs(some) :
        position = [r \in Row |-> IF r \in some THEN (CHOOSE i \in DOMAIN s : s[i] = r) * Step ELSE Null]
  BY DEF OrderInit
<1>0. PICK s \in SetToSeqs(some) :
        position = [r \in Row |-> IF r \in some THEN (CHOOSE i \in DOMAIN s : s[i] = r) * Step ELSE Null]
  BY <1>1
<1> DEFINE Index(x) == CHOOSE i \in DOMAIN s : s[i] = x
           n == Cardinality(some)
<1>2. n \in 0 .. Cardinality(Row) /\ Cardinality(Row) \in Nat /\ IsFiniteSet(some)
  BY OrderAssumption, FS_CardinalityType, FS_Subset
<1>3. s \in [1 .. n -> some] /\ \A i, j \in 1 .. n : i # j => s[i] # s[j]
  BY DEF SetToSeqs
<1> HIDE DEF n
<1>4. \A x \in some : \E i \in 1 .. n : s[i] = x
  <2>1. IsFiniteSet(1 .. n) /\ Cardinality(1 .. n) = n
    BY <1>2, FS_Interval
  <2>2. s \in Injection(1 .. n, some)
    BY <1>3 DEF Injection, IsInjective
  <2>3. s \in Surjection(1 .. n, some)
    BY <1>2, <2>1, <2>2, FS_Injection DEF n
  <2> QED
    BY <2>3 DEF Surjection
<1>5. \A x \in some : Index(x) \in 1 .. n /\ s[Index(x)] = x
  BY <1>3, <1>4
<1>6. \A x \in Row : position[x] = IF x \in some THEN Index(x) * Step ELSE Null
  BY <1>0
<1> HIDE DEF Index
<1>7. 0 \in 0 .. MaxMoves /\ Step \in Nat \ {0}
  BY OrderAssumption
<1>8. Places(0) \subseteq Nat \ {0} /\ \A x \in some : Index(x) * Step \in Places(0)
  <2>1. \A x \in some : Index(x) \in 1 .. Cardinality(Row)
    BY <1>2, <1>5
  <2> QED
    BY <1>7, <2>1, StepsArePlaces
<1>9. position \in [Row -> Places(0) \union {Null}] /\ Here = some
  <2>1. \A x \in Row : position[x] \in Places(0) \union {Null} /\ (position[x] # Null <=> x \in some)
    BY <1>6, <1>8 DEF Null
  <2> QED
    BY <1>1, <2>1 DEF Here
<1>10. ASSUME NEW x \in some, NEW y \in some, position[x] = position[y] PROVE x = y
  <2>1. PICK a \in Nat, c \in Nat : a = Index(x) /\ c = Index(y)
    BY <1>5
  <2>2. a * Step = c * Step
    BY <1>6, <1>10, <2>1
  <2>3. a = c
    BY <1>7, <2>2
  <2> QED
    BY <1>5, <2>1, <2>3
<1>11. OrderShape
  BY <1>7, <1>9, OrderAssumption DEF OrderInit, OrderShape
<1>12. PositionsAreDistinct
  BY <1>9, <1>10 DEF PositionsAreDistinct
<1> QED
  BY <1>11, <1>12 DEF PlaceInv

(* Every row that is in a set sits on a multiple of the gap that the moves  *)
(* made so far can have left, above nought and no higher than those moves   *)
(* can have pushed it; no two share one where PositionsAreDistinct says so. *)
THEOREM PlaceInvariant == OrderSpec => []PlaceInv
BY PlaceInvInit, PlaceInvStep, PTL DEF OrderSpec

(* Type correctness (Ordering.OrderTypeOK).                                 *)
THEOREM OrderIsTyped == OrderSpec => []OrderTypeOK
<1>1. PlaceInv => OrderTypeOK
  <2> SUFFICES ASSUME PlaceInv PROVE OrderTypeOK
    OBVIOUS
  <2>1. Cardinality(Row) \in Nat /\ moves \in 0 .. MaxMoves /\ Step \in Nat /\ MaxMoves \in Nat
    BY OrderAssumption, FS_CardinalityType DEF PlaceInv, OrderShape
  <2>2. Bound(moves) <= Bound(MaxMoves) /\ Bound(moves) \in Nat /\ Bound(MaxMoves) \in Nat
    <3> DEFINE c == Cardinality(Row)
    <3>1. PICK d \in Nat : MaxMoves = moves + d
      <4>1. MaxMoves - moves \in Nat /\ MaxMoves = moves + (MaxMoves - moves)
        BY <2>1
      <4> QED
        BY <4>1
    <3>2. Step * (c + (moves + d)) = Step * (c + moves) + Step * d /\ Step * d \in Nat
      BY <2>1
    <3>3. \A n \in Nat : Bound(n) \in Nat
      BY BoundGrows, Zenon
    <3>4. moves \in Nat
      BY <2>1
    <3>5. Bound(moves) \in Nat /\ Bound(MaxMoves) \in Nat
      BY <2>1, <3>3, <3>4
    <3> QED
      BY <3>1, <3>2, <3>5 DEF Bound
  <2>3. Places(moves) \union {Null} \subseteq Null .. Bound(MaxMoves)
    BY <2>1, <2>2, PlacesAreNumbers DEF Null
  <2>4. position \in [Row -> Null .. Bound(MaxMoves)]
    BY <2>3 DEF PlaceInv, OrderShape
  <2> QED
    BY <2>4 DEF PlaceInv, OrderShape, OrderTypeOK, Bound
<1> QED
  BY <1>1, PlaceInvariant, PTL

(* No two rows share a position (Ordering.PositionsAreDistinct): always in  *)
(* a set read whole (place-among.ts), and in the others (place-in-order.ts, *)
(* asset-references.ts) while no request is behind the set, for any rows,   *)
(* any tightness, and a step that halves as often as there are moves.       *)
THEOREM NoTwoShareAPlace == OrderSpec => []PositionsAreDistinct
BY PlaceInvariant, PTL DEF PlaceInv

(* A drop never changes the order of the rows it does not move, though the  *)
(* set is spread on the way (Ordering.OthersKeepTheirOrder).                *)
THEOREM TheRestKeepTheirOrder == OrderSpec => OthersKeepTheirOrder
<1> DEFINE Kept == \A r, s \in Here \cap Here' :
                     r # asked'.row /\ s # asked'.row /\ position[r] < position[s] => position'[r] < position'[s]
<1>1. PlaceInv /\ [OrderNext]_orderVars => [Kept]_orderVars
  <2> SUFFICES ASSUME PlaceInv, OrderNext PROVE Kept
    OBVIOUS
  <2>1. ASSUME NEW r \in Row, Drop(r) \/ Promote(r) \/ Add(r) PROVE Kept
    <3>1. OrderShape
      BY DEF PlaceInv
    <3>2. moves < MaxMoves /\ moves' = moves + 1 /\ asked'.row = r
      BY <2>1, <3>1, AMoveIs
    <3>3. PICK where, b : Moved(r, where, b)
      BY <2>1, <3>1, AMoveIs
    <3>4. /\ \A x \in Row \ {r} : position'[x] = where[x]
          /\ \A u, v \in Others(r) : position[u] < position[v] => where[u] < where[v]
      BY <3>1, <3>2, <3>3, WhereItEndsUp DEF Moved
    <3> QED
      BY <3>2, <3>4 DEF Others, Here
  <2>2. ASSUME NEW r \in Row, Leave(r) PROVE Kept
    <3>1. position' = [position EXCEPT ![r] = Null] /\ asked'.row = r
      BY <2>2 DEF Leave, Changed
    <3>2. \A x \in Row \ {r} : position'[x] = position[x]
      BY <3>1 DEF PlaceInv, OrderShape
    <3> QED
      BY <3>1, <3>2 DEF Here
  <2> QED
    BY <2>1, <2>2 DEF OrderNext
<1> HIDE DEF Kept
<1>2. OrderSpec => [][Kept]_orderVars
  BY <1>1, PlaceInvariant, PTL DEF OrderSpec
<1> QED
  BY <1>2 DEF OthersKeepTheirOrder, Kept

(* A row named between two that are there, in that order, lands between     *)
(* them, however far apart they are by now (Ordering.LandsWhereAsked).      *)
THEOREM DropsLandBetween == OrderSpec => LandsWhereAsked
<1> DEFINE Lands == way # "whole" /\ asked'.after # Nobody /\ asked'.before # Nobody =>
                      LET a == asked'.after
                          b == asked'.before
                      IN {a, b} \subseteq Here /\ position[a] < position[b]
                           => position'[a] < position'[asked'.row] /\ position'[asked'.row] < position'[b]
<1>1. PlaceInv /\ [OrderNext]_orderVars => [Lands]_orderVars
  <2> SUFFICES ASSUME PlaceInv, OrderNext PROVE Lands
    OBVIOUS
  <2>1. ASSUME NEW r \in Row, Drop(r) \/ Promote(r) \/ Add(r) PROVE Lands
    <3>1. OrderShape
      BY DEF PlaceInv
    <3>2. moves < MaxMoves /\ moves' = moves + 1 /\ asked'.row = r
      BY <2>1, <3>1, AMoveIs
    <3>3. PICK where, b : Moved(r, where, b) /\ (way = "whole" \/ Landed(asked'.after, asked'.before, where, b))
      BY <2>1, <3>1, AMoveIs
    <3>4. position'[r] = b /\ \A x \in Row \ {r} : position'[x] = where[x]
      BY <3>1, <3>2, <3>3, WhereItEndsUp
    <3>5. asked'.after # r /\ asked'.before # r
      BY <2>1, <3>1, AMoveIs, OrderAssumption
    <3> QED
      BY <3>2, <3>3, <3>4, <3>5 DEF Landed, Here
  <2>2. ASSUME NEW r \in Row, Leave(r) PROVE Lands
    BY <2>2 DEF Leave, Changed
  <2> QED
    BY <2>1, <2>2 DEF OrderNext
<1> HIDE DEF Lands
<1>2. OrderSpec => [][Lands]_orderVars
  BY <1>1, PlaceInvariant, PTL DEF OrderSpec
<1> QED
  BY <1>2 DEF LandsWhereAsked, Lands

-----------------------------------------------------------------------------
(* The rows a screen draws: a line has each of its rows once.               *)

(* Rows in a line, none of them twice.                                      *)
IsLine(s) == s \in Seq(Row) /\ \A i, j \in 1 .. Len(s) : i # j => s[i] # s[j]

(* Where a row is in a line.                                                *)
LEMMA WhereItIs ==
  ASSUME NEW s, Len(s) \in Nat, NEW x
  PROVE  /\ Where(s, x) \in 0 .. Len(s)
         /\ Where(s, x) # 0 => s[Where(s, x)] = x
         /\ Where(s, x) = 0 => \A i \in 1 .. Len(s) : s[i] # x
<1> DEFINE I == {i \in 1 .. Len(s) : s[i] = x}
<1>1. Where(s, x) = IF I # {} THEN Min(I) ELSE 0
  BY DEF Where, SelectInSeq
<1>2. I \in SUBSET Nat /\ \A i \in I : i \in 1 .. Len(s) /\ s[i] = x
  OBVIOUS
<1>3. I = {} => \A i \in 1 .. Len(s) : s[i] # x
  OBVIOUS
<1> HIDE DEF I
<1>4. I # {} => Min(I) \in I
  BY <1>2, LeastNumber DEF Min
<1> HIDE DEF Where
<1>5. CASE I = {}
  BY <1>1, <1>3, <1>5
<1>6. CASE I # {}
  <2>1. Where(s, x) \in 1 .. Len(s) /\ s[Where(s, x)] = x
    BY <1>1, <1>2, <1>4, <1>6
  <2> QED
    BY <2>1
<1> QED
  BY <1>5, <1>6

(* In a line a row stands where it is found.                                *)
LEMMA WhereInALine ==
  ASSUME NEW s, IsLine(s)
  PROVE  /\ Len(s) \in Nat /\ DOMAIN s = 1 .. Len(s)
         /\ \A i \in 1 .. Len(s) : s[i] \in Row /\ s[i] # Nobody /\ Where(s, s[i]) = i
         /\ \A x : Where(s, x) \in 0 .. Len(s) /\ (Where(s, x) # 0 => s[Where(s, x)] = x)
<1>1. Len(s) \in Nat /\ DOMAIN s = 1 .. Len(s) /\ \A i \in 1 .. Len(s) : s[i] \in Row
  BY DEF IsLine
<1>2. \A x : /\ Where(s, x) \in 0 .. Len(s)
             /\ Where(s, x) # 0 => s[Where(s, x)] = x
             /\ Where(s, x) = 0 => \A i \in 1 .. Len(s) : s[i] # x
  BY <1>1, WhereItIs, Zenon
<1>3. ASSUME NEW i \in 1 .. Len(s) PROVE Where(s, s[i]) = i
  <2> DEFINE w == Where(s, s[i])
  <2>1. w \in 0 .. Len(s) /\ (w # 0 => s[w] = s[i]) /\ w # 0
    BY <1>2
  <2> HIDE DEF w
  <2>2. w \in 1 .. Len(s)
    BY <2>1, <1>1
  <2> QED
    BY <2>1, <2>2 DEF IsLine, w
<1>4. \A i \in 1 .. Len(s) : s[i] # Nobody
  BY <1>1, OrderAssumption
<1> QED
  BY <1>1, <1>2, <1>3, <1>4

(* A line is known by its rows, one by one.                                 *)
LEMMA LinesAreSame ==
  ASSUME NEW s, IsLine(s), NEW u, IsLine(u), Len(s) = Len(u), \A i \in 1 .. Len(s) : s[i] = u[i]
  PROVE  s = u
<1>1. s = [i \in DOMAIN s |-> s[i]] /\ u = [i \in DOMAIN u |-> u[i]] /\ DOMAIN s = 1 .. Len(s) /\ DOMAIN u = 1 .. Len(u)
  BY DEF IsLine
<1> QED
  BY <1>1

(* A line without one of its rows.                                          *)
LEMMA LackingIs ==
  ASSUME NEW s, IsLine(s), NEW r \in Row
  PROVE  /\ IsLine(Lacking(s, r))
         /\ \A i \in 1 .. Len(Lacking(s, r)) : Lacking(s, r)[i] # r
         /\ Where(s, r) = 0 => Lacking(s, r) = s
         /\ Where(s, r) # 0 =>
              /\ Len(Lacking(s, r)) = Len(s) - 1
              /\ \A j \in 1 .. Len(s) - 1 :
                   Lacking(s, r)[j] = IF j < Where(s, r) THEN s[j] ELSE s[j + 1]
<1> DEFINE k == Where(s, r)
<1>1. /\ Len(s) \in Nat /\ DOMAIN s = 1 .. Len(s) /\ s \in Seq(Row)
      /\ k \in 0 .. Len(s) /\ (k # 0 => s[k] = r)
      /\ k = 0 => \A i \in 1 .. Len(s) : s[i] # r
      /\ \A i, j \in 1 .. Len(s) : i # j => s[i] # s[j]
  BY WhereItIs, WhereInALine DEF IsLine
<1> HIDE DEF k
<1>2. CASE k = 0
  <2>1. Lacking(s, r) = s
    BY <1>2 DEF Lacking, k
  <2> QED
    BY <1>1, <1>2, <2>1 DEF k
<1>3. CASE k # 0
  <2> DEFINE u == RemoveAt(s, k)
  <2>1. k \in DOMAIN s /\ k \in 1 .. Len(s)
    BY <1>1, <1>3
  <2>2. /\ u \in Seq(Row) /\ Len(u) = Len(s) - 1
        /\ \A j \in 1 .. Len(s) - 1 : u[j] = IF j < k THEN s[j] ELSE s[j + 1]
    BY <1>1, <2>1, RemovedAt
  <2>3. Lacking(s, r) = u
    BY <1>3 DEF Lacking, k
  <2> HIDE DEF u
  <2>4. ASSUME NEW i \in 1 .. Len(u) PROVE u[i] # r
    <3>1. i \in 1 .. Len(s) - 1 /\ i \in 1 .. Len(s) /\ i + 1 \in 1 .. Len(s) /\ s[k] = r
      BY <1>1, <1>3, <2>2
    <3> QED
      BY <1>1, <2>1, <2>2, <3>1
  <2>5. ASSUME NEW i \in 1 .. Len(u), NEW j \in 1 .. Len(u), i < j PROVE u[i] # u[j]
    <3>1. /\ i \in 1 .. Len(s) - 1 /\ i \in 1 .. Len(s) /\ i + 1 \in 1 .. Len(s)
          /\ j \in 1 .. Len(s) - 1 /\ j \in 1 .. Len(s) /\ j + 1 \in 1 .. Len(s)
      BY <1>1, <2>2
    <3> QED
      BY <1>1, <2>1, <2>2, <2>5, <3>1
  <2>6. \A i, j \in 1 .. Len(u) : i # j => u[i] # u[j]
    <3>1. \A i, j \in 1 .. Len(u) : i # j => i < j \/ j < i
      OBVIOUS
    <3> QED
      BY <2>5, <3>1
  <2>7. IsLine(u)
    BY <2>2, <2>6 DEF IsLine
  <2> QED
    BY <1>3, <2>2, <2>3, <2>4, <2>7 DEF k
<1> QED
  BY <1>2, <1>3

(* A line and one row more.                                                 *)
LEMMA InsertedLine ==
  ASSUME NEW s, IsLine(s), NEW r \in Row, \A i \in 1 .. Len(s) : s[i] # r, NEW k \in 1 .. Len(s) + 1
  PROVE  LET u == InsertAt(s, k, r) IN
         /\ IsLine(u) /\ Len(u) = Len(s) + 1 /\ u[k] = r
         /\ \A j \in 1 .. Len(s) : IF j < k THEN u[j] = s[j] ELSE u[j + 1] = s[j]
         /\ Where(u, r) = k
         /\ Lacking(u, r) = s
         /\ Placement(u, r) = Between2(s, r, k - 1)
<1> DEFINE u == InsertAt(s, k, r)
<1>1. Len(s) \in Nat /\ DOMAIN s = 1 .. Len(s) /\ s \in Seq(Row) /\ \A i, j \in 1 .. Len(s) : i # j => s[i] # s[j]
  BY DEF IsLine
<1>2. /\ u \in Seq(Row) /\ Len(u) = Len(s) + 1
      /\ \A j \in 1 .. Len(s) + 1 : u[j] = IF j < k THEN s[j] ELSE IF j = k THEN r ELSE s[j - 1]
  <2>1. s \in Seq(Row) /\ r \in Row /\ k \in 1 .. Len(s) + 1
    BY <1>1
  <2>2. /\ InsertAt(s, k, r) \in Seq(Row)
        /\ Len(InsertAt(s, k, r)) = Len(s) + 1
        /\ \A j \in 1 .. Len(s) + 1 :
             InsertAt(s, k, r)[j] = IF j < k THEN s[j] ELSE IF j = k THEN r ELSE s[j - 1]
    BY <2>1, InsertedAt
  <2> QED
    BY <2>2
<1> HIDE DEF u
<1>3. ASSUME NEW i \in 1 .. Len(u), NEW j \in 1 .. Len(u), i < j PROVE u[i] # u[j]
  <2>1. CASE i < k
    <3>1. i \in 1 .. Len(s) /\ u[i] = s[i]
      BY <1>1, <1>2, <2>1
    <3>2. CASE j < k
      BY <1>1, <1>2, <1>3, <3>1, <3>2
    <3>3. CASE j = k
      BY <1>1, <1>2, <1>3, <3>1, <3>3
    <3>4. CASE j > k
      <4>1. j - 1 \in 1 .. Len(s) /\ u[j] = s[j - 1] /\ i # j - 1
        BY <1>1, <1>2, <2>1, <3>4
      <4> QED
        BY <1>1, <3>1, <4>1
    <3> QED
      BY <3>2, <3>3, <3>4
  <2>2. CASE i >= k
    <3>1. j - 1 \in 1 .. Len(s) /\ u[j] = s[j - 1]
      BY <1>1, <1>2, <1>3, <2>2
    <3>2. CASE i = k
      BY <1>1, <1>2, <3>1, <3>2
    <3>3. CASE i > k
      <4>1. i - 1 \in 1 .. Len(s) /\ u[i] = s[i - 1] /\ i - 1 # j - 1
        BY <1>1, <1>2, <1>3, <3>3
      <4> QED
        BY <1>1, <3>1, <4>1
    <3> QED
      BY <2>2, <3>2, <3>3
  <2> QED
    BY <2>1, <2>2
<1>4. IsLine(u)
  <2>1. \A i, j \in 1 .. Len(u) : i # j => i < j \/ j < i
    OBVIOUS
  <2> QED
    BY <1>2, <1>3, <2>1 DEF IsLine
<1>5. k \in 1 .. Len(u) /\ u[k] = r
  BY <1>1, <1>2
<1>6. Where(u, r) = k
  BY <1>4, <1>5, WhereInALine
<1>7. \A j \in 1 .. Len(s) : IF j < k THEN u[j] = s[j] ELSE u[j + 1] = s[j]
  BY <1>1, <1>2
<1>8. Lacking(u, r) = s
  <2> DEFINE v == Lacking(u, r)
  <2>1. /\ k # 0 /\ Len(u) - 1 = Len(s)
        /\ IsLine(v) /\ Len(v) = Len(u) - 1
        /\ \A j \in 1 .. Len(u) - 1 : v[j] = IF j < k THEN u[j] ELSE u[j + 1]
    <3>1. k # 0 /\ Len(u) - 1 = Len(s)
      BY <1>1, <1>2
    <3> QED
      BY <1>4, <1>6, <3>1, LackingIs
  <2> HIDE DEF v
  <2>2. \A j \in 1 .. Len(s) : v[j] = s[j]
    BY <1>7, <2>1
  <2>3. v = s
    BY <2>1, <2>2, LinesAreSame
  <2> QED
    BY <2>3 DEF v
<1>9. Placement(u, r) = Between2(s, r, k - 1)
  <2>1. DOMAIN u = 1 .. Len(s) + 1 /\ DOMAIN s = 1 .. Len(s)
    BY <1>1, <1>2
  <2>2. NameAt(u, k - 1) = NameAt(s, k - 1)
    BY <1>1, <1>2, <2>1 DEF NameAt
  <2>3. NameAt(u, k + 1) = NameAt(s, k)
    BY <1>1, <1>2, <2>1 DEF NameAt
  <2>4. k # 0 /\ k - 1 + 1 = k
    BY <1>1
  <2> QED
    BY <1>6, <2>2, <2>3, <2>4 DEF Placement, Between2
<1> QED
  BY <1>2, <1>4, <1>5, <1>6, <1>7, <1>8, <1>9 DEF u

(* A line is its other rows with the one put back where it was.             *)
LEMMA PutBackWhereItWas ==
  ASSUME NEW u, IsLine(u), NEW r \in Row, Where(u, r) # 0
  PROVE  /\ Where(u, r) \in 1 .. Len(Lacking(u, r)) + 1
         /\ u = InsertAt(Lacking(u, r), Where(u, r), r)
<1> DEFINE k == Where(u, r)
           s == Lacking(u, r)
<1>1. /\ Len(u) \in Nat /\ k \in 1 .. Len(u) /\ u[k] = r
  BY WhereInALine
<1>2. /\ IsLine(s) /\ Len(s) = Len(u) - 1 /\ \A i \in 1 .. Len(s) : s[i] # r
      /\ \A j \in 1 .. Len(u) - 1 : s[j] = IF j < k THEN u[j] ELSE u[j + 1]
  BY LackingIs
<1> HIDE DEF k, s
<1>3. k \in 1 .. Len(s) + 1 /\ Len(s) \in Nat
  BY <1>1, <1>2
<1> DEFINE v == InsertAt(s, k, r)
<1>4. /\ IsLine(v) /\ Len(v) = Len(s) + 1 /\ v[k] = r
      /\ \A j \in 1 .. Len(s) : IF j < k THEN v[j] = s[j] ELSE v[j + 1] = s[j]
  BY <1>2, <1>3, InsertedLine
<1> HIDE DEF v
<1>5. ASSUME NEW i \in 1 .. Len(u) PROVE u[i] = v[i]
  <2>1. CASE i < k
    BY <1>1, <1>2, <1>3, <1>4, <2>1
  <2>2. CASE i = k
    BY <1>1, <1>4, <2>2
  <2>3. CASE i > k
    <3>1. i - 1 \in 1 .. Len(s) /\ i - 1 \in 1 .. Len(u) - 1 /\ ~(i - 1 < k) /\ (i - 1) + 1 = i
      BY <1>1, <1>2, <1>3, <2>3
    <3>2. v[i] = s[i - 1] /\ s[i - 1] = u[i]
      BY <1>2, <1>4, <3>1
    <3> QED
      BY <3>2
  <2> QED
    BY <1>1, <2>1, <2>2, <2>3
<1>6. u = v
  BY <1>1, <1>2, <1>4, <1>5, LinesAreSame
<1> QED
  BY <1>3, <1>6 DEF k, s, v

(* A line with the same others, and the row in the same place.              *)
LEMMA SamePlacement ==
  ASSUME NEW s, IsLine(s), NEW u, IsLine(u), NEW r \in Row,
         Lacking(s, r) = Lacking(u, r), Placement(s, r) = Placement(u, r)
  PROVE  s = u
<1> DEFINE rest == Lacking(s, r)
           j == Where(s, r)
           k == Where(u, r)
<1>1. /\ IsLine(rest) /\ Len(rest) \in Nat /\ DOMAIN rest = 1 .. Len(rest)
      /\ \A i \in 1 .. Len(rest) : rest[i] # r /\ rest[i] # Nobody /\ Where(rest, rest[i]) = i
  BY LackingIs, WhereInALine
<1>2. CASE j = 0
  <2>1. ~Placement(s, r).here
    BY <1>2 DEF Placement, Stays
  <2>2. k = 0
    BY <2>1 DEF Placement
  <2> QED
    BY <1>2, <2>2, LackingIs
<1>3. CASE j # 0
  <2>1. Placement(s, r).here
    BY <1>3 DEF Placement
  <2>2. k # 0
    BY <2>1 DEF Placement, Stays
  <2>3. /\ j \in 1 .. Len(rest) + 1 /\ s = InsertAt(rest, j, r)
        /\ k \in 1 .. Len(rest) + 1 /\ u = InsertAt(rest, k, r)
    BY <1>3, <2>2, PutBackWhereItWas
  <2> HIDE DEF rest, j, k
  <2>4. Placement(s, r) = Between2(rest, r, j - 1) /\ Placement(u, r) = Between2(rest, r, k - 1)
    BY <1>1, <2>3, InsertedLine
  <2>5. NameAt(rest, j - 1) = NameAt(rest, k - 1)
    <3>1. \A i : Between2(rest, r, i).after = NameAt(rest, i)
      BY DEF Between2
    <3> QED
      BY <2>4, <3>1
  <2>6. j = k
    BY <1>1, <2>3, <2>5 DEF NameAt
  <2> QED
    BY <2>3, <2>6
<1> QED
  BY <1>2, <1>3

-----------------------------------------------------------------------------
(* The order positions give, when no two are equal.                         *)

(* The rows of a line, each once, are some of all the rows.                 *)
LEMMA ALineIsOfItsRows ==
  ASSUME NEW s, IsLine(s)
  PROVE  s \in SetToSeqs(ToSet(s)) /\ ToSet(s) \in SUBSET Row /\ Len(s) = Cardinality(ToSet(s))
<1>1. /\ s \in Seq(Row) /\ Len(s) \in Nat /\ DOMAIN s = 1 .. Len(s)
      /\ s \in [1 .. Len(s) -> ToSet(s)]
      /\ \A i, j \in 1 .. Len(s) : i # j => s[i] # s[j]
  BY DEF IsLine, ToSet
<1>2. ExistsBijection(1 .. Len(s), ToSet(s))
  <2>1. s \in Bijection(1 .. Len(s), ToSet(s))
    BY <1>1 DEF Bijection, Injection, Surjection, IsInjective, ToSet
  <2> QED
    BY <2>1 DEF ExistsBijection
<1>3. Cardinality(ToSet(s)) = Len(s)
  BY <1>1, <1>2, FS_CountingElements
<1>4. ToSet(s) \in SUBSET Row
  BY <1>1 DEF ToSet
<1> QED
  BY <1>1, <1>3, <1>4 DEF SetToSeqs

(* A set of rows, put in a row.                                             *)
LEMMA RowsInARow ==
  ASSUME NEW S \in SUBSET Row, NEW s \in SetToSeqs(S)
  PROVE  IsLine(s) /\ ToSet(s) = S /\ Len(s) = Cardinality(S)
<1> DEFINE n == Cardinality(S)
<1>1. IsFiniteSet(S) /\ n \in Nat
  BY OrderAssumption, FS_CardinalityType, FS_Subset
<1>2. s \in [1 .. n -> S] /\ \A i, j \in 1 .. n : i # j => s[i] # s[j]
  BY DEF SetToSeqs
<1> HIDE DEF n
<1>3. s \in Seq(S) /\ Len(s) = n
  BY <1>1, <1>2, LenProperties
<1>5. \A x \in S : \E i \in 1 .. n : s[i] = x
  <2>1. IsFiniteSet(1 .. n) /\ Cardinality(1 .. n) = n
    BY <1>1, FS_Interval
  <2>2. s \in Injection(1 .. n, S)
    BY <1>2 DEF Injection, IsInjective
  <2>3. s \in Surjection(1 .. n, S)
    BY <1>1, <2>1, <2>2, FS_Injection DEF n
  <2> QED
    BY <2>3 DEF Surjection
<1> QED
  BY <1>2, <1>3, <1>5 DEF IsLine, ToSet, n

(* Rows that do not share a place have one order.                           *)
LEMMA OneOrder ==
  ASSUME NEW where \in [Row -> Int], NEW S \in SUBSET Row, Apart(where, S),
         NEW s \in Arranged(where, S), NEW u \in Arranged(where, S)
  PROVE  s = u
<1>1. /\ IsLine(s) /\ IsLine(u) /\ Len(s) = Len(u) /\ Len(s) \in Nat
      /\ \A x \in S : \E i \in 1 .. Len(s) : s[i] = x
      /\ \A x \in S : \E i \in 1 .. Len(s) : u[i] = x
      /\ s \in [1 .. Len(s) -> S] /\ u \in [1 .. Len(s) -> S]
      /\ \A i, j \in 1 .. Len(s) : i # j => s[i] # s[j]
      /\ \A i, j \in 1 .. Len(s) : i # j => u[i] # u[j]
      /\ \A i, j \in 1 .. Len(s) : i < j => where[s[i]] <= where[s[j]]
      /\ \A i, j \in 1 .. Len(s) : i < j => where[u[i]] <= where[u[j]]
  <2>1. s \in SetToSeqs(S) /\ u \in SetToSeqs(S)
    BY DEF Arranged
  <2>2. IsLine(s) /\ IsLine(u)
    BY <2>1, RowsInARow
  <2>3. /\ Len(s) = Cardinality(S) /\ Len(s) \in 0 .. Cardinality(Row) /\ Cardinality(Row) \in Nat
        /\ s \in [1 .. Len(s) -> S] /\ s \in Seq(S) /\ DOMAIN s = 1 .. Len(s)
        /\ \A i, j \in 1 .. Len(s) : i # j => s[i] # s[j]
        /\ \A x \in S : \E i \in 1 .. Len(s) : s[i] = x
        /\ ToSet(s) = S
        /\ \A i, j \in 1 .. Len(s) : i < j => where[s[i]] <= where[s[j]]
    BY ArrangedIs
  <2>4. /\ Len(u) = Cardinality(S) /\ Len(u) \in 0 .. Cardinality(Row) /\ Cardinality(Row) \in Nat
        /\ u \in [1 .. Len(u) -> S] /\ u \in Seq(S) /\ DOMAIN u = 1 .. Len(u)
        /\ \A i, j \in 1 .. Len(u) : i # j => u[i] # u[j]
        /\ \A x \in S : \E i \in 1 .. Len(u) : u[i] = x
        /\ ToSet(u) = S
        /\ \A i, j \in 1 .. Len(u) : i < j => where[u[i]] <= where[u[j]]
    BY ArrangedIs
  <2> QED
    BY <2>2, <2>3, <2>4
<1> DEFINE Bad == {i \in 1 .. Len(s) : s[i] # u[i]}
<1>2. ASSUME Bad # {} PROVE FALSE
  <2>1. Bad \in SUBSET Nat
    BY <1>1
  <2> HIDE DEF Bad
  <2>2. PICK i \in Bad : \A j \in Bad : i <= j
    BY <1>2, <2>1, LeastNumber
  <2> USE DEF Bad
  <2>3. i \in 1 .. Len(s) /\ s[i] # u[i] /\ \A j \in 1 .. Len(s) : j < i => s[j] = u[j]
    BY <1>1, <2>2
  <2> HIDE DEF Bad
  <2>4. s[i] \in S /\ u[i] \in S /\ where[s[i]] \in Int /\ where[u[i]] \in Int
    BY <1>1, <2>3
  <2>5. PICK j \in 1 .. Len(s) : u[j] = s[i]
    BY <1>1, <2>4
  <2>6. PICK k \in 1 .. Len(s) : s[k] = u[i]
    BY <1>1, <2>4
  <2>7. j # i /\ k # i
    BY <2>3, <2>5, <2>6
  <2>8. ~(j < i)
    <3>1. ASSUME j < i PROVE FALSE
      <4>1. s[j] = s[i]
        BY <2>3, <2>5, <3>1
      <4> QED
        BY <1>1, <2>3, <2>7, <4>1
    <3> QED
      BY <3>1
  <2>9. ~(k < i)
    <3>1. ASSUME k < i PROVE FALSE
      <4>1. u[k] = u[i]
        BY <2>3, <2>6, <3>1
      <4> QED
        BY <1>1, <2>3, <2>7, <4>1
    <3> QED
      BY <3>1
  <2>10. i < j /\ i < k
    BY <1>1, <2>3, <2>7, <2>8, <2>9
  <2>11. where[u[i]] <= where[u[j]] /\ where[s[i]] <= where[s[k]]
    BY <1>1, <2>3, <2>10
  <2>12. where[u[i]] = where[s[i]]
    BY <2>4, <2>5, <2>6, <2>11
  <2> QED
    BY <2>3, <2>4, <2>12 DEF Apart
<1>3. \A i \in 1 .. Len(s) : s[i] = u[i]
  BY <1>2
<1> QED
  BY <1>1, <1>3, LinesAreSame

(* Rows that have one order do not share a place.                           *)
LEMMA OneOrderIsApart ==
  ASSUME NEW where \in [Row -> Int], NEW S \in SUBSET Row, NEW s, Arranged(where, S) = {s}
  PROVE  Apart(where, S)
<1>1. /\ s \in SetToSeqs(S) /\ Len(s) \in Nat /\ Len(s) = Cardinality(S)
      /\ s \in [1 .. Len(s) -> S] /\ \A i, j \in 1 .. Len(s) : i # j => s[i] # s[j]
      /\ \A x \in S : \E i \in 1 .. Len(s) : s[i] = x
      /\ \A i \in 1 .. Len(s) - 1 : where[s[i]] <= where[s[i + 1]]
  <2>1. s \in Arranged(where, S)
    OBVIOUS
  <2> QED
    BY <2>1, ArrangedIs DEF Arranged
<1>2. ASSUME NEW x \in S, NEW y \in S, where[x] = where[y], x # y PROVE FALSE
  <2>1. PICK i \in 1 .. Len(s) : s[i] = x
    BY <1>1
  <2>2. PICK j \in 1 .. Len(s) : s[j] = y
    BY <1>1
  <2> DEFINE u == [k \in 1 .. Len(s) |-> IF k = i THEN y ELSE IF k = j THEN x ELSE s[k]]
  <2>3. u \in [1 .. Len(s) -> S] /\ u[i] = y
    BY <1>1
  <2>4. i # j
    BY <1>2, <2>1, <2>2
  <2>5. \A k, l \in 1 .. Len(s) : k # l => u[k] # u[l]
    BY <1>1, <1>2, <2>1, <2>2, <2>4
  <2>6. \A k \in 1 .. Len(s) : where[u[k]] = where[s[k]]
    BY <1>2, <2>1, <2>2
  <2> HIDE DEF u
  <2>7. u \in Seq(S) /\ Len(u) = Len(s)
    <3>1. Len(s) \in Nat /\ u \in [1 .. Len(s) -> S]
      BY <1>1, <2>3
    <3> QED
      BY ONLY <3>1, LenProperties
  <2>8. u \in SetToSeqs(S)
    BY <1>1, <2>3, <2>5 DEF SetToSeqs
  <2>9. \A k \in 1 .. Len(u) - 1 : where[u[k]] <= where[u[k + 1]]
    <3>1. \A k \in 1 .. Len(s) - 1 : k \in 1 .. Len(s) /\ k + 1 \in 1 .. Len(s)
      BY <1>1
    <3> QED
      BY <1>1, <2>6, <2>7, <3>1
  <2>10. u \in Arranged(where, S)
    BY <2>8, <2>9 DEF Arranged
  <2> QED
    BY <1>2, <2>1, <2>3, <2>10
<1> QED
  BY <1>2 DEF Apart

(* A line that climbs is the order of its rows.                             *)
LEMMA AClimbIsTheOrder ==
  ASSUME NEW where \in [Row -> Int], NEW s, IsLine(s), Climbs(where, s)
  PROVE  Apart(where, ToSet(s)) /\ Arranged(where, ToSet(s)) = {s}
<1>1. /\ Len(s) \in Nat /\ DOMAIN s = 1 .. Len(s) /\ \A i \in 1 .. Len(s) : s[i] \in Row
      /\ \A i, j \in 1 .. Len(s) : i < j => where[s[i]] < where[s[j]]
  BY WhereInALine DEF Climbs
<1>2. s \in SetToSeqs(ToSet(s)) /\ ToSet(s) \in SUBSET Row
  BY ALineIsOfItsRows
<1>3. \A i \in 1 .. Len(s) : where[s[i]] \in Int
  BY <1>1
<1>4. \A i \in 1 .. Len(s) - 1 : where[s[i]] <= where[s[i + 1]]
  <2>1. \A i \in 1 .. Len(s) - 1 : i \in 1 .. Len(s) /\ i + 1 \in 1 .. Len(s) /\ i < i + 1
    BY <1>1
  <2> QED
    BY <1>1, <1>3, <2>1
<1>5. s \in Arranged(where, ToSet(s))
  BY <1>2, <1>4 DEF Arranged
<1>6. ASSUME NEW x \in ToSet(s), NEW y \in ToSet(s), where[x] = where[y] PROVE x = y
  <2>1. PICK i \in 1 .. Len(s) : s[i] = x
    BY <1>1 DEF ToSet
  <2>2. PICK j \in 1 .. Len(s) : s[j] = y
    BY <1>1 DEF ToSet
  <2>3. ~(i < j) /\ ~(j < i)
    BY <1>1, <1>3, <1>6, <2>1, <2>2
  <2> QED
    BY <1>1, <2>1, <2>2, <2>3
<1>7. Apart(where, ToSet(s))
  BY <1>6 DEF Apart
<1> QED
  BY <1>2, <1>5, <1>7, OneOrder

-----------------------------------------------------------------------------
(* A move drawn on the screen, and the placement that says it.              *)

(* A move carried out on a line touches only the row it moves.              *)
LEMMA AppliedIs ==
  ASSUME NEW s, IsLine(s), NEW m, m.row \in Row
  PROVE  IsLine(Applied(s, m)) /\ Lacking(Applied(s, m), m.row) = Lacking(s, m.row)
<1> DEFINE rest == Lacking(s, m.row)
           i == CASE Where(rest, m.before) # 0 -> Where(rest, m.before)
                  [] Where(rest, m.before) = 0 /\ Where(rest, m.after) # 0 -> Where(rest, m.after) + 1
                  [] OTHER -> Len(rest) + 1
<1>1. IsLine(rest) /\ Len(rest) \in Nat /\ \A k \in 1 .. Len(rest) : rest[k] # m.row
  BY LackingIs, WhereInALine
<1>2. Applied(s, m) = IF m.here THEN InsertAt(rest, i, m.row) ELSE rest
  BY DEF Applied
<1> HIDE DEF rest
<1>3. Where(rest, m.before) \in 0 .. Len(rest) /\ Where(rest, m.after) \in 0 .. Len(rest)
  BY <1>1, WhereInALine
<1>4. i \in 1 .. Len(rest) + 1
  <2>1. CASE Where(rest, m.before) # 0
    BY <1>1, <1>3, <2>1
  <2>2. CASE Where(rest, m.before) = 0 /\ Where(rest, m.after) # 0
    BY <1>1, <1>3, <2>2
  <2>3. CASE Where(rest, m.before) = 0 /\ Where(rest, m.after) = 0
    BY <1>1, <2>3
  <2> QED
    BY <2>1, <2>2, <2>3
<1> HIDE DEF i
<1>5. CASE m.here
  BY <1>1, <1>2, <1>4, <1>5, InsertedLine DEF rest
<1>6. CASE ~m.here
  <2>1. Lacking(rest, m.row) = rest
    <3>1. Where(rest, m.row) = 0
      <4>1. Where(rest, m.row) \in 0 .. Len(rest) /\ (Where(rest, m.row) # 0 => rest[Where(rest, m.row)] = m.row)
        BY <1>1, WhereInALine
      <4> QED
        BY <1>1, <4>1
    <3> QED
      BY <1>1, <3>1, LackingIs
  <2> QED
    BY <1>1, <1>2, <1>6, <2>1 DEF rest
<1> QED
  BY <1>5, <1>6

(* A drop between two rows next to each other is carried out between them.  *)
LEMMA DropIsApplied ==
  ASSUME NEW s, IsLine(s), NEW r \in Row, NEW j \in 0 .. Len(Lacking(s, r))
  PROVE  LET m == Between2(Lacking(s, r), r, j) IN
         Applied(s, m) = InsertAt(Lacking(s, r), j + 1, r)
<1> DEFINE rest == Lacking(s, r)
           m == Between2(rest, r, j)
<1>1. /\ IsLine(rest) /\ Len(rest) \in Nat /\ DOMAIN rest = 1 .. Len(rest) /\ j \in 0 .. Len(rest)
      /\ \A k \in 1 .. Len(rest) : rest[k] # Nobody /\ Where(rest, rest[k]) = k
      /\ Where(rest, Nobody) \in 0 .. Len(rest)
      /\ Where(rest, Nobody) # 0 => rest[Where(rest, Nobody)] = Nobody
  BY LackingIs, WhereInALine
<1>2. Where(rest, Nobody) = 0
  <2> HIDE DEF rest
  <2> QED
    BY <1>1
<1>3. m.row = r /\ m.here /\ m.after = NameAt(rest, j) /\ m.before = NameAt(rest, j + 1)
  BY DEF Between2
<1>4. Applied(s, m) =
        InsertAt(rest, CASE Where(rest, m.before) # 0 -> Where(rest, m.before)
                         [] Where(rest, m.before) = 0 /\ Where(rest, m.after) # 0 -> Where(rest, m.after) + 1
                         [] OTHER -> Len(rest) + 1, r)
  BY <1>3 DEF Applied
<1> HIDE DEF rest, m
<1>5. CASE j < Len(rest)
  <2>1. Where(rest, m.before) = j + 1
    BY <1>1, <1>3, <1>5 DEF NameAt
  <2>2. Where(rest, m.before) # 0
    BY <1>1, <2>1
  <2> QED
    BY <1>4, <2>1, <2>2 DEF rest, m
<1>6. CASE j = Len(rest)
  <2>1. m.before = Nobody
    BY <1>1, <1>3, <1>6 DEF NameAt
  <2>2. CASE j = 0
    <3>1. m.after = Nobody
      BY <1>1, <1>3, <2>2 DEF NameAt
    <3> QED
      BY <1>2, <1>4, <1>6, <2>1, <3>1 DEF rest, m
  <2>3. CASE j # 0
    <3>1. Where(rest, m.after) = j
      BY <1>1, <1>3, <2>3 DEF NameAt
    <3> QED
      BY <1>2, <1>4, <2>1, <2>3, <3>1 DEF rest, m
  <2> QED
    BY <2>2, <2>3
<1>7. j < Len(rest) \/ j = Len(rest)
  <2>1. Len(rest) \in Nat /\ j \in 0 .. Len(rest)
    BY <1>1
  <2> QED
    BY ONLY <2>1
<1> QED
  BY <1>5, <1>6, <1>7

(* What is drawn is what is asked for.                                      *)
LEMMA DropIsPlaced ==
  ASSUME NEW s, IsLine(s), NEW r \in Row, NEW j \in 0 .. Len(Lacking(s, r))
  PROVE  LET m == Between2(Lacking(s, r), r, j) IN
         m.row = r /\ m.here /\ IsLine(Applied(s, m)) /\ m = Placement(Applied(s, m), r)
<1> DEFINE rest == Lacking(s, r)
           m == Between2(rest, r, j)
<1>1. IsLine(rest) /\ Len(rest) \in Nat /\ \A k \in 1 .. Len(rest) : rest[k] # r
  BY LackingIs, WhereInALine
<1>2. Applied(s, m) = InsertAt(rest, j + 1, r)
  BY DropIsApplied
<1>3. m.row = r /\ m.here
  BY DEF Between2
<1>4. j + 1 \in 1 .. Len(rest) + 1 /\ j + 1 - 1 = j
  BY <1>1
<1> HIDE DEF rest
<1>5. IsLine(InsertAt(rest, j + 1, r)) /\ Placement(InsertAt(rest, j + 1, r), r) = Between2(rest, r, j + 1 - 1)
  BY <1>1, <1>4, InsertedLine
<1> QED
  BY <1>2, <1>3, <1>4, <1>5 DEF rest

(* A document that leaves the list is in no place of it.                    *)
LEMMA StaysIsPlaced ==
  ASSUME NEW s, IsLine(s), NEW r \in Row
  PROVE  Stays(r).row = r /\ IsLine(Applied(s, Stays(r))) /\ Stays(r) = Placement(Applied(s, Stays(r)), r)
<1> DEFINE rest == Lacking(s, r)
<1>1. IsLine(rest) /\ \A k \in 1 .. Len(rest) : rest[k] # r
  BY LackingIs
<1>2. Applied(s, Stays(r)) = rest /\ Stays(r).row = r
  BY DEF Applied, Stays
<1> HIDE DEF rest
<1>3. Where(rest, r) = 0
  <2>1. Len(rest) \in Nat /\ Where(rest, r) \in 0 .. Len(rest) /\ (Where(rest, r) # 0 => rest[Where(rest, r)] = r)
    BY <1>1, WhereInALine
  <2> QED
    BY <1>1, <2>1
<1> QED
  BY <1>1, <1>2, <1>3 DEF Placement

(* Everything a drag can be over moves the row that is dragged.             *)
LEMMA HoveredMovesIt == ASSUME NEW r, NEW m \in Hovered(r) PROVE m.row = r
<1>1. /\ \A s, i : Between2(s, r, i).row = r
      /\ Stays(r).row = r
      /\ \A s : Placement(s, r).row = r
  BY DEF Between2, Stays, Placement
<1>2. /\ \A s, over : DropOnRow(s, r, over).row = r /\ DropOnCard(s, r, over).row = r
      /\ \A s : DropAtEnd(s, r).row = r /\ DropOnOwnSpace(s, r).row = r
  BY <1>1 DEF DropOnRow, DropOnCard, DropAtEnd, DropOnOwnSpace
<1> QED
  BY <1>1, <1>2 DEF Hovered

-----------------------------------------------------------------------------
(* What the screen shows is a line.                                         *)

(* The rows of a line with one put in, with one taken out, and one of       *)
(* them.                                                                    *)
LEMMA InsertedRows ==
  ASSUME NEW s, IsLine(s), NEW r \in Row, \A i \in 1 .. Len(s) : s[i] # r, NEW k \in 1 .. Len(s) + 1
  PROVE  ToSet(InsertAt(s, k, r)) = ToSet(s) \union {r}
<1> DEFINE u == InsertAt(s, k, r)
<1>1. /\ IsLine(u) /\ Len(u) = Len(s) + 1 /\ u[k] = r
      /\ \A j \in 1 .. Len(s) : IF j < k THEN u[j] = s[j] ELSE u[j + 1] = s[j]
  BY InsertedLine
<1> HIDE DEF u
<1>2. /\ Len(s) \in Nat /\ DOMAIN s = 1 .. Len(s) /\ DOMAIN u = 1 .. Len(s) + 1 /\ k \in 1 .. Len(s) + 1
  BY <1>1, WhereInALine
<1>3. ASSUME NEW x \in ToSet(u) PROVE x \in ToSet(s) \union {r}
  <2>1. PICK i \in 1 .. Len(s) + 1 : u[i] = x
    BY <1>2 DEF ToSet
  <2>2. CASE i < k
    <3>1. i \in 1 .. Len(s) /\ u[i] = s[i]
      BY <1>1, <1>2, <2>2
    <3> QED
      BY <1>2, <2>1, <3>1 DEF ToSet
  <2>3. CASE i = k
    BY <1>1, <2>1, <2>3
  <2>4. CASE k < i
    <3>1. i - 1 \in 1 .. Len(s) /\ ~(i - 1 < k) /\ i - 1 + 1 = i
      BY <1>2, <2>4
    <3>2. u[i] = s[i - 1]
      BY <1>1, <3>1
    <3> QED
      BY <1>2, <2>1, <3>1, <3>2 DEF ToSet
  <2> QED
    BY <1>2, <2>2, <2>3, <2>4
<1>4. ASSUME NEW x \in ToSet(s) PROVE x \in ToSet(u)
  <2>1. PICK i \in 1 .. Len(s) : s[i] = x
    BY <1>2 DEF ToSet
  <2>2. i \in 1 .. Len(s) + 1 /\ i + 1 \in 1 .. Len(s) + 1 /\ (u[i] = x \/ u[i + 1] = x)
    BY <1>1, <1>2, <2>1
  <2> QED
    BY <1>2, <2>2 DEF ToSet
<1>5. r \in ToSet(u)
  BY <1>1, <1>2 DEF ToSet
<1>6. ToSet(u) = ToSet(s) \union {r}
  BY <1>3, <1>4, <1>5
<1> QED
  BY <1>6 DEF u

LEMMA LackingRows ==
  ASSUME NEW s, IsLine(s), NEW r \in Row
  PROVE  ToSet(Lacking(s, r)) = ToSet(s) \ {r}
<1> DEFINE rest == Lacking(s, r)
<1>1. IsLine(rest) /\ (\A i \in 1 .. Len(rest) : rest[i] # r) /\ Len(rest) \in Nat /\ DOMAIN rest = 1 .. Len(rest)
  BY LackingIs, WhereInALine
<1>2. r \notin ToSet(rest)
  BY <1>1 DEF ToSet
<1>3. CASE Where(s, r) = 0
  BY <1>2, <1>3, LackingIs
<1>4. CASE Where(s, r) # 0
  <2>1. Where(s, r) \in 1 .. Len(rest) + 1 /\ s = InsertAt(rest, Where(s, r), r)
    BY <1>4, PutBackWhereItWas
  <2> HIDE DEF rest
  <2>2. ToSet(InsertAt(rest, Where(s, r), r)) = ToSet(rest) \union {r}
    BY <1>1, <2>1, InsertedRows
  <2>3. ToSet(rest) = ToSet(s) \ {r}
    BY <1>2, <2>1, <2>2
  <2> QED
    BY <2>3 DEF rest
<1> QED
  BY <1>3, <1>4

LEMMA InTheLine ==
  ASSUME NEW s, IsLine(s), NEW x
  PROVE  x \in ToSet(s) <=> Where(s, x) \in 1 .. Len(s)
<1>1. /\ Len(s) \in Nat /\ DOMAIN s = 1 .. Len(s)
      /\ Where(s, x) \in 0 .. Len(s) /\ (Where(s, x) # 0 => s[Where(s, x)] = x)
      /\ \A i \in 1 .. Len(s) : Where(s, s[i]) = i
  BY WhereInALine
<1> QED
  BY <1>1 DEF ToSet

(* Rows with a rank each can be put in the order of their ranks.            *)
LEMMA RankedRows ==
  ASSUME NEW S \in SUBSET Row, NEW f \in [S -> Nat], \A x, y \in S : f[x] = f[y] => x = y
  PROVE  \E s : IsLine(s) /\ ToSet(s) = S /\ Climbs(f, s)
<1> DEFINE Ranked(X) == \E s : IsLine(s) /\ ToSet(s) = X /\ Climbs(f, s)
           Bad == {X \in SUBSET S : ~Ranked(X)}
<1>1. ASSUME Bad # {} PROVE FALSE
  <2>1. IsFiniteSet(S) /\ Bad \in SUBSET SUBSET S
    BY OrderAssumption, FS_Subset
  <2>2. PICK X \in Bad : \A Y \in Bad : Y \subseteq X => Y = X
    <3> HIDE DEF Bad
    <3> QED
      BY <1>1, <2>1, SmallestSet
  <2>3. X \in SUBSET S /\ ~Ranked(X) /\ \A Y \in SUBSET S : Y \subseteq X /\ Y # X => Ranked(Y)
    <3> HIDE DEF Ranked
    <3> QED
      BY <2>2
  <2>4. X # {}
    <3>1. IsLine(<<>>) /\ ToSet(<<>>) = {} /\ Climbs(f, <<>>)
      BY DEF IsLine, ToSet, Climbs
    <3> QED
      BY <2>3, <3>1
  <2>5. PICK x \in X : \A y \in X : f[x] <= f[y]
    <3> DEFINE F == {f[y] : y \in X}
    <3>1. F \in SUBSET Nat /\ F # {}
      BY <2>3, <2>4
    <3>2. PICK n \in F : \A k \in F : n <= k
      <4> HIDE DEF F
      <4> QED
        BY <3>1, LeastNumber
    <3> QED
      BY <3>2
  <2>6. PICK s : IsLine(s) /\ ToSet(s) = X \ {x} /\ Climbs(f, s)
    <3>1. X \ {x} \in SUBSET S /\ X \ {x} \subseteq X /\ X \ {x} # X
      BY <2>3
    <3>2. Ranked(X \ {x})
      <4> HIDE DEF Ranked
      <4> QED
        BY <2>3, <3>1
    <3> QED
      BY <3>2
  <2>7. Len(s) \in Nat /\ DOMAIN s = 1 .. Len(s) /\ \A i \in 1 .. Len(s) : s[i] \in X /\ s[i] # x
    <3>1. Len(s) \in Nat /\ DOMAIN s = 1 .. Len(s)
      BY <2>6, WhereInALine
    <3>2. \A i \in 1 .. Len(s) : s[i] \in ToSet(s)
      BY <3>1 DEF ToSet
    <3> QED
      BY <2>6, <3>1, <3>2
  <2> DEFINE u == InsertAt(s, 1, x)
  <2>8. x \in Row /\ 1 \in 1 .. Len(s) + 1
    BY <2>3, <2>7
  <2>9. /\ IsLine(u) /\ Len(u) = Len(s) + 1 /\ u[1] = x
        /\ \A j \in 1 .. Len(s) : IF j < 1 THEN u[j] = s[j] ELSE u[j + 1] = s[j]
        /\ ToSet(u) = ToSet(s) \union {x}
    BY <2>6, <2>7, <2>8, InsertedLine, InsertedRows
  <2> HIDE DEF u
  <2>10. ASSUME NEW i \in 1 .. Len(u), NEW j \in 1 .. Len(u), i < j PROVE f[u[i]] < f[u[j]]
    <3>1. j - 1 \in 1 .. Len(s) /\ ~(j - 1 < 1) /\ j - 1 + 1 = j
      BY <2>7, <2>9, <2>10
    <3>2. u[j] = s[j - 1] /\ s[j - 1] \in X /\ s[j - 1] # x
      BY <2>7, <2>9, <3>1
    <3>3. CASE i = 1
      <4>1. u[i] = x /\ f[x] <= f[s[j - 1]] /\ f[x] # f[s[j - 1]] /\ f[x] \in Nat /\ f[s[j - 1]] \in Nat
        BY <2>3, <2>5, <2>9, <3>2, <3>3
      <4> QED
        BY <3>2, <4>1
    <3>4. CASE i # 1
      <4>1. i - 1 \in 1 .. Len(s) /\ ~(i - 1 < 1) /\ i - 1 + 1 = i /\ i - 1 < j - 1
        BY <2>7, <2>9, <2>10, <3>4
      <4>2. u[i] = s[i - 1]
        BY <2>9, <4>1
      <4> QED
        BY <2>6, <3>1, <3>2, <4>1, <4>2 DEF Climbs
    <3> QED
      BY <3>3, <3>4
  <2>11. Climbs(f, u)
    BY <2>10 DEF Climbs
  <2>12. ToSet(u) = X
    BY <2>5, <2>6, <2>9
  <2> QED
    BY <2>3, <2>9, <2>11, <2>12
<1> HIDE DEF Ranked
<1>2. Ranked(S)
  BY <1>1
<1> QED
  BY <1>2 DEF Ranked

(* The strip of pictures shows what there is to show, each once.            *)
LEMMA ShownIsALine ==
  ASSUME IsLine(data), IsLine(kept)
  PROVE  IsLine(Shown) /\ ToSet(Shown) = ToSet(data)
<1>1. CASE kept = <<>>
  BY <1>1 DEF Shown
<1>2. CASE kept # <<>>
  <2> DEFINE S == ToSet(data)
             f == [x \in S |-> ShownAt(x)]
  <2>1. /\ Len(data) \in Nat /\ Len(kept) \in Nat /\ DOMAIN data = 1 .. Len(data) /\ S \in SUBSET Row
        /\ \A x : Where(kept, x) \in 0 .. Len(kept) /\ (Where(kept, x) # 0 => kept[Where(kept, x)] = x)
    BY WhereInALine, ALineIsOfItsRows
  <2>2. \A x \in S : Where(data, x) \in 1 .. Len(data) /\ data[Where(data, x)] = x
    <3>1. \A x \in S : \E i \in 1 .. Len(data) : x = data[i]
      BY <2>1 DEF ToSet
    <3> QED
      BY <3>1, WhereInALine
  <2>3. f \in [S -> Nat]
    <3>1. ASSUME NEW x \in S PROVE ShownAt(x) \in Nat
      BY <2>1, <2>2 DEF ShownAt
    <3> QED
      BY <3>1
  <2>4. ASSUME NEW x \in S, NEW y \in S, f[x] = f[y] PROVE x = y
    <3>1. ShownAt(x) = ShownAt(y)
      BY <2>4
    <3>2. /\ Where(kept, x) \in 0 .. Len(kept) /\ (Where(kept, x) # 0 => kept[Where(kept, x)] = x)
          /\ Where(kept, y) \in 0 .. Len(kept) /\ (Where(kept, y) # 0 => kept[Where(kept, y)] = y)
          /\ Where(data, x) \in 1 .. Len(data) /\ data[Where(data, x)] = x
          /\ Where(data, y) \in 1 .. Len(data) /\ data[Where(data, y)] = y
      BY <2>1, <2>2
    <3> HIDE DEF S
    <3> QED
      BY <2>1, <3>1, <3>2 DEF ShownAt
  <2> DEFINE Goes(s) == \A i \in 1 .. Len(s) - 1 : ShownAt(s[i]) < ShownAt(s[i + 1])
  <2>5. \E s \in SetToSeqs(S) : Goes(s)
    <3> HIDE DEF f, S
    <3>1. PICK s : IsLine(s) /\ ToSet(s) = S /\ Climbs(f, s)
      BY <2>1, <2>3, <2>4, RankedRows
    <3>2. s \in SetToSeqs(S) /\ Len(s) \in Nat /\ DOMAIN s = 1 .. Len(s)
      BY <3>1, ALineIsOfItsRows, WhereInALine
    <3>3. \A i \in 1 .. Len(s) : s[i] \in S /\ f[s[i]] = ShownAt(s[i])
      <4>1. \A i \in 1 .. Len(s) : s[i] \in S
        BY <3>1, <3>2 DEF ToSet
      <4> QED
        BY <4>1 DEF f
    <3>4. \A i \in 1 .. Len(s) - 1 : i \in 1 .. Len(s) /\ i + 1 \in 1 .. Len(s) /\ i < i + 1
      BY <3>2
    <3>5. Goes(s)
      BY <3>1, <3>3, <3>4 DEF Climbs
    <3> QED
      BY <3>2, <3>5
  <2>6. Shown = CHOOSE s \in SetToSeqs(S) : Goes(s)
    BY <1>2 DEF Shown
  <2> HIDE DEF S, Goes
  <2>7. Shown \in SetToSeqs(S)
    BY <2>5, <2>6
  <2> QED
    BY <2>1, <2>7, RowsInARow DEF S
<1> QED
  BY <1>1, <1>2

-----------------------------------------------------------------------------
(* What is let go is a move the screen draws.                               *)

(* A move and the order it is drawn in.                                     *)
Draws(m, r, rows) == m.row = r /\ IsLine(rows) /\ m = Placement(rows, r)

(* What each screen lets go of is the placement the row then has on it.     *)
LEMMA DropOnRowIsDrawn ==
  ASSUME NEW s, IsLine(s), NEW r \in Row, NEW over \in ToSet(s), over # r
  PROVE  LET m == DropOnRow(s, r, over) IN Draws(m, r, Applied(s, m)) /\ m.here
<1> DEFINE rest == Lacking(s, r)
           j == Where(s, over) - 1
<1>1. /\ Where(s, over) \in 1 .. Len(s) /\ s[Where(s, over)] = over /\ Len(s) \in Nat
      /\ Where(s, r) \in 0 .. Len(s)
      /\ Where(s, r) = 0 => Len(rest) = Len(s)
      /\ Where(s, r) # 0 => Len(rest) = Len(s) - 1
  <2>1. Where(s, over) \in 1 .. Len(s)
    BY InTheLine
  <2>2. Where(s, over) # 0 => s[Where(s, over)] = over
    BY WhereInALine
  <2> QED
    BY <2>1, <2>2, LackingIs, WhereInALine
<1> HIDE DEF rest
<1>2. j \in 0 .. Len(rest)
  <2>1. CASE Where(s, r) = 0
    BY <1>1, <2>1
  <2>2. CASE Where(s, r) # 0
    BY <1>1, <2>2
  <2> QED
    BY <2>1, <2>2
<1>3. DropOnRow(s, r, over) = Between2(rest, r, j)
  BY DEF DropOnRow, rest
<1> HIDE DEF j
<1>4. LET m == Between2(rest, r, j) IN
      m.row = r /\ m.here /\ IsLine(Applied(s, m)) /\ m = Placement(Applied(s, m), r)
  BY <1>2, DropIsPlaced DEF rest
<1> QED
  BY <1>3, <1>4 DEF Draws

LEMMA DropAtEndIsDrawn ==
  ASSUME NEW s, IsLine(s), NEW r \in Row
  PROVE  LET m == DropAtEnd(s, r) IN Draws(m, r, Applied(s, m))
<1> DEFINE j == Len(Lacking(s, r))
<1>1. j \in 0 .. Len(Lacking(s, r))
  <2>1. Len(Lacking(s, r)) \in Nat
    BY LackingIs, WhereInALine
  <2> QED
    BY <2>1
<1> HIDE DEF j
<1>2. LET m == Between2(Lacking(s, r), r, j) IN
      m.row = r /\ m.here /\ IsLine(Applied(s, m)) /\ m = Placement(Applied(s, m), r)
  BY <1>1, DropIsPlaced
<1> QED
  BY <1>2 DEF Draws, DropAtEnd, j

LEMMA DropBesideIsDrawn ==
  ASSUME NEW s, IsLine(s), NEW r \in Row, NEW over \in ToSet(s), over # r, NEW m \in DropBeside(s, r, over)
  PROVE  Draws(m, r, Applied(s, m))
<1> DEFINE rest == Lacking(s, r)
<1>1. IsLine(rest) /\ over \in ToSet(rest) /\ Len(rest) \in Nat
  BY LackingIs, LackingRows, WhereInALine
<1>2. PICK j : m = Between2(rest, r, j) /\ j \in {Where(rest, over) - 1, Where(rest, over)}
  BY DEF DropBeside
<1> HIDE DEF rest
<1>3. j \in 0 .. Len(rest)
  BY <1>1, <1>2, InTheLine
<1>4. LET n == Between2(rest, r, j) IN
      n.row = r /\ n.here /\ IsLine(Applied(s, n)) /\ n = Placement(Applied(s, n), r)
  BY <1>3, DropIsPlaced DEF rest
<1> QED
  BY <1>2, <1>4 DEF Draws

LEMMA DropAmongDocumentsIsDrawn ==
  ASSUME NEW s, IsLine(s), NEW r \in Row, NEW over \in ToSet(s), over # r
  PROVE  LET m == DropAmongDocuments(s, r, over) IN Draws(m, r, Applied(s, m))
<1> DEFINE rest == Lacking(s, r)
           k == Where(s, over)
           j == k - 1
<1>1. /\ Where(s, over) \in 1 .. Len(s) /\ Len(s) \in Nat
      /\ Where(s, r) \in 0 .. Len(s)
      /\ Where(s, r) = 0 => Len(rest) = Len(s)
      /\ Where(s, r) # 0 => Len(rest) = Len(s) - 1
      /\ IsLine(rest) /\ \A i \in 1 .. Len(rest) : rest[i] # r
  <2>1. Where(s, over) \in 1 .. Len(s)
    BY InTheLine
  <2> QED
    BY <2>1, LackingIs, WhereInALine
<1> HIDE DEF rest
<1>2. k \in 1 .. Len(rest) + 1 /\ j \in 0 .. Len(rest)
  <2>1. CASE Where(s, r) = 0
    BY <1>1, <2>1
  <2>2. CASE Where(s, r) # 0
    BY <1>1, <2>2
  <2> QED
    BY <2>1, <2>2
<1>3. DropAmongDocuments(s, r, over) = Placement(InsertAt(rest, k, r), r)
  BY DEF DropAmongDocuments, rest
<1> HIDE DEF k
<1>4. Placement(InsertAt(rest, k, r), r) = Between2(rest, r, j)
  BY <1>1, <1>2, InsertedLine
<1> HIDE DEF j
<1>5. LET m == Between2(rest, r, j) IN
      m.row = r /\ m.here /\ IsLine(Applied(s, m)) /\ m = Placement(Applied(s, m), r)
  BY <1>2, DropIsPlaced DEF rest
<1> QED
  BY <1>3, <1>4, <1>5 DEF Draws

(* The order a row is let go in.                                            *)
LetGoIn(m) == IF Travels THEN data ELSE Applied(Shown, m)

(* Whatever the screen, the request names the two rows it was drawn         *)
(* between.                                                                 *)
LEMMA WhatIsLetGoIsDrawn ==
  ASSUME IsLine(data), IsLine(kept), screen # "pictures" => kept = <<>>,
         NEW r \in Row, NEW m \in Releases(r)
  PROVE  Draws(m, r, LetGoIn(m)) /\ (screen = "pictures" => m.here)
<1>0. IsLine(Shown) /\ ToSet(Shown) = ToSet(data) /\ (screen # "pictures" => Shown = data)
  BY ShownIsALine DEF Shown
<1>1. CASE Travels
  <2>1. m = Placement(data, r) /\ LetGoIn(m) = data /\ screen # "pictures"
    BY <1>1 DEF Releases, LetGoIn, Travels
  <2>2. m.row = r
    BY <2>1 DEF Placement, Stays
  <2> QED
    BY <2>1, <2>2 DEF Draws
<1>2. CASE ~Travels
  <2>1. LetGoIn(m) = Applied(Shown, m)
    BY <1>2 DEF LetGoIn
  <2>2. CASE screen = "headings"
    <3>1. \/ \E over \in ToSet(data) \ {r} : m \in DropBeside(data, r, over)
          \/ m = DropAtEnd(data, r)
          \/ m = Stays(r)
      <4> DEFINE U == UNION {DropBeside(data, r, over) : over \in ToSet(data) \ {r}}
      <4>1. Releases(r) = U \union {DropAtEnd(data, r), Stays(r)}
        <5> DEFINE A == {Placement(data, r)}
                   B == U \union {DropAtEnd(data, r), Stays(r)}
                   C == {DropAmongDocuments(data, r, over) : over \in ToSet(data) \ {r}}
                   D == {DropOnRow(Shown, r, over) : over \in ToSet(Shown) \ {r}}
        <5>1. Releases(r) = CASE Travels -> A [] screen = "headings" -> B [] screen = "documents" -> C [] OTHER -> D
          BY DEF Releases
        <5> HIDE DEF A, B, C, D
        <5>2. Releases(r) = B
          BY <1>2, <2>2, <5>1
        <5> QED
          BY <5>2 DEF B
      <4>2. m \in U => \E over \in ToSet(data) \ {r} : m \in DropBeside(data, r, over)
        OBVIOUS
      <4> HIDE DEF U
      <4> QED
        BY <4>1, <4>2
    <3>2. Draws(m, r, Applied(data, m))
      <4>1. ASSUME NEW over \in ToSet(data) \ {r}, m \in DropBeside(data, r, over)
            PROVE  Draws(m, r, Applied(data, m))
        BY <4>1, DropBesideIsDrawn
      <4>2. ASSUME m = DropAtEnd(data, r) PROVE Draws(m, r, Applied(data, m))
        BY <4>2, DropAtEndIsDrawn
      <4>3. ASSUME m = Stays(r) PROVE Draws(m, r, Applied(data, m))
        BY <4>3, StaysIsPlaced DEF Draws
      <4> QED
        BY <3>1, <4>1, <4>2, <4>3
    <3> QED
      BY <1>0, <2>1, <2>2, <3>2
  <2>3. CASE screen = "documents"
    <3>1. PICK over \in ToSet(data) \ {r} : m = DropAmongDocuments(data, r, over)
      BY <1>2, <2>3 DEF Releases
    <3> QED
      BY <1>0, <2>1, <2>3, <3>1, DropAmongDocumentsIsDrawn
  <2>4. CASE screen # "headings" /\ screen # "documents"
    <3>1. PICK over \in ToSet(Shown) \ {r} : m = DropOnRow(Shown, r, over)
      BY <1>2, <2>4 DEF Releases
    <3> QED
      BY <1>0, <2>1, <3>1, DropOnRowIsDrawn
  <2> QED
    BY <2>2, <2>3, <2>4
<1> QED
  BY <1>1, <1>2

-----------------------------------------------------------------------------
(* Types of the screen, its requests and its answers.                       *)

(* What a request may name.                                                 *)
Name == Row \union {Nobody}

Request ==
  [move : [row : Row, here : BOOLEAN, after : Name, before : Name],
   at : {"going", "done", "failed"}, no : Nat, order : Seq(Row), revert : Seq(Row)]

(* A request asks for the order that was drawn.                             *)
RequestIsDrawn(m) ==
  /\ m \in Request
  /\ IsLine(m.order) /\ IsLine(m.revert)
  /\ m.move.row \notin unseen
  /\ m.move = Placement(m.order, m.move.row)

(* What each variable of a screen is, whichever of the six it is.           *)
TabIsTyped ==
  /\ screen \in Screens /\ way = WayOf(screen) /\ ~upToDate
  /\ unseen \subseteq Row /\ (Travels \/ unseen = {})
  /\ IsLine(data) /\ IsLine(kept) /\ IsLine(before)
  /\ screen # "pictures" => kept = <<>>
  /\ carried \in (Row \ unseen) \union {Nobody}
  /\ fetch \in [at : {"idle", "asked", "read"}, rows : Seq(Row)]
  /\ IsLine(fetch.rows) /\ (fetch.at # "read" => fetch.rows = <<>>)
  /\ \A m \in sent : RequestIsDrawn(m)
  /\ drops \in Nat

LEMMA NothingIsALine == IsLine(<<>>)
BY DEF IsLine

(* A placement names no row beside itself, nor the same one twice.          *)
LEMMA PlacementIs ==
  ASSUME NEW s, IsLine(s), NEW r \in Row
  PROVE  LET m == Placement(s, r) IN
         /\ m \in [row : Row, here : BOOLEAN, after : Name, before : Name] /\ m.row = r
         /\ m.after # r /\ m.before # r /\ (m.after = m.before => m.after = Nobody)
<1> DEFINE k == Where(s, r)
<1>1. /\ Len(s) \in Nat /\ DOMAIN s = 1 .. Len(s) /\ k \in 0 .. Len(s) /\ (k # 0 => s[k] = r)
      /\ \A i \in 1 .. Len(s) : s[i] \in Row /\ s[i] # Nobody
      /\ \A i, j \in 1 .. Len(s) : i # j => s[i] # s[j]
  BY WhereInALine DEF IsLine
<1>2. r # Nobody /\ Nobody \in Name /\ Row \subseteq Name
  BY OrderAssumption DEF Name
<1>3. CASE k = 0
  BY <1>2, <1>3 DEF Placement, Stays
<1>4. CASE k # 0
  <2>1. Placement(s, r) = [row |-> r, here |-> TRUE, after |-> NameAt(s, k - 1), before |-> NameAt(s, k + 1)]
    BY <1>4 DEF Placement
  <2> HIDE DEF k
  <2>2. k \in 1 .. Len(s) /\ s[k] = r
    BY <1>1, <1>4
  <2>3. NameAt(s, k - 1) \in Name /\ NameAt(s, k - 1) # r
    BY <1>1, <1>2, <2>2 DEF NameAt
  <2>4. NameAt(s, k + 1) \in Name /\ NameAt(s, k + 1) # r
    BY <1>1, <1>2, <2>2 DEF NameAt
  <2>5. NameAt(s, k - 1) = NameAt(s, k + 1) => NameAt(s, k - 1) = Nobody
    BY <1>1, <2>2 DEF NameAt
  <2> QED
    BY <2>1, <2>3, <2>4, <2>5
<1> QED
  BY <1>3, <1>4

(* What the server answers is a line.                                       *)
LEMMA AnswersAreLines == ASSUME NEW s \in Answers PROVE IsLine(s)
<1>1. Here \ unseen \in SUBSET Row /\ s \in SetToSeqs(Here \ unseen)
  BY DEF Here, Answers, InOrder
<1> QED
  BY <1>1, RowsInARow

(* The types hold of a screen just opened.                                 *)
LEMMA TabIsTypedFirst == DragInit => TabIsTyped
<1> SUFFICES ASSUME DragInit PROVE TabIsTyped
  OBVIOUS
<1>1. IsLine(data)
  BY AnswersAreLines DEF DragInit
<1>2. unseen \subseteq Row /\ (Travels \/ unseen = {})
  BY DraggingAssumption DEF DragInit
<1>3. fetch \in [at : {"idle", "asked", "read"}, rows : Seq(Row)] /\ fetch.rows = <<>> /\ fetch.at = "idle"
  BY DEF DragInit, Idle
<1> QED
  BY <1>1, <1>2, <1>3, NothingIsALine DEF DragInit, TabIsTyped

(* Every step keeps the types.                                              *)
LEMMA TabIsTypedStep == TabIsTyped /\ [DragStep]_<<orderVars, tab>> => TabIsTyped'
<1> SUFFICES ASSUME TabIsTyped, [DragStep]_<<orderVars, tab>> PROVE TabIsTyped'
  OBVIOUS
<1>0. /\ screen' = screen /\ way' = way /\ upToDate' = upToDate /\ unseen' = unseen
      /\ Travels' = Travels /\ WayOf(screen)' = WayOf(screen)
  <2>1. screen' = screen /\ unseen' = unseen
    BY DEF DragStep, PickUp, StepAcross, LetGo, LetGoForNothing, Cancel, Serve, Refuse, Settle, OtherActs,
           HearFrame, Answer, Arrive, tab
  <2>2. way' = way /\ upToDate' = upToDate
    BY DEF DragStep, PickUp, StepAcross, LetGo, LetGoForNothing, Cancel, Serve, Refuse, Settle, OtherActs,
           HearFrame, Answer, Arrive, tab, orderVars, DropBetween, Leave, Add, Changed
  <2> QED
    BY <2>1, <2>2 DEF Travels, WayOf
<1> DEFINE Rest == /\ screen \in Screens /\ way = WayOf(screen) /\ ~upToDate
                   /\ unseen \subseteq Row /\ (Travels \/ unseen = {})
           Lines == IsLine(data) /\ IsLine(kept) /\ IsLine(before) /\ (screen # "pictures" => kept = <<>>)
           Hand == carried \in (Row \ unseen) \union {Nobody}
           Fetch == /\ fetch \in [at : {"idle", "asked", "read"}, rows : Seq(Row)]
                    /\ IsLine(fetch.rows) /\ (fetch.at # "read" => fetch.rows = <<>>)
           Sent == (\A m \in sent : RequestIsDrawn(m)) /\ drops \in Nat
<1>1. Rest'
  BY <1>0 DEF TabIsTyped
<1>2. /\ UNCHANGED <<data, kept, before>> => Lines'
      /\ UNCHANGED carried => Hand'
      /\ UNCHANGED fetch => Fetch'
      /\ UNCHANGED <<sent, drops>> => Sent'
  <2>1. UNCHANGED <<data, kept, before>> => Lines'
    BY <1>0 DEF TabIsTyped, IsLine
  <2>2. UNCHANGED carried => Hand'
    BY <1>0 DEF TabIsTyped
  <2>3. UNCHANGED fetch => Fetch'
    BY DEF TabIsTyped, IsLine
  <2>4. UNCHANGED <<sent, drops>> => Sent'
    BY <1>0 DEF TabIsTyped, RequestIsDrawn
  <2> QED
    BY <2>1, <2>2, <2>3, <2>4
<1>3. Rest' /\ Lines' /\ Hand' /\ Fetch' /\ Sent' => TabIsTyped'
  BY DEF TabIsTyped
<1>4. Fetch' <=> LET f == fetch' IN /\ f \in [at : {"idle", "asked", "read"}, rows : Seq(Row)]
                    /\ IsLine(f.rows) /\ (f.at # "read" => f.rows = <<>>)
  OBVIOUS
<1>5. fetch' \in {Idle, Asking} => Fetch'
  <2>1. <<>> \in Seq(Row) /\ IsLine(<<>>)
    BY NothingIsALine
  <2>2. \A at \in {"idle", "asked"} : LET f == [at |-> at, rows |-> <<>>] IN
          f \in [at : {"idle", "asked", "read"}, rows : Seq(Row)] /\ IsLine(f.rows) /\ f.rows = <<>>
    BY <2>1
  <2> HIDE DEF Fetch
  <2> QED
    BY <1>4, <2>2 DEF Idle, Asking
<1>6. /\ IsLine(data) /\ IsLine(kept) /\ IsLine(before) /\ (screen # "pictures" => kept = <<>>)
      /\ carried \in (Row \ unseen) \union {Nobody} /\ Nobody \notin Row
      /\ fetch \in [at : {"idle", "asked", "read"}, rows : Seq(Row)] /\ IsLine(fetch.rows)
      /\ (\A m \in sent : RequestIsDrawn(m)) /\ drops \in Nat
      /\ unseen \subseteq Row /\ (Travels \/ unseen = {}) /\ IsLine(<<>>)
  BY OrderAssumption, NothingIsALine DEF TabIsTyped
<1>7. IsLine(data') /\ IsLine(kept') /\ IsLine(before') /\ (screen' # "pictures" => kept' = <<>>) => Lines'
  OBVIOUS
<1>8. carried' \in (Row \ unseen) \union {Nobody} => Hand'
  BY <1>0
<1>9. (\A m \in sent' : RequestIsDrawn(m)) /\ drops' \in Nat => Sent'
  BY <1>0 DEF RequestIsDrawn
<1> HIDE DEF Rest, Lines, Hand, Fetch, Sent
<1>10. ASSUME NEW r \in Watched, PickUp(r) PROVE TabIsTyped'
  <2>1. r \in Row \ unseen
    <3>1. CASE Elsewhere
      BY <1>10, <3>1, DraggingAssumption DEF PickUp, OnScreen
    <3>2. CASE ~Elsewhere
      <4>1. unseen = {}
        BY <1>6, <3>2 DEF Elsewhere
      <4> QED
        BY <4>1, DraggingAssumption
    <3> QED
      BY <3>1, <3>2
  <2> QED
    BY <1>0, <1>1, <1>2, <1>3, <1>6, <1>7, <1>8, <1>10, <2>1 DEF PickUp
<1>11. ASSUME StepAcross PROVE TabIsTyped'
  <2>1. PICK m \in Hovered(carried) : data' = Applied(data, m)
    BY <1>11 DEF StepAcross
  <2>2. carried \in Row
    BY <1>6, <1>11 DEF StepAcross
  <2>3. m.row = carried
    BY <2>1, HoveredMovesIt
  <2>4. IsLine(data')
    BY <1>6, <2>1, <2>2, <2>3, AppliedIs
  <2> QED
    BY <1>0, <1>1, <1>2, <1>3, <1>6, <1>7, <1>11, <2>4 DEF StepAcross
<1>12. ASSUME LetGo PROVE TabIsTyped'
  <2> DEFINE Sends(m) == [move |-> m, at |-> "going", no |-> drops + 1,
                          order |-> IF Travels THEN data ELSE Applied(Shown, m),
                          revert |-> IF PutsBack THEN before ELSE <<>>]
  <2>1. PICK m \in Releases(carried) :
          /\ sent' = sent \union {Sends(m)}
          /\ data' = IF screen = "lists" THEN Applied(data, m) ELSE data
          /\ kept' = IF screen = "pictures" THEN KeptBeside(data, Applied(Shown, m)) ELSE kept
    BY <1>12 DEF LetGo
  <2>2. carried \in Row /\ carried \notin unseen
    BY <1>6, <1>12 DEF LetGo
  <2>3. Draws(m, carried, LetGoIn(m))
    BY <1>6, <2>2, WhatIsLetGoIsDrawn
  <2>4. IsLine(Shown) /\ m.row = carried
    BY <1>6, <2>3, ShownIsALine DEF Draws
  <2>5. IsLine(Applied(data, m)) /\ IsLine(Applied(Shown, m))
    BY <1>6, <2>2, <2>4, AppliedIs
  <2>6. RequestIsDrawn(Sends(m))
    <3>1. m \in [row : Row, here : BOOLEAN, after : Name, before : Name]
      BY <2>2, <2>3, PlacementIs DEF Draws
    <3>2. IsLine(LetGoIn(m)) /\ m = Placement(LetGoIn(m), m.row) /\ m.row \notin unseen
      BY <2>2, <2>3 DEF Draws
    <3>3. Sends(m) = [move |-> m, at |-> "going", no |-> drops + 1, order |-> LetGoIn(m),
                      revert |-> IF PutsBack THEN before ELSE <<>>]
      BY DEF LetGoIn
    <3> DEFINE back == IF PutsBack THEN before ELSE <<>>
    <3>4. IsLine(back)
      BY <1>6
    <3>5. back \in Seq(Row) /\ LetGoIn(m) \in Seq(Row) /\ drops + 1 \in Nat
      BY <1>6, <3>2, <3>4 DEF IsLine
    <3> HIDE DEF Sends, back
    <3>6. Sends(m) = [move |-> m, at |-> "going", no |-> drops + 1, order |-> LetGoIn(m), revert |-> back]
      BY <3>3 DEF back
    <3>7. Sends(m) \in Request
      BY <3>1, <3>5, <3>6 DEF Request
    <3> QED
      BY <3>2, <3>4, <3>6, <3>7 DEF RequestIsDrawn
  <2> HIDE DEF Sends
  <2>7. Sent'
    <3>1. drops' \in Nat
      BY <1>6, <1>12 DEF LetGo
    <3> QED
      BY <1>6, <1>9, <2>1, <2>6, <3>1
  <2>8. IsLine(data') /\ IsLine(kept') /\ (screen' # "pictures" => kept' = <<>>)
    BY <1>0, <1>6, <2>1, <2>5 DEF KeptBeside
  <2>9. Lines' /\ Hand'
    BY <1>6, <1>7, <1>8, <1>12, <2>8 DEF LetGo
  <2>10. Fetch'
    BY <1>2, <1>5, <1>12 DEF LetGo
  <2> QED
    BY <1>1, <1>3, <2>7, <2>9, <2>10
<1>13. ASSUME LetGoForNothing PROVE TabIsTyped'
  BY <1>0, <1>1, <1>2, <1>3, <1>6, <1>7, <1>8, <1>13 DEF LetGoForNothing
<1>14. ASSUME Cancel PROVE TabIsTyped'
  BY <1>0, <1>1, <1>2, <1>3, <1>6, <1>7, <1>8, <1>14 DEF Cancel
<1>15. ASSUME NEW m \in sent, NEW at \in {"done", "failed"}, sent' = (sent \ {m}) \union {[m EXCEPT !.at = at]},
              UNCHANGED <<data, kept, carried, before, drops, fetch>>
       PROVE  TabIsTyped'
  <2> DEFINE n == [m EXCEPT !.at = at]
  <2>1. m \in Request /\ RequestIsDrawn(m)
    BY <1>6 DEF RequestIsDrawn
  <2>2. n \in Request /\ n.order = m.order /\ n.revert = m.revert /\ n.move = m.move
    BY <2>1 DEF Request
  <2> HIDE DEF n
  <2>3. RequestIsDrawn(n)
    BY <2>1, <2>2 DEF RequestIsDrawn
  <2>4. \A l \in sent' : l \in sent \/ l = n
    BY <1>15 DEF n
  <2>5. Sent'
    BY <1>6, <1>9, <1>15, <2>3, <2>4
  <2> QED
    BY <1>1, <1>2, <1>3, <1>15, <2>5
<1>16. ASSUME NEW m \in sent, Serve(m) PROVE TabIsTyped'
  BY <1>15, <1>16 DEF Serve
<1>17. ASSUME NEW m \in sent, Refuse(m) PROVE TabIsTyped'
  BY <1>15, <1>17 DEF Refuse
<1>18. ASSUME NEW m \in sent, Settle(m) PROVE TabIsTyped'
  <2>1. IsLine(m.revert)
    BY <1>6 DEF RequestIsDrawn
  <2>2. IsLine(data') /\ IsLine(kept') /\ IsLine(before') /\ (screen' # "pictures" => kept' = <<>>)
    BY <1>0, <1>6, <1>18, <2>1 DEF Settle
  <2>3. Sent'
    BY <1>6, <1>9, <1>18 DEF Settle
  <2>4. Fetch' /\ Hand'
    BY <1>2, <1>5, <1>18 DEF Settle
  <2> QED
    BY <1>1, <1>3, <1>7, <2>2, <2>3, <2>4
<1>19. ASSUME OtherActs PROVE TabIsTyped'
  BY <1>1, <1>2, <1>3, <1>19 DEF OtherActs
<1>20. ASSUME HearFrame PROVE TabIsTyped'
  BY <1>1, <1>2, <1>3, <1>5, <1>20 DEF HearFrame
<1>21. ASSUME Answer PROVE TabIsTyped'
  <2>1. PICK rows \in Answers : fetch' = [at |-> "read", rows |-> rows]
    BY <1>21 DEF Answer
  <2>2. IsLine(rows) /\ rows \in Seq(Row)
    BY AnswersAreLines DEF IsLine
  <2>3. Fetch'
    BY <1>4, <2>1, <2>2
  <2> QED
    BY <1>1, <1>2, <1>3, <1>21, <2>3 DEF Answer
<1>22. ASSUME Arrive PROVE TabIsTyped'
  <2>1. IsLine(data') /\ IsLine(kept') /\ IsLine(before') /\ (screen' # "pictures" => kept' = <<>>)
    BY <1>0, <1>6, <1>22 DEF Arrive, KeptBeside
  <2> QED
    BY <1>1, <1>2, <1>3, <1>5, <1>7, <1>22, <2>1 DEF Arrive
<1>23. CASE UNCHANGED <<orderVars, tab>>
  BY <1>1, <1>2, <1>3, <1>23 DEF tab
<1> QED
  BY <1>10, <1>11, <1>12, <1>13, <1>14, <1>16, <1>17, <1>18, <1>19, <1>20, <1>21, <1>22, <1>23 DEF DragStep

-----------------------------------------------------------------------------
(* A drag is a move of the set: Dragging implements Ordering.               *)

(* The types hold at every time.                                            *)
LEMMA TabInvariant == DragSpec => []TabIsTyped
BY TabIsTypedFirst, TabIsTypedStep, PTL DEF DragSpec

(* What a drawn request names may be asked of a set that has moved on.      *)
LEMMA DrawnIsARequest ==
  ASSUME ~upToDate, NEW m \in Request, RequestIsDrawn(m)
  PROVE  <<m.move.after, m.move.before>> \in Requests(m.move.row) /\ m.move.row \in Row
<1>1. m.move.row \in Row /\ IsLine(m.order) /\ m.move = Placement(m.order, m.move.row)
  BY DEF Request, RequestIsDrawn
<1>2. LET p == Placement(m.order, m.move.row) IN
      /\ p \in [row : Row, here : BOOLEAN, after : Name, before : Name] /\ p.row = m.move.row
      /\ p.after # m.move.row /\ p.before # m.move.row /\ (p.after = p.before => p.after = Nobody)
  BY <1>1, PlacementIs
<1>3. /\ m.move.after \in Name /\ m.move.before \in Name
      /\ m.move.after # m.move.row /\ m.move.before # m.move.row
      /\ m.move.after = m.move.before => m.move.after = Nobody
  BY <1>1, <1>2
<1> QED
  BY <1>1, <1>3 DEF Requests, Name

(* A pair that stands side by side now may be asked for.                    *)
LEMMA AdjacentIsARequest ==
  ASSUME ~upToDate, NEW r \in Row, NEW p \in Adjacent(r)
  PROVE  p \in Requests(r)
<1>1. PICK s \in InOrder(Others(r)), i \in 0 .. Cardinality(Others(r)) : p = <<NameAt(s, i), NameAt(s, i + 1)>>
  BY DEF Adjacent
<1>2. IsLine(s) /\ ToSet(s) = Others(r) /\ Len(s) = Cardinality(Others(r))
  <2>1. s \in SetToSeqs(Others(r)) /\ Others(r) \in SUBSET Row
    BY DEF InOrder, Others, Here
  <2> QED
    BY <2>1, RowsInARow
<1>3. /\ Len(s) \in Nat /\ DOMAIN s = 1 .. Len(s) /\ i \in 0 .. Len(s)
      /\ \A k \in 1 .. Len(s) : s[k] \in Row /\ s[k] # r /\ s[k] # Nobody
      /\ \A k, l \in 1 .. Len(s) : k # l => s[k] # s[l]
  <2>1. \A k \in DOMAIN s : s[k] \in ToSet(s)
    BY DEF ToSet
  <2> QED
    BY <1>2, <2>1, WhereInALine DEF IsLine, Others
<1>4. NameAt(s, i) \in (Row \ {r}) \union {Nobody} /\ NameAt(s, i + 1) \in (Row \ {r}) \union {Nobody}
  BY <1>3 DEF NameAt
<1>5. NameAt(s, i) = NameAt(s, i + 1) => NameAt(s, i) = Nobody
  BY <1>3 DEF NameAt
<1> QED
  BY <1>1, <1>4, <1>5 DEF Requests

(* Every step of a screen is a step of Ordering, or leaves the set alone.   *)
LEMMA DragArranges == TabIsTyped /\ [DragStep]_<<orderVars, tab>> => [OrderNext]_orderVars
<1> SUFFICES ASSUME TabIsTyped, [DragStep]_<<orderVars, tab>> PROVE [OrderNext]_orderVars
  OBVIOUS
<1>1. ASSUME NEW m \in sent, Serve(m) PROVE [OrderNext]_orderVars
  <2>1. m \in Request /\ RequestIsDrawn(m) /\ ~upToDate
    BY DEF TabIsTyped, RequestIsDrawn
  <2>2. <<m.move.after, m.move.before>> \in Requests(m.move.row) /\ m.move.row \in Row
    BY <2>1, DrawnIsARequest
  <2>3. CASE DropBetween(m.move.row, m.move.after, m.move.before)
    <3>1. PICK p \in Requests(m.move.row) : p = <<m.move.after, m.move.before>>
      BY <2>2
    <3>2. p[1] = m.move.after /\ p[2] = m.move.before
      BY <3>1
    <3>3. Drop(m.move.row)
      BY <2>3, <3>2 DEF Drop
    <3> QED
      BY <2>2, <3>3 DEF OrderNext
  <2>4. CASE Leave(m.move.row)
    BY <2>2, <2>4 DEF OrderNext
  <2>5. CASE UNCHANGED orderVars
    BY <2>5
  <2> QED
    BY <1>1, <2>3, <2>4, <2>5 DEF Serve
<1>2. ASSUME OtherActs PROVE [OrderNext]_orderVars
  <2>1. PICK r \in Watched : \/ \E p \in Adjacent(r) : (Elsewhere \/ r \in Here) /\ DropBetween(r, p[1], p[2])
                             \/ Add(r)
                             \/ Leave(r)
    BY <1>2 DEF OtherActs
  <2>2. r \in Row /\ ~upToDate
    BY DraggingAssumption DEF TabIsTyped
  <2>3. (\E p \in Adjacent(r) : DropBetween(r, p[1], p[2])) => Drop(r)
    BY <2>2, AdjacentIsARequest DEF Drop
  <2> QED
    BY <2>1, <2>2, <2>3 DEF OrderNext
<1>3. CASE UNCHANGED orderVars
  BY <1>3
<1> QED
  BY <1>1, <1>2, <1>3 DEF DragStep, PickUp, StepAcross, LetGo, LetGoForNothing, Cancel, Refuse, Settle,
                          HearFrame, Answer, Arrive

(* A drag, with what others do meanwhile, arranges the set as Ordering      *)
(* says: Dragging implements it.                                            *)
THEOREM TheScreenArrangesTheSet == DragSpec => OrderSpec
<1>1. DragInit => OrderInit
  BY DEF DragInit
<1> QED
  BY <1>1, DragArranges, TabInvariant, PTL DEF DragSpec, OrderSpec

-----------------------------------------------------------------------------
(* A row goes where it was drawn: between the two rows it names.            *)

(* The row at the j-th gap of a line is beyond the one and short of the     *)
(* other.                                                                   *)
Beside(where, t, j, p) == (j # 0 => where[t[j]] < p) /\ (j # Len(t) => p < where[t[j + 1]])

(* A line that climbs still does with a row put in where it belongs.        *)
LEMMA AClimbWithOneMore ==
  ASSUME NEW where \in [Row -> Int], NEW t, IsLine(t), Climbs(where, t),
         NEW r \in Row, \A i \in 1 .. Len(t) : t[i] # r, NEW j \in 0 .. Len(t), Beside(where, t, j, where[r])
  PROVE  Climbs(where, InsertAt(t, j + 1, r))
<1> DEFINE u == InsertAt(t, j + 1, r)
           n == Len(t)
<1>1. /\ n \in Nat /\ j \in 0 .. n /\ \A i \in 1 .. n : t[i] \in Row /\ where[t[i]] \in Int
      /\ \A i, k \in 1 .. n : i < k => where[t[i]] < where[t[k]]
      /\ where[r] \in Int
      /\ (j # 0 => where[t[j]] < where[r]) /\ (j # n => where[r] < where[t[j + 1]])
  BY WhereInALine DEF Climbs, Beside
<1>2. /\ Len(u) = n + 1 /\ u[j + 1] = r
      /\ \A i \in 1 .. n : IF i < j + 1 THEN u[i] = t[i] ELSE u[i + 1] = t[i]
  <2>1. j + 1 \in 1 .. Len(t) + 1
    BY <1>1
  <2> QED
    BY <2>1, InsertedLine
<1> HIDE DEF u, n
<1>3. \A i \in 1 .. n : i < j => where[t[i]] < where[t[j]]
  BY <1>1
<1>4. \A i \in 1 .. n : j + 1 < i => where[t[j + 1]] < where[t[i]]
  BY <1>1
<1>5. \A i \in 1 .. n : i <= j => where[t[i]] < where[r]
  <2> SUFFICES ASSUME NEW i \in 1 .. n, i <= j PROVE where[t[i]] < where[r]
    OBVIOUS
  <2>1. j \in 1 .. n /\ where[t[j]] < where[r]
    BY <1>1
  <2>2. i = j \/ where[t[i]] < where[t[j]]
    BY <1>1, <1>3
  <2> QED
    BY <1>1, <2>1, <2>2
<1>6. \A i \in 1 .. n : j + 1 <= i => where[r] < where[t[i]]
  <2> SUFFICES ASSUME NEW i \in 1 .. n, j + 1 <= i PROVE where[r] < where[t[i]]
    OBVIOUS
  <2>1. j + 1 \in 1 .. n /\ where[r] < where[t[j + 1]]
    BY <1>1
  <2>2. i = j + 1 \/ where[t[j + 1]] < where[t[i]]
    BY <1>1, <1>4
  <2> QED
    BY <1>1, <2>1, <2>2
<1>7. ASSUME NEW i \in 1 .. n + 1, NEW k \in 1 .. n + 1, i < k PROVE where[u[i]] < where[u[k]]
  <2>1. CASE k < j + 1
    <3>1. i \in 1 .. n /\ k \in 1 .. n /\ u[i] = t[i] /\ u[k] = t[k]
      BY <1>1, <1>2, <1>7, <2>1
    <3> QED
      BY <1>1, <1>7, <3>1
  <2>2. CASE k = j + 1
    <3>1. i \in 1 .. n /\ i <= j /\ u[i] = t[i] /\ u[k] = r
      BY <1>1, <1>2, <1>7, <2>2
    <3> QED
      BY <1>5, <3>1
  <2>3. CASE k > j + 1
    <3>1. k - 1 \in 1 .. n /\ ~(k - 1 < j + 1) /\ k - 1 + 1 = k
      BY <1>1, <2>3
    <3>2. u[k] = t[k - 1]
      BY <1>2, <3>1
    <3>3. CASE i < j + 1
      <4>1. i \in 1 .. n /\ i < k - 1 /\ u[i] = t[i]
        BY <1>1, <1>2, <1>7, <2>3, <3>3
      <4> QED
        BY <1>1, <3>1, <3>2, <4>1
    <3>4. CASE i = j + 1
      <4>1. j + 1 <= k - 1 /\ u[i] = r
        BY <1>1, <1>2, <2>3, <3>4
      <4> QED
        BY <1>6, <3>1, <3>2, <4>1
    <3>5. CASE i > j + 1
      <4>1. i - 1 \in 1 .. n /\ ~(i - 1 < j + 1) /\ i - 1 + 1 = i /\ i - 1 < k - 1
        BY <1>1, <1>7, <3>5
      <4>2. u[i] = t[i - 1]
        BY <1>2, <4>1
      <4> QED
        BY <1>1, <3>1, <3>2, <4>1, <4>2
    <3> QED
      BY <1>1, <3>3, <3>4, <3>5
  <2> QED
    BY <1>1, <2>1, <2>2, <2>3
<1>8. Climbs(where, u)
  BY <1>2, <1>7 DEF Climbs
<1> QED
  BY <1>8 DEF u

(* A set read whole: the gap found is the gap that was named.               *)
LEMMA TheGapThatWasNamed ==
  ASSUME NEW t, IsLine(t), NEW j \in 0 .. Len(t), NEW where
  PROVE  LET gap == GapFor(where, t, NameAt(t, j), NameAt(t, j + 1)) IN
         gap.lower = PlaceOf(where, t, j) /\ gap.upper = PlaceOf(where, t, j + 1)
<1> DEFINE inFront == Where(t, NameAt(t, j + 1))
           behind == Where(t, NameAt(t, j))
<1>1. /\ Len(t) \in Nat /\ DOMAIN t = 1 .. Len(t) /\ \A i \in 1 .. Len(t) : t[i] # Nobody /\ Where(t, t[i]) = i
      /\ Where(t, Nobody) \in 0 .. Len(t) /\ (Where(t, Nobody) # 0 => t[Where(t, Nobody)] = Nobody)
  BY WhereInALine
<1>2. Where(t, Nobody) = 0
  BY <1>1
<1>3. inFront = IF j = Len(t) THEN 0 ELSE j + 1
  <2>0. Len(t) \in Nat /\ j \in 0 .. Len(t)
    BY <1>1
  <2>1. CASE j = Len(t)
    <3>1. j + 1 \notin 1 .. Len(t)
      BY ONLY <2>0, <2>1
    <3>2. NameAt(t, j + 1) = Nobody
      BY <1>1, <3>1 DEF NameAt
    <3> QED
      BY <1>2, <2>1, <3>2
  <2>2. CASE j # Len(t)
    <3>1. j + 1 \in 1 .. Len(t)
      BY ONLY <2>0, <2>2
    <3>2. NameAt(t, j + 1) = t[j + 1]
      BY <1>1, <3>1 DEF NameAt
    <3> QED
      BY <1>1, <2>2, <3>1, <3>2
  <2> QED
    BY <2>1, <2>2
<1>4. behind = j
  <2>1. CASE j = 0
    <3>1. NameAt(t, j) = Nobody
      BY <1>1, <2>1 DEF NameAt
    <3> QED
      BY <1>2, <2>1, <3>1
  <2>2. CASE j # 0
    <3>1. j \in 1 .. Len(t) /\ NameAt(t, j) = t[j]
      BY <1>1, <2>2 DEF NameAt
    <3> QED
      BY <1>1, <3>1
  <2> QED
    BY <2>1, <2>2
<1>0. Len(t) \in Nat /\ j \in 0 .. Len(t)
  BY <1>1
<1>5. PlaceOf(where, t, Len(t) + 1) = Null
  BY <1>1 DEF PlaceOf
<1> HIDE DEF inFront, behind
<1>6. CASE inFront # 0
  <2>1. GapFor(where, t, NameAt(t, j), NameAt(t, j + 1)) =
          [lower |-> PlaceOf(where, t, inFront - 1), upper |-> PlaceOf(where, t, inFront)]
    BY <1>6 DEF GapFor, inFront
  <2>2. inFront - 1 = j /\ inFront = j + 1
    BY ONLY <1>0, <1>3, <1>6
  <2> QED
    BY <2>1, <2>2
<1>7. CASE inFront = 0 /\ behind # 0
  <2>1. GapFor(where, t, NameAt(t, j), NameAt(t, j + 1)) =
          [lower |-> PlaceOf(where, t, behind), upper |-> PlaceOf(where, t, behind + 1)]
    BY <1>7 DEF GapFor, inFront, behind
  <2> QED
    BY <1>4, <2>1
<1>8. CASE inFront = 0 /\ behind = 0
  <2>1. GapFor(where, t, NameAt(t, j), NameAt(t, j + 1)) = [lower |-> PlaceOf(where, t, Len(t)), upper |-> Null]
    BY <1>8 DEF GapFor, inFront, behind
  <2>2. j = Len(t)
    BY ONLY <1>0, <1>3, <1>8
  <2> QED
    BY <1>5, <2>1, <2>2
<1> QED
  BY <1>6, <1>7, <1>8

(* A list placed as a whole puts the row between the two it was drawn       *)
(* between.                                                                 *)
LEMMA WholeLandsThere ==
  ASSUME OrderShape, moves < MaxMoves, NEW r \in Row, Apart(position, Others(r)),
         NEW t \in InOrder(Others(r)), NEW j \in 0 .. Len(t), PlaceAmong(r, NameAt(t, j), NameAt(t, j + 1))
  PROVE  \E where, p : Moved(r, where, p) /\ Beside(where, t, j, p)
<1> DEFINE S == Others(r)
           after == NameAt(t, j)
           ahead == NameAt(t, j + 1)
<1>1. /\ moves \in 0 .. MaxMoves /\ moves \in 0 .. MaxMoves - 1 /\ position \in [Row -> Int]
      /\ S \in SUBSET Here /\ S \in SUBSET Row /\ Stands(position)
  BY StandsNow, OrderAssumption DEF OrderShape, Others, Here
<1>2. /\ IsLine(t) /\ DOMAIN t = 1 .. Len(t) /\ Len(t) \in Nat /\ j \in 0 .. Len(t)
      /\ \A i \in 1 .. Len(t) : t[i] \in S
      /\ Climbs(position, t)
  <2>1. t \in SetToSeqs(S)
    BY DEF InOrder
  <2>2. IsLine(t) /\ ToSet(t) = S
    BY <1>1, <2>1, RowsInARow
  <2>3. \A i \in DOMAIN t : t[i] \in S
    BY <2>2 DEF ToSet
  <2>4. Climbs(position, t)
    BY <1>1, ApartClimbs
  <2> QED
    BY <2>2, <2>3, <2>4, WhereInALine
<1>3. PICK s \in InOrder(S) :
        LET gap == GapFor(position, s, after, ahead)
            room == GapFor(Spread(s), s, after, ahead)
        IN position' = IF TooTight(gap.lower, gap.upper)
                         THEN [Spread(s) EXCEPT ![r] = Between(room.lower, room.upper)]
                         ELSE [position EXCEPT ![r] = Between(gap.lower, gap.upper)]
  BY DEF PlaceAmong
<1>4. s = t
  <2>1. s \in Arranged(position, S) /\ t \in Arranged(position, S)
    BY DEF InOrder, Arranged
  <2> HIDE DEF S
  <2> QED
    BY <1>1, <2>1, OneOrder DEF S
<1> DEFINE b(where) == Between(PlaceOf(where, t, j), PlaceOf(where, t, j + 1))
<1>5. \A where : LET gap == GapFor(where, t, after, ahead) IN
                 gap.lower = PlaceOf(where, t, j) /\ gap.upper = PlaceOf(where, t, j + 1)
  BY <1>2, TheGapThatWasNamed
<1> HIDE DEF after, ahead
<1>6. \/ position' = [Spread(t) EXCEPT ![r] = b(Spread(t))]
      \/ position' = [position EXCEPT ![r] = b(position)]
  BY <1>3, <1>4, <1>5
<1>7. ASSUME NEW where, Stands(where),
             \A x, y \in S : position[x] < position[y] => where[x] < where[y],
             position' = [where EXCEPT ![r] = b(where)]
      PROVE  Moved(r, where, b(where)) /\ Beside(where, t, j, b(where))
  <2>1. \A x \in S : where[x] \in Places(moves) /\ where[x] # Null /\ position[x] \in Int /\ where[x] \in Int
    BY <1>1, <1>7, WhereItStands
  <2> DEFINE lower == PlaceOf(where, t, j)
             upper == PlaceOf(where, t, j + 1)
  <2>2. /\ lower \in Places(moves) \union {Null} /\ upper \in Places(moves) \union {Null}
        /\ j # 0 => lower = where[t[j]] /\ lower # Null
        /\ j = 0 => lower = Null
        /\ j # Len(t) => upper = where[t[j + 1]] /\ upper # Null
        /\ j = Len(t) => upper = Null
    <3>1. Len(t) \in Nat /\ j \in 0 .. Len(t) /\ DOMAIN t = 1 .. Len(t)
      BY <1>2
    <3>2. \A i \in 1 .. Len(t) : where[t[i]] \in Places(moves) /\ where[t[i]] # Null
      BY <1>2, <2>1
    <3>3. \A i \in Int :
            /\ PlaceOf(where, t, i) \in Places(moves) \union {Null}
            /\ i \in 1 .. Len(t) => PlaceOf(where, t, i) = where[t[i]] /\ PlaceOf(where, t, i) # Null
            /\ i \notin 1 .. Len(t) => PlaceOf(where, t, i) = Null
      BY <3>1, <3>2 DEF PlaceOf
    <3>0. Len(t) \in Nat /\ j \in 0 .. Len(t)
      BY <3>1
    <3>4. j \in Int /\ (j # 0 => j \in 1 .. Len(t)) /\ (j = 0 => j \notin 1 .. Len(t))
      BY ONLY <3>0
    <3>5. j + 1 \in Int /\ (j # Len(t) => j + 1 \in 1 .. Len(t)) /\ (j = Len(t) => j + 1 \notin 1 .. Len(t))
      BY ONLY <3>0
    <3>6. /\ lower \in Places(moves) \union {Null}
          /\ j # 0 => lower = where[t[j]] /\ lower # Null
          /\ j = 0 => lower = Null
      BY <3>3, <3>4
    <3>7. /\ upper \in Places(moves) \union {Null}
          /\ j # Len(t) => upper = where[t[j + 1]] /\ upper # Null
          /\ j = Len(t) => upper = Null
      BY <3>3, <3>5
    <3> QED
      BY <3>6, <3>7
  <2>3. j # 0 /\ j # Len(t) => lower < upper
    <3>0. Len(t) \in Nat /\ j \in 0 .. Len(t)
      BY <1>2
    <3>1. j # 0 /\ j # Len(t) => j \in 1 .. Len(t) /\ j + 1 \in 1 .. Len(t) /\ j < j + 1
      BY ONLY <3>0
    <3>2. j # 0 /\ j # Len(t) => position[t[j]] < position[t[j + 1]] /\ t[j] \in S /\ t[j + 1] \in S
      BY <1>2, <3>1 DEF Climbs
    <3> QED
      BY <1>7, <2>2, <3>2
  <2> HIDE DEF lower, upper
  <2>4. /\ Between(lower, upper) \in Places(moves + 1)
        /\ lower # Null /\ upper # Null /\ lower < upper
              => lower < Between(lower, upper) /\ Between(lower, upper) < upper
        /\ lower # Null /\ upper = Null => lower < Between(lower, upper)
        /\ lower = Null /\ upper # Null => Between(lower, upper) < upper
    BY <1>1, <2>2, BetweenIsAPlace
  <2>5. b(where) = Between(lower, upper)
    BY DEF lower, upper
  <2>6. Moved(r, where, b(where))
    BY <1>7, <2>4, <2>5 DEF Moved
  <2>7. Beside(where, t, j, b(where))
    BY <2>2, <2>3, <2>4, <2>5 DEF Beside
  <2> QED
    BY <2>6, <2>7
<1>8. CASE position' = [Spread(t) EXCEPT ![r] = b(Spread(t))]
  <2>1. /\ Stands(Spread(t))
        /\ \A x, y \in S : position[x] < position[y] => Spread(t)[x] < Spread(t)[y]
    BY <1>1, SpreadStands
  <2> QED
    BY <1>7, <1>8, <2>1
<1>9. CASE position' = [position EXCEPT ![r] = b(position)]
  BY <1>1, <1>7, <1>9
<1> QED
  BY <1>6, <1>8, <1>9

(* A row dropped between two that are next to each other, on a screen that  *)
(* shows the others as they are, lands there.                               *)
LEMMA ItLandsBetween ==
  ASSUME OrderShape, ~upToDate, NEW r \in Row, NEW U \in SUBSET Row, r \notin U, way = "asked" \/ U = {},
         Apart(position, Others(r)), NEW t \in Arranged(position, Others(r) \ U), NEW j \in 0 .. Len(t),
         DropBetween(r, NameAt(t, j), NameAt(t, j + 1))
  PROVE  /\ position' \in [Row -> Int] /\ Here' = Here \union {r}
         /\ Climbs(position', InsertAt(t, j + 1, r))
         /\ IsLine(InsertAt(t, j + 1, r)) /\ ToSet(InsertAt(t, j + 1, r)) = Here' \ U
<1> DEFINE S == Others(r) \ U
           after == NameAt(t, j)
           ahead == NameAt(t, j + 1)
<1>1. /\ S \in SUBSET Row /\ S \subseteq Others(r) /\ Others(r) \subseteq Here /\ Here \subseteq Row
      /\ position \in [Row -> Int] /\ r \notin S
      /\ moves < MaxMoves /\ moves' = moves + 1
  BY StandsNow DEF Others, Here, DropBetween, Changed
<1>2. /\ IsLine(t) /\ ToSet(t) = S /\ DOMAIN t = 1 .. Len(t) /\ Len(t) \in Nat /\ j \in 0 .. Len(t)
      /\ \A i \in 1 .. Len(t) : t[i] \in S
      /\ \A i, k \in 1 .. Len(t) : i # k => t[i] # t[k]
  <2>1. t \in SetToSeqs(S)
    BY DEF Arranged
  <2>2. IsLine(t) /\ ToSet(t) = S
    BY <1>1, <2>1, RowsInARow
  <2>3. \A i \in DOMAIN t : t[i] \in S
    BY <2>2 DEF ToSet
  <2> QED
    BY <2>2, <2>3, WhereInALine DEF IsLine
<1>3. Climbs(position, t)
  <2>1. /\ Len(t) = Cardinality(S) /\ Len(t) \in 0 .. Cardinality(Row) /\ Cardinality(Row) \in Nat
        /\ t \in [1 .. Len(t) -> S] /\ t \in Seq(S) /\ DOMAIN t = 1 .. Len(t)
        /\ \A i, k \in 1 .. Len(t) : i # k => t[i] # t[k]
        /\ \A x \in S : \E i \in 1 .. Len(t) : t[i] = x
        /\ ToSet(t) = S
        /\ \A i, k \in 1 .. Len(t) : i < k => position[t[i]] <= position[t[k]]
    BY <1>1, ArrangedIs
  <2>2. \A i, k \in 1 .. Len(t) : i < k => position[t[i]] # position[t[k]]
    BY <1>1, <1>2 DEF Apart
  <2>3. \A i \in 1 .. Len(t) : position[t[i]] \in Int
    BY <1>1, <1>2
  <2> HIDE DEF S
  <2> QED
    BY <2>1, <2>2, <2>3 DEF Climbs
<1>4. /\ j # 0 => j \in 1 .. Len(t) /\ after = t[j] /\ after \in Here
      /\ j = 0 => after = Nobody
      /\ j # Len(t) => j + 1 \in 1 .. Len(t) /\ ahead = t[j + 1] /\ ahead \in Here
      /\ j = Len(t) => ahead = Nobody
      /\ j # 0 /\ j # Len(t) => position[after] < position[ahead]
  <2>0. Len(t) \in Nat /\ j \in 0 .. Len(t)
    BY <1>2
  <2>1. /\ j # 0 => j \in 1 .. Len(t)
        /\ j = 0 => j \notin 1 .. Len(t)
    BY ONLY <2>0
  <2>2. /\ j # Len(t) => j + 1 \in 1 .. Len(t) /\ j < j + 1
        /\ j = Len(t) => j + 1 \notin 1 .. Len(t)
    BY ONLY <2>0
  <2>3. \A i \in 1 .. Len(t) : t[i] \in Here
    BY <1>1, <1>2
  <2>4. /\ j # 0 => after = t[j] /\ after \in Here
        /\ j = 0 => after = Nobody
    BY <1>2, <2>1, <2>3 DEF NameAt
  <2>5. /\ j # Len(t) => ahead = t[j + 1] /\ ahead \in Here
        /\ j = Len(t) => ahead = Nobody
    BY <1>2, <2>2, <2>3 DEF NameAt
  <2> HIDE DEF after, ahead, S
  <2>6. j # 0 /\ j # Len(t) => position[after] < position[ahead]
    BY <1>3, <2>1, <2>2, <2>4, <2>5 DEF Climbs
  <2> QED
    BY <2>1, <2>2, <2>4, <2>5, <2>6
<1>5. <<after, ahead>> \in Requests(r)
  <2>1. after \in (Row \ {r}) \union {Nobody} /\ ahead \in (Row \ {r}) \union {Nobody}
    <3>1. \A i \in 1 .. Len(t) : t[i] \in Row \ {r}
      BY <1>1, <1>2
    <3> QED
      BY <1>2, <3>1 DEF NameAt
  <2>2. after = ahead => after = Nobody
    BY <1>2 DEF NameAt
  <2> HIDE DEF after, ahead
  <2> QED
    BY <2>1, <2>2 DEF Requests
<1> HIDE DEF after, ahead, S
<1>6. \E where, p : Moved(r, where, p) /\ Beside(where, t, j, p)
  <2>1. ASSUME NEW where, NEW p, Landed(after, ahead, where, p) PROVE Beside(where, t, j, p)
    <3>1. CASE j # 0 /\ j # Len(t)
      BY <1>4, <2>1, <3>1 DEF Landed, Beside
    <3>2. CASE j = 0
      BY <1>4, <2>1, <3>2 DEF Landed, Beside
    <3>3. CASE j = Len(t)
      BY <1>4, <2>1, <3>3 DEF Landed, Beside
    <3> QED
      BY <3>1, <3>2, <3>3
  <2>2. Place(r, after, ahead)
    BY DEF DropBetween, after, ahead
  <2>3. CASE way = "asked"
    <3>1. PlaceInOrder(r, after, ahead)
      BY <2>2, <2>3 DEF Place
    <3>2. \E where, p : Moved(r, where, p) /\ Landed(after, ahead, where, p)
      BY <1>1, <1>5, <3>1, AskedLands
    <3> QED
      BY <2>1, <3>2
  <2>4. CASE way = "named"
    <3>1. PlaceBetweenNamed(r, after, ahead)
      BY <2>2, <2>4 DEF Place
    <3>2. \E p : Moved(r, position, p) /\ Landed(after, ahead, position, p)
      BY <1>1, <1>5, <3>1, NamedLands
    <3> QED
      BY <2>1, <3>2
  <2>5. CASE way = "whole"
    <3>1. PlaceAmong(r, after, ahead)
      BY <2>2, <2>5 DEF Place
    <3>2. S = Others(r)
      BY <2>5 DEF S
    <3>3. t \in InOrder(Others(r))
      BY <3>2 DEF Arranged, InOrder, S
    <3> QED
      BY <1>1, <3>1, <3>3, WholeLandsThere DEF after, ahead
  <2> QED
    BY <2>3, <2>4, <2>5 DEF OrderShape, Ways
<1>7. PICK where, p : Moved(r, where, p) /\ Beside(where, t, j, p)
  BY <1>6
<1>8. /\ position' \in [Row -> Places(moves') \union {Null}]
      /\ position'[r] = p /\ \A x \in Row \ {r} : position'[x] = where[x]
      /\ Here' = Here \union {r} /\ Others(r) = Here' \ {r}
      /\ \A x \in Others(r) : where[x] \in Int /\ position[x] \in Int
  BY <1>1, <1>7, WhereItEndsUp
<1>9. position' \in [Row -> Int]
  <2>1. moves' \in 0 .. MaxMoves /\ Null \in Int
    BY <1>1, OrderAssumption DEF OrderShape, Null
  <2>2. Places(moves') \subseteq Int
    <3>1. \A n \in 0 .. MaxMoves : Places(n) \subseteq Nat \ {0}
      BY StepsArePlaces
    <3> QED
      BY <2>1, <3>1
  <2> QED
    BY <1>8, <2>1, <2>2
<1>10. \A i \in 1 .. Len(t) : t[i] # r /\ t[i] \in Others(r) /\ position'[t[i]] = where[t[i]]
  BY <1>1, <1>2, <1>8
<1>11. Climbs(position', t)
  <2>1. ASSUME NEW i \in 1 .. Len(t), NEW k \in 1 .. Len(t), i < k PROVE position'[t[i]] < position'[t[k]]
    <3>1. position[t[i]] < position[t[k]]
      BY <1>3, <2>1 DEF Climbs
    <3>2. where[t[i]] < where[t[k]]
      BY <1>7, <1>10, <3>1 DEF Moved
    <3> QED
      BY <1>10, <3>2
  <2> QED
    BY <2>1 DEF Climbs
<1>12. Beside(position', t, j, position'[r])
  BY <1>4, <1>7, <1>8, <1>10 DEF Beside
<1>13. Climbs(position', InsertAt(t, j + 1, r))
  BY <1>2, <1>9, <1>10, <1>11, <1>12, AClimbWithOneMore
<1>14. j + 1 \in 1 .. Len(t) + 1
  BY <1>2
<1>15. IsLine(InsertAt(t, j + 1, r)) /\ ToSet(InsertAt(t, j + 1, r)) = S \union {r}
  BY <1>2, <1>10, <1>14, InsertedLine, InsertedRows
<1>16. S \union {r} = Here' \ U
  BY <1>8 DEF S, Others
<1> QED
  BY <1>8, <1>9, <1>13, <1>15, <1>16

-----------------------------------------------------------------------------
(* The order a request was drawn on, and the order it makes.                *)

(* What the server answers, by what is seen and where it stands.            *)
LEMMA AnswersAre == Answers = Arranged(position, Here \ unseen)
BY DEF Answers, InOrder, Arranged

(* An order without one of its rows is the order of the others.             *)
LEMMA OrderOfTheOthers ==
  ASSUME position \in [Row -> Int], NEW r \in Row, NEW s \in Answers
  PROVE  IsLine(s) /\ Lacking(s, r) \in Arranged(position, Others(r) \ unseen)
<1> DEFINE S == Here \ unseen
           v == Lacking(s, r)
           k == Where(s, r)
<1>1. s \in Arranged(position, S) /\ S \in SUBSET Row
  BY AnswersAre DEF Here
<1>2. /\ Len(s) = Cardinality(S) /\ Len(s) \in 0 .. Cardinality(Row) /\ Cardinality(Row) \in Nat
      /\ s \in [1 .. Len(s) -> S] /\ s \in Seq(S) /\ DOMAIN s = 1 .. Len(s)
      /\ \A i, j \in 1 .. Len(s) : i # j => s[i] # s[j]
      /\ \A x \in S : \E i \in 1 .. Len(s) : s[i] = x
      /\ ToSet(s) = S
      /\ \A i, j \in 1 .. Len(s) : i < j => position[s[i]] <= position[s[j]]
  BY <1>1, ArrangedIs
<1>3. IsLine(s)
  <2>1. s \in SetToSeqs(S)
    BY <1>1 DEF Arranged
  <2> HIDE DEF S
  <2> QED
    BY <1>1, <2>1, RowsInARow
<1>4. /\ IsLine(v) /\ ToSet(v) = S \ {r}
      /\ k \in 0 .. Len(s) /\ Len(s) \in Nat
      /\ k = 0 => v = s
      /\ k # 0 => /\ Len(v) = Len(s) - 1
                  /\ \A j \in 1 .. Len(s) - 1 : v[j] = IF j < k THEN s[j] ELSE s[j + 1]
  <2>1. k \in 0 .. Len(s) /\ Len(s) \in Nat
    BY <1>3, WhereInALine
  <2>2. /\ IsLine(v)
        /\ k = 0 => v = s
        /\ k # 0 => /\ Len(v) = Len(s) - 1
                    /\ \A j \in 1 .. Len(s) - 1 : v[j] = IF j < k THEN s[j] ELSE s[j + 1]
    BY <1>3, LackingIs
  <2>3. ToSet(v) = ToSet(s) \ {r}
    BY <1>3, LackingRows
  <2> QED
    BY <1>2, <2>1, <2>2, <2>3
<1>5. S \ {r} = Others(r) \ unseen
  BY DEF Others
<1> HIDE DEF S, v, k
<1>6. v \in SetToSeqs(S \ {r})
  BY <1>4, ALineIsOfItsRows
<1>7. ASSUME NEW i \in 1 .. Len(v) - 1 PROVE position[v[i]] <= position[v[i + 1]]
  <2>1. CASE k = 0
    <3>1. v = s /\ i \in 1 .. Len(s) /\ i + 1 \in 1 .. Len(s) /\ i < i + 1
      BY <1>4, <2>1
    <3> QED
      BY <1>2, <3>1
  <2>2. CASE k # 0
    <3>1. /\ i \in 1 .. Len(s) - 1 /\ i + 1 \in 1 .. Len(s) - 1
          /\ i \in 1 .. Len(s) /\ i + 1 \in 1 .. Len(s) /\ i + 2 \in 1 .. Len(s)
          /\ i < i + 1 /\ i < i + 2 /\ i + 1 < i + 2 /\ i + 1 + 1 = i + 2
      BY <1>4, <2>2
    <3>2. /\ v[i] = IF i < k THEN s[i] ELSE s[i + 1]
          /\ v[i + 1] = IF i + 1 < k THEN s[i + 1] ELSE s[i + 2]
      BY <1>4, <2>2, <3>1
    <3>3. ~(i < k) => ~(i + 1 < k)
      BY <1>4
    <3>4. /\ position[s[i]] <= position[s[i + 1]]
          /\ position[s[i]] <= position[s[i + 2]]
          /\ position[s[i + 1]] <= position[s[i + 2]]
      BY <1>2, <3>1
    <3> QED
      BY <3>2, <3>3, <3>4
  <2> QED
    BY <2>1, <2>2
<1>8. v \in Arranged(position, S \ {r})
  BY <1>6, <1>7 DEF Arranged
<1> QED
  BY <1>3, <1>5, <1>8 DEF v

(* A drawn request is for its row among the others as they were drawn.      *)
LEMMA DrawnAmongOthers ==
  ASSUME NEW u, IsLine(u), NEW r \in Row, NEW m, m = Placement(u, r)
  PROVE  LET t == Lacking(u, r) IN
         /\ ~m.here => u = t
         /\ m.here => \E j \in 0 .. Len(t) :
              u = InsertAt(t, j + 1, r) /\ m.after = NameAt(t, j) /\ m.before = NameAt(t, j + 1)
<1> DEFINE t == Lacking(u, r)
           k == Where(u, r)
<1>1. k \in 0 .. Len(u) /\ Len(u) \in Nat /\ IsLine(t) /\ Len(t) \in Nat /\ \A i \in 1 .. Len(t) : t[i] # r
  BY WhereInALine, LackingIs
<1>2. CASE k = 0
  <2>1. ~m.here
    BY <1>2 DEF Placement, Stays
  <2>2. u = t
    BY <1>2, LackingIs
  <2> QED
    BY <2>1, <2>2
<1>3. CASE k # 0
  <2>1. m.here
    BY <1>3 DEF Placement
  <2>2. k \in 1 .. Len(t) + 1 /\ u = InsertAt(t, k, r)
    BY <1>3, PutBackWhereItWas
  <2> HIDE DEF t, k
  <2>3. Placement(InsertAt(t, k, r), r) = Between2(t, r, k - 1)
    BY <1>1, <2>2, InsertedLine
  <2>4. k - 1 \in 0 .. Len(t) /\ k - 1 + 1 = k
    BY <1>1, <2>2
  <2>5. m.after = NameAt(t, k - 1) /\ m.before = NameAt(t, k - 1 + 1)
    BY <2>2, <2>3 DEF Between2
  <2> QED
    BY <2>1, <2>2, <2>4, <2>5 DEF t
<1> QED
  BY <1>2, <1>3

(* A move served on the set it was drawn on gives the order that was drawn. *)
LEMMA ServedAsDrawn ==
  ASSUME PlaceInv, TabIsTyped, NEW m \in sent, Serve(m), m.move.here \/ position' # position,
         Apart(position, Others(m.move.row)),
         NEW s \in Answers, Lacking(m.order, m.move.row) = Lacking(s, m.move.row)
  PROVE  Answers' = {m.order}
<1> DEFINE r == m.move.row
           u == m.order
           t == Lacking(u, r)
<1>1. /\ r \in Row /\ r \notin unseen /\ IsLine(u) /\ m.move = Placement(u, r)
      /\ ~upToDate /\ unseen \in SUBSET Row /\ (way = "asked" \/ unseen = {}) /\ unseen' = unseen
  <2>1. m \in Request /\ RequestIsDrawn(m)
    BY DEF TabIsTyped, RequestIsDrawn
  <2>2. way = "asked" \/ unseen = {}
    BY DEF TabIsTyped, Travels, WayOf
  <2> QED
    BY <2>1, <2>2 DEF Request, RequestIsDrawn, TabIsTyped, Serve
<1>2. OrderShape /\ position \in [Row -> Int]
  BY StandsNow DEF PlaceInv
<1>3. t \in Arranged(position, Others(r) \ unseen)
  BY <1>1, <1>2, OrderOfTheOthers
<1>4. Answers' = Arranged(position', Here' \ unseen)
  BY <1>1 DEF Answers, InOrder, Arranged
<1>5. /\ ~m.move.here => u = t
      /\ m.move.here => \E j \in 0 .. Len(t) :
           u = InsertAt(t, j + 1, r) /\ m.move.after = NameAt(t, j) /\ m.move.before = NameAt(t, j + 1)
  BY <1>1, DrawnAmongOthers
<1> HIDE DEF r, u, t
<1>6. CASE m.move.here
  <2>1. PICK j \in 0 .. Len(t) :
          u = InsertAt(t, j + 1, r) /\ m.move.after = NameAt(t, j) /\ m.move.before = NameAt(t, j + 1)
    BY <1>5, <1>6
  <2>2. DropBetween(r, NameAt(t, j), NameAt(t, j + 1))
    BY <1>6, <2>1 DEF Serve, r
  <2>3. Apart(position, Others(r))
    BY DEF r
  <2>4. /\ position' \in [Row -> Int] /\ Climbs(position', u) /\ IsLine(u) /\ ToSet(u) = Here' \ unseen
    BY <1>1, <1>2, <1>3, <2>1, <2>2, <2>3, ItLandsBetween
  <2>5. Arranged(position', Here' \ unseen) = {u}
    BY <2>4, AClimbIsTheOrder
  <2> QED
    BY <1>4, <2>5 DEF u
<1>7. CASE ~m.move.here
  <2>1. Leave(r)
    BY <1>7 DEF Serve, r, orderVars
  <2>2. position' = [position EXCEPT ![r] = Null] /\ r \in Here
    BY <2>1 DEF Leave
  <2>3. position' \in [Row -> Int] /\ Here' = Others(r) /\ \A x \in Others(r) : position'[x] = position[x]
    BY <1>2, <2>2 DEF Here, Others, Null
  <2>4. u \in Arranged(position, Others(r) \ unseen) /\ ToSet(u) = Others(r) \ unseen
    <3>1. u \in Arranged(position, Others(r) \ unseen)
      BY <1>3, <1>5, <1>7
    <3>2. Others(r) \ unseen \in SUBSET Row
      BY DEF Others, Here
    <3>3. u \in SetToSeqs(Others(r) \ unseen)
      BY <3>1 DEF Arranged
    <3> QED
      BY <3>1, <3>2, <3>3, RowsInARow
  <2>5. \A i \in 1 .. Len(u) : u[i] \in Others(r) /\ position'[u[i]] = position[u[i]]
    <3>1. DOMAIN u = 1 .. Len(u)
      BY <1>1, WhereInALine DEF u
    <3> QED
      BY <2>3, <2>4, <3>1 DEF ToSet
  <2>6. u \in Arranged(position', Here' \ unseen)
    <3>1. \A i \in 1 .. Len(u) - 1 : i \in 1 .. Len(u) /\ i + 1 \in 1 .. Len(u)
      <4>1. Len(u) \in Nat
        BY <1>1, WhereInALine DEF u
      <4> QED
        BY <4>1
    <3> QED
      BY <2>3, <2>4, <2>5, <3>1 DEF Arranged
  <2>7. Apart(position', Here' \ unseen)
    BY <2>3 DEF Apart, r
  <2>8. Here' \ unseen \in SUBSET Row
    BY <2>3 DEF Others, Here
  <2>9. \A v \in Arranged(position', Here' \ unseen) : v = u
    BY <2>3, <2>6, <2>7, <2>8, OneOrder
  <2> QED
    BY <1>4, <2>6, <2>9 DEF u
<1> QED
  BY <1>6, <1>7

(* A move made on a set nobody else has touched gives the order that was on *)
(* the screen when the row was let go (Dragging.LandsWhereShown).           *)
THEOREM DropsLandWhereShown == DragSpec => LandsWhereShown
<1> DEFINE Given(m) == /\ Lacking(m.order, m.move.row) \in {Lacking(s, m.move.row) : s \in Answers}
                       /\ \A r, s \in Others(m.move.row) : position[r] = position[s] => r = s
           Lands == \A m \in sent :
             /\ m \notin sent' /\ position' # position
             /\ [m EXCEPT !.at = "done"] \in sent' \/ [m EXCEPT !.at = "failed"] \in sent'
             /\ Lacking(m.order, m.move.row) \in {Lacking(s, m.move.row) : s \in Answers}
             /\ \A r, s \in Others(m.move.row) : position[r] = position[s] => r = s
             => m.order \in Answers'
<1>1. PlaceInv /\ TabIsTyped /\ [DragStep]_<<orderVars, tab>> => [Lands]_<<orderVars, tab>>
  <2> SUFFICES ASSUME PlaceInv, TabIsTyped, DragStep, NEW m \in sent, m \notin sent', position' # position, Given(m)
               PROVE  m.order \in Answers'
    OBVIOUS
  <2>1. ASSUME NEW n \in sent, Serve(n) PROVE m.order \in Answers'
    <3>1. n = m
      BY <2>1 DEF Serve
    <3>2. Apart(position, Others(m.move.row))
      BY DEF Apart
    <3>3. PICK s \in Answers : Lacking(m.order, m.move.row) = Lacking(s, m.move.row)
      OBVIOUS
    <3>4. Answers' = {m.order}
      BY <2>1, <3>1, <3>2, <3>3, ServedAsDrawn
    <3> QED
      BY <3>4
  <2>2. CASE \E n \in sent : Refuse(n) \/ Settle(n)
    BY <2>2 DEF Refuse, Settle, orderVars
  <2>3. CASE OtherActs
    BY <2>3 DEF OtherActs
  <2>4. CASE StepAcross \/ LetGo \/ LetGoForNothing \/ Cancel \/ HearFrame \/ Answer \/ Arrive \/ \E r \in Watched : PickUp(r)
    BY <2>4 DEF StepAcross, LetGo, LetGoForNothing, Cancel, HearFrame, Answer, Arrive, PickUp, orderVars
  <2> QED
    BY <2>1, <2>2, <2>3, <2>4 DEF DragStep
<1> HIDE DEF Lands
<1>2. DragSpec => [][Lands]_<<orderVars, tab>>
  BY <1>1, PlaceInvariant, TheScreenArrangesTheSet, TabInvariant, PTL DEF DragSpec
<1> QED
  BY <1>2, PTL DEF LandsWhereShown, Lands

-----------------------------------------------------------------------------
(* The screen settles on the server's order.                                *)

(* Rows that are the server's, or that something on its way will correct,   *)
(* or that are excused.                                                     *)
Fresh(rows) == rows \in Answers \/ told \/ fetch # Idle \/ overtaken

(* An answer on its way is the server's, or a frame is behind it.           *)
AnswerIsCurrent == fetch.at = "read" => fetch.rows \in Answers \/ told

(* What is on the screen, unless a drag is redrawing it.                    *)
ScreenIsCurrent == ~(Travels /\ carried # Nobody) => Fresh(data) \/ (PutsBack /\ sent # {})

(* What a drag would put back.                                              *)
BackIsCurrent == PutsBack /\ carried # Nobody => Fresh(before) \/ sent # {}

(* A drag that redraws the screen has moved only the row in the hand.       *)
OnlyTheRowInTheHand ==
  Travels /\ carried # Nobody =>
    Lacking(data, carried) = Lacking(before, carried) \/ fetch # Idle \/ overtaken

(* The strip's one request, and what it will make of the server's order.    *)
Lone(m) ==
  /\ sent = {m} /\ m.no = drops
  /\ m.at = "going" =>
       /\ m.order = kept /\ m.move.here
       /\ \E s \in Answers : Answers = {s} /\ Lacking(s, m.move.row) = Lacking(kept, m.move.row)
  /\ m.at = "done" => Answers = {kept}

(* The strip keeps an order of its own while the server has yet to take it  *)
(* up, or to say that it has.                                               *)
StripIsAwaited ==
  kept # <<>> /\ ~overtaken =>
    \/ \E m \in sent : Lone(m)
    \/ /\ sent = {} /\ Answers = {kept}
       /\ told \/ fetch = Asking \/ fetch = [at |-> "read", rows |-> kept]

(* What the screen settles by.                                              *)
SettleInv == AnswerIsCurrent /\ ScreenIsCurrent /\ BackIsCurrent /\ OnlyTheRowInTheHand /\ StripIsAwaited

(* A screen just opened shows what it was given.                            *)
LEMMA SettleFirst == DragInit => SettleInv
BY DEF DragInit, SettleInv, AnswerIsCurrent, ScreenIsCurrent, BackIsCurrent, OnlyTheRowInTheHand, StripIsAwaited,
       Fresh, Idle

(* No step breaks what the screen settles by.                               *)
LEMMA SettleStep ==
  PlaceInv /\ TabIsTyped /\ SettleInv /\ [DragStep]_<<orderVars, tab>> => SettleInv'
<1> SUFFICES ASSUME PlaceInv, TabIsTyped, SettleInv, [DragStep]_<<orderVars, tab>> PROVE SettleInv'
  OBVIOUS
<1>0. /\ screen' = screen /\ unseen' = unseen
      /\ Travels' = Travels /\ PutsBack' = PutsBack /\ (Travels => PutsBack)
      /\ UNCHANGED orderVars => Answers' = Answers
  <2>1. screen' = screen /\ unseen' = unseen
    BY DEF DragStep, PickUp, StepAcross, LetGo, LetGoForNothing, Cancel, Serve, Refuse, Settle, OtherActs,
           HearFrame, Answer, Arrive, tab
  <2>2. UNCHANGED orderVars => Answers' = Answers
    BY <2>1 DEF orderVars, Answers, InOrder, Here
  <2> QED
    BY <2>1, <2>2 DEF Travels, PutsBack
<1>1. /\ IsLine(data) /\ IsLine(kept) /\ IsLine(before) /\ (screen # "pictures" => kept = <<>>)
      /\ carried \in (Row \ unseen) \union {Nobody} /\ Nobody \notin Row
      /\ fetch \in [at : {"idle", "asked", "read"}, rows : Seq(Row)] /\ (fetch.at # "read" => fetch.rows = <<>>)
      /\ (\A m \in sent : RequestIsDrawn(m)) /\ drops \in Nat
      /\ unseen \subseteq Row /\ (Travels \/ unseen = {})
      /\ screen = "pictures" => ~PutsBack /\ ~Travels /\ unseen = {} /\ ~Elsewhere
  BY OrderAssumption DEF TabIsTyped, PutsBack, Travels, Elsewhere
<1>2. /\ Idle.at = "idle" /\ Asking.at = "asked" /\ Asking # Idle
      /\ \A rows : [at |-> "read", rows |-> rows] # Idle
      /\ fetch.at = "asked" => fetch = Asking
      /\ fetch.at = "read" => fetch # Idle /\ fetch # Asking /\ fetch = [at |-> "read", rows |-> fetch.rows]
  BY <1>1 DEF Idle, Asking
<1>3. AnswerIsCurrent /\ ScreenIsCurrent /\ BackIsCurrent /\ OnlyTheRowInTheHand /\ StripIsAwaited
  BY DEF SettleInv
<1>4. UNCHANGED orderVars /\ UNCHANGED <<kept, overtaken, sent, drops, told, fetch>> => StripIsAwaited'
  BY <1>0, <1>3 DEF StripIsAwaited, Lone
<1>5. UNCHANGED orderVars /\ UNCHANGED <<told, fetch>> => AnswerIsCurrent'
  BY <1>0, <1>3 DEF AnswerIsCurrent
<1>6. ASSUME NEW r \in Watched, PickUp(r) PROVE SettleInv'
  <2>1. /\ UNCHANGED orderVars /\ UNCHANGED <<data, kept, sent, drops, fetch, told, overtaken>>
        /\ carried = Nobody /\ carried' = r /\ r # Nobody /\ before' = data
    BY <1>1, <1>6, DraggingAssumption DEF PickUp
  <2>2. Fresh(data)' <=> Fresh(data)
    BY <1>0, <2>1 DEF Fresh
  <2>3. ScreenIsCurrent' /\ BackIsCurrent'
    BY <1>0, <1>3, <2>1, <2>2 DEF ScreenIsCurrent, BackIsCurrent, Fresh
  <2>4. OnlyTheRowInTheHand'
    BY <2>1 DEF OnlyTheRowInTheHand
  <2> QED
    BY <1>4, <1>5, <2>1, <2>3, <2>4 DEF SettleInv
<1>7. ASSUME StepAcross PROVE SettleInv'
  <2>1. /\ UNCHANGED orderVars /\ UNCHANGED <<kept, carried, before, sent, drops, fetch, told, overtaken>>
        /\ carried # Nobody /\ Travels
    BY <1>7 DEF StepAcross
  <2>2. PICK m \in Hovered(carried) : data' = Applied(data, m)
    BY <1>7 DEF StepAcross
  <2>3. Lacking(data', carried) = Lacking(data, carried)
    BY <1>1, <2>1, <2>2, HoveredMovesIt, AppliedIs
  <2>4. OnlyTheRowInTheHand'
    <3>1. Lacking(data, carried)' = Lacking(data', carried) /\ Lacking(before, carried)' = Lacking(before, carried)
      BY <2>1
    <3> QED
      BY <1>0, <1>3, <2>1, <2>3, <3>1 DEF OnlyTheRowInTheHand
  <2>5. ScreenIsCurrent' /\ BackIsCurrent'
    BY <1>0, <1>3, <2>1 DEF ScreenIsCurrent, BackIsCurrent, Fresh
  <2> QED
    BY <1>4, <1>5, <2>1, <2>4, <2>5 DEF SettleInv
<1>8. ASSUME LetGo PROVE SettleInv'
  <2> DEFINE Sends(m) == [move |-> m, at |-> "going", no |-> drops + 1,
                          order |-> IF Travels THEN data ELSE Applied(Shown, m),
                          revert |-> IF PutsBack THEN before ELSE <<>>]
  <2>1. PICK m \in Releases(carried) :
          /\ sent' = sent \union {Sends(m)}
          /\ data' = IF screen = "lists" THEN Applied(data, m) ELSE data
          /\ kept' = IF screen = "pictures" THEN KeptBeside(data, Applied(Shown, m)) ELSE kept
    BY <1>8 DEF LetGo
  <2>2. /\ UNCHANGED orderVars /\ carried # Nobody /\ carried' = Nobody /\ told' = told /\ drops' = drops + 1
        /\ fetch' = IF PutsBack THEN Idle ELSE fetch
        /\ overtaken' = (overtaken \/ (screen = "pictures" /\ (sent # {} \/ Answers # {Shown})))
    BY <1>8 DEF LetGo
  <2>3. AnswerIsCurrent'
    BY <1>0, <1>2, <1>3, <2>2 DEF AnswerIsCurrent
  <2>4. ScreenIsCurrent'
    <3>1. CASE PutsBack
      <4>1. sent' # {}
        BY <2>1
      <4> QED
        BY <1>0, <3>1, <4>1 DEF ScreenIsCurrent
    <3>2. CASE ~PutsBack
      <4>1. data' = data /\ fetch' = fetch
        BY <2>1, <2>2, <3>2 DEF PutsBack
      <4>2. Fresh(data)
        BY <1>0, <1>3, <3>2 DEF ScreenIsCurrent
      <4>3. Fresh(data)'
        BY <1>0, <2>2, <4>1, <4>2 DEF Fresh
      <4> QED
        BY <4>3 DEF ScreenIsCurrent
    <3> QED
      BY <3>1, <3>2
  <2>5. BackIsCurrent' /\ OnlyTheRowInTheHand'
    BY <2>2 DEF BackIsCurrent, OnlyTheRowInTheHand
  <2>6. ASSUME kept' # <<>>, ~overtaken'
       PROVE \E n \in sent' : Lone(n)'
    <3>1. screen = "pictures"
      BY <1>1, <2>1, <2>6
    <3>2. sent = {} /\ Answers = {Shown} /\ Answers' = Answers /\ kept' = Applied(Shown, m)
      BY <1>0, <2>1, <2>2, <2>6, <3>1 DEF KeptBeside
    <3>3. carried \in Row
      BY <1>1, <2>2
    <3>4. m.row = carried /\ m.here
      BY <1>1, <3>1, <3>3, WhatIsLetGoIsDrawn DEF Draws
    <3>5. Lacking(kept', carried) = Lacking(Shown, carried)
      <4>1. IsLine(Shown)
        BY <1>1, ShownIsALine
      <4> QED
        BY <3>2, <3>3, <3>4, <4>1, AppliedIs
    <3>6. /\ Sends(m).move = m /\ Sends(m).at = "going" /\ Sends(m).no = drops' /\ Sends(m).order = kept'
      BY <1>1, <2>2, <3>1, <3>2
    <3>7. sent' = {Sends(m)}
      BY <2>1, <3>2
    <3>8. PICK n \in sent' : n = Sends(m)
      BY <3>7
    <3>9. /\ n.move.row = carried /\ n.move.here /\ n.at = "going" /\ n.no = drops' /\ n.order = kept' /\ sent' = {n}
      BY <3>4, <3>6, <3>7, <3>8
    <3> HIDE DEF Sends
    <3>10. \E s \in Answers' : Answers' = {s} /\ Lacking(s, n.move.row) = Lacking(kept', n.move.row)
      BY <3>2, <3>5, <3>9
    <3>11. Lone(n)'
      BY <3>9, <3>10 DEF Lone
    <3> QED
      BY <3>11
  <2>7. StripIsAwaited'
    BY <2>6 DEF StripIsAwaited
  <2> QED
    BY <2>3, <2>4, <2>5, <2>7 DEF SettleInv
<1>9. ASSUME LetGoForNothing PROVE SettleInv'
  <2>1. /\ UNCHANGED orderVars /\ UNCHANGED <<data, kept, sent, drops, fetch, told, overtaken>>
        /\ carried # Nobody /\ carried' = Nobody
        /\ Travels => IsWhereItStarted(Placement(data, carried))
    BY <1>9 DEF LetGoForNothing
  <2>2. Fresh(data)' <=> Fresh(data)
    BY <1>0, <2>1 DEF Fresh
  <2>3. ScreenIsCurrent'
    <3>1. CASE ~Travels
      BY <1>0, <1>3, <2>1, <2>2, <3>1 DEF ScreenIsCurrent
    <3>2. CASE Travels
      <4>1. CASE Lacking(data, carried) = Lacking(before, carried)
        <5>1. Placement(data, carried) = Placement(before, carried)
          <6>1. Placement(data, carried).row = carried
            BY DEF Placement, Stays
          <6> QED
            BY <2>1, <3>2, <6>1 DEF IsWhereItStarted
        <5>2. data = before
          BY <1>1, <2>1, <4>1, <5>1, SamePlacement
        <5>3. Fresh(data) \/ sent # {}
          BY <1>0, <1>3, <2>1, <3>2, <5>2 DEF BackIsCurrent
        <5> QED
          BY <1>0, <2>1, <2>2, <3>2, <5>3 DEF ScreenIsCurrent
      <4>2. CASE fetch # Idle \/ overtaken
        BY <2>2, <4>2 DEF ScreenIsCurrent, Fresh
      <4> QED
        BY <1>3, <2>1, <3>2, <4>1, <4>2 DEF OnlyTheRowInTheHand
    <3> QED
      BY <3>1, <3>2
  <2>4. BackIsCurrent' /\ OnlyTheRowInTheHand'
    BY <2>1 DEF BackIsCurrent, OnlyTheRowInTheHand
  <2> QED
    BY <1>4, <1>5, <2>1, <2>3, <2>4 DEF SettleInv
<1>10. ASSUME Cancel PROVE SettleInv'
  <2>1. /\ UNCHANGED orderVars /\ UNCHANGED <<kept, sent, drops, fetch, told, overtaken>>
        /\ carried # Nobody /\ carried' = Nobody
        /\ data' = IF PutsBack THEN before ELSE data
    BY <1>10 DEF Cancel
  <2>2. (Fresh(data') <=> Fresh(data)') /\ (PutsBack => Fresh(data') \/ sent # {}) /\ (~PutsBack => Fresh(data'))
    <3>1. Fresh(data') <=> Fresh(data)'
      BY <1>0, <2>1 DEF Fresh
    <3>2. PutsBack => Fresh(data') \/ sent # {}
      BY <1>3, <2>1 DEF BackIsCurrent
    <3>3. ~PutsBack => Fresh(data')
      BY <1>0, <1>3, <2>1 DEF ScreenIsCurrent
    <3> QED
      BY <3>1, <3>2, <3>3
  <2>3. ScreenIsCurrent'
    BY <1>0, <2>1, <2>2 DEF ScreenIsCurrent
  <2>4. BackIsCurrent' /\ OnlyTheRowInTheHand'
    BY <2>1 DEF BackIsCurrent, OnlyTheRowInTheHand
  <2> QED
    BY <1>4, <1>5, <2>1, <2>3, <2>4 DEF SettleInv
<1>11. ASSUME NEW m \in sent, Serve(m) PROVE SettleInv'
  <2>1. /\ told' = TRUE /\ UNCHANGED <<data, kept, carried, before, drops, fetch, overtaken>>
        /\ m.at = "going"
    BY <1>11 DEF Serve
  <2>2. AnswerIsCurrent' /\ ScreenIsCurrent' /\ BackIsCurrent'
    BY <2>1 DEF AnswerIsCurrent, ScreenIsCurrent, BackIsCurrent, Fresh
  <2>3. OnlyTheRowInTheHand'
    BY <1>0, <1>3, <2>1 DEF OnlyTheRowInTheHand
  <2>4. PICK at \in {"done", "failed"} : sent' = (sent \ {m}) \union {[m EXCEPT !.at = at]}
    BY <1>11 DEF Serve
  <2>5. ASSUME kept # <<>>, ~overtaken PROVE \E n \in sent' : Lone(n)'
    <3>1. sent = {m} /\ m.no = drops /\ m.order = kept /\ m.move.here
      BY <1>3, <2>1, <2>5 DEF StripIsAwaited, Lone
    <3>2. PICK s \in Answers : Answers = {s} /\ Lacking(s, m.move.row) = Lacking(kept, m.move.row)
      BY <1>3, <2>1, <2>5 DEF StripIsAwaited, Lone
    <3>3. Apart(position, Others(m.move.row))
      <4>1. position \in [Row -> Int] /\ Here \in SUBSET Row /\ Here \ unseen = Here
        BY <1>1, <2>5, StandsNow DEF PlaceInv, Here
      <4>2. Arranged(position, Here) = {s}
        BY <3>2, <4>1, AnswersAre
      <4>3. Apart(position, Here)
        BY <4>1, <4>2, OneOrderIsApart
      <4> QED
        BY <4>3 DEF Apart, Others
    <3>4. Answers' = {kept}
      BY <1>11, <3>1, <3>2, <3>3, ServedAsDrawn
    <3> DEFINE n == [m EXCEPT !.at = at]
    <3>5. n.at = at /\ n.no = m.no /\ sent' = {n}
      <4>1. m \in Request
        BY <1>1 DEF RequestIsDrawn
      <4> QED
        BY <2>4, <3>1, <4>1 DEF Request
    <3> HIDE DEF n
    <3> QED
      BY <2>1, <3>1, <3>4, <3>5 DEF Lone
  <2>6. StripIsAwaited'
    BY <2>1, <2>5 DEF StripIsAwaited
  <2> QED
    BY <2>2, <2>3, <2>6 DEF SettleInv
<1>12. ASSUME NEW m \in sent, Refuse(m) PROVE SettleInv'
  <2>1. /\ UNCHANGED orderVars /\ UNCHANGED <<data, kept, carried, before, drops, fetch, told, overtaken>>
        /\ m.at = "going" /\ sent' = (sent \ {m}) \union {[m EXCEPT !.at = "failed"]}
    BY <1>12 DEF Refuse
  <2>2. sent # {} /\ sent' # {}
    BY <2>1
  <2>3. \A rows : Fresh(rows)' <=> Fresh(rows)
    BY <1>0, <2>1 DEF Fresh
  <2>4. ScreenIsCurrent' /\ BackIsCurrent' /\ OnlyTheRowInTheHand'
    BY <1>0, <1>3, <2>1, <2>2 DEF ScreenIsCurrent, BackIsCurrent, OnlyTheRowInTheHand, Fresh
  <2>5. ASSUME kept # <<>>, ~overtaken PROVE \E n \in sent' : Lone(n)'
    <3>1. sent = {m} /\ m.no = drops
      BY <1>3, <2>1, <2>5 DEF StripIsAwaited, Lone
    <3> DEFINE n == [m EXCEPT !.at = "failed"]
    <3>2. n.at = "failed" /\ n.no = m.no /\ sent' = {n}
      <4>1. m \in Request
        BY <1>1 DEF RequestIsDrawn
      <4> QED
        BY <2>1, <3>1, <4>1 DEF Request
    <3> HIDE DEF n
    <3> QED
      BY <2>1, <3>1, <3>2 DEF Lone
  <2>6. StripIsAwaited'
    BY <2>1, <2>5 DEF StripIsAwaited
  <2> QED
    BY <1>5, <2>1, <2>4, <2>6 DEF SettleInv
<1>13. ASSUME NEW m \in sent, Settle(m) PROVE SettleInv'
  <2>1. /\ UNCHANGED orderVars /\ UNCHANGED <<carried, before, drops, told, overtaken>>
        /\ m.at \in {"done", "failed"} /\ sent' = sent \ {m}
        /\ data' = IF m.at = "failed" /\ PutsBack THEN m.revert ELSE data
        /\ kept' = IF m.at = "failed" /\ screen = "pictures" /\ m.no = drops THEN <<>> ELSE kept
        /\ fetch' = IF m.at = "done" \/ PutsBack THEN Asking ELSE fetch
    BY <1>13 DEF Settle
  <2>2. fetch' = Asking \/ (fetch' = fetch /\ data' = data /\ ~PutsBack)
    BY <2>1
  <2>3. AnswerIsCurrent'
    BY <1>0, <1>2, <1>3, <2>1, <2>2 DEF AnswerIsCurrent
  <2>4. ScreenIsCurrent' /\ BackIsCurrent' /\ OnlyTheRowInTheHand'
    <3>1. CASE fetch' = Asking
      BY <1>2, <3>1 DEF ScreenIsCurrent, BackIsCurrent, OnlyTheRowInTheHand, Fresh
    <3>2. CASE fetch' = fetch /\ data' = data /\ ~PutsBack
      <4>1. Fresh(data)
        BY <1>0, <1>3, <3>2 DEF ScreenIsCurrent
      <4>2. Fresh(data)'
        BY <1>0, <2>1, <3>2, <4>1 DEF Fresh
      <4> QED
        BY <1>0, <3>2, <4>2 DEF ScreenIsCurrent, BackIsCurrent, OnlyTheRowInTheHand
    <3> QED
      BY <2>2, <3>1, <3>2
  <2>5. ASSUME kept' # <<>>, ~overtaken PROVE sent' = {} /\ Answers' = {kept'} /\ fetch' = Asking
    <3>1. kept # <<>> /\ kept' = kept /\ ~(m.at = "failed" /\ screen = "pictures" /\ m.no = drops)
      BY <2>1, <2>5
    <3>2. Lone(m)
      BY <1>3, <2>5, <3>1 DEF StripIsAwaited, Lone
    <3>3. sent = {m} /\ m.no = drops /\ (m.at = "done" => Answers = {kept}) /\ screen = "pictures"
      BY <1>1, <3>1, <3>2 DEF Lone
    <3> QED
      BY <1>0, <2>1, <3>1, <3>3
  <2>6. StripIsAwaited'
    BY <2>1, <2>5 DEF StripIsAwaited, Asking
  <2> QED
    BY <2>3, <2>4, <2>6 DEF SettleInv
<1>14. ASSUME OtherActs PROVE SettleInv'
  <2>1. /\ told' = TRUE /\ UNCHANGED <<data, kept, carried, before, sent, drops, fetch>>
        /\ overtaken' = (overtaken \/ (screen = "pictures" /\ (sent # {} \/ kept # <<>>)))
    BY <1>14 DEF OtherActs
  <2>2. AnswerIsCurrent' /\ ScreenIsCurrent' /\ BackIsCurrent'
    BY <2>1 DEF AnswerIsCurrent, ScreenIsCurrent, BackIsCurrent, Fresh
  <2>3. OnlyTheRowInTheHand' /\ StripIsAwaited'
    BY <1>0, <1>1, <1>3, <2>1 DEF OnlyTheRowInTheHand, StripIsAwaited
  <2> QED
    BY <2>2, <2>3 DEF SettleInv
<1>15. ASSUME HearFrame PROVE SettleInv'
  <2>1. /\ UNCHANGED orderVars /\ UNCHANGED <<data, kept, carried, before, sent, drops, overtaken>>
        /\ fetch' = Asking /\ Answers' = Answers
    BY <1>0, <1>15 DEF HearFrame
  <2>2. AnswerIsCurrent' /\ ScreenIsCurrent' /\ BackIsCurrent' /\ OnlyTheRowInTheHand'
    BY <1>2, <2>1 DEF AnswerIsCurrent, ScreenIsCurrent, BackIsCurrent, OnlyTheRowInTheHand, Fresh
  <2>3. StripIsAwaited'
    BY <1>3, <2>1 DEF StripIsAwaited, Lone, Asking
  <2> QED
    BY <2>2, <2>3 DEF SettleInv
<1>16. ASSUME Answer PROVE SettleInv'
  <2>1. /\ UNCHANGED orderVars /\ UNCHANGED <<data, kept, carried, before, sent, drops, told, overtaken>>
        /\ fetch.at = "asked" /\ Answers' = Answers
    BY <1>0, <1>16 DEF Answer
  <2>2. PICK rows \in Answers : fetch' = [at |-> "read", rows |-> rows]
    BY <1>16 DEF Answer
  <2>3. AnswerIsCurrent' /\ ScreenIsCurrent' /\ BackIsCurrent' /\ OnlyTheRowInTheHand'
    BY <1>2, <2>1, <2>2 DEF AnswerIsCurrent, ScreenIsCurrent, BackIsCurrent, OnlyTheRowInTheHand, Fresh
  <2>4. StripIsAwaited'
    BY <1>3, <2>1, <2>2 DEF StripIsAwaited, Lone
  <2> QED
    BY <2>3, <2>4 DEF SettleInv
<1>17. ASSUME Arrive PROVE SettleInv'
  <2>1. /\ UNCHANGED orderVars /\ UNCHANGED <<carried, before, sent, drops, told>> /\ Answers' = Answers
        /\ fetch.at = "read" /\ data' = fetch.rows /\ fetch' = Idle /\ kept' = KeptBeside(fetch.rows, kept)
        /\ overtaken' = (carried # Nobody \/ (overtaken /\ (sent # {} \/ kept' # <<>>)))
    BY <1>0, <1>17 DEF Arrive
  <2>2. AnswerIsCurrent'
    BY <1>2, <2>1 DEF AnswerIsCurrent
  <2>3. ScreenIsCurrent'
    BY <1>3, <2>1 DEF AnswerIsCurrent, ScreenIsCurrent, Fresh
  <2>4. BackIsCurrent' /\ OnlyTheRowInTheHand'
    BY <2>1 DEF BackIsCurrent, OnlyTheRowInTheHand, Fresh
  <2>5. ASSUME kept' # <<>>, ~overtaken'
        PROVE  (\E m \in sent' : Lone(m)') \/ (sent' = {} /\ Answers' = {kept'} /\ told')
    <3>1. kept' = kept /\ kept # fetch.rows /\ kept # <<>> /\ ~overtaken
      BY <2>1, <2>5 DEF KeptBeside
    <3>2. CASE \E m \in sent : Lone(m)
      BY <2>1, <3>1, <3>2 DEF Lone
    <3>3. CASE sent = {} /\ Answers = {kept} /\ (told \/ fetch = Asking \/ fetch = [at |-> "read", rows |-> kept])
      <4>1. fetch # Asking /\ fetch # [at |-> "read", rows |-> kept]
        BY <1>2, <2>1, <3>1
      <4> QED
        BY <2>1, <3>1, <3>3, <4>1
    <3> QED
      BY <1>3, <3>1, <3>2, <3>3 DEF StripIsAwaited
  <2>6. StripIsAwaited'
    BY <2>5 DEF StripIsAwaited
  <2> QED
    BY <2>2, <2>3, <2>4, <2>6 DEF SettleInv
<1>18. CASE UNCHANGED <<orderVars, tab>>
  <2>1. UNCHANGED orderVars /\ UNCHANGED <<data, kept, carried, before, sent, drops, fetch, told, overtaken>>
    BY <1>18 DEF tab
  <2>2. ScreenIsCurrent' /\ BackIsCurrent' /\ OnlyTheRowInTheHand'
    BY <1>0, <1>3, <2>1 DEF ScreenIsCurrent, BackIsCurrent, OnlyTheRowInTheHand, Fresh
  <2> QED
    BY <1>4, <1>5, <2>1, <2>2 DEF SettleInv
<1> QED
  BY <1>6, <1>7, <1>8, <1>9, <1>10, <1>11, <1>12, <1>13, <1>14, <1>15, <1>16, <1>17, <1>18 DEF DragStep

(* When nothing is carried, sent or asked, the screen shows the order there *)
(* is (Dragging.ScreensSettle).                                             *)
THEOREM TheScreenSettles == DragSpec => []ScreensSettle
<1>1. SettleInv => ScreensSettle
  BY DEF SettleInv, ScreenIsCurrent, StripIsAwaited, ScreensSettle, Fresh, Idle, Asking
<1> QED
  BY <1>1, SettleFirst, SettleStep, PlaceInvariant, TheScreenArrangesTheSet, TabInvariant, PTL DEF DragSpec
=============================================================================
