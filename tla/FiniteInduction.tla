--------------------------- MODULE FiniteInduction ---------------------------
(***************************************************************************)
(* Induction over finite sets and over the naturals in the form the        *)
(* provers can use, with a set where one would write a predicate: what is  *)
(* to be proved fails nowhere because it would fail somewhere first.       *)
(***************************************************************************)
EXTENDS Integers, FiniteSets, FiniteSetTheorems, WellFoundedInduction, TLAPS

(* Of any subsets of a finite set, one has none of the others inside it.    *)
LEMMA SmallestSet ==
  ASSUME NEW S, IsFiniteSet(S), NEW T \in SUBSET SUBSET S, T # {}
  PROVE  \E X \in T : \A Y \in T : Y \subseteq X => Y = X
<1>1. T \subseteq FiniteSubsetsOf(S)
  BY FS_Subset DEF FiniteSubsetsOf
<1>2. \E X \in T : \A Y \in T : ~(<<Y, X>> \in StrictSubsetOrdering(S))
  BY <1>1, FS_StrictSubsetOrderingWellFounded, WFMin
<1> QED
  BY <1>2 DEF StrictSubsetOrdering

(* Of any numbers, one is the least.                                        *)
LEMMA LeastNumber ==
  ASSUME NEW S \in SUBSET Nat, S # {}
  PROVE  \E n \in S : \A m \in S : n <= m
<1>1. PICK b \in S : TRUE
  OBVIOUS
<1> DEFINE B == 0 .. b
           T == {0 .. n : n \in S \cap B}
<1>2. IsFiniteSet(B)
  BY FS_Interval
<1>3. T \in SUBSET SUBSET B /\ T # {}
  BY <1>1
<1> HIDE DEF B, T
<1>4. PICK X \in T : \A Y \in T : Y \subseteq X => Y = X
  BY <1>2, <1>3, SmallestSet
<1>5. PICK n \in S \cap 0 .. b : X = 0 .. n
  BY <1>4 DEF T, B
<1>6. ASSUME NEW m \in S, m < n PROVE FALSE
  <2>1. 0 .. m \in T
    BY <1>5, <1>6 DEF T, B
  <2>2. 0 .. m \subseteq 0 .. n /\ n \notin 0 .. m /\ n \in 0 .. n
    BY <1>5, <1>6
  <2> QED
    BY <1>4, <1>5, <2>1, <2>2
<1> QED
  BY <1>5, <1>6

(* One of every nonempty subset.                                            *)
Picks(pick, S) == \A X \in SUBSET S : X # {} => pick[X] \in X

(* What op makes of one element of a set and of what is made of the others. *)
IsFold(g, S, V, base, pick, op) ==
  /\ g \in [SUBSET S -> V]
  /\ \A X \in SUBSET S : g[X] = IF X = {} THEN base ELSE op[<<pick[X], g[X \ {pick[X]}]>>]

(* There is such a function of the subsets of a finite set.                 *)
LEMMA AFoldExists ==
  ASSUME NEW S, IsFiniteSet(S), NEW V, NEW base \in V,
         NEW pick, Picks(pick, S),
         NEW op \in [S \X V -> V]
  PROVE  \E g : IsFold(g, S, V, base, pick, op)
<1> USE DEF Picks
<1> DEFINE Rest(X) == X \ {pick[X]}
           Folds(X) == {g \in [SUBSET X -> V] : \A Y \in SUBSET X :
                          g[Y] = IF Y = {} THEN base ELSE op[<<pick[Y], g[Rest(Y)]>>]}
<1>1. ASSUME NEW X1 \in SUBSET S, NEW X2 \in SUBSET S, NEW g \in Folds(X1), NEW h \in Folds(X2),
             NEW Z \in SUBSET (X1 \cap X2)
      PROVE  g[Z] = h[Z]
  <2> DEFINE T == {Y \in SUBSET (X1 \cap X2) : g[Y] # h[Y]}
  <2> SUFFICES ASSUME T # {} PROVE FALSE
    OBVIOUS
  <2>1. T \in SUBSET SUBSET S
    OBVIOUS
  <2>2. PICK Y \in T : \A W \in T : W \subseteq Y => W = Y
    <3> HIDE DEF T
    <3> QED
      BY <2>1, SmallestSet
  <2>3. Y # {}
    BY <2>2
  <2>4. pick[Y] \in Y /\ Rest(Y) \in SUBSET (X1 \cap X2) /\ Rest(Y) # Y
    BY <2>2, <2>3
  <2>5. g[Rest(Y)] = h[Rest(Y)]
    BY <2>2, <2>4
  <2> QED
    BY <2>2, <2>3, <2>4, <2>5
<1> DEFINE Chosen(X) == CHOOSE g : g \in Folds(X)
           T == {X \in SUBSET S : Folds(X) = {}}
<1>2. T = {}
  <2> SUFFICES ASSUME T # {} PROVE FALSE
    OBVIOUS
  <2>0. T \in SUBSET SUBSET S
    <3> HIDE DEF Folds
    <3> QED
      OBVIOUS
  <2>1. PICK X \in T : \A Y \in T : Y \subseteq X => Y = X
    <3> HIDE DEF T
    <3> QED
      BY <2>0, SmallestSet
  <2> DEFINE G == [Y \in SUBSET X |->
                     IF Y = {} THEN base ELSE op[<<pick[Y], Chosen(Rest(Y))[Rest(Y)]>>]]
  <2>2. ASSUME NEW Y \in SUBSET X, Y # {}
        PROVE  /\ pick[Y] \in Y /\ Rest(Y) \in SUBSET X
               /\ Chosen(Rest(Y)) \in Folds(Rest(Y))
               /\ Chosen(Rest(Y))[Rest(Y)] \in V
    <3>1. pick[Y] \in Y /\ Rest(Y) \in SUBSET X /\ Rest(Y) # X
      BY <2>1, <2>2
    <3>2. Folds(Rest(Y)) # {}
      BY <2>1, <3>1
    <3> HIDE DEF Folds
    <3>3. Chosen(Rest(Y)) \in Folds(Rest(Y))
      BY <3>2
    <3> QED
      BY <3>1, <3>3 DEF Folds
  <2>3. G \in [SUBSET X -> V]
    <3> HIDE DEF Chosen, Folds, Rest
    <3> SUFFICES ASSUME NEW Y \in SUBSET X, Y # {}
                 PROVE  op[<<pick[Y], Chosen(Rest(Y))[Rest(Y)]>>] \in V
      OBVIOUS
    <3>1. pick[Y] \in S /\ Chosen(Rest(Y))[Rest(Y)] \in V
      BY <2>1, <2>2
    <3> QED
      BY <3>1
  <2>4. ASSUME NEW Y \in SUBSET X, Y # {} PROVE G[Rest(Y)] = Chosen(Rest(Y))[Rest(Y)]
    <3> DEFINE Z == Rest(Y)
    <3>1. Z \in SUBSET X /\ Chosen(Z) \in Folds(Z)
      BY <2>2, <2>4
    <3>2. CASE Z = {}
      BY <3>1, <3>2
    <3>3. CASE Z # {}
      <4>1. Chosen(Rest(Z)) \in Folds(Rest(Z)) /\ Rest(Z) \in SUBSET Z
        BY <2>2, <3>1, <3>3
      <4>2. Chosen(Z)[Rest(Z)] = Chosen(Rest(Z))[Rest(Z)]
        <5> HIDE DEF Folds, Chosen
        <5> QED
          BY <1>1, <2>1, <3>1, <4>1
      <4>3. Chosen(Z)[Z] = op[<<pick[Z], Chosen(Z)[Rest(Z)]>>]
        BY <3>1, <3>3
      <4>4. G[Z] = op[<<pick[Z], Chosen(Rest(Z))[Rest(Z)]>>]
        BY <3>1, <3>3
      <4> HIDE DEF Rest, Chosen, G
      <4> QED
        BY <4>2, <4>3, <4>4
    <3> QED
      BY <3>2, <3>3
  <2>5. ASSUME NEW Y \in SUBSET X
        PROVE  G[Y] = IF Y = {} THEN base ELSE op[<<pick[Y], G[Rest(Y)]>>]
    <3> HIDE DEF Rest, Chosen, Folds
    <3> QED
      BY <2>4
  <2>6. G \in Folds(X)
    <3> HIDE DEF G, Rest, Chosen
    <3> QED
      BY <2>3, <2>5
  <2> QED
    BY <2>1, <2>6
<1>3. Folds(S) # {}
  <2> HIDE DEF Folds
  <2> QED
    BY <1>2
<1> QED
  BY <1>3 DEF IsFold

(* What holds of nothing, and of each set if it holds of the set without    *)
(* its picked element, holds of all of a finite set.                        *)
LEMMA OneElementAtATime ==
  ASSUME NEW S, IsFiniteSet(S), NEW pick, Picks(pick, S),
         NEW T \in SUBSET SUBSET S, {} \in T,
         \A X \in SUBSET S : X # {} /\ X \ {pick[X]} \in T => X \in T
  PROVE  T = SUBSET S
<1> DEFINE F == (SUBSET S) \ T
<1>1. ASSUME F # {} PROVE FALSE
  <2>1. PICK X \in F : \A Y \in F : Y \subseteq X => Y = X
    <3>1. F \in SUBSET SUBSET S
      OBVIOUS
    <3> HIDE DEF F
    <3> QED
      BY <1>1, <3>1, SmallestSet
  <2>2. X \in SUBSET S /\ X \notin T /\ X # {}
    <3>1. X \in F
      BY <2>1
    <3> QED
      BY <3>1
  <2>3. pick[X] \in X
    BY <2>2 DEF Picks
  <2>4. X \ {pick[X]} \notin F
    BY <2>1, <2>3
  <2> QED
    BY <2>2, <2>4
<1> QED
  BY <1>1

(* The same of a function that may be anything where the fold of the rest   *)
(* is no value: what a CHOOSE among all functions has to be shown to be.    *)
Unfolds(h, S, V, base, pick, op) ==
  /\ h = [X \in SUBSET S |-> h[X]]
  /\ h[{}] = base
  /\ \A X \in SUBSET S : X # {} /\ h[X \ {pick[X]}] \in V => h[X] = op[<<pick[X], h[X \ {pick[X]}]>>]

(* There is only one.                                                       *)
LEMMA AFoldIsTheOnlyOne ==
  ASSUME NEW S, IsFiniteSet(S), NEW V, NEW base, NEW pick, Picks(pick, S), NEW op,
         NEW g, IsFold(g, S, V, base, pick, op),
         NEW h, Unfolds(h, S, V, base, pick, op)
  PROVE  h = g
<1> DEFINE T == {X \in SUBSET S : h[X] = g[X]}
<1>1. /\ g \in [SUBSET S -> V] /\ g[{}] = base
      /\ \A X \in SUBSET S : X # {} => g[X] = op[<<pick[X], g[X \ {pick[X]}]>>]
  BY DEF IsFold
<1>2. T = SUBSET S
  <2>1. T \in SUBSET SUBSET S /\ {} \in T
    BY <1>1 DEF Unfolds
  <2>2. ASSUME NEW X \in SUBSET S, X # {}, X \ {pick[X]} \in T PROVE X \in T
    BY <1>1, <2>2 DEF Unfolds
  <2> HIDE DEF T
  <2> QED
    BY <2>1, <2>2, OneElementAtATime
<1>3. \A X \in SUBSET S : h[X] = g[X]
  BY <1>2
<1> QED
  BY <1>1, <1>3 DEF Unfolds
=============================================================================
