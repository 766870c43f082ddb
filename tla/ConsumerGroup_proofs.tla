------------------------ MODULE ConsumerGroup_proofs ------------------------
(* Lemmas about Topics and ConsumerGroup that the proofs of every service      *)
(* rest on: what an appended event changes, and that no operation of a         *)
(* consumer group breaks its types and bounds. The set of topic partitions a   *)
(* service subscribes to is their parameter.                                   *)
EXTENDS ConsumerGroup, SequencesExt, SequenceTheorems, FiniteSetTheorems,
        WellFoundedInduction, TLAPS

-----------------------------------------------------------------------------
(* Sums and loops: induction over finite sets of numbers, of orders, of items  *)

(* What holds of 0 and goes on from each number holds of all: the least number *)
(* it would not hold of has a predecessor.                                     *)
Less == {pair \in Nat \X Nat : pair[1] < pair[2]}

LEMMA NumbersReached ==
    ASSUME NEW P \in SUBSET Nat, 0 \in P, \A n \in P : n + 1 \in P
    PROVE  \A n \in Nat : n \in P
  <1> SUFFICES ASSUME NEW k \in Nat \ P
               PROVE  FALSE
    OBVIOUS
  <1>1. IsWellFoundedOn(Less, Nat)
    <2>1. Less = OpToRel(<, Nat)
      BY Zenon DEF OpToRel, Less
    <2> QED BY <2>1, NatLessThanWellFounded, Zenon
  <1>2. Nat \ P \subseteq Nat /\ Nat \ P # {}
    OBVIOUS
  <1>3. PICK x \in Nat \ P : \A y \in Nat \ P : ~(<<y, x>> \in Less)
    BY <1>1, <1>2, WFMin, Zenon
  <1>4. x \in Nat /\ x - 1 \in P
    <2>1. x \in Nat /\ x # 0
      BY <1>3
    <2>2. x - 1 \in Nat /\ <<x - 1, x>> \in Less
      BY <2>1 DEF Less
    <2> QED BY <1>3, <2>1, <2>2
  <1> QED BY <1>3, <1>4

(* What holds of no elements and goes on with one more holds of a finite set:  *)
(* c says which element is the one more.                                       *)
Chooses(c, S) == \A U \in SUBSET S : U # {} => c[U] \in U

LEMMA SubsetsReached ==
    ASSUME NEW S, IsFiniteSet(S), NEW c, Chooses(c, S),
           NEW P, {} \in P,
           \A U \in SUBSET S : U # {} /\ U \ {c[U]} \in P => U \in P
    PROVE  \A U \in SUBSET S : U \in P
  <1> DEFINE R == {n \in Nat : \A U \in SUBSET S : Cardinality(U) <= n => U \in P}
  <1>1. 0 \in R
    <2>1. ASSUME NEW U \in SUBSET S, Cardinality(U) <= 0
          PROVE  U \in P
      <3>1. IsFiniteSet(U) /\ Cardinality(U) \in Nat
        BY FS_Subset, FS_CardinalityType
      <3>2. U = {}
        BY <2>1, <3>1, FS_EmptySet
      <3> QED BY <3>2
    <2> QED BY <2>1
  <1>2. ASSUME NEW n \in R
        PROVE  n + 1 \in R
    <2>1. ASSUME NEW U \in SUBSET S, Cardinality(U) <= n + 1
          PROVE  U \in P
      <3>1. IsFiniteSet(U) /\ Cardinality(U) \in Nat
        BY FS_Subset, FS_CardinalityType
      <3>2. CASE U # {}
        <4>1. c[U] \in U
          BY <3>2 DEF Chooses
        <4>2. Cardinality(U \ {c[U]}) = Cardinality(U) - 1
          BY <3>1, <4>1, FS_RemoveElement
        <4>3. U \ {c[U]} \in SUBSET S /\ Cardinality(U \ {c[U]}) <= n
          BY <2>1, <3>1, <4>2
        <4> QED BY <3>2, <4>3
      <3> QED BY <3>2
    <2> QED BY <2>1
  <1> HIDE DEF R
  <1>3. \A n \in Nat : n \in R
    <2>1. R \in SUBSET Nat
      BY DEF R
    <2> QED BY <1>1, <1>2, <2>1, NumbersReached, Zenon
  <1> QED
    <2>1. ASSUME NEW U \in SUBSET S
          PROVE  U \in P
      <3>1. Cardinality(U) \in Nat
        BY FS_Subset, FS_CardinalityType
      <3>2. Cardinality(U) \in R
        BY <1>3, <3>1
      <3> QED BY <3>1, <3>2 DEF R
    <2> QED BY <2>1

(* A fold over a finite set, element by element as c chooses them, exists.     *)
Folded(S, c, base, step, h, U) ==
    h[U] = IF U = {} THEN base ELSE step[<<c[U], h[U \ {c[U]}]>>]

LEMMA FoldExists ==
    ASSUME NEW S, IsFiniteSet(S), NEW c, Chooses(c, S),
           NEW V, NEW base \in V, NEW step \in [S \X V -> V]
    PROVE  \E h \in [SUBSET S -> V] : \A U \in SUBSET S : Folded(S, c, base, step, h, U)
  <1> DEFINE R == {n \in Nat : \E h \in [SUBSET S -> V] :
                      \A U \in SUBSET S : Cardinality(U) <= n => Folded(S, c, base, step, h, U)}
  <1>0. ASSUME NEW U \in SUBSET S
        PROVE  /\ Cardinality(U) \in Nat
               /\ Cardinality(U) = 0 => U = {}
               /\ U # {} => /\ c[U] \in U /\ U \ {c[U]} \in SUBSET S
                            /\ Cardinality(U \ {c[U]}) = Cardinality(U) - 1
    <2>1. IsFiniteSet(U) /\ Cardinality(U) \in Nat
      BY FS_Subset, FS_CardinalityType
    <2>2. U # {} => c[U] \in U
      BY DEF Chooses
    <2>3. U # {} => Cardinality(U \ {c[U]}) = Cardinality(U) - 1
      BY <2>1, <2>2, FS_RemoveElement
    <2> QED BY <2>1, <2>2, <2>3, FS_EmptySet
  <1>1. 0 \in R
    <2> DEFINE g == [U \in SUBSET S |-> base]
    <2>1. g \in [SUBSET S -> V]
      OBVIOUS
    <2>2. ASSUME NEW U \in SUBSET S, Cardinality(U) <= 0
          PROVE  Folded(S, c, base, step, g, U)
      <3>1. Cardinality(U) \in Nat /\ (Cardinality(U) = 0 => U = {})
        BY <1>0
      <3>2. U = {}
        BY <2>2, <3>1
      <3> QED BY <3>2 DEF Folded
    <2> QED BY <2>1, <2>2
  <1>2. ASSUME NEW n \in R
        PROVE  n + 1 \in R
    <2>1. PICK h \in [SUBSET S -> V] :
             \A U \in SUBSET S : Cardinality(U) <= n => Folded(S, c, base, step, h, U)
      OBVIOUS
    <2> DEFINE g == [U \in SUBSET S |-> IF U = {} THEN base ELSE step[<<c[U], h[U \ {c[U]}]>>]]
    <2>2. g \in [SUBSET S -> V]
      <3>1. ASSUME NEW U \in SUBSET S, U # {}
            PROVE  step[<<c[U], h[U \ {c[U]}]>>] \in V
        <4>1. c[U] \in S /\ h[U \ {c[U]}] \in V
          BY <1>0, <2>1, <3>1
        <4> QED BY <4>1
      <3> QED BY <3>1
    <2>3. \A U \in SUBSET S : Cardinality(U) <= n => g[U] = h[U]
      BY <2>1 DEF Folded
    <2>4. ASSUME NEW U \in SUBSET S, Cardinality(U) <= n + 1
          PROVE  Folded(S, c, base, step, g, U)
      <3>1. CASE U # {}
        <4>1. U \ {c[U]} \in SUBSET S /\ Cardinality(U \ {c[U]}) <= n
          BY <1>0, <2>4, <3>1
        <4>2. g[U \ {c[U]}] = h[U \ {c[U]}]
          BY <2>3, <4>1
        <4>3. g[U] = step[<<c[U], h[U \ {c[U]}]>>]
          BY <3>1
        <4> QED BY <3>1, <4>2, <4>3 DEF Folded
      <3>2. CASE U = {}
        BY <3>2 DEF Folded
      <3> QED BY <3>1, <3>2
    <2>5. n + 1 \in Nat
      OBVIOUS
    <2> HIDE DEF g
    <2> QED BY <2>2, <2>4, <2>5
  <1> HIDE DEF R
  <1>3. \A n \in Nat : n \in R
    <2>1. R \in SUBSET Nat
      BY DEF R
    <2> QED BY <1>1, <1>2, <2>1, NumbersReached, Zenon
  <1>4. Cardinality(S) \in Nat /\ Cardinality(S) \in R
    BY <1>3, FS_CardinalityType
  <1>5. PICK h \in [SUBSET S -> V] :
           \A U \in SUBSET S : Cardinality(U) <= Cardinality(S) => Folded(S, c, base, step, h, U)
    BY <1>4 DEF R
  <1>6. \A U \in SUBSET S : Cardinality(U) <= Cardinality(S)
    BY FS_Subset
  <1> QED BY <1>5, <1>6

(* The sum of a function over a finite set.                                    *)
Total(f) == FoldFunction(+, 0, f)

Picked(S) == [U \in SUBSET S |-> CHOOSE x \in U : TRUE]

LEMMA PickedChooses ==
    ASSUME NEW S
    PROVE  Chooses(Picked(S), S)
  BY DEF Chooses, Picked

SumsUp(f, S, h) ==
    /\ h \in [SUBSET S -> Nat]
    /\ h[{}] = 0
    /\ \A U \in SUBSET S : U # {} => h[U] = f[Picked(S)[U]] + h[U \ {Picked(S)[U]}]

LEMMA SumFolds ==
    ASSUME NEW S, IsFiniteSet(S), NEW f \in [S -> Nat]
    PROVE  \E h : SumsUp(f, S, h) /\ Total(f) = h[S]
  <1> DEFINE Step(g) == [U \in SUBSET S |->
                            IF U = {} THEN 0
                            ELSE f[CHOOSE x \in U : TRUE] + g[U \ {CHOOSE x \in U : TRUE}]]
             s == CHOOSE g : g = Step(g)
             add == [p \in S \X Nat |-> f[p[1]] + p[2]]
  <1>1. Total(f) = s[S]
    <2>1. DOMAIN f = S
      OBVIOUS
    <2>2. Total(f) = (CHOOSE g : g = [U \in SUBSET DOMAIN f |->
                            IF U = {} THEN 0
                            ELSE f[CHOOSE x \in U : TRUE] + g[U \ {CHOOSE x \in U : TRUE}]])[DOMAIN f]
      BY Zenon DEF Total, FoldFunction, FoldFunctionOnSet, MapThenFoldSet
    <2> QED BY <2>1, <2>2, Zenon
  <1>2. \E g : g = Step(g)
    <2>1. add \in [S \X Nat -> Nat]
      OBVIOUS
    <2> HIDE DEF add
    <2>2. PICK h \in [SUBSET S -> Nat] :
             \A U \in SUBSET S : Folded(S, Picked(S), 0, add, h, U)
      BY <2>1, PickedChooses, FoldExists
    <2>3. ASSUME NEW U \in SUBSET S, U # {}
          PROVE  h[U] = f[CHOOSE x \in U : TRUE] + h[U \ {CHOOSE x \in U : TRUE}]
      <3>1. h[U] = add[<<Picked(S)[U], h[U \ {Picked(S)[U]}]>>]
        BY <2>2, <2>3 DEF Folded
      <3>2. Picked(S)[U] = CHOOSE x \in U : TRUE
        BY DEF Picked
      <3>3. Picked(S)[U] \in S /\ h[U \ {Picked(S)[U]}] \in Nat
        BY <2>3, PickedChooses DEF Chooses
      <3>4. add[<<Picked(S)[U], h[U \ {Picked(S)[U]}]>>]
               = f[Picked(S)[U]] + h[U \ {Picked(S)[U]}]
        BY <3>3 DEF add
      <3> QED BY <3>1, <3>2, <3>4
    <2>4. h[{}] = 0
      BY <2>2 DEF Folded
    <2>5. h = Step(h)
      BY <2>3, <2>4
    <2> QED BY <2>5
  <1>3. s = Step(s)
    BY <1>2
  <1> HIDE DEF s
  <1>4. s[{}] = 0
    BY <1>3
  <1>5. ASSUME NEW U \in SUBSET S, U # {}
        PROVE  /\ s[U] = f[Picked(S)[U]] + s[U \ {Picked(S)[U]}]
               /\ Picked(S)[U] \in S
    <2>1. Picked(S)[U] = CHOOSE x \in U : TRUE
      BY DEF Picked
    <2>2. s[U] = f[CHOOSE x \in U : TRUE] + s[U \ {CHOOSE x \in U : TRUE}]
      BY <1>3, <1>5
    <2>3. Picked(S)[U] \in S
      BY <1>5, PickedChooses DEF Chooses
    <2> QED BY <2>1, <2>2, <2>3
  <1>6. \A U \in SUBSET S : U \in {W \in SUBSET S : s[W] \in Nat}
    <2> DEFINE P == {W \in SUBSET S : s[W] \in Nat}
    <2>1. {} \in P
      BY <1>4
    <2>2. ASSUME NEW U \in SUBSET S, U # {}, U \ {Picked(S)[U]} \in P
          PROVE  U \in P
      BY <1>5, <2>2
    <2> HIDE DEF P
    <2>3. \A U \in SUBSET S : U \in P
      BY <2>1, <2>2, PickedChooses, SubsetsReached
    <2> QED BY <2>3 DEF P
  <1>7. s \in [SUBSET S -> Nat]
    <2>1. s = [U \in SUBSET S |-> s[U]]
      BY <1>3, Zenon
    <2> QED BY <1>6, <2>1
  <1> HIDE DEF Step
  <1>8. SumsUp(f, S, s)
    BY <1>4, <1>5, <1>7 DEF SumsUp
  <1> QED BY <1>1, <1>8

LEMMA SumIsNat ==
    ASSUME NEW S, IsFiniteSet(S), NEW f \in [S -> Nat]
    PROVE  Total(f) \in Nat
  <1>1. PICK h : SumsUp(f, S, h) /\ Total(f) = h[S]
    BY SumFolds
  <1> QED BY <1>1 DEF SumsUp

(* Changing one value changes the sum as much.                                 *)
LEMMA SumChanged ==
    ASSUME NEW S, IsFiniteSet(S), NEW f \in [S -> Nat], NEW g \in [S -> Nat],
           NEW x \in S, \A y \in S : y # x => f[y] = g[y]
    PROVE  Total(g) + f[x] = Total(f) + g[x]
  <1>1. PICK a : SumsUp(f, S, a) /\ Total(f) = a[S]
    BY SumFolds
  <1>2. PICK b : SumsUp(g, S, b) /\ Total(g) = b[S]
    BY SumFolds
  <1> DEFINE P == {U \in SUBSET S : /\ x \notin U => a[U] = b[U]
                                    /\ x \in U => b[U] + f[x] = a[U] + g[x]}
  <1>3. {} \in P
    BY <1>1, <1>2 DEF SumsUp
  <1>4. ASSUME NEW U \in SUBSET S, U # {}, U \ {Picked(S)[U]} \in P
        PROVE  U \in P
    <2>1. PICK y \in U : y = Picked(S)[U]
      BY <1>4, PickedChooses DEF Chooses
    <2>2. /\ a[U] = f[y] + a[U \ {y}] /\ b[U] = g[y] + b[U \ {y}]
          /\ a[U \ {y}] \in Nat /\ b[U \ {y}] \in Nat
      BY <1>1, <1>2, <1>4, <2>1 DEF SumsUp
    <2>3. f[y] \in Nat /\ g[y] \in Nat /\ f[x] \in Nat /\ g[x] \in Nat
      OBVIOUS
    <2>4. CASE y = x
      <3>1. a[U \ {y}] = b[U \ {y}]
        BY <1>4, <2>1, <2>4
      <3> QED BY <2>2, <2>3, <2>4, <3>1
    <2>5. CASE y # x
      <3>1. f[y] = g[y]
        BY <2>5
      <3>2. /\ x \notin U => a[U \ {y}] = b[U \ {y}]
            /\ x \in U => b[U \ {y}] + f[x] = a[U \ {y}] + g[x]
        BY <1>4, <2>1, <2>5
      <3> QED BY <2>2, <2>3, <3>1, <3>2
    <2> QED BY <2>4, <2>5
  <1> HIDE DEF P
  <1>5. \A U \in SUBSET S : U \in P
    BY <1>3, <1>4, PickedChooses, SubsetsReached
  <1> QED BY <1>1, <1>2, <1>5 DEF P

(* A sum of larger values is larger.                                           *)
LEMMA SumGrows ==
    ASSUME NEW S, IsFiniteSet(S), NEW f \in [S -> Nat], NEW g \in [S -> Nat],
           \A y \in S : f[y] <= g[y]
    PROVE  Total(f) <= Total(g)
  <1>1. PICK a : SumsUp(f, S, a) /\ Total(f) = a[S]
    BY SumFolds
  <1>2. PICK b : SumsUp(g, S, b) /\ Total(g) = b[S]
    BY SumFolds
  <1> DEFINE P == {U \in SUBSET S : a[U] <= b[U]}
  <1>3. {} \in P
    BY <1>1, <1>2 DEF SumsUp
  <1>4. ASSUME NEW U \in SUBSET S, U # {}, U \ {Picked(S)[U]} \in P
        PROVE  U \in P
    <2>1. PICK y \in U : y = Picked(S)[U]
      BY <1>4, PickedChooses DEF Chooses
    <2>2. /\ a[U] = f[y] + a[U \ {y}] /\ b[U] = g[y] + b[U \ {y}]
          /\ a[U \ {y}] \in Nat /\ b[U \ {y}] \in Nat
      BY <1>1, <1>2, <1>4, <2>1 DEF SumsUp
    <2>3. f[y] \in Nat /\ g[y] \in Nat /\ f[y] <= g[y]
      OBVIOUS
    <2>4. a[U \ {y}] <= b[U \ {y}]
      BY <1>4, <2>1
    <2> QED BY <2>2, <2>3, <2>4
  <1> HIDE DEF P
  <1>5. \A U \in SUBSET S : U \in P
    BY <1>3, <1>4, PickedChooses, SubsetsReached
  <1> QED BY <1>1, <1>2, <1>5 DEF P

(* A sum is at most so many times the largest value.                           *)
LEMMA SumBounded ==
    ASSUME NEW S, IsFiniteSet(S), NEW f \in [S -> Nat],
           NEW k \in Nat, \A y \in S : f[y] <= k
    PROVE  Total(f) <= Cardinality(S) * k
  <1>1. PICK a : SumsUp(f, S, a) /\ Total(f) = a[S]
    BY SumFolds
  <1> DEFINE P == {U \in SUBSET S : a[U] <= Cardinality(U) * k}
  <1>2. {} \in P
    BY <1>1, FS_EmptySet DEF SumsUp
  <1>3. ASSUME NEW U \in SUBSET S, U # {}, U \ {Picked(S)[U]} \in P
        PROVE  U \in P
    <2>1. PICK y \in U : y = Picked(S)[U]
      BY <1>3, PickedChooses DEF Chooses
    <2>2. a[U] = f[y] + a[U \ {y}] /\ a[U \ {y}] \in Nat /\ f[y] \in Nat /\ f[y] <= k
      BY <1>1, <1>3, <2>1 DEF SumsUp
    <2>3. IsFiniteSet(U) /\ Cardinality(U) \in Nat
      BY FS_Subset, FS_CardinalityType
    <2>4. Cardinality(U \ {y}) = Cardinality(U) - 1
      BY <2>3, FS_RemoveElement
    <2>5. a[U \ {y}] <= (Cardinality(U) - 1) * k
      BY <1>3, <2>1, <2>4
    <2>6. \A n \in Nat : (n - 1) * k + k = n * k /\ (n - 1) * k \in Int /\ n * k \in Int
      OBVIOUS
    <2>7. a[U] <= Cardinality(U) * k
      BY <2>2, <2>3, <2>5, <2>6
    <2> QED BY <2>7
  <1> HIDE DEF P
  <1>4. \A U \in SUBSET S : U \in P
    BY <1>2, <1>3, PickedChooses, SubsetsReached
  <1> QED BY <1>1, <1>4 DEF P

(* The largest element of a finite set of numbers.                             *)
LEMMA MaxFacts ==
    ASSUME NEW S \in SUBSET Nat, IsFiniteSet(S), S # {}
    PROVE  Max(S) \in S /\ \A y \in S : Max(S) >= y
  <1> DEFINE P == {U \in SUBSET S : U # {} => \E x \in U : \A y \in U : x >= y}
  <1>1. {} \in P
    OBVIOUS
  <1>2. ASSUME NEW U \in SUBSET S, U # {}, U \ {Picked(S)[U]} \in P
        PROVE  U \in P
    <2>1. PICK z \in U : z = Picked(S)[U]
      BY <1>2, PickedChooses DEF Chooses
    <2>2. CASE U \ {z} = {}
      <3>1. \A y \in U : z >= y
        BY <2>2
      <3> QED BY <3>1
    <2>3. CASE U \ {z} # {}
      <3>1. PICK x \in U \ {z} : \A y \in U \ {z} : x >= y
        BY <1>2, <2>1, <2>3
      <3>2. CASE x >= z
        <4>1. \A y \in U : x >= y
          BY <3>1, <3>2
        <4> QED BY <4>1
      <3>3. CASE z >= x
        <4>1. ASSUME NEW y \in U
              PROVE  z >= y
          <5>1. z \in Nat /\ x \in Nat /\ y \in Nat
            OBVIOUS
          <5> QED BY <3>1, <3>3, <5>1
        <4> QED BY <4>1
      <3>4. x \in Nat /\ z \in Nat
        OBVIOUS
      <3> QED BY <3>2, <3>3, <3>4
    <2> QED BY <2>2, <2>3
  <1> HIDE DEF P
  <1>3. \A U \in SUBSET S : U \in P
    BY <1>1, <1>2, PickedChooses, SubsetsReached
  <1>4. \E x \in S : \A y \in S : x >= y
    BY <1>3 DEF P
  <1> QED BY <1>4, Zenon DEF Max

LastOf(S) == [U \in SUBSET S |-> Max(U)]

LEMMA LastChooses ==
    ASSUME NEW S \in SUBSET Nat, IsFiniteSet(S)
    PROVE  Chooses(LastOf(S), S)
  <1>1. ASSUME NEW U \in SUBSET S, U # {}
        PROVE  LastOf(S)[U] \in U
    <2>1. U \in SUBSET Nat /\ IsFiniteSet(U)
      BY FS_Subset
    <2>2. Max(U) \in U
      BY <1>1, <2>1, MaxFacts
    <2> QED BY <2>2 DEF LastOf
  <1> QED BY <1>1 DEF Chooses

LEMMA PlacesOf ==
    ASSUME NEW Things, NEW items \in Seq(Things)
    PROVE  /\ DOMAIN items \in SUBSET Nat /\ IsFiniteSet(DOMAIN items)
           /\ \A n \in DOMAIN items : items[n] \in Things
  <1>1. DOMAIN items = 1..Len(items) /\ Len(items) \in Nat
    OBVIOUS
  <1>2. IsFiniteSet(1..Len(items))
    <2>1. 1 \in Int /\ Len(items) \in Int
      BY <1>1
    <2> QED BY <2>1, FS_Interval
  <1>3. \A n \in DOMAIN items : items[n] \in Things
    OBVIOUS
  <1>4. DOMAIN items \subseteq Nat
    BY <1>1
  <1> QED BY <1>1, <1>2, <1>3, <1>4

(* What one item adds to the count of a product.                               *)
Portion(item, product) == IF item.product = product THEN item.quantity ELSE 0

(* What an order wants of a product, as a sum over the places of its items.    *)
WantedOf(items, product) ==
    FoldLeft(LAMBDA sum, item : IF item.product = product THEN sum + item.quantity ELSE sum,
             0, items)

WantsUp(items, product, w) ==
    /\ w \in [SUBSET DOMAIN items -> Nat]
    /\ w[{}] = 0
    /\ \A U \in SUBSET DOMAIN items : U # {} =>
          w[U] = w[U \ {Max(U)}] + Portion(items[Max(U)], product)

LEMMA WantedFolds ==
    ASSUME NEW Things, \A item \in Things : item.quantity \in Nat,
           NEW items \in Seq(Things), NEW product
    PROVE  \E w : WantsUp(items, product, w) /\ WantedOf(items, product) = w[DOMAIN items]
  <1> DEFINE S == DOMAIN items
             Count(sum, item) == IF item.product = product THEN sum + item.quantity ELSE sum
             Step(g) == [U \in SUBSET S |->
                            IF U = {} THEN 0 ELSE Count(g[U \ {Max(U)}], items[Max(U)])]
             s == CHOOSE g : g = Step(g)
             add == [p \in S \X Nat |-> Count(p[2], items[p[1]])]
  <1>0. /\ S \in SUBSET Nat /\ IsFiniteSet(S) /\ \A n \in S : items[n] \in Things
        /\ Chooses(LastOf(S), S)
    BY PlacesOf, LastChooses
  <1>1. ASSUME NEW sum \in Nat, NEW n \in S
        PROVE  Count(sum, items[n]) \in Nat /\ Count(sum, items[n]) = sum + Portion(items[n], product)
    <2>1. items[n].quantity \in Nat
      BY <1>0
    <2> QED BY <2>1 DEF Portion
  <1>2. WantedOf(items, product) = s[S]
    BY Zenon DEF WantedOf, FoldLeft, MapThenFoldSet
  <1> HIDE DEF Count
  <1>3. \E g : g = Step(g)
    <2>1. add \in [S \X Nat -> Nat]
      <3>1. ASSUME NEW p \in S \X Nat
            PROVE  Count(p[2], items[p[1]]) \in Nat
        BY <1>1
      <3> QED BY <3>1
    <2> HIDE DEF add
    <2>2. PICK h \in [SUBSET S -> Nat] :
             \A U \in SUBSET S : Folded(S, LastOf(S), 0, add, h, U)
      BY <1>0, <2>1, FoldExists
    <2>3. ASSUME NEW U \in SUBSET S, U # {}
          PROVE  h[U] = Count(h[U \ {Max(U)}], items[Max(U)])
      <3>1. h[U] = add[<<LastOf(S)[U], h[U \ {LastOf(S)[U]}]>>]
        BY <2>2, <2>3 DEF Folded
      <3>2. LastOf(S)[U] = Max(U)
        BY DEF LastOf
      <3>3. LastOf(S)[U] \in S /\ h[U \ {LastOf(S)[U]}] \in Nat
        BY <1>0, <2>2, <2>3 DEF Chooses
      <3>4. add[<<LastOf(S)[U], h[U \ {LastOf(S)[U]}]>>]
               = Count(h[U \ {LastOf(S)[U]}], items[LastOf(S)[U]])
        BY <3>3 DEF add
      <3> QED BY <3>1, <3>2, <3>4
    <2>4. h[{}] = 0
      BY <2>2 DEF Folded
    <2>5. h = Step(h)
      BY <2>3, <2>4
    <2> QED BY <2>5
  <1>4. s = Step(s)
    BY <1>3
  <1> HIDE DEF s
  <1>5. s[{}] = 0
    BY <1>4
  <1>6. ASSUME NEW U \in SUBSET S, U # {}
        PROVE  /\ s[U] = Count(s[U \ {Max(U)}], items[Max(U)])
               /\ Max(U) \in S /\ LastOf(S)[U] = Max(U)
    <2>1. s[U] = Count(s[U \ {Max(U)}], items[Max(U)])
      BY <1>4, <1>6
    <2>2. LastOf(S)[U] = Max(U)
      BY DEF LastOf
    <2> QED BY <1>0, <1>6, <2>1, <2>2 DEF Chooses
  <1>7. \A U \in SUBSET S : s[U] \in Nat
    <2> DEFINE P == {W \in SUBSET S : s[W] \in Nat}
    <2>1. {} \in P
      BY <1>5
    <2>2. ASSUME NEW U \in SUBSET S, U # {}, U \ {LastOf(S)[U]} \in P
          PROVE  U \in P
      <3>1. s[U \ {Max(U)}] \in Nat
        BY <1>6, <2>2
      <3>2. s[U] \in Nat
        BY <1>1, <1>6, <2>2, <3>1
      <3> QED BY <3>2
    <2>3. PICK c : c = LastOf(S) /\ IsFiniteSet(S) /\ Chooses(c, S)
      BY <1>0
    <2>4. \A U \in SUBSET S : U # {} /\ U \ {c[U]} \in P => U \in P
      BY <2>2, <2>3
    <2> HIDE DEF P
    <2>5. \A U \in SUBSET S : U \in P
      BY <2>1, <2>3, <2>4, SubsetsReached
    <2> QED BY <2>5 DEF P
  <1>8. s \in [SUBSET S -> Nat]
    <2>1. s = [U \in SUBSET S |-> s[U]]
      BY <1>4, Zenon
    <2> QED BY <1>7, <2>1
  <1> HIDE DEF Step
  <1>9. ASSUME NEW U \in SUBSET S, U # {}
        PROVE  s[U] = s[U \ {Max(U)}] + Portion(items[Max(U)], product)
    <2>1. s[U \ {Max(U)}] \in Nat
      BY <1>7
    <2> QED BY <1>1, <1>6, <1>9, <2>1
  <1>10. WantsUp(items, product, s)
    BY <1>5, <1>8, <1>9 DEF WantsUp
  <1> QED BY <1>2, <1>10

-----------------------------------------------------------------------------
(* Topics and consumer groups                                                  *)

USE TopicsAssumption, GroupAssumption

LogOK == log \in [DOMAIN log -> Seq(Event)]

(* The log only ever grows at its ends.                                        *)
LogGrows ==
    /\ log' \in [DOMAIN log -> Seq(Event)]
    /\ \A tp \in DOMAIN log :
          /\ Len(log[tp]) <= Len(log'[tp])
          /\ \A n \in 1..Len(log[tp]) : log'[tp][n] = log[tp][n]

Keyed(topic, o) == <<topic, PartitionOf[o]>>

LEMMA LogFacts ==
    ASSUME LogOK, NEW tp \in DOMAIN log
    PROVE  /\ log[tp] \in Seq(Event) /\ Len(log[tp]) \in Nat
           /\ DOMAIN log[tp] = 1..Len(log[tp])
           /\ \A n \in 1..Len(log[tp]) : log[tp][n] \in Event
  <1>1. log[tp] \in Seq(Event)
    BY DEF LogOK
  <1> QED BY <1>1, LenProperties, ElementOfSeq

LEMMA GrownFacts ==
    ASSUME LogGrows
    PROVE  /\ LogOK' /\ DOMAIN log' = DOMAIN log
           /\ \A tp \in DOMAIN log :
                /\ log'[tp] \in Seq(Event) /\ Len(log'[tp]) \in Nat
                /\ DOMAIN log'[tp] = 1..Len(log'[tp])
  <1>1. DOMAIN log' = DOMAIN log /\ LogOK'
    BY DEF LogGrows, LogOK
  <1> QED BY <1>1, LenProperties DEF LogGrows

(* sendEvent appends its event, and nothing else.                              *)
LEMMA SendAppends ==
    ASSUME LogOK, NEW topic, NEW o \in Orders, NEW kind \in EventKinds,
           Keyed(topic, o) \in DOMAIN log, Send(topic, o, kind)
    PROVE  /\ LogGrows
           /\ \A tp \in DOMAIN log \ {Keyed(topic, o)} : log'[tp] = log[tp]
           /\ DOMAIN log'[Keyed(topic, o)] =
                 DOMAIN log[Keyed(topic, o)] \cup {Len(log[Keyed(topic, o)]) + 1}
           /\ log'[Keyed(topic, o)][Len(log[Keyed(topic, o)]) + 1] =
                 [order |-> o, kind |-> kind]
  <1> DEFINE tp0 == Keyed(topic, o)
             e0 == [order |-> o, kind |-> kind]
  <1>1. tp0 \in DOMAIN log /\ e0 \in Event
    BY DEF Event
  <1>2. log' = [log EXCEPT ![tp0] = Append(@, e0)]
    BY DEF Send, Keyed
  <1>h. HIDE DEF tp0, e0
  <1>3. log[tp0] \in Seq(Event) /\ Len(log[tp0]) \in Nat /\ DOMAIN log[tp0] = 1..Len(log[tp0])
    BY <1>1, LogFacts
  <1>4. /\ Append(log[tp0], e0) \in Seq(Event)
        /\ Len(Append(log[tp0], e0)) = Len(log[tp0]) + 1
        /\ \A n \in 1..Len(log[tp0]) : Append(log[tp0], e0)[n] = log[tp0][n]
        /\ Append(log[tp0], e0)[Len(log[tp0]) + 1] = e0
    BY <1>1, <1>3, AppendProperties
  <1>5. \A tp \in DOMAIN log : log[tp] \in Seq(Event) /\ Len(log[tp]) \in Nat
    BY LogFacts
  <1>6. log'[tp0] = Append(log[tp0], e0) /\ \A tp \in DOMAIN log \ {tp0} : log'[tp] = log[tp]
    BY <1>1, <1>2
  <1>7. log' \in [DOMAIN log -> Seq(Event)]
    BY <1>1, <1>2, <1>4, <1>5
  <1>8. LogGrows
    <2>1. ASSUME NEW tp \in DOMAIN log
          PROVE  /\ Len(log[tp]) <= Len(log'[tp])
                 /\ \A n \in 1..Len(log[tp]) : log'[tp][n] = log[tp][n]
      <3>1. CASE tp = tp0
        BY <3>1, <1>3, <1>4, <1>6
      <3>2. CASE tp # tp0
        BY <3>2, <1>5, <1>6
      <3> QED BY <3>1, <3>2
    <2> QED BY <2>1, <1>7 DEF LogGrows
  <1>9. DOMAIN log'[tp0] = DOMAIN log[tp0] \cup {Len(log[tp0]) + 1}
    <2>1. DOMAIN log'[tp0] = 1..(Len(log[tp0]) + 1)
      BY <1>4, <1>6, LenProperties
    <2> QED BY <2>1, <1>3
  <1> QED BY <1>4, <1>6, <1>8, <1>9 DEF tp0, e0

LEMMA SameLogGrows ==
    ASSUME LogOK, UNCHANGED log
    PROVE  LogGrows
  <1>1. \A tp \in DOMAIN log : Len(log[tp]) \in Nat
    BY LogFacts
  <1> QED BY <1>1 DEF LogGrows, LogOK

(* What has been sent stays sent, at its place.                                *)
LEMMA EventsStay ==
    ASSUME LogOK, LogGrows, NEW topic, NEW o, NEW kind, Keyed(topic, o) \in DOMAIN log
    PROVE  /\ EventsOf(topic, o, kind) \subseteq EventsOf(topic, o, kind)'
           /\ Logged(topic, o, kind) => Logged(topic, o, kind)'
  <1> DEFINE tp == Keyed(topic, o)
  <1>1. \A n \in DOMAIN log[tp] : n \in DOMAIN log'[tp] /\ log'[tp][n] = log[tp][n]
    BY LogFacts, GrownFacts DEF LogGrows
  <1>2. EventsOf(topic, o, kind) \subseteq EventsOf(topic, o, kind)'
    BY <1>1 DEF EventsOf, Keyed
  <1> QED BY <1>2 DEF Logged

(* The events an event source holds of a kind, before and after a send.        *)
LEMMA EventsSent ==
    ASSUME LogOK, NEW topic, NEW o \in Orders, NEW kind \in EventKinds,
           Keyed(topic, o) \in DOMAIN log, Send(topic, o, kind),
           NEW t, NEW p, NEW k, Keyed(t, p) \in DOMAIN log
    PROVE  EventsOf(t, p, k)' =
             IF t = topic /\ p = o /\ k = kind
             THEN EventsOf(t, p, k) \cup {Len(log[Keyed(topic, o)]) + 1}
             ELSE EventsOf(t, p, k)
  <1> DEFINE tp0 == Keyed(topic, o)
             tp == Keyed(t, p)
             last == Len(log[tp0]) + 1
  <1>1. LogGrows /\ \A s \in DOMAIN log \ {tp0} : log'[s] = log[s]
    BY SendAppends
  <1>2. DOMAIN log'[tp0] = DOMAIN log[tp0] \cup {last} /\ log'[tp0][last] = [order |-> o, kind |-> kind]
    BY SendAppends
  <1>3. /\ DOMAIN log[tp0] = 1..Len(log[tp0]) /\ Len(log[tp0]) \in Nat
        /\ \A n \in DOMAIN log[tp0] : log'[tp0][n] = log[tp0][n]
    BY <1>1, LogFacts DEF LogGrows
  <1>4. EventsOf(t, p, k) = {n \in DOMAIN log[tp] : log[tp][n] = [order |-> p, kind |-> k]}
    BY DEF EventsOf, Keyed
  <1>5. EventsOf(t, p, k)' = {n \in DOMAIN log'[tp] : log'[tp][n] = [order |-> p, kind |-> k]}
    BY DEF EventsOf, Keyed
  <1>6. [order |-> o, kind |-> kind] = [order |-> p, kind |-> k] <=> p = o /\ k = kind
    OBVIOUS
  <1>7. tp = tp0 => t = topic
    BY DEF Keyed
  <1>8. t = topic /\ p = o => tp = tp0
    BY DEF Keyed
  <1>h. HIDE DEF tp0, tp, last
  <1>9. CASE tp # tp0
    BY <1>9, <1>1, <1>4, <1>5, <1>8 DEF tp
  <1>10. CASE tp = tp0
    <2>1. \A n \in DOMAIN log'[tp] :
             n \in EventsOf(t, p, k)' <=>
               n \in EventsOf(t, p, k) \/ (n = last /\ t = topic /\ p = o /\ k = kind)
      <3>1. \A n \in DOMAIN log[tp] : n # last
        BY <1>3, <1>10 DEF last
      <3> QED BY <1>10, <1>2, <1>3, <1>4, <1>5, <1>6, <1>7, <3>1
    <2>2. last \in DOMAIN log'[tp] /\ DOMAIN log[tp] \subseteq DOMAIN log'[tp]
      BY <1>2, <1>10
    <2>3. EventsOf(t, p, k)' \subseteq DOMAIN log'[tp] /\ EventsOf(t, p, k) \subseteq DOMAIN log[tp]
      BY <1>4, <1>5
    <2> QED BY <2>1, <2>2, <2>3 DEF last, tp0
  <1> QED BY <1>9, <1>10 DEF tp0, last

(* Counting the events of a kind about an order: a send adds one to the count  *)
(* of its own kind.                                                            *)
LEMMA EventsFinite ==
    ASSUME LogOK, NEW t, NEW p, NEW k, Keyed(t, p) \in DOMAIN log
    PROVE  /\ IsFiniteSet(EventsOf(t, p, k)) /\ Cardinality(EventsOf(t, p, k)) \in Nat
           /\ Cardinality(EventsOf(t, p, k)) > 0 <=> Logged(t, p, k)
  <1>1. EventsOf(t, p, k) \subseteq 1..Len(log[Keyed(t, p)]) /\ Len(log[Keyed(t, p)]) \in Nat
    BY LogFacts DEF EventsOf, Keyed
  <1>2. IsFiniteSet(EventsOf(t, p, k))
    <2>1. IsFiniteSet(1..Len(log[Keyed(t, p)]))
      BY <1>1, FS_Interval
    <2> QED BY <1>1, <2>1, FS_Subset
  <1>3. Cardinality(EventsOf(t, p, k)) \in Nat
    BY <1>2, FS_CardinalityType
  <1>4. Cardinality(EventsOf(t, p, k)) = 0 <=> EventsOf(t, p, k) = {}
    BY <1>2, FS_EmptySet
  <1> QED BY <1>2, <1>3, <1>4 DEF Logged

LEMMA EventsCounted ==
    ASSUME LogOK, NEW topic, NEW o \in Orders, NEW kind \in EventKinds,
           Keyed(topic, o) \in DOMAIN log, Send(topic, o, kind),
           NEW t, NEW p, NEW k, Keyed(t, p) \in DOMAIN log
    PROVE  Cardinality(EventsOf(t, p, k)') =
             Cardinality(EventsOf(t, p, k)) + (IF t = topic /\ p = o /\ k = kind THEN 1 ELSE 0)
  <1>1. IsFiniteSet(EventsOf(t, p, k)) /\ Cardinality(EventsOf(t, p, k)) \in Nat
    BY EventsFinite
  <1>2. CASE t = topic /\ p = o /\ k = kind
    <2> DEFINE last == Len(log[Keyed(topic, o)]) + 1
    <2>1. last \notin EventsOf(t, p, k)
      <3>1. EventsOf(t, p, k) \subseteq 1..Len(log[Keyed(t, p)]) /\ Len(log[Keyed(t, p)]) \in Nat
        BY LogFacts DEF EventsOf, Keyed
      <3> QED BY <1>2, <3>1
    <2>2. EventsOf(t, p, k)' = EventsOf(t, p, k) \cup {last}
      BY <1>2, EventsSent
    <2>h. HIDE DEF last
    <2>3. Cardinality(EventsOf(t, p, k) \cup {last}) = Cardinality(EventsOf(t, p, k)) + 1
      BY <1>1, <2>1, FS_AddElement
    <2> QED BY <1>2, <2>2, <2>3
  <1>3. CASE ~(t = topic /\ p = o /\ k = kind)
    <2>1. EventsOf(t, p, k)' = EventsOf(t, p, k)
      BY <1>3, EventsSent
    <2> QED BY <1>1, <1>3, <2>1
  <1> QED BY <1>2, <1>3

-----------------------------------------------------------------------------
(* No operation of the group breaks its types and bounds, and what each of     *)
(* them does to positions, commits and messages in flight.                     *)

GroupOK(tps) ==
    /\ LogOK
    /\ tps \subseteq DOMAIN log
    /\ GroupType(tps)
    /\ GroupBounds

GroupRecord(tps) == [owner : [tps -> Instances],
                     position : [tps -> Nat],
                     committed : [tps -> Nat \cup {NoOffset}],
                     dirty : [tps -> BOOLEAN]]

(* What the invariant says of one topic partition and of one message.          *)
LEMMA GroupFacts ==
    ASSUME NEW tps, GroupOK(tps)
    PROVE  /\ LogOK /\ group \in GroupRecord(tps)
           /\ \A tp \in tps :
                /\ tp \in DOMAIN log
                /\ group.owner[tp] \in Instances
                /\ group.position[tp] \in Nat /\ group.position[tp] <= Len(log[tp])
                /\ group.committed[tp] \in Nat \cup {NoOffset}
                /\ group.committed[tp] \in Int /\ group.committed[tp] <= Len(log[tp])
           /\ \A m \in inFlight :
                /\ m \in Message(tps) /\ m.instance \in Instances
                /\ m.tp \in tps /\ m.offset \in Nat /\ m.offset < Len(log[m.tp])
                /\ m.live \in BOOLEAN
                /\ m.live => group.owner[m.tp] = m.instance /\ group.position[m.tp] = m.offset
           /\ \A m, n \in inFlight : m.instance = n.instance => m = n
  <1>1. group \in GroupRecord(tps)
    BY DEF GroupOK, GroupType, GroupRecord
  <1>2. \A tp \in tps :
          /\ group.position[tp] <= Len(log[tp])
          /\ group.committed[tp] <= Len(log[tp])
    BY <1>1 DEF GroupOK, GroupBounds, GroupRecord
  <1>3. \A m \in inFlight : m \in Message(tps)
    BY DEF GroupOK, GroupType
  <1>4. \A m \in inFlight :
          /\ m.offset < Len(log[m.tp])
          /\ m.live => group.owner[m.tp] = m.instance /\ group.position[m.tp] = m.offset
    BY DEF GroupOK, GroupBounds
  <1>5. \A m, n \in inFlight : m.instance = n.instance => m = n
    BY DEF GroupOK, GroupBounds
  <1>6. \A tp \in tps : group.committed[tp] \in Int
    BY <1>1 DEF GroupRecord, NoOffset
  <1> QED BY <1>1, <1>2, <1>3, <1>4, <1>5, <1>6 DEF GroupOK, GroupRecord, Message

(* ... and the other way round, what has to be shown of a step.                *)
LEMMA GroupFrom ==
    ASSUME NEW tps, tps \subseteq DOMAIN log, LogGrows,
           (group \in GroupRecord(tps))',
           \A tp \in tps :
             group'.position[tp] <= Len(log'[tp]) /\ group'.committed[tp] <= Len(log'[tp]),
           \A m \in inFlight' :
             /\ m \in Message(tps)
             /\ m.offset < Len(log'[m.tp])
             /\ m.live => group'.owner[m.tp] = m.instance /\ group'.position[m.tp] = m.offset,
           \A m, n \in inFlight' : m.instance = n.instance => m = n
    PROVE  GroupOK(tps)'
  <1>1. LogOK' /\ tps \subseteq DOMAIN log'
    BY GrownFacts
  <1>2. GroupType(tps)'
    BY DEF GroupType, GroupRecord, Message
  <1>3. DOMAIN group'.position = tps
    BY DEF GroupRecord
  <1>4. GroupBounds'
    BY <1>3 DEF GroupBounds
  <1> QED BY <1>1, <1>2, <1>4 DEF GroupOK

LEMMA GroupKept ==
    ASSUME NEW tps, GroupOK(tps), LogGrows, UNCHANGED <<group, inFlight>>
    PROVE  GroupOK(tps)'
  <1>1. tps \subseteq DOMAIN log
    BY DEF GroupOK
  <1>2. \A tp \in tps : Len(log[tp]) \in Nat /\ Len(log'[tp]) \in Nat /\ Len(log[tp]) <= Len(log'[tp])
    BY <1>1, LogFacts, GrownFacts, GroupFacts DEF LogGrows
  <1>3. (group \in GroupRecord(tps))'
    BY GroupFacts DEF GroupRecord
  <1>4. \A tp \in tps :
          group'.position[tp] <= Len(log'[tp]) /\ group'.committed[tp] <= Len(log'[tp])
    BY <1>2, GroupFacts
  <1>5. \A m \in inFlight' :
          /\ m \in Message(tps)
          /\ m.offset < Len(log'[m.tp])
          /\ m.live => group'.owner[m.tp] = m.instance /\ group'.position[m.tp] = m.offset
    BY <1>2, GroupFacts
  <1>6. \A m, n \in inFlight' : m.instance = n.instance => m = n
    BY GroupFacts
  <1> QED BY <1>1, <1>3, <1>4, <1>5, <1>6, GroupFrom

LEMMA ResolvedFacts ==
    ASSUME NEW tps, group \in GroupRecord(tps), NEW tp \in tps
    PROVE  /\ Resolved(tp) \in GroupRecord(tps)
           /\ Resolved(tp).committed = group.committed
           /\ Resolved(tp).owner = group.owner
           /\ Resolved(tp).position = [group.position EXCEPT ![tp] = @ + 1]
  <1> DEFINE position == [group.position EXCEPT ![tp] = group.position[tp] + 1]
             dirty == [group.dirty EXCEPT ![tp] = TRUE]
  <1>1. position \in [tps -> Nat] /\ dirty \in [tps -> BOOLEAN]
    BY DEF GroupRecord
  <1>2. Resolved(tp) = [group EXCEPT !.position = position, !.dirty = dirty]
    BY DEF Resolved, GroupRecord
  <1>h. HIDE DEF position, dirty
  <1>3. Resolved(tp) \in GroupRecord(tps)
    BY <1>1, <1>2 DEF GroupRecord
  <1>4. /\ Resolved(tp).committed = group.committed
        /\ Resolved(tp).owner = group.owner
        /\ Resolved(tp).position = position
    BY <1>2 DEF GroupRecord
  <1> QED BY <1>3, <1>4 DEF position

(* The event that is delivered next, and the event a handler works on.         *)
LEMMA DeliveredEvent ==
    ASSUME NEW tps, GroupOK(tps), NEW i \in Instances, NEW tp \in tps, Deliverable(i, tp)
    PROVE  /\ group.position[tp] + 1 \in DOMAIN log[tp]
           /\ NextEvent(tp) = log[tp][group.position[tp] + 1]
           /\ NextEvent(tp) \in Event
  <1>1. tp \in DOMAIN log /\ group.position[tp] \in Nat /\ group.position[tp] < Len(log[tp])
    BY GroupFacts DEF Deliverable
  <1>2. /\ DOMAIN log[tp] = 1..Len(log[tp]) /\ Len(log[tp]) \in Nat
        /\ \A n \in 1..Len(log[tp]) : log[tp][n] \in Event
    BY <1>1, LogFacts, GroupFacts
  <1> QED BY <1>1, <1>2 DEF NextEvent

LEMMA HandledEvent ==
    ASSUME NEW tps, GroupOK(tps), NEW m \in inFlight
    PROVE  /\ m.offset + 1 \in DOMAIN log[m.tp]
           /\ EventOf(m) = log[m.tp][m.offset + 1]
           /\ EventOf(m) \in Event
  <1>1. m.tp \in DOMAIN log /\ m.offset \in Nat /\ m.offset < Len(log[m.tp])
    BY GroupFacts
  <1>2. /\ DOMAIN log[m.tp] = 1..Len(log[m.tp]) /\ Len(log[m.tp]) \in Nat
        /\ \A n \in 1..Len(log[m.tp]) : log[m.tp][n] \in Event
    BY <1>1, LogFacts, GroupFacts
  <1> QED BY <1>1, <1>2 DEF EventOf

LEMMA GroupFinishAtOnce ==
    ASSUME NEW tps, GroupOK(tps), NEW i \in Instances, NEW tp \in tps,
           Deliverable(i, tp), FinishAtOnce(tp), UNCHANGED log
    PROVE  /\ GroupOK(tps)' /\ inFlight' = inFlight
           /\ group'.committed = group.committed
           /\ group'.position = [group.position EXCEPT ![tp] = @ + 1]
  <1>1. group' = Resolved(tp) /\ inFlight' = inFlight
    BY DEF FinishAtOnce
  <1>2. /\ group' \in GroupRecord(tps)
        /\ group'.committed = group.committed /\ group'.owner = group.owner
        /\ group'.position = [group.position EXCEPT ![tp] = @ + 1]
    BY <1>1, ResolvedFacts, GroupFacts
  <1>3. tps \subseteq DOMAIN log /\ LogGrows
    BY SameLogGrows DEF GroupOK
  <1>4. \A t \in tps : Len(log[t]) \in Nat
    BY <1>3, LogFacts, GroupFacts
  <1>5. ASSUME NEW t \in tps
        PROVE  group'.position[t] <= Len(log'[t]) /\ group'.committed[t] <= Len(log'[t])
    <2>1. group.position[tp] < Len(log[tp])
      BY DEF Deliverable
    <2>2. group.position[t] \in Nat /\ group.position[t] <= Len(log[t]) /\ group.committed[t] <= Len(log[t])
      BY GroupFacts
    <2>3. group'.position[t] = IF t = tp THEN group.position[t] + 1 ELSE group.position[t]
      BY <1>2, GroupFacts DEF GroupRecord
    <2> QED BY <1>2, <1>4, <2>1, <2>2, <2>3
  <1>6. ASSUME NEW m \in inFlight'
        PROVE  /\ m \in Message(tps) /\ m.offset < Len(log'[m.tp])
               /\ m.live => group'.owner[m.tp] = m.instance /\ group'.position[m.tp] = m.offset
    <2>1. /\ m \in inFlight /\ m \in Message(tps) /\ m.offset < Len(log[m.tp]) /\ m.tp \in tps
          /\ m.live => group.owner[m.tp] = m.instance /\ group.position[m.tp] = m.offset
      BY <1>1, GroupFacts
    <2>2. m.instance # i /\ group.owner[tp] = i
      BY <2>1 DEF Deliverable, Idle
    <2>3. m.live => m.tp # tp
      BY <2>1, <2>2
    <2> QED BY <1>2, <2>1, <2>3, GroupFacts DEF GroupRecord
  <1>7. \A m, n \in inFlight' : m.instance = n.instance => m = n
    BY <1>1, GroupFacts
  <1>8. GroupOK(tps)'
    BY <1>2, <1>3, <1>5, <1>6, <1>7, GroupFrom
  <1> QED BY <1>1, <1>2, <1>8

LEMMA GroupBeginHandling ==
    ASSUME NEW tps, GroupOK(tps), NEW i \in Instances, NEW tp \in tps,
           Deliverable(i, tp), BeginHandling(i, tp), UNCHANGED log
    PROVE  /\ GroupOK(tps)' /\ group' = group
           /\ inFlight' = inFlight \cup
                {[instance |-> i, tp |-> tp, offset |-> group.position[tp], live |-> TRUE]}
  <1> DEFINE m == [instance |-> i, tp |-> tp, offset |-> group.position[tp], live |-> TRUE]
  <1>1. inFlight' = inFlight \cup {m} /\ group' = group
    BY DEF BeginHandling
  <1>2. /\ m \in Message(tps) /\ m.offset < Len(log[m.tp])
        /\ group.owner[m.tp] = m.instance /\ group.position[m.tp] = m.offset
        /\ \A n \in inFlight : n.instance # m.instance
    BY GroupFacts DEF Message, Deliverable, Idle
  <1>3. tps \subseteq DOMAIN log /\ LogGrows
    BY SameLogGrows DEF GroupOK
  <1>h. HIDE DEF m
  <1>4. (group \in GroupRecord(tps))'
    BY <1>1, GroupFacts DEF GroupRecord
  <1>5. \A t \in tps :
          group'.position[t] <= Len(log'[t]) /\ group'.committed[t] <= Len(log'[t])
    BY <1>1, GroupFacts
  <1>6. \A n \in inFlight' :
          /\ n \in Message(tps) /\ n.offset < Len(log'[n.tp])
          /\ n.live => group'.owner[n.tp] = n.instance /\ group'.position[n.tp] = n.offset
    BY <1>1, <1>2, GroupFacts
  <1>7. \A n, k \in inFlight' : n.instance = k.instance => n = k
    BY <1>1, <1>2, GroupFacts
  <1>8. GroupOK(tps)'
    BY <1>3, <1>4, <1>5, <1>6, <1>7, GroupFrom
  <1> QED BY <1>1, <1>8 DEF m

LEMMA GroupFinishHandling ==
    ASSUME NEW tps, GroupOK(tps), LogGrows, NEW m \in inFlight, FinishHandling(m)
    PROVE  /\ GroupOK(tps)' /\ inFlight' = inFlight \ {m}
           /\ group'.committed = group.committed
           /\ group'.position = IF m.live THEN [group.position EXCEPT ![m.tp] = @ + 1]
                                          ELSE group.position
  <1>1. m.tp \in tps /\ m.live \in BOOLEAN /\ group \in GroupRecord(tps) /\ tps \subseteq DOMAIN log
    BY GroupFacts DEF GroupOK
  <1>2. inFlight' = inFlight \ {m} /\ group' = IF m.live THEN Resolved(m.tp) ELSE group
    BY DEF FinishHandling
  <1>3. /\ group' \in GroupRecord(tps)
        /\ group'.committed = group.committed /\ group'.owner = group.owner
        /\ group'.position = IF m.live THEN [group.position EXCEPT ![m.tp] = @ + 1]
                                       ELSE group.position
    BY <1>1, <1>2, ResolvedFacts
  <1>4. \A t \in tps : Len(log[t]) \in Nat /\ Len(log'[t]) \in Nat /\ Len(log[t]) <= Len(log'[t])
    BY <1>1, LogFacts, GrownFacts, GroupFacts DEF LogGrows
  <1>5. ASSUME NEW t \in tps
        PROVE  group'.position[t] <= Len(log'[t]) /\ group'.committed[t] <= Len(log'[t])
    <2>1. /\ group.position[t] \in Nat /\ group.position[t] <= Len(log[t])
          /\ group.committed[t] \in Int /\ group.committed[t] <= Len(log[t])
      BY GroupFacts
    <2>2. group'.position[t] = IF m.live /\ t = m.tp THEN group.position[t] + 1 ELSE group.position[t]
      BY <1>1, <1>3 DEF GroupRecord
    <2>3. m.live => group.position[m.tp] < Len(log[m.tp])
      BY GroupFacts
    <2> QED BY <1>1, <1>3, <1>4, <2>1, <2>2, <2>3
  <1>6. ASSUME NEW n \in inFlight'
        PROVE  /\ n \in Message(tps) /\ n.offset < Len(log'[n.tp])
               /\ n.live => group'.owner[n.tp] = n.instance /\ group'.position[n.tp] = n.offset
    <2>1. /\ n \in inFlight /\ n \in Message(tps) /\ n.tp \in tps /\ n.offset \in Nat
          /\ n.offset < Len(log[n.tp]) /\ n.instance # m.instance
          /\ n.live => group.owner[n.tp] = n.instance /\ group.position[n.tp] = n.offset
      BY <1>2, GroupFacts
    <2>2. n.offset < Len(log'[n.tp])
      BY <1>4, <2>1
    <2>3. n.live /\ m.live => n.tp # m.tp
      BY <2>1, GroupFacts
    <2> QED BY <1>1, <1>3, <2>1, <2>2, <2>3 DEF GroupRecord
  <1>7. \A n, k \in inFlight' : n.instance = k.instance => n = k
    BY <1>2, GroupFacts
  <1>8. GroupOK(tps)'
    BY <1>1, <1>3, <1>5, <1>6, <1>7, GroupFrom
  <1> QED BY <1>2, <1>3, <1>8

LEMMA GroupAutoCommit ==
    ASSUME NEW tps, GroupOK(tps), NEW i \in Instances, AutoCommit(i)
    PROVE  /\ GroupOK(tps)' /\ UNCHANGED <<log, faults, inFlight>>
           /\ group'.position = group.position
           /\ \A tp \in tps : group'.committed[tp] \in {group.committed[tp], group.position[tp]}
  <1> DEFINE mine == {tp \in DOMAIN group.owner : group.owner[tp] = i /\ group.dirty[tp]}
             committed == [tp \in DOMAIN group.committed |->
                    IF tp \in mine THEN group.position[tp] ELSE group.committed[tp]]
             dirty == [tp \in DOMAIN group.dirty |-> group.dirty[tp] /\ tp \notin mine]
  <1>1. group' = [group EXCEPT !.committed = committed, !.dirty = dirty]
    BY DEF AutoCommit
  <1>2. UNCHANGED <<log, faults, inFlight>>
    BY DEF AutoCommit
  <1>3. group \in GroupRecord(tps)
    BY GroupFacts
  <1>4. /\ committed \in [tps -> Nat \cup {NoOffset}]
        /\ dirty \in [tps -> BOOLEAN]
        /\ \A tp \in tps : committed[tp] \in {group.committed[tp], group.position[tp]}
    BY <1>3 DEF GroupRecord
  <1>h. HIDE DEF committed, dirty
  <1>5. /\ group' \in GroupRecord(tps)
        /\ group'.owner = group.owner /\ group'.position = group.position
        /\ group'.committed = committed
    BY <1>1, <1>3, <1>4 DEF GroupRecord
  <1>6. tps \subseteq DOMAIN log /\ LogGrows
    BY <1>2, SameLogGrows DEF GroupOK
  <1>7. \A t \in tps :
          group'.position[t] <= Len(log'[t]) /\ group'.committed[t] <= Len(log'[t])
    BY <1>2, <1>4, <1>5, GroupFacts
  <1>8. \A n \in inFlight' :
          /\ n \in Message(tps) /\ n.offset < Len(log'[n.tp])
          /\ n.live => group'.owner[n.tp] = n.instance /\ group'.position[n.tp] = n.offset
    BY <1>2, <1>5, GroupFacts
  <1>9. \A n, k \in inFlight' : n.instance = k.instance => n = k
    BY <1>2, GroupFacts
  <1>10. GroupOK(tps)'
    BY <1>5, <1>6, <1>7, <1>8, <1>9, GroupFrom
  <1> QED BY <1>2, <1>4, <1>5, <1>10

(* A member that rejoins goes on where the group committed, or at the end of a *)
(* partition nothing was committed of; a message still in flight is the one    *)
(* that was, no longer live.                                                   *)
LEMMA GroupRejoin ==
    ASSUME NEW tps, GroupOK(tps), NEW survivors, NEW committed,
           committed \in [tps -> Nat \cup {NoOffset}],
           \A tp \in tps : committed[tp] <= Len(log[tp]),
           Rejoin(survivors, committed)
    PROVE  /\ GroupOK(tps)' /\ UNCHANGED log
           /\ group'.committed = committed
           /\ \A tp \in tps : group'.position[tp] = Restart(committed, tp)
           /\ \A m \in inFlight' : \E n \in inFlight :
                /\ n.instance \in survivors
                /\ m.instance = n.instance /\ m.tp = n.tp /\ m.offset = n.offset
                /\ ~m.live
           /\ \A n \in inFlight : n.instance \in survivors => \E m \in inFlight' :
                m.instance = n.instance /\ m.tp = n.tp /\ m.offset = n.offset
  <1>1. \A tp \in tps : Len(log[tp]) \in Nat
    BY LogFacts, GroupFacts
  <1>2. PICK owner \in [tps -> Instances] :
          group' = [owner |-> owner,
                    position |-> [tp \in DOMAIN owner |-> Restart(committed, tp)],
                    committed |-> committed,
                    dirty |-> [tp \in DOMAIN owner |-> FALSE]]
    BY GroupFacts DEF Rejoin, GroupRecord
  <1>3. \A tp \in tps :
            Restart(committed, tp) \in Nat /\ Restart(committed, tp) <= Len(log[tp])
    BY <1>1 DEF Restart, NoOffset
  <1>4. group' \in GroupRecord(tps)
    BY <1>2, <1>3 DEF GroupRecord
  <1> DEFINE Stale(n) == [n EXCEPT !.live = FALSE]
  <1>5. log' = log /\ inFlight' = {Stale(n) : n \in {k \in inFlight : k.instance \in survivors}}
    BY DEF Rejoin
  <1>6. ASSUME NEW n \in inFlight
        PROVE  /\ Stale(n) \in Message(tps)
               /\ Stale(n).instance = n.instance /\ Stale(n).tp = n.tp
               /\ Stale(n).offset = n.offset /\ ~Stale(n).live
    <2>1. n \in Message(tps)
      BY GroupFacts
    <2> QED BY <2>1 DEF Message
  <1>h. HIDE DEF Stale
  <1>7. \A m \in inFlight' : \E n \in inFlight : n.instance \in survivors /\ m = Stale(n)
    BY <1>5
  <1>8. tps \subseteq DOMAIN log /\ LogGrows
    BY <1>5, SameLogGrows DEF GroupOK
  <1>9. \A tp \in tps :
          group'.position[tp] <= Len(log'[tp]) /\ group'.committed[tp] <= Len(log'[tp])
    BY <1>2, <1>3, <1>5
  <1>10. \A m \in inFlight' : m \in Message(tps) /\ m.offset < Len(log'[m.tp]) /\ ~m.live
    BY <1>5, <1>6, <1>7, GroupFacts
  <1>11. \A m, k \in inFlight' : m.instance = k.instance => m = k
    BY <1>6, <1>7, GroupFacts
  <1>12. GroupOK(tps)'
    BY <1>4, <1>8, <1>9, <1>10, <1>11, GroupFrom
  <1>13. group'.committed = committed /\ \A tp \in tps : group'.position[tp] = Restart(committed, tp)
    BY <1>2
  <1>14. \A m \in inFlight' : \E n \in inFlight :
            /\ n.instance \in survivors
            /\ m.instance = n.instance /\ m.tp = n.tp /\ m.offset = n.offset
            /\ ~m.live
    BY <1>6, <1>7
  <1>15. \A n \in inFlight : n.instance \in survivors => \E m \in inFlight' :
            m.instance = n.instance /\ m.tp = n.tp /\ m.offset = n.offset
    BY <1>5, <1>6
  <1> QED BY <1>5, <1>12, <1>13, <1>14, <1>15

(* The three ways a group rejoins: a rebalance, a crash and a replay, which    *)
(* commits nothing further on than the group had.                              *)
LEMMA RejoinsAtCommitted ==
    ASSUME NEW tps, GroupOK(tps)
    PROVE  /\ group.committed \in [tps -> Nat \cup {NoOffset}]
           /\ \A tp \in tps : group.committed[tp] <= Len(log[tp])
           /\ ResetToEarliest(group.committed) \in [tps -> Nat \cup {NoOffset}]
           /\ \A tp \in tps :
                /\ ResetToEarliest(group.committed)[tp] <= Len(log[tp])
                /\ ResetToEarliest(group.committed)[tp] \in {0, group.committed[tp]}
  <1>1. group.committed \in [tps -> Nat \cup {NoOffset}]
    BY GroupFacts DEF GroupRecord
  <1>2. \A tp \in tps : group.committed[tp] <= Len(log[tp]) /\ Len(log[tp]) \in Nat
    BY LogFacts, GroupFacts
  <1> QED BY <1>1, <1>2 DEF ResetToEarliest

LEMMA GroupStarts ==
    ASSUME NEW topics, NEW tps, tps \subseteq topics \X Partitions,
           TopicsInit(topics), GroupInit(tps)
    PROVE  /\ GroupOK(tps) /\ faults \in [FaultKinds -> Nat]
           /\ DOMAIN log = topics \X Partitions
           /\ \A tp \in DOMAIN log : DOMAIN log[tp] = {} /\ Len(log[tp]) = 0
           /\ \A tp \in tps : group.position[tp] = 0 /\ group.committed[tp] = InitialCommitted
           /\ inFlight = {}
           /\ \A kind \in FaultKinds : faults[kind] = 0
  <1>1. log = [tp \in topics \X Partitions |-> <<>>] /\ faults = [kind \in FaultKinds |-> 0]
    BY DEF TopicsInit
  <1>2. PICK owner \in [tps -> Instances] :
          group = [owner |-> owner,
                   position |-> [tp \in tps |-> 0],
                   committed |-> [tp \in tps |-> InitialCommitted],
                   dirty |-> [tp \in tps |-> FALSE]]
    BY DEF GroupInit
  <1>3. inFlight = {}
    BY DEF GroupInit
  <1>4. DOMAIN log = topics \X Partitions /\ \A tp \in DOMAIN log : log[tp] = <<>>
    BY <1>1
  <1>5. \A tp \in DOMAIN log : DOMAIN log[tp] = {} /\ Len(log[tp]) = 0
    BY <1>4
  <1>6. LogOK
    BY <1>1 DEF LogOK
  <1>7. GroupType(tps)
    BY <1>2, <1>3 DEF GroupType
  <1>8. GroupBounds
    <2>1. DOMAIN group.position = tps
      BY <1>2
    <2>2. \A tp \in tps : group.position[tp] = 0 /\ group.committed[tp] = InitialCommitted
      BY <1>2
    <2> QED BY <1>3, <1>4, <1>5, <2>1, <2>2 DEF GroupBounds, NoOffset
  <1> QED BY <1>1, <1>2, <1>3, <1>4, <1>5, <1>6, <1>7, <1>8 DEF GroupOK

LEMMA FaultCounted ==
    ASSUME faults \in [FaultKinds -> Nat], NEW kind \in FaultKinds, Fault(kind)
    PROVE  /\ faults' \in [FaultKinds -> Nat]
           /\ faults'[kind] = faults[kind] + 1
           /\ \A k \in FaultKinds \ {kind} : faults'[k] = faults[k]
  BY DEF Fault

(* Whatever makes the members rejoin, nobody goes on beyond the committed      *)
(* offset, and no message is in flight that was not.                           *)
LEMMA GroupRejoins ==
    ASSUME NEW tps, GroupOK(tps), faults \in [FaultKinds -> Nat],
           NEW kind \in FaultKinds, Fault(kind),
           NEW survivors, NEW committed,
           committed \in {group.committed, ResetToEarliest(group.committed)},
           Rejoin(survivors, committed)
    PROVE  /\ GroupOK(tps)' /\ UNCHANGED log
           /\ faults' \in [FaultKinds -> Nat] /\ faults'[kind] = faults[kind] + 1
           /\ \A k \in FaultKinds \ {kind} : faults'[k] = faults[k]
           /\ \A m \in inFlight' : \E n \in inFlight :
                /\ n.instance \in survivors
                /\ m.instance = n.instance /\ m.tp = n.tp /\ m.offset = n.offset
           /\ \A n \in inFlight : n.instance \in survivors => \E m \in inFlight' :
                m.instance = n.instance /\ m.tp = n.tp /\ m.offset = n.offset
           /\ \A tp \in tps : group.committed[tp] # NoOffset =>
                /\ group'.committed[tp] # NoOffset
                /\ group'.committed[tp] <= group.committed[tp]
                /\ group'.position[tp] <= group.committed[tp]
  <1>1. /\ committed \in [tps -> Nat \cup {NoOffset}]
        /\ \A tp \in tps : /\ committed[tp] <= Len(log[tp])
                            /\ committed[tp] \in {0, group.committed[tp]}
    BY RejoinsAtCommitted
  <1>2. /\ GroupOK(tps)' /\ UNCHANGED log
        /\ group'.committed = committed
        /\ \A tp \in tps : group'.position[tp] = Restart(committed, tp)
        /\ \A m \in inFlight' : \E n \in inFlight :
             /\ n.instance \in survivors
             /\ m.instance = n.instance /\ m.tp = n.tp /\ m.offset = n.offset
        /\ \A n \in inFlight : n.instance \in survivors => \E m \in inFlight' :
             m.instance = n.instance /\ m.tp = n.tp /\ m.offset = n.offset
    BY <1>1, GroupRejoin
  <1>3. ASSUME NEW tp \in tps, group.committed[tp] # NoOffset
        PROVE  /\ group'.committed[tp] # NoOffset
               /\ group'.committed[tp] <= group.committed[tp]
               /\ group'.position[tp] <= group.committed[tp]
    <2>1. group.committed[tp] \in Nat
      BY <1>3, GroupFacts
    <2>2. committed[tp] # NoOffset /\ committed[tp] <= group.committed[tp]
      BY <1>1, <2>1 DEF NoOffset
    <2> QED BY <1>2, <2>2 DEF Restart
  <1> QED BY <1>2, <1>3, FaultCounted

LEMMA OneMoreElement ==
    ASSUME NEW S, IsFiniteSet(S), NEW x
    PROVE  /\ IsFiniteSet(S \cup {x}) /\ Cardinality(S \cup {x}) \in Nat
           /\ Cardinality(S) \in Nat /\ Cardinality(S \cup {x}) <= Cardinality(S) + 1
  <1>1. IsFiniteSet(S \cup {x}) /\ (Cardinality(S \cup {x}) = Cardinality(S) \/ Cardinality(S \cup {x}) = Cardinality(S) + 1)
    BY FS_AddElement
  <1>2. Cardinality(S \cup {x}) \in Nat /\ Cardinality(S) \in Nat
    BY <1>1, FS_CardinalityType
  <1> QED BY <1>1, <1>2

(* An event keeps its place on the log.                                        *)
LEMMA EventAt ==
    ASSUME LogOK, LogGrows, NEW tp \in DOMAIN log, NEW n \in DOMAIN log[tp]
    PROVE  /\ n \in Nat /\ 1 <= n /\ n <= Len(log[tp]) /\ Len(log[tp]) \in Nat
           /\ log[tp][n] \in Event
           /\ n \in DOMAIN log'[tp] /\ log'[tp][n] = log[tp][n]
  <1>1. log[tp][n] \in Event /\ n \in 1..Len(log[tp]) /\ Len(log[tp]) \in Nat
    BY LogFacts
  <1>2. /\ DOMAIN log'[tp] = 1..Len(log'[tp]) /\ Len(log'[tp]) \in Nat
        /\ Len(log[tp]) <= Len(log'[tp]) /\ log'[tp][n] = log[tp][n]
    BY <1>1, GrownFacts DEF LogGrows
  <1> QED BY <1>1, <1>2

(* An event appended to a topic partition, for steps that append two.          *)
Grows(old, new) ==
    /\ new \in [DOMAIN old -> Seq(Event)]
    /\ \A tp \in DOMAIN old :
          /\ Len(old[tp]) <= Len(new[tp])
          /\ \A n \in 1..Len(old[tp]) : new[tp][n] = old[tp][n]

Appended(old, tp, event) == [old EXCEPT ![tp] = Append(@, event)]

OneEventMore(tps, old, new, tp, event) ==
    /\ Grows(old, new)
    /\ new[tp] = Append(old[tp], event)
    /\ \A t \in tps \ {tp} : new[t] = old[t]
    /\ Len(old[tp]) + 1 \in DOMAIN new[tp]
    /\ new[tp][Len(old[tp]) + 1] = event

LEMMA AppendGrows ==
    ASSUME NEW tps, NEW old \in [tps -> Seq(Event)], NEW tp \in tps, NEW event \in Event
    PROVE  OneEventMore(tps, old, Appended(old, tp, event), tp, event)
  <1> DEFINE new == Appended(old, tp, event)
  <1>1. old[tp] \in Seq(Event) /\ Len(old[tp]) \in Nat
    BY LenProperties
  <1>2. /\ Append(old[tp], event) \in Seq(Event)
        /\ Len(Append(old[tp], event)) = Len(old[tp]) + 1
        /\ \A n \in 1..Len(old[tp]) : Append(old[tp], event)[n] = old[tp][n]
        /\ Append(old[tp], event)[Len(old[tp]) + 1] = event
    BY <1>1, AppendProperties
  <1>3. /\ new \in [tps -> Seq(Event)]
        /\ new[tp] = Append(old[tp], event)
        /\ \A t \in tps \ {tp} : new[t] = old[t]
    BY <1>2 DEF Appended
  <1>h. HIDE DEF new
  <1>4. DOMAIN new[tp] = 1..(Len(old[tp]) + 1)
    BY <1>2, <1>3, LenProperties
  <1>5. ASSUME NEW t \in tps
        PROVE  /\ Len(old[t]) <= Len(new[t])
               /\ \A n \in 1..Len(old[t]) : new[t][n] = old[t][n]
    <2>1. Len(old[t]) \in Nat
      BY LenProperties
    <2>2. CASE t = tp
      <3>1. old[t] = old[tp] /\ new[t] = Append(old[tp], event)
        BY <1>3, <2>2
      <3> QED BY <1>1, <1>2, <3>1
    <2>3. CASE t # tp
      <3>1. new[t] = old[t]
        BY <1>3, <2>3
      <3> QED BY <2>1, <3>1
    <2> QED BY <2>2, <2>3
  <1>6. Grows(old, new)
    BY <1>3, <1>5 DEF Grows
  <1>7. Len(old[tp]) + 1 \in DOMAIN new[tp] /\ new[tp][Len(old[tp]) + 1] = event
    BY <1>1, <1>2, <1>3, <1>4
  <1> QED BY <1>3, <1>6, <1>7 DEF new, OneEventMore

LEMMA GrowsTransitive ==
    ASSUME NEW a, NEW b, NEW c, a \in [DOMAIN a -> Seq(Event)], Grows(a, b), Grows(b, c)
    PROVE  Grows(a, c)
  <1>1. DOMAIN b = DOMAIN a /\ c \in [DOMAIN a -> Seq(Event)]
    BY DEF Grows
  <1>2. ASSUME NEW tp \in DOMAIN a
        PROVE  /\ Len(a[tp]) <= Len(c[tp])
               /\ \A n \in 1..Len(a[tp]) : c[tp][n] = a[tp][n]
    <2>1. Len(a[tp]) \in Nat /\ Len(b[tp]) \in Nat /\ Len(c[tp]) \in Nat
      BY <1>1, LenProperties DEF Grows
    <2> QED BY <1>1, <2>1 DEF Grows
  <1> QED BY <1>1, <1>2 DEF Grows

LEMMA GrowsReflexive ==
    ASSUME NEW a, a \in [DOMAIN a -> Seq(Event)]
    PROVE  Grows(a, a)
  <1>1. \A tp \in DOMAIN a : Len(a[tp]) \in Nat
    BY LenProperties
  <1> QED BY <1>1 DEF Grows

(* Appending an event adds one to the count of the events that are equal to it *)
(* and to no other.                                                            *)
LEMMA EventsAppended ==
    ASSUME LogOK, NEW t, NEW p, NEW k, Keyed(t, p) \in DOMAIN log, NEW event \in Event,
           log'[Keyed(t, p)] = Append(log[Keyed(t, p)], event)
    PROVE  Cardinality(EventsOf(t, p, k)') =
             Cardinality(EventsOf(t, p, k)) + (IF event = [order |-> p, kind |-> k] THEN 1 ELSE 0)
  <1> DEFINE tp == Keyed(t, p)
             last == Len(log[tp]) + 1
  <1>1. IsFiniteSet(EventsOf(t, p, k)) /\ Cardinality(EventsOf(t, p, k)) \in Nat
    BY EventsFinite
  <1>2. log[tp] \in Seq(Event) /\ Len(log[tp]) \in Nat /\ DOMAIN log[tp] = 1..Len(log[tp])
    BY LogFacts
  <1>3. /\ Append(log[tp], event) \in Seq(Event)
        /\ Len(Append(log[tp], event)) = Len(log[tp]) + 1
        /\ \A n \in 1..Len(log[tp]) : Append(log[tp], event)[n] = log[tp][n]
        /\ Append(log[tp], event)[Len(log[tp]) + 1] = event
    BY <1>2, AppendProperties
  <1>4. EventsOf(t, p, k) = {n \in DOMAIN log[tp] : log[tp][n] = [order |-> p, kind |-> k]}
    BY DEF EventsOf, Keyed
  <1>5. EventsOf(t, p, k)' = {n \in DOMAIN log'[tp] : log'[tp][n] = [order |-> p, kind |-> k]}
    BY DEF EventsOf, Keyed
  <1>6. log'[tp] = Append(log[tp], event)
    OBVIOUS
  <1>h. HIDE DEF tp
  <1>7. DOMAIN log'[tp] = DOMAIN log[tp] \cup {last} /\ last \notin DOMAIN log[tp]
    <2>1. DOMAIN log'[tp] = 1..(Len(log[tp]) + 1)
      BY <1>3, <1>6, LenProperties
    <2> QED BY <1>2, <2>1
  <1>8. log'[tp][last] = event /\ \A n \in DOMAIN log[tp] : log'[tp][n] = log[tp][n]
    BY <1>2, <1>3, <1>6
  <1>h2. HIDE DEF last
  <1>9. CASE event = [order |-> p, kind |-> k]
    <2>1. EventsOf(t, p, k)' = EventsOf(t, p, k) \cup {last} /\ last \notin EventsOf(t, p, k)
      BY <1>4, <1>5, <1>7, <1>8, <1>9
    <2>2. Cardinality(EventsOf(t, p, k) \cup {last}) = Cardinality(EventsOf(t, p, k)) + 1
      BY <1>1, <2>1, FS_AddElement
    <2> QED BY <1>9, <2>1, <2>2
  <1>10. CASE event # [order |-> p, kind |-> k]
    <2>1. EventsOf(t, p, k)' = EventsOf(t, p, k)
      BY <1>4, <1>5, <1>7, <1>8, <1>10
    <2> QED BY <1>1, <1>10, <2>1
  <1> QED BY <1>9, <1>10
=============================================================================
