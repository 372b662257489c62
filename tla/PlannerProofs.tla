--------------------------- MODULE PlannerProofs ----------------------------
(***************************************************************************)
(* Proofs about Planner, for every extent of the map and every scene.      *)
(***************************************************************************)
EXTENDS Planner, FiniteSetTheorems, WellFoundedInduction, TLAPS

(* Induction over the numbers, for a property given as a set of them. *)
LEMMA NumbersByInduction ==
  ASSUME NEW T, 0 \in T, \A n \in Nat : n \in T => n + 1 \in T
  PROVE  Nat \subseteq T
  <1> DEFINE Missing == Nat \ T
  <1>1. SUFFICES ASSUME Missing # {} PROVE FALSE
    OBVIOUS
  <1>2. PICK n \in Missing : \A k \in Missing : <<k, n>> \notin OpToRel(<, Nat)
    BY <1>1, WFMin, NatLessThanWellFounded, Zenon
  <1>3. \A k \in Missing : ~(k < n)
    BY <1>2, Zenon DEF OpToRel
  <1>4. n \in Nat /\ n # 0 /\ n - 1 \in Nat /\ n - 1 < n /\ (n - 1) + 1 = n
    OBVIOUS
  <1>5. n - 1 \notin Missing
    BY <1>3, <1>4
  <1>6. QED
    BY <1>4, <1>5

(* What is built up from a first value by one step after another exists. *)
LEMMA StepByStep ==
  ASSUME NEW U, NEW init \in U, NEW step \in [U -> U]
  PROVE  \E f \in [Nat -> U] : f[0] = init /\ \A n \in Nat : f[n + 1] = step[f[n]]
  <1> DEFINE Begins(n) == {f \in [0..n -> U] :
                             f[0] = init /\ \A i \in 0..(n - 1) : f[i + 1] = step[f[i]]}
             Good == {n \in Nat : Begins(n) # {}}
  <1>1. 0 \in Good
    <2>1. [i \in 0..0 |-> init] \in Begins(0)
      OBVIOUS
    <2>2. QED
      BY <2>1
  <1>2. ASSUME NEW n \in Nat, n \in Good PROVE n + 1 \in Good
    <2>1. PICK f : f \in Begins(n)
      BY <1>2
    <2>2. /\ f \in [0..n -> U] /\ f[0] = init
          /\ \A i \in 0..(n - 1) : f[i + 1] = step[f[i]]
      BY <2>1
    <2> DEFINE h == [i \in 0..(n + 1) |-> IF i = n + 1 THEN step[f[n]] ELSE f[i]]
    <2>3. h \in [0..(n + 1) -> U]
      <3>1. f[n] \in U /\ step[f[n]] \in U
        BY <2>2
      <3>2. \A i \in 0..(n + 1) : i # n + 1 => f[i] \in U
        BY <2>2
      <3>3. QED
        BY <3>1, <3>2
    <2>4. h[0] = init
      BY <2>2
    <2>5. \A i \in 0..n : h[i + 1] = step[h[i]]
      <3> SUFFICES ASSUME NEW i \in 0..n PROVE h[i + 1] = step[h[i]]
        OBVIOUS
      <3>1. CASE i = n
        BY <3>1
      <3>2. CASE i # n
        <4>1. i \in 0..(n - 1) /\ h[i] = f[i] /\ h[i + 1] = f[i + 1]
          BY <3>2
        <4>2. QED
          BY <4>1, <2>2
      <3>3. QED
        BY <3>1, <3>2
    <2>6. (n + 1) - 1 = n /\ n + 1 \in Nat
      OBVIOUS
    <2> HIDE DEF h
    <2>7. h \in Begins(n + 1)
      BY <2>3, <2>4, <2>5, <2>6
    <2>8. QED
      BY <2>6, <2>7
  <1> HIDE DEF Good
  <1>3. Nat \subseteq Good
    BY <1>1, <1>2, NumbersByInduction
  <1>4. \A n \in Nat : Begins(n) # {}
    BY <1>3 DEF Good
  <1> DEFINE pick == [n \in Nat |-> CHOOSE f : f \in Begins(n)]
             whole == [n \in Nat |-> pick[n][n]]
  <1>5. ASSUME NEW n \in Nat PROVE pick[n] \in Begins(n)
    <2>1. \E f : f \in Begins(n)
      BY <1>4
    <2> HIDE DEF Begins
    <2>2. QED
      BY <2>1, Zenon
  <1> HIDE DEF pick
  <1>6. \A n \in Nat : /\ pick[n] \in [0..n -> U] /\ pick[n][0] = init
                       /\ \A i \in 0..(n - 1) : pick[n][i + 1] = step[pick[n][i]]
    BY <1>5
  <1> DEFINE Agree == {i \in Nat : \A m \in Nat, n \in Nat :
                         i <= m /\ i <= n => pick[m][i] = pick[n][i]}
  <1>7. Nat \subseteq Agree
    <2>1. 0 \in Agree
      BY <1>6
    <2>2. ASSUME NEW i \in Nat, i \in Agree PROVE i + 1 \in Agree
      <3> SUFFICES ASSUME NEW m \in Nat, NEW n \in Nat, i + 1 <= m, i + 1 <= n
                   PROVE  pick[m][i + 1] = pick[n][i + 1]
        OBVIOUS
      <3>1. i \in 0..(m - 1) /\ i \in 0..(n - 1) /\ i <= m /\ i <= n
        OBVIOUS
      <3>2. pick[m][i] = pick[n][i]
        BY <2>2, <3>1
      <3>3. pick[m][i + 1] = step[pick[m][i]] /\ pick[n][i + 1] = step[pick[n][i]]
        BY <1>6, <3>1
      <3>4. QED
        BY <3>2, <3>3
    <2> HIDE DEF Agree
    <2>3. QED
      BY <2>1, <2>2, NumbersByInduction
  <1>8. whole \in [Nat -> U]
    <2>1. \A n \in Nat : n \in 0..n
      OBVIOUS
    <2>2. \A n \in Nat : pick[n][n] \in U
      BY <1>6, <2>1
    <2>3. QED
      BY <2>2
  <1>9. whole[0] = init
    BY <1>6
  <1>10. ASSUME NEW n \in Nat PROVE whole[n + 1] = step[whole[n]]
    <2>1. n + 1 \in Nat /\ n \in 0..((n + 1) - 1) /\ n \in Agree /\ n <= n + 1 /\ n <= n
      BY <1>7
    <2>2. pick[n + 1][n + 1] = step[pick[n + 1][n]]
      BY <1>6, <2>1
    <2>3. pick[n + 1][n] = pick[n][n]
      BY <2>1
    <2>4. QED
      BY <2>1, <2>2, <2>3
  <1> HIDE DEF whole
  <1>11. QED
    BY <1>8, <1>9, <1>10

(* The layers in the order they grow. *)
Growing(edges, g, L) ==
  /\ L \in [Nat -> SUBSET (Positions \cup {g})]
  /\ L[0] = {g}
  /\ \A n \in Nat : L[n + 1] = L[n] \cup {e[1] : e \in {f \in edges : Destination(f) \in L[n]}}

LEMMA LayersGrow ==
  ASSUME NEW edges, edges \subseteq Edges, NEW g
  PROVE  \E L : /\ Growing(edges, g, L)
                /\ Layers(edges, g) = {[i \in 1..(Cardinality(Positions) + 1) |-> L[i - 1]]}
  <1> DEFINE Step == [S \in SUBSET (Positions \cup {g}) |->
                        S \cup {e[1] : e \in {f \in edges : Destination(f) \in S}}]
             Body(grown) == [n \in Nat |->
                IF n = 0
                  THEN {<<{g}>>}
                  ELSE {Append(layers, layers[n] \cup
                         {e[1] : e \in {f \in edges : Destination(f) \in layers[n]}}) :
                          layers \in grown[n - 1]}]
             grown == CHOOSE grown : grown = Body(grown)
  <1>1. Step \in [SUBSET (Positions \cup {g}) -> SUBSET (Positions \cup {g})]
    BY DEF Edges
  <1>2. PICK L \in [Nat -> SUBSET (Positions \cup {g})] :
          L[0] = {g} /\ \A n \in Nat : L[n + 1] = Step[L[n]]
    <2>1. {g} \in SUBSET (Positions \cup {g})
      OBVIOUS
    <2> HIDE DEF Step
    <2> DEFINE start == {g}
               U == SUBSET (Positions \cup {g})
    <2>2. start \in U /\ Step \in [U -> U]
      BY <1>1, <2>1
    <2> HIDE DEF start, U
    <2>3. \E f \in [Nat -> U] : f[0] = start /\ \A n \in Nat : f[n + 1] = Step[f[n]]
      BY <2>2, StepByStep
    <2>4. QED
      BY <2>3 DEF start, U
  <1>3. Growing(edges, g, L)
    <2>1. \A n \in Nat : L[n] \in SUBSET (Positions \cup {g})
      BY <1>2
    <2>2. QED
      BY <1>2, <2>1 DEF Growing
  <1> DEFINE First(n) == [i \in 1..(n + 1) |-> L[i - 1]]
             Shown == [n \in Nat |-> {First(n)}]
  <1>4. First(0) = <<{g}>>
    <2>1. First(0) = [i \in 1..1 |-> {g}]
      BY <1>2
    <2>2. QED
      BY <2>1
  <1>5. ASSUME NEW n \in Nat, n # 0
        PROVE  Append(First(n - 1), First(n - 1)[n] \cup
                 {e[1] : e \in {f \in edges : Destination(f) \in First(n - 1)[n]}}) = First(n)
    <2>1. First(n - 1) \in Seq(SUBSET (Positions \cup {g})) /\ Len(First(n - 1)) = n
      BY <1>2
    <2>2. First(n - 1)[n] = L[n - 1]
      BY <1>5
    <2>3. n - 1 \in Nat /\ (n - 1) + 1 = n
      BY <1>5
    <2>4. L[n] = L[n - 1] \cup {e[1] : e \in {f \in edges : Destination(f) \in L[n - 1]}}
      BY <1>3, <2>3 DEF Growing
    <2>5. Append(First(n - 1), L[n]) = First(n)
      <3>1. L[n] \in SUBSET (Positions \cup {g})
        BY <1>2
      <3> DEFINE a == Append(First(n - 1), L[n])
      <3>2. a \in Seq(SUBSET (Positions \cup {g})) /\ Len(a) = n + 1
        BY <3>1, <2>1
      <3>3. \A i \in 1..(n + 1) : a[i] = L[i - 1]
        BY <3>1, <2>1
      <3>4. First(n) \in Seq(SUBSET (Positions \cup {g})) /\ Len(First(n)) = n + 1
        BY <1>2
      <3>5. \A i \in 1..(n + 1) : First(n)[i] = L[i - 1]
        OBVIOUS
      <3> HIDE DEF a, First
      <3>6. a = First(n)
        BY <3>2, <3>3, <3>4, <3>5
      <3>7. QED
        BY <3>6 DEF a
    <2> HIDE DEF First
    <2>6. QED
      BY <2>2, <2>4, <2>5
  <1>6. Shown = Body(Shown)
    <2> HIDE DEF First
    <2>1. Shown[0] = Body(Shown)[0]
      BY <1>4
    <2>2. \A n \in Nat : n # 0 => Shown[n - 1] = {First(n - 1)}
      OBVIOUS
    <2>3. ASSUME NEW n \in Nat, n # 0 PROVE Shown[n] = Body(Shown)[n]
      <3> DEFINE More(layers) == Append(layers, layers[n] \cup
                   {e[1] : e \in {f \in edges : Destination(f) \in layers[n]}})
      <3>1. Body(Shown)[n] = {More(layers) : layers \in Shown[n - 1]}
        BY <2>3
      <3>2. Shown[n - 1] = {First(n - 1)} /\ Shown[n] = {First(n)}
        BY <2>2, <2>3
      <3>3. More(First(n - 1)) = First(n)
        BY <2>3, <1>5
      <3> HIDE DEF Shown, More
      <3>4. QED
        BY <3>1, <3>2, <3>3
    <2>4. QED
      BY <2>1, <2>3
  <1>7. grown = Body(grown)
    BY <1>6
  <1> HIDE DEF grown
  <1>8. \A n \in Nat : grown[n] = Shown[n]
    <2> DEFINE Same == {n \in Nat : grown[n] = Shown[n]}
    <2>1. grown[0] = Body(grown)[0] /\ Shown[0] = Body(Shown)[0]
      BY <1>6, <1>7
    <2>2. 0 \in Same
      BY <2>1
    <2>3. ASSUME NEW n \in Nat, n \in Same PROVE n + 1 \in Same
      <3> HIDE DEF Shown
      <3>1. /\ grown[n] = Shown[n] /\ (n + 1) - 1 = n /\ n + 1 \in Nat /\ n + 1 # 0
        BY <2>3
      <3>2. Body(grown)[n + 1] = Body(Shown)[n + 1]
        BY <3>1
      <3> HIDE DEF Body
      <3>3. grown[n + 1] = Body(grown)[n + 1] /\ Shown[n + 1] = Body(Shown)[n + 1]
        BY <1>6, <1>7
      <3>4. QED
        BY <3>1, <3>2, <3>3
    <2> HIDE DEF Same
    <2>4. Nat \subseteq Same
      BY <2>2, <2>3, NumbersByInduction
    <2>5. QED
      BY <2>4 DEF Same
  <1>9. Cardinality(Positions) \in Nat
    <2>1. IsFiniteSet(0..MaxX) /\ IsFiniteSet(0..MaxY)
      BY ExtentAssumption, FS_Interval
    <2>2. QED
      BY <2>1, FS_Product, FS_CardinalityType DEF Positions
  <1>10. Layers(edges, g) = grown[Cardinality(Positions)]
    BY DEF Layers, grown
  <1>11. QED
    BY <1>3, <1>8, <1>9, <1>10

LEMMA LayersWiden ==
  ASSUME NEW edges, NEW g, NEW L, Growing(edges, g, L), NEW m \in Nat
  PROVE  \A n \in Nat : m <= n => L[m] \subseteq L[n]
  <1> DEFINE T == {n \in Nat : m <= n => L[m] \subseteq L[n]}
  <1>1. 0 \in T
    OBVIOUS
  <1>2. ASSUME NEW n \in Nat, n \in T PROVE n + 1 \in T
    <2>1. L[n] \subseteq L[n + 1]
      BY DEF Growing
    <2>2. n + 1 \in Nat /\ (m <= n + 1 => m <= n \/ m = n + 1)
      OBVIOUS
    <2>3. QED
      BY <1>2, <2>1, <2>2
  <1> HIDE DEF T
  <1>3. Nat \subseteq T
    BY <1>1, <1>2, NumbersByInduction
  <1>4. QED
    BY <1>3 DEF T

LEMMA PositionsAreFinite == IsFiniteSet(Positions) /\ Cardinality(Positions) \in Nat
  <1>1. IsFiniteSet(0..MaxX) /\ IsFiniteSet(0..MaxY)
    BY ExtentAssumption, FS_Interval
  <1>2. QED
    BY <1>1, FS_Product, FS_CardinalityType DEF Positions

(* As many layers as there are positions are enough: a layer that adds      *)
(* nothing is the last one to look at.                                      *)
LEMMA LayersSettle ==
  ASSUME NEW edges, NEW g \in Positions, NEW L, Growing(edges, g, L), NEW n \in Nat
  PROVE  L[n] \subseteq L[Cardinality(Positions)]
  <1> DEFINE N == Cardinality(Positions)
             Still(m) == L[m + 1] = L[m]
             Big(m) == Cardinality(L[m]) >= m + 1
             T == {m \in Nat : Big(m) \/ Still(m)}
  <1>1. N \in Nat /\ IsFiniteSet(Positions)
    BY PositionsAreFinite
  <1>2. \A m \in Nat : L[m] \subseteq Positions
    BY DEF Growing
  <1>3. \A m \in Nat : /\ IsFiniteSet(L[m]) /\ Cardinality(L[m]) \in Nat
                       /\ Cardinality(L[m]) <= N
    BY <1>1, <1>2, FS_Subset, FS_CardinalityType
  <1>4. 0 \in T
    <2>1. Cardinality(L[0]) = 1
      BY FS_Singleton DEF Growing
    <2>2. QED
      BY <2>1
  <1>5. ASSUME NEW m \in Nat, m \in T PROVE m + 1 \in T
    <2>1. CASE Still(m)
      <3>1. m + 1 \in Nat /\ L[m + 1] = L[m]
        BY <2>1
      <3>2. Still(m + 1)
        BY <3>1 DEF Growing
      <3>3. QED
        BY <3>1, <3>2
    <2>2. CASE ~Still(m)
      <3>1. m + 1 \in Nat /\ L[m] \subseteq L[m + 1] /\ L[m] # L[m + 1]
        BY <2>2 DEF Growing
      <3>2. Cardinality(L[m]) < Cardinality(L[m + 1])
        <4>1. /\ Cardinality(L[m]) <= Cardinality(L[m + 1])
              /\ Cardinality(L[m]) = Cardinality(L[m + 1]) => L[m] = L[m + 1]
          BY <3>1, <1>3, FS_Subset
        <4>2. QED
          BY <4>1, <3>1, <1>3
      <3>3. Big(m)
        BY <1>5, <2>2
      <3>4. Big(m + 1)
        BY <3>1, <3>2, <3>3, <1>3
      <3>5. QED
        BY <3>1, <3>4
    <2>3. QED
      BY <2>1, <2>2
  <1> HIDE DEF T
  <1>6. Nat \subseteq T
    BY <1>4, <1>5, NumbersByInduction
  <1>7. Still(N)
    <2>1. N \in T /\ ~Big(N)
      BY <1>1, <1>3, <1>6
    <2>2. QED
      BY <2>1 DEF T
  <1> DEFINE After1 == {m \in Nat : L[N + m] = L[N]}
  <1>8. 0 \in After1
    BY <1>1
  <1>9. ASSUME NEW m \in Nat, m \in After1 PROVE m + 1 \in After1
    <2>1. N + m \in Nat /\ N + (m + 1) = (N + m) + 1 /\ m + 1 \in Nat
      BY <1>1
    <2>2. L[N + m] = L[N] /\ L[N + 1] = L[N]
      BY <1>7, <1>9
    <2> DEFINE Onto(S) == S \cup {e[1] : e \in {f \in edges : Destination(f) \in S}}
    <2> HIDE DEF N
    <2>3. L[(N + m) + 1] = L[N + 1]
      <3>1. L[(N + m) + 1] = Onto(L[N + m]) /\ L[N + 1] = Onto(L[N])
        BY <1>1, <2>1 DEF Growing
      <3> HIDE DEF Onto
      <3>2. QED
        BY <2>2, <3>1
    <2>4. QED
      BY <2>1, <2>2, <2>3
  <1> HIDE DEF After1
  <1>10. Nat \subseteq After1
    BY <1>8, <1>9, NumbersByInduction
  <1>11. L[N + n] = L[N]
    BY <1>10 DEF After1
  <1>12. L[n] \subseteq L[N + n]
    BY <1>1, LayersWiden
  <1>13. QED
    BY <1>11, <1>12

(* A step changes the distance to a place by one. *)
LEMMA OneStepNearer ==
  ASSUME NEW e \in Edges, Destination(e) \in Positions, NEW q \in Positions
  PROVE  /\ Distance(e[1], q) \in Nat /\ Distance(Destination(e), q) \in Nat
         /\ Distance(e[1], q) <= Distance(Destination(e), q) + 1
  <1>1. PICK x \in 0..MaxX, y \in 0..MaxY, d \in Directions : e = <<<<x, y>>, d>>
    BY DEF Edges, Positions
  <1>2. PICK a \in 0..MaxX, b \in 0..MaxY : q = <<a, b>>
    BY DEF Positions
  <1>3. Destination(e) = <<x + Delta[d][1], y + Delta[d][2]>>
    BY <1>1, NowhereAssumption, ExtentAssumption DEF Destination, Positions
  <1>4. /\ Delta[d][1] \in Int /\ Delta[d][2] \in Int
        /\ \/ Delta[d][1] \in {1, -1} /\ Delta[d][2] = 0
           \/ Delta[d][1] = 0 /\ Delta[d][2] \in {1, -1}
    BY DEF Delta, Directions
  <1>5. x \in Int /\ y \in Int /\ a \in Int /\ b \in Int
    BY ExtentAssumption
  <1> DEFINE Off(v, w) == IF v < w THEN w - v ELSE v - w
  <1>6. \A v, w \in Int : /\ Off(v, w) \in Nat
                          /\ Off(v, w) <= Off(v + 1, w) + 1
                          /\ Off(v, w) <= Off(v + -1, w) + 1
                          /\ Off(v, w) = Off(v + 0, w)
    OBVIOUS
  <1>7. /\ Distance(e[1], q) = Off(x, a) + Off(y, b)
        /\ Distance(Destination(e), q) = Off(x + Delta[d][1], a) + Off(y + Delta[d][2], b)
    BY <1>1, <1>2, <1>3 DEF Distance
  <1> HIDE DEF Off, Distance
  <1>8. /\ x + Delta[d][1] \in Int /\ y + Delta[d][2] \in Int
    BY <1>4, <1>5
  <1>9. /\ Off(x, a) \in Nat /\ Off(y, b) \in Nat
        /\ Off(x + Delta[d][1], a) \in Nat /\ Off(y + Delta[d][2], b) \in Nat
    BY <1>5, <1>6, <1>8
  <1>10. \/ /\ Off(x, a) <= Off(x + Delta[d][1], a) + 1
            /\ Off(y, b) = Off(y + Delta[d][2], b)
         \/ /\ Off(x, a) = Off(x + Delta[d][1], a)
            /\ Off(y, b) <= Off(y + Delta[d][2], b) + 1
    BY <1>4, <1>5, <1>6
  <1>11. QED
    BY <1>7, <1>9, <1>10

(* The estimate of what is left is never more than what is left. *)
LEMMA LayersAreFar ==
  ASSUME NEW edges, edges \subseteq Edges, NEW g \in Positions,
         NEW L, Growing(edges, g, L), NEW n \in Nat, NEW p \in L[n]
  PROVE  Distance(p, g) \in Nat /\ Distance(p, g) <= n
  <1> DEFINE T == {m \in Nat : \A q \in L[m] : Distance(q, g) \in Nat /\ Distance(q, g) <= m}
  <1>1. 0 \in T
    <2>1. Distance(g, g) = 0
      BY ExtentAssumption DEF Distance, Positions
    <2>2. QED
      BY <2>1 DEF Growing
  <1>2. ASSUME NEW m \in Nat, m \in T PROVE m + 1 \in T
    <2> SUFFICES ASSUME NEW q \in L[m + 1] PROVE Distance(q, g) \in Nat /\ Distance(q, g) <= m + 1
      OBVIOUS
    <2>1. CASE q \in L[m]
      BY <2>1, <1>2
    <2>2. CASE q \notin L[m]
      <3>1. PICK e \in edges : q = e[1] /\ Destination(e) \in L[m]
        BY <2>2 DEF Growing
      <3>2. Destination(e) \in Positions /\ Distance(Destination(e), g) <= m
        BY <3>1, <1>2 DEF Growing
      <3>3. QED
        BY <3>1, <3>2, OneStepNearer
    <2>3. QED
      BY <2>1, <2>2
  <1> HIDE DEF T
  <1>3. Nat \subseteq T
    BY <1>1, <1>2, NumbersByInduction
  <1>4. QED
    BY <1>3 DEF T

(* The edges the search follows. *)
Ways == {e \in Edges : Enterable(scene, e)}

(* From what has been reached the heap always holds a candidate whose       *)
(* estimate is no more than the shortest way through there: it is pushed,   *)
(* or one step further on there is one.                                     *)
LEMMA ShortestIsOpen ==
  ASSUME IInv, phase = "search", goal.at \in Positions,
         NEW L, Growing(Ways, goal.at, L), NEW k \in Nat, NEW p \in L[k], Reached(p)
  PROVE  \E c \in open : Estimate(c) \in Nat /\ Estimate(c) <= best[p] + k
  <1> DEFINE T == {m \in Nat : \A q \in L[m] : Reached(q) =>
                     \E c \in open : Estimate(c) \in Nat /\ Estimate(c) <= best[q] + m}
  <1>1. \A q \in Positions : Reached(q) => best[q] \in Nat
    BY DEF IInv, TypeOK, Reached
  <1>2. Ways \subseteq Edges
    BY DEF Ways
  <1>3. ASSUME NEW m \in Nat, NEW q \in L[m], Reached(q), Candidate(q, best[q]) \in open
        PROVE  \E c \in open : Estimate(c) \in Nat /\ Estimate(c) <= best[q] + m
    <2>1. Distance(q, goal.at) \in Nat /\ Distance(q, goal.at) <= m /\ q \in Positions
      BY <1>2, <1>3, LayersAreFar DEF Growing
    <2>2. Estimate(Candidate(q, best[q])) = best[q] + Distance(q, goal.at)
      BY DEF Estimate, Candidate
    <2>3. QED
      BY <1>1, <1>3, <2>1, <2>2
  <1>4. 0 \in T
    <2> SUFFICES ASSUME NEW q \in L[0], Reached(q)
                 PROVE  \E c \in open : Estimate(c) \in Nat /\ Estimate(c) <= best[q] + 0
      OBVIOUS
    <2>1. q = goal.at
      BY DEF Growing
    <2>2. Candidate(q, best[q]) \in open
      BY <2>1 DEF IInv, FrontierInv
    <2>3. QED
      BY <2>2, <1>3
  <1>5. ASSUME NEW m \in Nat, m \in T PROVE m + 1 \in T
    <2> SUFFICES ASSUME NEW q \in L[m + 1], Reached(q)
                 PROVE  \E c \in open : Estimate(c) \in Nat /\ Estimate(c) <= best[q] + (m + 1)
      OBVIOUS
    <2>0. q \in Positions /\ best[q] \in Nat
      BY <1>1 DEF Growing
    <2>1. CASE Candidate(q, best[q]) \in open
      BY <2>1, <1>3
    <2>2. CASE q \in L[m]
      BY <2>0, <2>2, <1>5
    <2>3. CASE q \notin L[m] /\ Candidate(q, best[q]) \notin open
      <3>1. PICK e \in Ways : q = e[1] /\ Destination(e) \in L[m]
        BY <2>3 DEF Growing
      <3>2. e \in Edges /\ e = <<q, e[2]>> /\ e[2] \in Directions /\ Enterable(scene, e)
        BY <3>1 DEF Ways, Edges
      <3>3. Reached(Destination(e)) /\ best[Destination(e)] <= best[q] + 1
        BY <2>0, <2>3, <3>2 DEF IInv, FrontierInv
      <3>4. PICK c \in open : Estimate(c) \in Nat /\ Estimate(c) <= best[Destination(e)] + m
        BY <1>5, <3>1, <3>3
      <3>5. best[Destination(e)] \in Nat
        BY <1>1, <3>1, <3>3 DEF Growing
      <3>6. QED
        BY <2>0, <3>3, <3>4, <3>5
    <2>4. QED
      BY <2>1, <2>2, <2>3
  <1> HIDE DEF T
  <1>6. Nat \subseteq T
    BY <1>4, <1>5, NumbersByInduction
  <1>7. QED
    BY <1>6 DEF T

(* The candidate popped at the goal has taken no detour. *)
LEMMA ArriveIsShortest ==
  ASSUME IInv, NEW c \in open, Arrive(c)
  PROVE  NoShorterWay(best[goal.at])
  <1>1. /\ phase = "search" /\ c.position = goal.at /\ Pops(c)
    BY DEF Arrive
  <1>2. /\ c \in [position : Positions, cost : Nat] /\ goal.at \in Positions
        /\ best[goal.at] \in Nat /\ best[goal.at] <= c.cost
    BY <1>1 DEF IInv, TypeOK, OpenInv, Reached
  <1>3. Estimate(c) = c.cost
    <2>1. Distance(goal.at, goal.at) = 0
      BY <1>2, ExtentAssumption DEF Distance, Positions
    <2>2. QED
      BY <1>1, <1>2, <2>1 DEF Estimate
  <1>4. PICK L : /\ Growing(Ways, goal.at, L)
                 /\ Layers(Ways, goal.at)
                      = {[i \in 1..(Cardinality(Positions) + 1) |-> L[i - 1]]}
    <2>1. Ways \subseteq Edges
      BY DEF Ways
    <2>2. QED
      BY <2>1, LayersGrow
  <1> SUFFICES ASSUME NEW n \in 1..(Cardinality(Positions) + 1), scene.origin \in L[n - 1]
               PROVE  best[goal.at] < n
    BY <1>4, PositionsAreFinite DEF NoShorterWay, Ways
  <1>5. scene.origin \in Positions /\ best[scene.origin] = 0 /\ Reached(scene.origin)
    BY <1>1, NowhereAssumption DEF IInv, FrontierInv, Reached
  <1>6. n - 1 \in Nat
    BY PositionsAreFinite
  <1>7. PICK other \in open : Estimate(other) \in Nat /\ Estimate(other) <= 0 + (n - 1)
    BY <1>1, <1>2, <1>4, <1>5, <1>6, ShortestIsOpen
  <1>8. ~(Estimate(other) < Estimate(c))
    BY <1>1 DEF Pops, Before
  <1>9. QED
    BY <1>2, <1>3, <1>6, <1>7, <1>8

(* An edge that may be taken ends on a position. *)
LEMMA EnterableEndsSomewhere ==
  ASSUME NEW s, NEW e, Enterable(s, e)
  PROVE  Destination(e) \in Positions
  BY DEF Enterable, Destination

(* The answers given before the search are not those of the search. *)
LEMMA PreliminaryAnswers ==
  ASSUME NEW s
  PROVE  /\ Preliminary(s) \notin {"Route", "Frontier", "NoRoute", "none"}
         /\ Preliminary(s) = "search" => s.origin # Nowhere
  <1>1. CASE s.origin = Nowhere
    BY <1>1 DEF Preliminary
  <1>2. CASE s.origin # Nowhere /\ s.origin = s.target
    BY <1>2 DEF Preliminary
  <1>3. CASE s.origin \notin {Nowhere, s.target}
    BY <1>3 DEF Preliminary
  <1>4. QED
    BY <1>1, <1>2, <1>3

LEMMA InitIInv == Init => IInv
  <1> SUFFICES ASSUME Init PROVE IInv
    OBVIOUS
  <1> USE DEF Init
  <1>1. TypeOK
    BY DEF TypeOK
  <1>2. TreeInv /\ OpenInv /\ FrontierInv /\ ReconstructInv /\ AnswerInv
    BY DEF TreeInv, OpenInv, FrontierInv, ReconstructInv, AnswerInv, Reached
  <1>3. RouteIsWalkable /\ NoRouteMeansNone
    BY DEF RouteIsWalkable, NoRouteMeansNone
  <1>4. QED
    BY <1>1, <1>2, <1>3 DEF IInv

LEMMA AnswerStep == ASSUME IInv, AnswerAtOnce PROVE IInv'
  <1> USE DEF AnswerAtOnce, Return, IInv
  <1>1. TypeOK'
    BY DEF TypeOK
  <1>2. TreeInv' /\ OpenInv'
    BY DEF TreeInv, OpenInv, Reached
  <1>3. FrontierInv' /\ ReconstructInv' /\ AnswerInv'
    BY PreliminaryAnswers DEF FrontierInv, ReconstructInv, AnswerInv
  <1>4. RouteIsWalkable' /\ NoRouteMeansNone'
    BY PreliminaryAnswers DEF RouteIsWalkable, NoRouteMeansNone
  <1>5. QED
    BY <1>1, <1>2, <1>3, <1>4

(* Only the origin is reached, and it is open. *)
LEMMA StartStep == ASSUME IInv, StartSearch PROVE IInv'
  <1> USE DEF StartSearch, Candidate
  <1>1. scene.origin \in Positions
    BY PreliminaryAnswers, ScenesAssumption DEF IInv, TypeOK, Scene
  <1>2. best' = [p \in Positions |-> IF p = scene.origin THEN 0 ELSE Nowhere]
    BY <1>1 DEF IInv, TypeOK, AnswerInv, Reached
  <1>3. TypeOK'
    BY <1>1, <1>2 DEF IInv, TypeOK
  <1>4. TreeInv'
    BY <1>2 DEF TreeInv, Reached
  <1>5. OpenInv' /\ FrontierInv'
    BY <1>1, <1>2, NowhereAssumption DEF OpenInv, FrontierInv, Reached
  <1>6. ReconstructInv' /\ AnswerInv' /\ RouteIsWalkable' /\ NoRouteMeansNone'
    BY DEF IInv, ReconstructInv, AnswerInv, RouteIsWalkable, NoRouteMeansNone
  <1>7. QED
    BY <1>3, <1>4, <1>5, <1>6 DEF IInv

(* The candidate at the goal has been reached; no step is known yet. *)
LEMMA ArriveStep == ASSUME IInv, NEW c \in open, Arrive(c) PROVE IInv'
  <1> USE DEF Arrive, IInv
  <1>1. c.position \in Positions /\ Reached(c.position)
    BY DEF TypeOK, OpenInv
  <1>2. TypeOK'
    BY <1>1 DEF TypeOK
  <1>3. TreeInv' /\ OpenInv'
    BY DEF TreeInv, OpenInv, Reached
  <1>4. ReconstructInv'
    <2>1. NoShorterWay(best[goal.at]) /\ goal.at \in Positions /\ best[goal.at] \in Nat
      BY <1>1, ArriveIsShortest DEF TypeOK, Reached
    <2>2. Len(steps) = 0 /\ 0 + best[goal.at] = best[goal.at] /\ cursor' = goal.at
      BY <2>1 DEF AnswerInv
    <2>3. NoShorterWay(Len(steps) + best[cursor])'
      BY <2>1, <2>2 DEF NoShorterWay, goal
    <2>4. QED
      BY <1>1, <2>3 DEF ReconstructInv, LeadsToGoal, AnswerInv, Reached, goal
  <1>5. FrontierInv' /\ AnswerInv' /\ RouteIsWalkable' /\ NoRouteMeansNone'
    BY DEF FrontierInv, AnswerInv, RouteIsWalkable, NoRouteMeansNone
  <1>6. QED
    BY <1>2, <1>3, <1>4, <1>5

(* What an examined candidate changes: the positions it improves. *)
LEMMA ExamineStep == ASSUME IInv, NEW c \in open, Examine(c) PROVE IInv'
  <1> DEFINE edges == {<<c.position, d>> : d \in {d \in Directions :
                        c.cost <= best[c.position] /\ Improves(c, d)}}
             improved == {Destination(e) : e \in edges}
  <1>1. /\ c \in [position : Positions, cost : Nat]
        /\ Reached(c.position) /\ best[c.position] \in Nat
        /\ best[c.position] <= c.cost
    BY DEF IInv, TypeOK, OpenInv, Reached
  <1>2. \A e \in edges : /\ e \in Edges /\ e[1] = c.position
                         /\ Enterable(scene, e) /\ Destination(e) \in Positions
                         /\ ~Reached(Destination(e)) \/ c.cost + 1 < best[Destination(e)]
    <2> SUFFICES ASSUME NEW d \in Directions, Improves(c, d)
                 PROVE  LET e == <<c.position, d>>
                        IN /\ e \in Edges /\ e[1] = c.position
                           /\ Enterable(scene, e) /\ Destination(e) \in Positions
                           /\ \/ ~Reached(Destination(e))
                              \/ c.cost + 1 < best[Destination(e)]
      OBVIOUS
    <2>1. Destination(<<c.position, d>>) \in Positions
      BY EnterableEndsSomewhere DEF Improves
    <2>2. QED
      BY <1>1, <2>1 DEF Improves, Edges
  <1>3. improved \subseteq Positions
    BY <1>2
  <1>4. /\ open' = (open \ {c}) \cup {Candidate(p, c.cost + 1) : p \in improved}
        /\ best' = [p \in Positions |-> IF p \in improved THEN c.cost + 1 ELSE best[p]]
        /\ \A p \in improved : previous'[p] \in edges /\ Destination(previous'[p]) = p
        /\ \A p \in Positions \ improved : previous'[p] = previous[p]
        /\ previous' = [p \in Positions |-> previous'[p]]
        /\ UNCHANGED <<scene, phase, cursor, steps, result>>
        /\ phase = "search" /\ c.position # goal.at
    <2>1. \A p \in improved : \E e \in edges : Destination(e) = p
      OBVIOUS
    <2>2. QED
      BY <1>3, <2>1 DEF Examine
  <1> HIDE DEF edges, improved
  <1>5. TypeOK'
    BY <1>1, <1>2, <1>3, <1>4 DEF IInv, TypeOK, Candidate
  <1>6. \A p \in Positions : Reached(p)' <=> Reached(p) \/ p \in improved
    BY <1>1, <1>4, NowhereAssumption DEF Reached
  <1>12. /\ \A p \in improved : best'[p] = c.cost + 1
         /\ \A p \in Positions : Reached(p) => /\ best[p] \in Nat /\ best'[p] \in Nat
                                               /\ best'[p] <= best[p]
    <2>1. \A p \in improved : best'[p] = c.cost + 1
      BY <1>3, <1>4
    <2>2. ASSUME NEW p \in Positions, Reached(p), p \in improved
          PROVE  best[p] \in Nat /\ c.cost + 1 < best[p]
      <3>1. best[p] \in Nat
        BY <2>2 DEF IInv, TypeOK, Reached
      <3>2. PICK e \in edges : Destination(e) = p
        BY <2>2 DEF improved
      <3>3. QED
        BY <2>2, <3>1, <3>2, <1>2
    <2>3. ASSUME NEW p \in Positions, Reached(p), p \notin improved
          PROVE  best[p] \in Nat /\ best'[p] = best[p]
      BY <2>3, <1>4 DEF IInv, TypeOK, Reached
    <2>4. QED
      BY <1>1, <2>1, <2>2, <2>3
  <1>7. TreeInv'
    <2> SUFFICES ASSUME NEW p \in Positions, Reached(p)', p # scene.origin
                 PROVE  /\ previous'[p] \in Edges
                        /\ Enterable(scene, previous'[p])
                        /\ Destination(previous'[p]) = p
                        /\ best'[previous'[p][1]] # Nowhere
                        /\ best'[previous'[p][1]] < best'[p]
      BY <1>4 DEF TreeInv, Reached
    <2>1. CASE p \in improved
      <3>1. previous'[p] \in edges /\ Destination(previous'[p]) = p
        BY <2>1, <1>4
      <3>2. /\ previous'[p] \in Edges /\ previous'[p][1] = c.position
            /\ Enterable(scene, previous'[p])
        BY <3>1, <1>2
      <3>3. best'[c.position] <= c.cost /\ best'[c.position] \in Nat
        BY <1>1, <1>12
      <3>4. best'[p] = c.cost + 1
        BY <2>1, <1>12
      <3>5. QED
        BY <3>1, <3>2, <3>3, <3>4, <1>1, NowhereAssumption
    <2>2. CASE p \notin improved
      <3>1. /\ previous'[p] = previous[p] /\ previous[p] \in Edges
            /\ Enterable(scene, previous[p]) /\ Destination(previous[p]) = p
            /\ Reached(previous[p][1]) /\ Reached(p)
            /\ best[previous[p][1]] < best[p] /\ best'[p] = best[p]
        BY <2>2, <1>4, <1>6 DEF IInv, TreeInv
      <3>2. previous[p][1] \in Positions
        BY <3>1 DEF Edges
      <3>3. /\ best'[previous[p][1]] <= best[previous[p][1]] /\ best[p] \in Nat
            /\ best'[previous[p][1]] \in Nat /\ best[previous[p][1]] \in Nat
        BY <3>1, <3>2, <1>12
      <3>4. QED
        BY <3>1, <3>2, <3>3, <1>6 DEF Reached
    <2>3. QED
      BY <2>1, <2>2
  <1>8. OpenInv'
    <2> SUFFICES ASSUME NEW o \in open'
                 PROVE  Reached(o.position)' /\ best'[o.position] <= o.cost
      BY DEF OpenInv
    <2>1. o \in [position : Positions, cost : Nat]
      BY <1>5 DEF TypeOK
    <2>2. CASE \E p \in improved : o = Candidate(p, c.cost + 1)
      BY <2>2, <1>1, <1>3, <1>4, <1>6 DEF Candidate
    <2>3. CASE o \in open
      <3>1. Reached(o.position) /\ best[o.position] <= o.cost
        BY <2>3 DEF IInv, OpenInv
      <3>2. CASE o.position \in improved
        <4>1. PICK e \in edges : o.position = Destination(e)
          BY <3>2 DEF improved
        <4>2. c.cost + 1 < best[o.position] /\ best[o.position] \in Nat
          BY <4>1, <1>2, <3>1, <2>1 DEF IInv, TypeOK, Reached
        <4>3. QED
          BY <4>2, <3>1, <3>2, <2>1, <1>1, <1>4, <1>6
      <3>3. CASE o.position \notin improved
        BY <3>1, <3>3, <2>1, <1>4, <1>6
      <3>4. QED
        BY <3>2, <3>3
    <2>4. QED
      BY <2>2, <2>3, <1>4
  <1>9. FrontierInv'
    <2>1. scene'.origin \in Positions /\ best'[scene.origin] = 0
      <3>1. scene.origin \in Positions /\ best[scene.origin] = 0
        BY <1>4 DEF IInv, FrontierInv
      <3>2. scene.origin \notin improved
        <4>1. Reached(scene.origin)
          BY <3>1, NowhereAssumption DEF Reached
        <4>2. best'[scene.origin] <= 0
          BY <3>1, <4>1, <1>12
        <4>3. QED
          BY <4>2, <1>1, <1>12
      <3>3. QED
        BY <3>1, <3>2, <1>4
    <2> SUFFICES ASSUME NEW p \in Positions, Reached(p)'
                 PROVE  \/ Candidate(p, best'[p]) \in open'
                        \/ /\ p # goal.at
                           /\ \A d \in Directions : Enterable(scene, <<p, d>>) =>
                                /\ Reached(Destination(<<p, d>>))'
                                /\ best'[Destination(<<p, d>>)] <= best'[p] + 1
      BY <2>1, <1>4 DEF FrontierInv, goal, Candidate
    <2>2. CASE p \in improved
      BY <2>2, <1>4
    <2>3. CASE p \notin improved /\ Candidate(p, best[p]) \in open
                 /\ Candidate(p, best[p]) # c
      BY <2>3, <1>4
    <2>4. CASE p \notin improved /\ Candidate(p, best[p]) = c
      <3>1. p = c.position /\ best[p] = c.cost
        BY <2>4 DEF Candidate
      <3>2. ASSUME NEW d \in Directions, Enterable(scene, <<p, d>>)
            PROVE  /\ Reached(Destination(<<p, d>>))'
                   /\ best'[Destination(<<p, d>>)] <= best[p] + 1
        <4>1. Destination(<<p, d>>) \in Positions
          BY <3>2, EnterableEndsSomewhere
        <4>2. CASE Improves(c, d)
          BY <4>1, <4>2, <3>1, <1>1, <1>6, <1>12 DEF edges, improved
        <4>3. CASE ~Improves(c, d)
          <5>1. Reached(Destination(<<p, d>>)) /\ ~(c.cost + 1 < best[Destination(<<p, d>>)])
            BY <4>1, <4>3, <3>1, <3>2 DEF Improves
          <5>2. QED
            BY <4>1, <5>1, <3>1, <1>1, <1>6, <1>12
        <4>4. QED
          BY <4>2, <4>3
      <3>3. QED
        BY <3>1, <3>2, <1>4
    <2>5. CASE p \notin improved /\ Candidate(p, best[p]) \notin open
      <3>1. /\ p # goal.at
            /\ \A d \in Directions :
                 Enterable(scene, <<p, d>>) =>
                   /\ Reached(Destination(<<p, d>>))
                   /\ best[Destination(<<p, d>>)] <= best[p] + 1
            /\ Reached(p) /\ best'[p] = best[p]
        BY <2>5, <1>4, <1>6 DEF IInv, FrontierInv
      <3>2. ASSUME NEW d \in Directions, Enterable(scene, <<p, d>>)
            PROVE  /\ Reached(Destination(<<p, d>>))'
                   /\ best'[Destination(<<p, d>>)] <= best'[p] + 1
        <4>1. Destination(<<p, d>>) \in Positions /\ Reached(Destination(<<p, d>>))
          BY <3>1, <3>2, EnterableEndsSomewhere
        <4>2. QED
          BY <4>1, <3>1, <3>2, <1>6, <1>12
      <3>3. QED
        BY <3>1, <3>2
    <2>6. QED
      BY <2>2, <2>3, <2>4, <2>5
  <1>10. ReconstructInv' /\ AnswerInv' /\ RouteIsWalkable' /\ NoRouteMeansNone'
    BY <1>4 DEF IInv, ReconstructInv, AnswerInv, RouteIsWalkable, NoRouteMeansNone
  <1>11. QED
    BY <1>5, <1>7, <1>8, <1>9, <1>10 DEF IInv

(* With nothing open, what was reached is a set no edge leaves. *)
LEMMA ExhaustStep == ASSUME IInv, Exhaust PROVE IInv'
  <1> USE DEF Exhaust, Return, IInv
  <1>1. TypeOK'
    BY DEF TypeOK
  <1>2. TreeInv' /\ OpenInv'
    BY DEF TreeInv, OpenInv, Reached
  <1>3. FrontierInv' /\ ReconstructInv' /\ AnswerInv' /\ RouteIsWalkable'
    BY DEF FrontierInv, ReconstructInv, AnswerInv, RouteIsWalkable
  <1>4. NoRouteMeansNone'
    <2> DEFINE enclosed == {p \in Positions : Reached(p)}
    <2>1. /\ scene.origin \in enclosed
          /\ \A p \in enclosed : /\ p # goal.at
                                 /\ \A d \in Directions : Enterable(scene, <<p, d>>) =>
                                      Reached(Destination(<<p, d>>))
      BY NowhereAssumption DEF FrontierInv, Reached
    <2>2. \A p \in enclosed, d \in Directions :
            Enterable(scene, <<p, d>>) => Destination(<<p, d>>) \in enclosed
      BY <2>1, EnterableEndsSomewhere
    <2>3. enclosed \in SUBSET Positions /\ goal.at \notin enclosed
      BY <2>1
    <2> HIDE DEF enclosed
    <2>4. QED
      BY <2>1, <2>2, <2>3 DEF NoRouteMeansNone, goal
  <1>5. QED
    BY <1>1, <1>2, <1>3, <1>4

(* What no way is shorter than is no shorter than a way.                    *)
LEMMA ShorterYet ==
  ASSUME NEW l \in Nat, NEW m \in Nat, m <= l, NoShorterWay(l)
  PROVE  NoShorterWay(m)
  <1> SUFFICES ASSUME NEW layers \in Layers(Ways, goal.at), NEW n \in 1..Len(layers),
                      scene.origin \in layers[n]
               PROVE  m < n
    BY DEF NoShorterWay, Ways
  <1>1. l < n
    BY DEF NoShorterWay, Ways
  <1>2. CASE Len(layers) \in Int
    BY <1>1, <1>2
  <1>3. PICK L : Layers(Ways, goal.at)
                   = {[i \in 1..(Cardinality(Positions) + 1) |-> L[i - 1]]}
    <2>1. Ways \subseteq Edges
      BY DEF Ways
    <2>2. QED
      BY <2>1, LayersGrow
  <1>4. Len(layers) \in Int
    BY <1>3, PositionsAreFinite
  <1>5. QED
    BY <1>2, <1>4

(* The edge to the cursor is put in front of the steps that follow it. *)
LEMMA StepBackStep == ASSUME IInv, StepBack PROVE IInv'
  <1> USE DEF StepBack, IInv
  <1>1. /\ cursor \in Positions /\ LeadsToGoal(cursor)
        /\ previous[cursor] \in Edges /\ Enterable(scene, previous[cursor])
        /\ Destination(previous[cursor]) = cursor
        /\ Reached(previous[cursor][1])
        /\ best[previous[cursor][1]] < best[cursor]
        /\ NoShorterWay(Len(steps) + best[cursor])
    BY DEF ReconstructInv, TreeInv
  <1> DEFINE e == previous[cursor]
  <1>2. /\ steps' = <<e>> \o steps /\ cursor' = e[1]
        /\ UNCHANGED <<scene, phase, open, best, previous, result>>
    BY <1>1, NowhereAssumption
  <1>3. /\ e \in Edges /\ e[1] \in Positions /\ steps \in Seq(Edges)
    BY <1>1 DEF TypeOK, Edges
  <1> HIDE DEF e
  <1>4. /\ steps' \in Seq(Edges) /\ steps' # <<>>
        /\ Len(steps') = Len(steps) + 1 /\ Len(steps) \in Nat
        /\ steps'[1] = e
        /\ \A i \in 1..Len(steps) : steps'[i + 1] = steps[i]
    BY <1>2, <1>3
  <1>5. LeadsToGoal(cursor)'
    <2>1. \A i \in 1..Len(steps') : Enterable(scene, steps'[i])
      <3> SUFFICES ASSUME NEW i \in 1..Len(steps') PROVE Enterable(scene, steps'[i])
        OBVIOUS
      <3>1. CASE i = 1
        BY <3>1, <1>1, <1>4 DEF e
      <3>2. CASE i # 1
        BY <3>2, <1>1, <1>4 DEF LeadsToGoal
      <3>3. QED
        BY <3>1, <3>2
    <2>2. \A i \in 1..(Len(steps') - 1) : Destination(steps'[i]) = steps'[i + 1][1]
      <3> SUFFICES ASSUME NEW i \in 1..(Len(steps') - 1)
                   PROVE  Destination(steps'[i]) = steps'[i + 1][1]
        OBVIOUS
      <3>1. CASE i = 1
        BY <3>1, <1>1, <1>3, <1>4 DEF LeadsToGoal, e
      <3>2. CASE i # 1
        <4>1. i - 1 \in 1..(Len(steps) - 1) /\ i \in 1..Len(steps)
          BY <3>2, <1>4
        <4>2. steps'[i] = steps[i - 1] /\ steps'[i + 1] = steps[i]
          BY <4>1, <1>4
        <4>3. Destination(steps[i - 1]) = steps[i][1]
          BY <4>1, <1>1 DEF LeadsToGoal
        <4>4. QED
          BY <4>2, <4>3
      <3>3. QED
        BY <3>1, <3>2
    <2>3. Destination(steps'[Len(steps')]) = goal.at
      <3>1. CASE steps = <<>>
        BY <3>1, <1>1, <1>3, <1>4 DEF LeadsToGoal, e
      <3>2. CASE steps # <<>>
        BY <3>2, <1>1, <1>3, <1>4 DEF LeadsToGoal
      <3>3. QED
        BY <3>1, <3>2
    <2>4. QED
      BY <2>1, <2>2, <2>3, <1>2, <1>4 DEF LeadsToGoal, goal
  <1>6. TypeOK'
    BY <1>2, <1>3, <1>4 DEF TypeOK
  <1>7. ReconstructInv'
    <2>1. best[e[1]] \in Nat /\ best[cursor] \in Nat /\ best[e[1]] < best[cursor]
      BY <1>1, <1>3 DEF TypeOK, ReconstructInv, Reached, e
    <2>2. Len(steps') + best[e[1]] <= Len(steps) + best[cursor]
      BY <2>1, <1>4
    <2>3. NoShorterWay(Len(steps') + best[e[1]])
      BY <2>1, <2>2, <1>1, <1>4, ShorterYet
    <2>4. NoShorterWay(Len(steps) + best[cursor])'
      BY <2>3, <1>2 DEF NoShorterWay, goal
    <2>5. QED
      BY <1>1, <1>2, <1>3, <1>5, <2>4 DEF ReconstructInv, Reached, e
  <1>8. TreeInv' /\ OpenInv'
    BY <1>2 DEF TreeInv, OpenInv, Reached
  <1>9. FrontierInv' /\ AnswerInv' /\ RouteIsWalkable' /\ NoRouteMeansNone'
    BY <1>2 DEF FrontierInv, AnswerInv, RouteIsWalkable, NoRouteMeansNone
  <1>10. QED
    BY <1>5, <1>6, <1>7, <1>8, <1>9

(* The steps lead from the cursor, which is the origin. *)
LEMMA FinishStep == ASSUME IInv, Finish PROVE IInv'
  <1> USE DEF Finish, Return, IInv
  <1>1. TypeOK'
    BY DEF TypeOK
  <1>2. TreeInv' /\ OpenInv'
    BY DEF TreeInv, OpenInv, Reached
  <1>3. FrontierInv' /\ ReconstructInv'
    BY DEF FrontierInv, ReconstructInv
  <1>4. LeadsToGoal(scene.origin) /\ NoShorterWay(Len(steps))
    <2>1. cursor \in Positions /\ Reached(cursor) /\ NoShorterWay(Len(steps) + best[cursor])
      BY DEF ReconstructInv
    <2>2. Len(steps) \in Nat /\ best[cursor] \in Nat
      BY <2>1 DEF TypeOK, Reached
    <2>3. NoShorterWay(Len(steps))
      BY <2>1, <2>2, ShorterYet
    <2>4. QED
      BY <2>3 DEF ReconstructInv
  <1>5. RouteIsWalkable' /\ NoRouteMeansNone'
    <2>1. CASE steps = <<>>
      BY <2>1, <1>4 DEF RouteIsWalkable, NoRouteMeansNone, LeadsToGoal, goal
    <2>2. CASE steps # <<>>
      BY <2>2, <1>4 DEF RouteIsWalkable, NoRouteMeansNone, LeadsToGoal, goal
    <2>3. QED
      BY <2>1, <2>2
  <1>6. AnswerInv'
    <2>1. NoShorterWay(Len(steps))'
      BY <1>4 DEF NoShorterWay, goal
    <2>2. QED
      BY <2>1, PreliminaryAnswers DEF AnswerInv, goal
  <1>7. QED
    BY <1>1, <1>2, <1>3, <1>5, <1>6

(* The conjunction of what the search keeps is inductive. *)
THEOREM SearchInvariant == Spec => []IInv
  <1>1. Init => IInv
    BY InitIInv
  <1>2. IInv /\ [Next]_vars => IInv'
    <2> SUFFICES ASSUME IInv, [Next]_vars PROVE IInv'
      OBVIOUS
    <2>1. CASE AnswerAtOnce
      BY <2>1, AnswerStep
    <2>2. CASE StartSearch
      BY <2>2, StartStep
    <2>3. CASE \E c \in open : Arrive(c) \/ Examine(c)
      BY <2>3, ArriveStep, ExamineStep
    <2>4. CASE Exhaust
      BY <2>4, ExhaustStep
    <2>5. CASE StepBack
      BY <2>5, StepBackStep
    <2>6. CASE Finish
      BY <2>6, FinishStep
    <2>7. CASE UNCHANGED vars
      BY <2>7 DEF vars, IInv, TypeOK, TreeInv, OpenInv, FrontierInv, ReconstructInv,
         AnswerInv, RouteIsWalkable, NoRouteMeansNone, LeadsToGoal, NoShorterWay, Reached, goal
    <2>8. QED
      BY <2>1, <2>2, <2>3, <2>4, <2>5, <2>6, <2>7 DEF Next
  <1>3. QED
    BY <1>1, <1>2, PTL DEF Spec

(* A route that is returned can be walked, step by step, to the goal. *)
THEOREM RoutesAreWalkable == Spec => []RouteIsWalkable
  <1>1. IInv => RouteIsWalkable
    BY DEF IInv
  <1>2. QED
    BY <1>1, SearchInvariant, PTL

(* When no route is returned there is none. *)
THEOREM NoRouteIsMissed == Spec => []NoRouteMeansNone
  <1>1. IInv => NoRouteMeansNone
    BY DEF IInv
  <1>2. QED
    BY <1>1, SearchInvariant, PTL
(* The steps that remain are as many as the layer they begin in is far.     *)
LEMMA WalkIsLayered ==
  ASSUME steps \in Seq(Edges), steps # <<>>, NEW from, LeadsToGoal(from),
         NEW L, Growing(Ways, goal.at, L)
  PROVE  from \in L[Len(steps)] /\ Destination(steps[1]) \in L[Len(steps) - 1]
  <1> DEFINE N == Len(steps)
             T == {k \in Nat : k < N => /\ steps[N - k][1] \in L[k + 1]
                                       /\ Destination(steps[N - k]) \in L[k]}
  <1>1. N \in Nat /\ N # 0 /\ \A i \in 1..N : steps[i] \in Ways
    BY DEF LeadsToGoal, Ways
  <1>2. ASSUME NEW k \in Nat, k < N, Destination(steps[N - k]) \in L[k]
        PROVE  steps[N - k][1] \in L[k + 1]
    <2>1. N - k \in 1..N
      BY <1>1, <1>2
    <2>2. steps[N - k] \in Ways
      BY <1>1, <2>1
    <2>3. QED
      BY <1>2, <2>2 DEF Growing
  <1>3. 0 \in T
    <2>1. N - 0 = N
      BY <1>1
    <2>2. Destination(steps[N]) \in L[0]
      BY DEF LeadsToGoal, Growing
    <2>3. QED
      BY <1>1, <1>2, <2>1, <2>2
  <1>4. ASSUME NEW k \in Nat, k \in T PROVE k + 1 \in T
    <2> SUFFICES ASSUME k + 1 < N
                 PROVE  /\ steps[N - (k + 1)][1] \in L[(k + 1) + 1]
                        /\ Destination(steps[N - (k + 1)]) \in L[k + 1]
      OBVIOUS
    <2> HIDE DEF N
    <2>1. k < N /\ steps[N - k][1] \in L[k + 1]
      BY <1>1, <1>4
    <2>2. N - (k + 1) \in 1..(N - 1) /\ (N - (k + 1)) + 1 = N - k
      BY <1>1
    <2>3. Destination(steps[N - (k + 1)]) = steps[N - k][1]
      BY <2>2 DEF LeadsToGoal, N
    <2>4. QED
      BY <1>1, <1>2, <2>1, <2>3
  <1> HIDE DEF T
  <1>5. Nat \subseteq T
    BY <1>3, <1>4, NumbersByInduction
  <1>6. N - 1 \in T /\ N - 1 < N /\ N - (N - 1) = 1 /\ (N - 1) + 1 = N
    BY <1>1, <1>5
  <1>7. steps[1][1] \in L[N] /\ Destination(steps[1]) \in L[N - 1]
    <2> HIDE DEF N
    <2>1. QED
      BY <1>6 DEF T
  <1>8. QED
    BY <1>7 DEF LeadsToGoal

(* What is enclosed and does not hold the goal is in no layer. *)
LEMMA EnclosedIsNoLayer ==
  ASSUME NEW L, Growing(Ways, goal.at, L), NEW enclosed \in SUBSET Positions,
         goal.at \notin enclosed,
         \A p \in enclosed, d \in Directions :
           Enterable(scene, <<p, d>>) => Destination(<<p, d>>) \in enclosed,
         NEW n \in Nat
  PROVE  L[n] \cap enclosed = {}
  <1> DEFINE T == {m \in Nat : L[m] \cap enclosed = {}}
  <1>1. 0 \in T
    BY DEF Growing
  <1>2. ASSUME NEW m \in Nat, m \in T PROVE m + 1 \in T
    <2> SUFFICES ASSUME NEW p \in enclosed, p \in L[m + 1] PROVE FALSE
      OBVIOUS
    <2>1. p \notin L[m]
      BY <1>2
    <2>2. PICK e \in Ways : p = e[1] /\ Destination(e) \in L[m]
      BY <2>1 DEF Growing
    <2>3. e = <<p, e[2]>> /\ e[2] \in Directions /\ Enterable(scene, e)
      BY <2>2 DEF Ways, Edges
    <2>4. Destination(e) \in enclosed
      BY <2>3
    <2>5. QED
      BY <2>2, <2>4, <1>2
  <1> HIDE DEF T
  <1>3. Nat \subseteq T
    BY <1>1, <1>2, NumbersByInduction
  <1>4. QED
    BY <1>3 DEF T

(* The member of Layers, at index 1, 2, ... *)
LEMMA LayersShown ==
  ASSUME NEW layers \in Layers(Ways, goal.at)
  PROVE  /\ Cardinality(Positions) \in Nat
         /\ Len(layers) = Cardinality(Positions) + 1
         /\ \E L : /\ Growing(Ways, goal.at, L)
                   /\ \A n \in 1..(Cardinality(Positions) + 1) : layers[n] = L[n - 1]
  <1>1. Ways \subseteq Edges
    BY DEF Ways
  <1>2. PICK L : /\ Growing(Ways, goal.at, L)
                 /\ Layers(Ways, goal.at)
                      = {[i \in 1..(Cardinality(Positions) + 1) |-> L[i - 1]]}
    BY <1>1, LayersGrow
  <1>3. layers = [i \in 1..(Cardinality(Positions) + 1) |-> L[i - 1]]
    BY <1>2
  <1>4. QED
    BY <1>2, <1>3, PositionsAreFinite

(* A walk that no way is shorter than begins a shortest way. *)
LEMMA ShortestWalk ==
  ASSUME steps \in Seq(Edges), steps # <<>>, LeadsToGoal(scene.origin),
         NoShorterWay(Len(steps)), NEW kind,
         NEW layers \in Layers(Ways, goal.at)
  PROVE  [kind |-> kind, first |-> steps[1][2], length |-> Len(steps)]
           \in ShortestPlans(scene.origin, kind, Ways, layers)
  <1> DEFINE N == Len(steps)
             C == Cardinality(Positions)
             near == {n \in 1..Len(layers) : scene.origin \in layers[n]}
  <1>1. N \in Nat /\ N # 0 /\ \A i \in 1..N : steps[i] \in Ways
    BY DEF LeadsToGoal, Ways
  <1>2. C \in Nat /\ Len(layers) = C + 1
    BY LayersShown
  <1>3. PICK L : /\ Growing(Ways, goal.at, L)
                 /\ \A n \in 1..(C + 1) : layers[n] = L[n - 1]
    BY LayersShown
  <1>4. scene.origin \in L[N] /\ Destination(steps[1]) \in L[N - 1]
    BY <1>3, WalkIsLayered
  <1>5. goal.at \in Positions
    <2>1. steps[N] \in Ways /\ Destination(steps[N]) = goal.at
      BY <1>1 DEF LeadsToGoal
    <2>2. QED
      BY <2>1, EnterableEndsSomewhere DEF Ways
  <1>6. \A n \in near : N < n
    BY DEF NoShorterWay, Ways
  <1>7. near # {}
    <2>1. scene.origin \in L[C]
      BY <1>1, <1>2, <1>3, <1>4, <1>5, LayersSettle
    <2>2. C + 1 \in 1..(C + 1) /\ (C + 1) - 1 = C
      BY <1>2
    <2>3. QED
      BY <1>2, <1>3, <2>1, <2>2
  <1>8. N + 1 \in near
    <2>1. N <= C
      BY <1>1, <1>2, <1>6, <1>7
    <2>2. N + 1 \in 1..(C + 1) /\ (N + 1) - 1 = N
      BY <1>1, <1>2, <2>1
    <2>3. QED
      BY <1>2, <1>3, <1>4, <2>2
  <1>9. Min(near) = N + 1
    <2>1. \A n \in near : n \in Int /\ N + 1 <= n
      BY <1>1, <1>2, <1>6
    <2> HIDE DEF near, N
    <2>2. \A x \in near : (\A y \in near : x <= y) => x = N + 1
      BY <1>1, <1>8, <2>1
    <2>3. QED
      BY <1>8, <2>1, <2>2 DEF Min
  <1>10. scene.origin \notin layers[1]
    <2>1. 1 \in 1..Len(layers)
      BY <1>2
    <2>2. QED
      BY <1>1, <1>6, <2>1
  <1>11. /\ steps[1] \in Ways /\ steps[1][1] = scene.origin
         /\ Destination(steps[1]) \in layers[Min(near) - 1]
    <2>1. Min(near) - 1 = N /\ N \in 1..(C + 1)
      BY <1>1, <1>2, <1>8, <1>9
    <2>2. layers[N] = L[N - 1]
      BY <1>3, <2>1
    <2>3. QED
      BY <1>1, <1>4, <2>1, <2>2 DEF LeadsToGoal
  <1>12. Min(near) - 1 = N
    BY <1>1, <1>9
  <1> DEFINE firsts == {f \in Ways : /\ f[1] = scene.origin
                                     /\ Destination(f) \in layers[Min(near) - 1]}
  <1>13. ShortestPlans(scene.origin, kind, Ways, layers)
           = {[kind |-> kind, first |-> e[2], length |-> Min(near) - 1] : e \in firsts}
    BY <1>7, <1>10 DEF ShortestPlans
  <1>14. steps[1] \in firsts
    BY <1>11
  <1> HIDE DEF firsts, near, N
  <1>15. QED
    BY <1>12, <1>13, <1>14 DEF N

(* Where there is no way, or none to go, NoRoute is the plan. *)
LEMMA NoWay ==
  ASSUME NoRouteMeansNone, result = "NoRoute", NEW kind,
         NEW layers \in Layers(Ways, goal.at)
  PROVE  [kind |-> "NoRoute"] \in ShortestPlans(scene.origin, kind, Ways, layers)
  <1> DEFINE C == Cardinality(Positions)
             near == {n \in 1..Len(layers) : scene.origin \in layers[n]}
  <1>1. C \in Nat /\ Len(layers) = C + 1
    BY LayersShown
  <1>2. PICK L : /\ Growing(Ways, goal.at, L)
                 /\ \A n \in 1..(C + 1) : layers[n] = L[n - 1]
    BY LayersShown
  <1>3. CASE scene.origin = goal.at
    <2>1. layers[1] = L[0] /\ L[0] = {goal.at}
      BY <1>1, <1>2 DEF Growing
    <2>2. QED
      BY <2>1, <1>3 DEF ShortestPlans
  <1>4. CASE scene.origin # goal.at
    <2>1. PICK enclosed \in SUBSET Positions :
            /\ scene.origin \in enclosed
            /\ goal.at \notin enclosed
            /\ \A p \in enclosed, d \in Directions :
                 Enterable(scene, <<p, d>>) => Destination(<<p, d>>) \in enclosed
      BY <1>4 DEF NoRouteMeansNone
    <2>2. \A n \in 1..(C + 1) : scene.origin \notin layers[n]
      <3> SUFFICES ASSUME NEW n \in 1..(C + 1) PROVE scene.origin \notin layers[n]
        OBVIOUS
      <3>1. n - 1 \in Nat /\ layers[n] = L[n - 1]
        BY <1>1, <1>2
      <3>2. L[n - 1] \cap enclosed = {}
        BY <1>2, <2>1, <3>1, EnclosedIsNoLayer
      <3>3. QED
        BY <2>1, <3>1, <3>2
    <2>3. near = {}
      BY <1>1, <2>2
    <2>4. QED
      BY <2>3 DEF ShortestPlans
  <1>5. QED
    BY <1>3, <1>4

(* The plan returned is the one the scene calls for: no route is longer     *)
(* than it must be, whatever the heap does with equal candidates.           *)
THEOREM PlansAreRight == Spec => []PlanIsRight
  <1>1. ASSUME IInv, phase = "done"
        PROVE  (IF result \in {"Route", "Frontier"}
                  THEN [kind |-> result, first |-> steps[1][2], length |-> Len(steps)]
                  ELSE [kind |-> result]) \in PlansOf(scene)
    <2>1. CASE Preliminary(scene) # "search"
      <3>1. result = Preliminary(scene)
        BY <1>1, <2>1 DEF IInv, AnswerInv
      <3>2. PlansOf(scene) = {[kind |-> Preliminary(scene)]}
        BY <2>1 DEF PlansOf
      <3>3. QED
        BY <3>1, <3>2, PreliminaryAnswers
    <2>2. CASE Preliminary(scene) = "search"
      <3> DEFINE kind == IF goal.kind = "Target" THEN "Route" ELSE "Frontier"
                 plan == IF result \in {"Route", "Frontier"}
                           THEN [kind |-> result, first |-> steps[1][2], length |-> Len(steps)]
                           ELSE [kind |-> result]
      <3>1. PlansOf(scene) = UNION {ShortestPlans(scene.origin, kind, Ways, layers) :
                                      layers \in Layers(Ways, goal.at)}
        BY <2>2 DEF PlansOf, Ways, goal
      <3>2. result \in {"NoRoute", "Route", "Frontier"}
        BY <1>1, <2>2 DEF IInv, AnswerInv
      <3>3. \E layers : layers \in Layers(Ways, goal.at)
        <4>1. Ways \subseteq Edges
          BY DEF Ways
        <4>2. QED
          BY <4>1, LayersGrow
      <3>4. ASSUME NEW layers \in Layers(Ways, goal.at)
            PROVE  plan \in ShortestPlans(scene.origin, kind, Ways, layers)
        <4>1. CASE result = "NoRoute"
          BY <1>1, <4>1, NoWay DEF IInv
        <4>2. CASE result \in {"Route", "Frontier"}
          <5>1. /\ steps \in Seq(Edges) /\ steps # <<>> /\ LeadsToGoal(scene.origin)
                /\ NoShorterWay(Len(steps)) /\ result = kind
            BY <1>1, <4>2 DEF IInv, TypeOK, RouteIsWalkable, AnswerInv
          <5>2. QED
            BY <4>2, <5>1, ShortestWalk
        <4>3. QED
          BY <3>2, <4>1, <4>2
      <3> HIDE DEF plan, kind
      <3>5. plan \in PlansOf(scene)
        BY <3>1, <3>3, <3>4
      <3>6. QED
        BY <3>5 DEF plan
    <2>3. QED
      BY <2>1, <2>2
  <1>2. IInv => PlanIsRight
    BY <1>1 DEF PlanIsRight
  <1>3. QED
    BY <1>2, SearchInvariant, PTL
=============================================================================
