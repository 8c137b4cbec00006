---------------------------- MODULE Brain_proofs ----------------------------
(***************************************************************************)
(* Proofs about Brain, for every profile of intents, every response curve, *)
(* every value of the inputs and every decision interval.                  *)
(***************************************************************************)
EXTENDS Brain, SequenceTheorems, FiniteSetTheorems, WellFoundedInduction, TLAPS

----------------------------------------------------------------------------
(* Induction, and what it says of recursive functions.                     *)

\* A set that has 0 and, with a number, the next one, has all of them.
LEMMA SetInduction ==
  ASSUME NEW S, 0 \in S, \A n \in Nat : n \in S => n + 1 \in S
  PROVE  Nat \subseteq S
  <1> DEFINE R == {p \in Nat \X Nat : p[1] < p[2]}
             T == Nat \ S
  <1>1. SUFFICES ASSUME T # {} PROVE FALSE
    OBVIOUS
  <1>2. IsWellFoundedOn(R, Nat)
    BY NatLessThanWellFounded DEF OpToRel
  <1>3. PICK x \in T : \A y \in T : <<y, x>> \notin R
    <2> HIDE DEF R
    <2>1. T \subseteq Nat
      OBVIOUS
    <2> HIDE DEF T
    <2> QED BY <1>1, <1>2, <2>1, WFMin, Zenon
  <1>4. x - 1 \in T
    BY <1>3
  <1>5. <<x - 1, x>> \in R
    BY <1>4
  <1> HIDE DEF R, T
  <1> QED BY <1>3, <1>4, <1>5

\* The same up to a bound.
LEMMA BoundedInduction ==
  ASSUME NEW n \in Nat, NEW S, 0 \in S, \A k \in 0 .. n - 1 : k \in S => k + 1 \in S
  PROVE  0 .. n \subseteq S
  <1> DEFINE T == {k \in Nat : k <= n => k \in S}
  <1>1. 0 \in T
    OBVIOUS
  <1>2. \A k \in Nat : k \in T => k + 1 \in T
    OBVIOUS
  <1>3. Nat \subseteq T
    <2> HIDE DEF T
    <2> QED BY <1>1, <1>2, SetInduction
  <1> QED BY <1>3

\* g goes from x0 through the steps of a function.
IsWalk(g, n, x0, step) == g[0] = x0 /\ \A i \in 1 .. n : g[i] = step[<<g[i - 1], i>>]

\* A walk of n steps through a set exists from each of its elements.
LEMMA WalkExists ==
  ASSUME NEW n \in Nat, NEW X, NEW x0 \in X, NEW step \in [X \X (1 .. n) -> X]
  PROVE  \E g \in [0 .. n -> X] : IsWalk(g, n, x0, step)
  <1> DEFINE Good(k, g) == IsWalk(g, k, x0, step)
             S == {k \in Nat : k <= n => \E g \in [0 .. k -> X] : Good(k, g)}
  <1>1. 0 \in S
    <2>1. Good(0, [i \in 0 .. 0 |-> x0]) /\ [i \in 0 .. 0 |-> x0] \in [0 .. 0 -> X]
      BY DEF IsWalk
    <2> HIDE DEF Good
    <2> QED BY <2>1
  <1>2. ASSUME NEW k \in Nat, k \in S PROVE k + 1 \in S
    <2>1. SUFFICES ASSUME k + 1 <= n PROVE \E g \in [0 .. k + 1 -> X] : Good(k + 1, g)
      OBVIOUS
    <2>2. k <= n
      BY <2>1
    <2>3. PICK g \in [0 .. k -> X] : Good(k, g)
      <3> HIDE DEF Good
      <3> QED BY <1>2, <2>2
    <2> DEFINE h == [i \in 0 .. k + 1 |-> IF i <= k THEN g[i] ELSE step[<<g[k], k + 1>>]]
    <2>4. step[<<g[k], k + 1>>] \in X
      <3>1. g[k] \in X /\ k + 1 \in 1 .. n
        BY <2>1
      <3> QED BY <3>1
    <2>5. h \in [0 .. k + 1 -> X]
      BY <2>4
    <2>6. Good(k + 1, h)
      <3>1. h[0] = x0
        BY <2>3 DEF IsWalk
      <3>2. ASSUME NEW i \in 1 .. k + 1 PROVE h[i] = step[<<h[i - 1], i>>]
        <4>1. CASE i <= k
          BY <2>3, <4>1 DEF IsWalk
        <4>2. CASE i = k + 1
          <5>1. h[k + 1] = step[<<g[k], k + 1>>] /\ h[k] = g[k]
            OBVIOUS
          <5>2. i - 1 = k
            BY <4>2
          <5> HIDE DEF h
          <5> QED BY <4>2, <5>1, <5>2, Zenon
        <4> QED BY <4>1, <4>2
      <3> HIDE DEF h
      <3> QED BY <3>1, <3>2 DEF IsWalk
    <2> HIDE DEF Good, h
    <2> QED BY <2>5, <2>6
  <1>3. Nat \subseteq S
    <2> HIDE DEF S
    <2> QED BY <1>1, <1>2, SetInduction
  <1>4. n \in S
    BY <1>3
  <1> QED BY <1>4

\* A finite list of numbers has a largest one.
LEMMA LargestOfList ==
  ASSUME NEW n \in Nat \ {0}, NEW g \in [1 .. n -> Nat]
  PROVE  \E m \in 1 .. n : \A i \in 1 .. n : g[i] <= g[m]
  <1> DEFINE S == {k \in 0 .. n - 1 : \E m \in 1 .. k + 1 : \A i \in 1 .. k + 1 : g[i] <= g[m]}
  <1>1. 0 \in S
    OBVIOUS
  <1>2. ASSUME NEW k \in 0 .. (n - 1) - 1, k \in S PROVE k + 1 \in S
    <2>1. PICK m \in 1 .. k + 1 : \A i \in 1 .. k + 1 : g[i] <= g[m]
      BY <1>2
    <2>2. k + 2 \in 1 .. n /\ m \in 1 .. n /\ g[m] \in Nat /\ g[k + 2] \in Nat /\ k + 1 \in 0 .. n - 1
      OBVIOUS
    <2>3. \A i \in 1 .. k + 2 : i \in 1 .. k + 1 \/ i = k + 2
      OBVIOUS
    <2>4. \A i \in 1 .. k + 1 : i \in 1 .. n /\ g[i] \in Nat
      OBVIOUS
    <2>5. CASE g[k + 2] <= g[m]
      <3>1. \A i \in 1 .. k + 2 : g[i] <= g[m]
        BY <2>1, <2>3, <2>5
      <3>2. m \in 1 .. k + 2
        OBVIOUS
      <3>3. (k + 1) + 1 = k + 2
        OBVIOUS
      <3> QED BY <2>2, <3>1, <3>2, <3>3
    <2>6. CASE g[m] <= g[k + 2]
      <3>1. \A i \in 1 .. k + 2 : g[i] <= g[k + 2]
        BY <2>1, <2>2, <2>3, <2>4, <2>6
      <3>2. k + 2 \in 1 .. k + 2 /\ (k + 1) + 1 = k + 2
        OBVIOUS
      <3> QED BY <2>2, <3>1, <3>2
    <2> QED BY <2>2, <2>5, <2>6
  <1>3. 0 .. n - 1 \subseteq S
    <2>1. n - 1 \in Nat
      OBVIOUS
    <2> HIDE DEF S
    <2> QED BY <2>1, <1>1, <1>2, BoundedInduction
  <1>4. n - 1 \in S
    <2> HIDE DEF S
    <2> QED BY <1>3
  <1> QED BY <1>4

\* A set of numbers that is not empty has a least one, and Min names it.
LEMMA LeastOfNumbers ==
  ASSUME NEW T, T \subseteq Nat, T # {}
  PROVE  Min(T) \in T /\ \A y \in T : Min(T) <= y
  <1> DEFINE R == {p \in Nat \X Nat : p[1] < p[2]}
  <1>1. IsWellFoundedOn(R, Nat)
    BY NatLessThanWellFounded DEF OpToRel
  <1>2. PICK x \in T : \A y \in T : <<y, x>> \notin R
    <2> HIDE DEF R
    <2> QED BY <1>1, WFMin, Zenon
  <1>3. ASSUME NEW y \in T PROVE x <= y
    <2>1. x \in Nat /\ y \in Nat
      BY <1>2
    <2>2. y < x => <<y, x>> \in R
      BY <2>1
    <2>3. <<y, x>> \notin R
      <3> HIDE DEF R
      <3> QED BY <1>2
    <2> HIDE DEF R
    <2> QED BY <2>1, <2>2, <2>3
  <1>4. \E z \in T : \A y \in T : z <= y
    BY <1>3
  <1> QED BY <1>4, Zenon DEF Min

\* The largest number of a list is what Max says of its set.
LEMMA LargestOfSet ==
  ASSUME NEW n \in Nat \ {0}, NEW g \in [1 .. n -> Nat]
  PROVE  /\ Max({g[k] : k \in 1 .. n}) \in {g[k] : k \in 1 .. n}
         /\ \A k \in 1 .. n : g[k] <= Max({g[k2] : k2 \in 1 .. n})
  <1> DEFINE T == {g[k] : k \in 1 .. n}
  <1>1. PICK m \in 1 .. n : \A k \in 1 .. n : g[k] <= g[m]
    BY LargestOfList
  <1>2. \E z \in T : \A y \in T : z >= y
    <2>1. g[m] \in T /\ \A k \in 1 .. n : g[m] >= g[k]
      BY <1>1
    <2> QED BY <2>1
  <1>3. Max(T) \in T /\ \A y \in T : Max(T) >= y
    <2> HIDE DEF T
    <2> QED BY <1>2, Zenon DEF Max
  <1>4. \A k \in 1 .. n : g[k] \in T
    OBVIOUS
  <1>5. T \subseteq Nat
    OBVIOUS
  <1>6. \A k \in 1 .. n : g[k] <= Max(T)
    <2> HIDE DEF T
    <2> QED BY <1>3, <1>4, <1>5
  <1> QED BY <1>3, <1>6

----------------------------------------------------------------------------
(* Scoring.                                                                *)

Situation == [Input -> Sensed]

\* An axis contributes a factor between nothing and everything.
LEMMA FactorType ==
  ASSUME NEW axis \in Consideration, NEW x \in Int
  PROVE  Factor(axis, x) \in 0 .. Unit
  <1>1. /\ axis.low \in Int /\ axis.high \in Int
        /\ axis.curve \in [0 .. Unit -> Int] /\ Unit \in Nat \ {0}
    BY UnitAssumption DEF Consideration
  <1> DEFINE span == axis.high - axis.low
             ratio == IF span > 0 THEN ((x - axis.low) * Unit) \div span
                      ELSE ((axis.low - x) * Unit) \div (-span)
             at == IF span = 0 THEN 0 ELSE Between(0, ratio, Unit)
             y == IF axis.invert THEN Unit - axis.curve[at] ELSE axis.curve[at]
  <1>2. span \in Int /\ (x - axis.low) * Unit \in Int /\ (axis.low - x) * Unit \in Int
    BY <1>1
  <1>3. span # 0 => ratio \in Int
    <2> DEFINE a == (x - axis.low) * Unit
               b == (axis.low - x) * Unit
    <2>1. a \in Int /\ b \in Int
      BY <1>2
    <2> HIDE DEF span, a, b
    <2>2. span > 0 => a \div span \in Int
      BY <1>2, <2>1
    <2>3. span < 0 => b \div (-span) \in Int
      BY <1>2, <2>1
    <2> QED BY <1>2, <2>2, <2>3 DEF a, b
  <1> HIDE DEF ratio
  <1>4. at \in 0 .. Unit
    BY <1>1, <1>3 DEF Between
  <1>5. y \in Int
    <2> HIDE DEF at
    <2> QED BY <1>1, <1>4
  <1>6. Factor(axis, x) = Between(0, y, Unit)
    BY DEF Factor, ratio
  <1> HIDE DEF y
  <1> QED BY <1>1, <1>5, <1>6 DEF Between

\* The product of the axes of intent i, one after the other, as ScoreIntent forms it.
IsProduct(p, i, in) ==
  /\ p[0] = BaseWeight[i]
  /\ \A k \in 1 .. Len(Axes[i]) :
       p[k] = (p[k - 1] * Factor(Axes[i][k], in[Axes[i][k].input])) \div Unit
  /\ \A k \in 0 .. Len(Axes[i]) : p[k] \in Nat

\* What the axes of an intent are.
LEMMA AxesType ==
  ASSUME NEW i \in Intent, NEW in \in Situation
  PROVE  /\ Len(Axes[i]) \in Nat
         /\ DOMAIN Axes[i] = 1 .. Len(Axes[i])
         /\ Axes[i] # <<>> => Len(Axes[i]) > 0
         /\ \A k \in 1 .. Len(Axes[i]) :
              /\ Axes[i][k] \in Consideration
              /\ Factor(Axes[i][k], in[Axes[i][k].input]) \in 0 .. Unit
  <1>1. Axes[i] \in Seq(Consideration)
    BY AxesAssumption
  <1>2. Len(Axes[i]) \in Nat /\ DOMAIN Axes[i] = 1 .. Len(Axes[i])
        /\ (Axes[i] # <<>> => Len(Axes[i]) > 0)
    BY <1>1, EmptySeq, LenProperties
  <1>3. ASSUME NEW k \in 1 .. Len(Axes[i])
        PROVE  /\ Axes[i][k] \in Consideration
               /\ Factor(Axes[i][k], in[Axes[i][k].input]) \in 0 .. Unit
    <2>1. Axes[i][k] \in Consideration
      BY <1>1, <1>3, ElementOfSeq
    <2>2. Axes[i][k].input \in Input
      BY <2>1 DEF Consideration
    <2>3. in[Axes[i][k].input] \in Int
      <3>1. in[Axes[i][k].input] \in Sensed
        BY <2>2 DEF Situation
      <3>2. \A x \in Sensed : x \in Int
        BY UnitAssumption
      <3> QED BY <3>1, <3>2, Zenon
    <2> QED BY <2>1, <2>3, FactorType
  <1> QED BY <1>2, <1>3

\* The recursive function of ScoreIntent is that product.
LEMMA ScoreIsProduct ==
  ASSUME NEW i \in Intent, NEW in \in Situation
  PROVE  \E p : /\ IsProduct(p, i, in)
                /\ ScoreIntent[i][in] = IF Axes[i] = <<>> THEN BaseWeight[i]
                                        ELSE MadeUp(p[Len(Axes[i])], Len(Axes[i]))
  <1> DEFINE n == Len(Axes[i])
             factor(k) == Factor(Axes[i][k], in[Axes[i][k].input])
             Eq(f) == [k \in 0 .. Len(Axes[i]) |->
                         IF k = 0 THEN BaseWeight[i]
                         ELSE (f[k - 1] * Factor(Axes[i][k], in[Axes[i][k].input])) \div Unit]
             step == [q \in Nat \X (1 .. n) |-> (q[1] * factor(q[2])) \div Unit]
  <1>1. n \in Nat /\ BaseWeight[i] \in Nat /\ Unit \in Nat \ {0}
    BY AxesType, WeightAssumption, UnitAssumption
  <1>2. \A k \in 1 .. n : factor(k) \in 0 .. Unit
    BY AxesType
  <1>3. \A m \in Nat, k \in 1 .. n : (m * factor(k)) \div Unit \in Nat
    <2> SUFFICES ASSUME NEW m \in Nat, NEW k \in 1 .. n PROVE (m * factor(k)) \div Unit \in Nat
      OBVIOUS
    <2>1. factor(k) \in Nat
      BY <1>1, <1>2
    <2> HIDE DEF factor, n
    <2>2. m * factor(k) \in Nat
      BY <2>1
    <2> DEFINE a == m * factor(k)
    <2>3. a \in Nat
      BY <2>2
    <2> HIDE DEF a
    <2>4. a \div Unit \in Nat
      BY <1>1, <2>3
    <2> QED BY <2>4 DEF a
  <1>4. ASSUME NEW f
        PROVE  /\ Eq(f)[0] = BaseWeight[i]
               /\ \A k \in 1 .. n : Eq(f)[k] = (f[k - 1] * factor(k)) \div Unit
    <2>1. Eq(f)[0] = BaseWeight[i]
      BY <1>1
    <2>2. \A k \in 1 .. n : Eq(f)[k] = (f[k - 1] * factor(k)) \div Unit
      BY <1>1
    <2> HIDE DEF Eq, factor
    <2> QED BY <2>1, <2>2
  <1>5. \E f : f = Eq(f)
    <2>1. step \in [Nat \X (1 .. n) -> Nat]
      <3> HIDE DEF factor, n
      <3> QED BY <1>3
    <2>2. PICK g \in [0 .. n -> Nat] : IsWalk(g, n, BaseWeight[i], step)
      <3> HIDE DEF step, n
      <3> QED BY <1>1, <2>1, WalkExists
    <2>3. g[0] = BaseWeight[i] /\ \A k \in 1 .. n : g[k] = (g[k - 1] * factor(k)) \div Unit
      <3>1. \A k \in 1 .. n : g[k - 1] \in Nat
        BY <1>1
      <3>2. g[0] = BaseWeight[i] /\ \A k \in 1 .. n : g[k] = step[<<g[k - 1], k>>]
        <4> HIDE DEF step, n
        <4> QED BY <2>2 DEF IsWalk
      <3> HIDE DEF factor, n
      <3> QED BY <3>1, <3>2
    <2>4. \A k \in 0 .. n : g[k] = Eq(g)[k]
      <3> HIDE DEF Eq, factor, n
      <3>1. Eq(g)[0] = BaseWeight[i] /\ \A k \in 1 .. n : Eq(g)[k] = (g[k - 1] * factor(k)) \div Unit
        BY <1>4, Zenon
      <3> QED BY <1>1, <2>3, <3>1
    <2>5. g = Eq(g)
      BY <2>4
    <2> HIDE DEF Eq
    <2> QED BY <2>5
  <1> DEFINE p == CHOOSE f : f = Eq(f)
  <1>6. p = Eq(p)
    <2> HIDE DEF Eq
    <2> QED BY <1>5
  <1>7. ScoreIntent[i][in] = IF Axes[i] = <<>> THEN BaseWeight[i]
                             ELSE MadeUp(p[Len(Axes[i])], Len(Axes[i]))
    BY DEF ScoreIntent, Situation
  <1>8. p[0] = BaseWeight[i] /\ \A k \in 1 .. n : p[k] = (p[k - 1] * factor(k)) \div Unit
    <2> HIDE DEF Eq, p, factor, n
    <2> QED BY <1>4, <1>6
  <1>9. \A k \in 0 .. n : p[k] \in Nat
    <2> DEFINE S == {k \in 0 .. n : p[k] \in Nat}
    <2>1. 0 \in S
      <3> HIDE DEF p
      <3> QED BY <1>1, <1>8
    <2>2. ASSUME NEW k \in 0 .. n - 1, k \in S PROVE k + 1 \in S
      <3> HIDE DEF p, factor, n
      <3>1. k + 1 \in 1 .. n /\ (k + 1) - 1 = k /\ k + 1 \in 0 .. n
        BY <1>1
      <3>2. p[k + 1] = (p[k] * factor(k + 1)) \div Unit
        BY <1>8, <3>1
      <3> QED BY <1>3, <2>2, <3>1, <3>2
    <2>3. 0 .. n \subseteq S
      <3> HIDE DEF S, n
      <3> QED BY <1>1, <2>1, <2>2, BoundedInduction
    <2> HIDE DEF p, n
    <2> QED BY <2>3
  <1> HIDE DEF p
  <1> QED BY <1>7, <1>8, <1>9 DEF IsProduct

\* Scores are whole numbers.
LEMMA ScoreType ==
  ASSUME NEW i \in Intent, NEW in \in Situation
  PROVE  ScoreIntent[i][in] \in Int
  <1>1. PICK p : /\ IsProduct(p, i, in)
                 /\ ScoreIntent[i][in] = IF Axes[i] = <<>> THEN BaseWeight[i]
                                         ELSE MadeUp(p[Len(Axes[i])], Len(Axes[i]))
    BY ScoreIsProduct
  <1>2. CASE Axes[i] = <<>>
    BY <1>1, <1>2, WeightAssumption
  <1>3. CASE Axes[i] # <<>>
    <2> DEFINE n == Len(Axes[i])
               s == p[n]
               a == (Unit - s) * (n - 1) * s
               b == n * Unit
    <2>1. n \in Nat \ {0} /\ s \in Nat /\ Unit \in Nat \ {0}
      BY <1>1, <1>3, AxesType, UnitAssumption DEF IsProduct
    <2>2. a \in Int /\ b \in Nat \ {0}
      <3> HIDE DEF n, s
      <3> QED BY <2>1
    <2>3. ScoreIntent[i][in] = s + a \div b
      BY <1>1, <1>3 DEF MadeUp
    <2> HIDE DEF n, s, a, b
    <2>4. a \div b \in Int
      BY <2>2
    <2> QED BY <2>1, <2>3, <2>4
  <1> QED BY <1>2, <1>3

\* One axis at zero is a veto: whatever follows it in the product, and whatever the make-up
\* value adds, the score is zero.
LEMMA Veto ==
  ASSUME NEW i \in Intent, NEW in \in Situation,
         NEW v \in 1 .. Len(Axes[i]), Factor(Axes[i][v], in[Axes[i][v].input]) = 0
  PROVE  ScoreIntent[i][in] = 0
  <1> DEFINE n == Len(Axes[i])
             factor(k) == Factor(Axes[i][k], in[Axes[i][k].input])
  <1>1. PICK p : /\ IsProduct(p, i, in)
                 /\ ScoreIntent[i][in] = IF Axes[i] = <<>> THEN BaseWeight[i]
                                         ELSE MadeUp(p[n], n)
    BY ScoreIsProduct
  <1>2. n \in Nat \ {0} /\ v \in 1 .. n /\ Axes[i] # <<>> /\ Unit \in Nat \ {0} /\ n - v \in Nat
    BY AxesType, EmptySeq, UnitAssumption
  <1>3. \A k \in 1 .. n : /\ p[k] = (p[k - 1] * factor(k)) \div Unit
                          /\ p[k - 1] \in Nat /\ factor(k) \in 0 .. Unit
    BY <1>1, <1>2, AxesType DEF IsProduct
  <1>4. 0 \div Unit = 0
    BY <1>2
  <1> DEFINE S == {k \in 0 .. n - v : p[v + k] = 0}
  <1> HIDE DEF n
  <1>5. 0 \in S
    <2>1. p[v] = (p[v - 1] * 0) \div Unit
      BY <1>2, <1>3
    <2>2. p[v - 1] * 0 = 0
      BY <1>2, <1>3
    <2>3. v + 0 = v
      BY <1>2
    <2> QED BY <1>2, <1>4, <2>1, <2>2, <2>3
  <1>6. ASSUME NEW k \in 0 .. (n - v) - 1, k \in S PROVE k + 1 \in S
    <2>1. v + k + 1 \in 1 .. n /\ (v + k + 1) - 1 = v + k /\ v + (k + 1) = v + k + 1
          /\ k + 1 \in 0 .. n - v
      BY <1>2
    <2>2. p[v + k + 1] = (p[v + k] * factor(v + k + 1)) \div Unit
          /\ factor(v + k + 1) \in 0 .. Unit
      BY <1>3, <2>1
    <2> HIDE DEF factor
    <2>3. 0 * factor(v + k + 1) = 0
      BY <1>2, <2>2
    <2> QED BY <1>4, <1>6, <2>1, <2>2, <2>3
  <1>7. 0 .. n - v \subseteq S
    <2> HIDE DEF S
    <2> QED BY <1>2, <1>5, <1>6, BoundedInduction
  <1>8. p[n] = 0
    <2>1. n - v \in S /\ v + (n - v) = n
      BY <1>2, <1>7
    <2> QED BY <2>1
  <1>9. MadeUp(0, n) = 0
    <2>1. ((Unit - 0) * (n - 1) * 0) = 0 /\ n * Unit \in Nat \ {0}
      BY <1>2
    <2>2. 0 \div (n * Unit) = 0
      <3> DEFINE b == n * Unit
      <3>1. b \in Nat \ {0}
        BY <2>1
      <3> HIDE DEF b
      <3>2. 0 \div b = 0
        BY <3>1
      <3> QED BY <3>2 DEF b
    <2> QED BY <2>1, <2>2 DEF MadeUp
  <1> QED BY <1>1, <1>2, <1>8, <1>9

\* The list of the intents and their set.
LEMMA IntentList ==
  /\ Len(Intents) \in Nat \ {0}
  /\ DOMAIN Intents = 1 .. Len(Intents)
  /\ Intent = {Intents[k] : k \in 1 .. Len(Intents)}
  <1>1. Intents \in Seq(Intent) /\ Intent # {}
    BY IntentAssumption, IdleAssumption
  <1>2. Len(Intents) \in Nat /\ DOMAIN Intents = 1 .. Len(Intents)
    BY <1>1, LenProperties
  <1>3. Intent = {Intents[k] : k \in 1 .. Len(Intents)}
    BY <1>2 DEF Intent, ToSet
  <1> QED BY <1>1, <1>2, <1>3

\* Standings are whole numbers; the bonus of the incumbent does not lower its own, nor lift
\* a score of zero.
LEMMA StandingType ==
  ASSUME NEW i \in Intent, NEW in \in Situation
  PROVE  /\ Standing(i, in) \in Int
         /\ ScoreIntent[i][in] = 0 => Standing(i, in) = 0
         /\ ScoreIntent[i][in] > 0 => Standing(i, in) >= 100 * ScoreIntent[i][in]
  <1> DEFINE s == ScoreIntent[i][in]
  <1>1. s \in Int
    BY ScoreType
  <1>2. BonusPercent \in Nat
    BY IntentAssumption
  <1> HIDE DEF s
  <1>3. /\ s * (100 + BonusPercent) \in Int /\ s * 100 \in Int
        /\ s = 0 => s * (100 + BonusPercent) = 0 /\ s * 100 = 0
        /\ s > 0 => s * (100 + BonusPercent) >= 100 * s /\ s * 100 >= 100 * s
    <2>1. s * (100 + BonusPercent) = s * 100 + s * BonusPercent /\ s * BonusPercent \in Int
      BY <1>1, <1>2
    <2>2. s > 0 => s * BonusPercent >= 0
      BY <1>1, <1>2
    <2>3. s = 0 => s * BonusPercent = 0
      BY <1>1, <1>2
    <2> QED BY <1>1, <2>1, <2>2, <2>3
  <1>4. Standing(i, in) = s * (IF i = intent THEN 100 + BonusPercent ELSE 100)
    BY DEF Standing, s
  <1> QED BY <1>3, <1>4 DEF s

\* A winner is one of the contenders.
LEMMA WinnerContends ==
  ASSUME NEW in \in Situation, Contenders(in) # {}
  PROVE  Winner(in) \in Contenders(in)
  <1> DEFINE n == Len(Intents)
             C == Contenders(in)
             g == [k \in 1 .. n |-> IF Intents[k] \in C THEN Standing(Intents[k], in) ELSE 0]
             best == {i \in C : \A j \in C : Standing(j, in) <= Standing(i, in)}
             T == {k \in 1 .. Len(Intents) : Intents[k] \in best}
  <1>1. n \in Nat \ {0} /\ Intent = {Intents[k] : k \in 1 .. n}
    BY IntentList
  <1>2. \A i \in C : i \in Intent /\ Standing(i, in) \in Nat /\ Standing(i, in) > 0
    BY StandingType DEF Contenders
  <1> HIDE DEF C
  <1>3. g \in [1 .. n -> Nat]
    BY <1>2
  <1>4. PICK m \in 1 .. n : \A k \in 1 .. n : g[k] <= g[m]
    <2> HIDE DEF g, n
    <2> QED BY <1>1, <1>3, LargestOfList
  <1>5. PICK c \in C : TRUE
    BY DEF C
  <1>6. PICK k \in 1 .. n : Intents[k] = c
    BY <1>1, <1>2
  <1>7. g[k] > 0 /\ g[k] <= g[m] /\ g[k] \in Nat /\ g[m] \in Nat
    BY <1>2, <1>3, <1>4, <1>5, <1>6
  <1>8. Intents[m] \in C
    BY <1>7
  <1>9. ASSUME NEW j \in C PROVE Standing(j, in) <= Standing(Intents[m], in)
    <2>1. PICK l \in 1 .. n : Intents[l] = j
      BY <1>1, <1>2
    <2>2. g[l] = Standing(j, in) /\ g[m] = Standing(Intents[m], in) /\ g[l] <= g[m]
      BY <1>4, <1>8, <2>1
    <2> QED BY <2>2
  <1>10. m \in T
    BY <1>8, <1>9
  <1>11. T \subseteq Nat /\ T # {}
    BY <1>10
  <1>12. Min(T) \in T
    <2> HIDE DEF T
    <2> QED BY <1>11, LeastOfNumbers
  <1>13. Intents[Min(T)] \in best
    <2> HIDE DEF best
    <2> QED BY <1>12
  <1>14. Winner(in) = Intents[Min(T)]
    BY DEF Winner, C
  <1> QED BY <1>13, <1>14 DEF C

----------------------------------------------------------------------------
(* Time.                                                                   *)

\* The lesser of two numbers.
LEMMA LesserOfTwo ==
  ASSUME NEW a \in Nat, NEW b \in Nat
  PROVE  /\ Min({a, b}) \in Nat
         /\ Min({a, b}) <= a /\ Min({a, b}) <= b
         /\ Min({a, b}) = a \/ Min({a, b}) = b
  <1>1. Min({a, b}) \in {a, b} /\ \A y \in {a, b} : Min({a, b}) <= y
    BY LeastOfNumbers
  <1> QED BY <1>1

\* No intent has to run for longer than Longest.
LEMMA LongestBounds ==
  Longest \in Nat /\ \A i \in Intent : MinDuration[i] \in Nat /\ MinDuration[i] <= Longest
  <1> DEFINE n == Len(Intents)
             g == [k \in 1 .. n |-> MinDuration[Intents[k]]]
  <1>1. n \in Nat \ {0} /\ Intent = {Intents[k] : k \in 1 .. n}
    BY IntentList
  <1>2. g \in [1 .. n -> Nat]
    BY <1>1, IntentAssumption
  <1>3. {MinDuration[i] : i \in Intent} = {g[k] : k \in 1 .. n}
    BY <1>1
  <1>4. /\ Max({g[k] : k \in 1 .. n}) \in {g[k] : k \in 1 .. n}
        /\ \A k \in 1 .. n : g[k] <= Max({g[k2] : k2 \in 1 .. n})
    <2> HIDE DEF g, n
    <2> QED BY <1>1, <1>2, LargestOfSet
  <1>5. Longest = Max({g[k] : k \in 1 .. n})
    <2> HIDE DEF g, n
    <2> QED BY <1>3 DEF Longest
  <1>6. Longest \in Nat
    <2> HIDE DEF g, n
    <2> QED BY <1>2, <1>4, <1>5
  <1>7. ASSUME NEW i \in Intent PROVE MinDuration[i] \in Nat /\ MinDuration[i] <= Longest
    <2>1. PICK k \in 1 .. n : Intents[k] = i
      BY <1>1
    <2>2. g[k] = MinDuration[i]
      BY <2>1
    <2> HIDE DEF g, n
    <2> QED BY <1>2, <1>4, <1>5, <2>2
  <1> QED BY <1>6, <1>7

\* Decisions are at least one and at most Slowest frames apart.
LEMMA SlowestBounds ==
  Slowest \in Nat /\ \A k \in DOMAIN Interval :
                       Interval[k] \in Nat \ {0} /\ Interval[k] <= Slowest
  <1> DEFINE n == Len(Interval)
             g == [k \in 1 .. n |-> Interval[k]]
  <1>1. n \in Nat \ {0} /\ DOMAIN Interval = 1 .. n /\ \A k \in 1 .. n : Interval[k] \in Nat \ {0}
    <2>1. Interval \in Seq(Nat \ {0}) /\ Interval # <<>>
      BY IntervalAssumption
    <2> QED BY <2>1, LenProperties, EmptySeq, ElementOfSeq
  <1>2. g \in [1 .. n -> Nat]
    BY <1>1
  <1>3. ToSet(Interval) = {g[k] : k \in 1 .. n}
    BY <1>1 DEF ToSet
  <1>4. /\ Max({g[k] : k \in 1 .. n}) \in {g[k] : k \in 1 .. n}
        /\ \A k \in 1 .. n : g[k] <= Max({g[k2] : k2 \in 1 .. n})
    <2> HIDE DEF g, n
    <2> QED BY <1>1, <1>2, LargestOfSet
  <1>5. Slowest = Max({g[k] : k \in 1 .. n})
    <2> HIDE DEF g, n
    <2> QED BY <1>3 DEF Slowest
  <1>6. \A k \in 1 .. n : g[k] = Interval[k]
    OBVIOUS
  <1> HIDE DEF g, n
  <1> QED BY <1>1, <1>2, <1>4, <1>5, <1>6

----------------------------------------------------------------------------
(* A decision.                                                             *)

\* The idle intent is always ready: a soldier that is free to choose has something to do.
LEMMA SomebodyContends ==
  ASSUME NEW in \in Situation, ~Locked
  PROVE  Contenders(in) # {}
  <1>1. PICK i \in Intent : Axes[i] = <<>> /\ BaseWeight[i] > 0 /\ BaseWeight[i] >= MinViable[i]
    BY IdleAssumption
  <1>2. BaseWeight[i] \in Nat /\ MinViable[i] \in Nat
    BY WeightAssumption, IntentAssumption
  <1>3. ScoreIntent[i][in] = BaseWeight[i]
    BY <1>1, ScoreIsProduct
  <1>4. Standing(i, in) \in Int /\ Standing(i, in) >= 100 * BaseWeight[i]
    BY <1>1, <1>2, <1>3, StandingType
  <1>5. Standing(i, in) >= 100 * MinViable[i] /\ Standing(i, in) > 0
    BY <1>1, <1>2, <1>4
  <1>6. i \in Contenders(in)
    BY <1>5 DEF Contenders
  <1> QED BY <1>6

\* Without a target, an intent that deals with one is no contender.
LEMMA NoTargetNoContender ==
  ASSUME NEW i \in Intent, DealsWithTarget(i), Gathered \in Situation, primary = NoTarget
  PROVE  i \notin Contenders(Gathered)
  <1>1. PICK k \in DOMAIN Axes[i] :
          /\ Axes[i][k].input \in TargetInput
          /\ Factor(Axes[i][k], Absent[Axes[i][k].input]) = 0
    BY DEF DealsWithTarget
  <1>2. Gathered[Axes[i][k].input] = Absent[Axes[i][k].input]
    BY <1>1, InputAssumption DEF Gathered, Input
  <1>3. k \in 1 .. Len(Axes[i])
    BY AxesType
  <1>4. ScoreIntent[i][Gathered] = 0
    BY <1>1, <1>2, <1>3, Veto
  <1>5. Standing(i, Gathered) = 0
    BY <1>4, StandingType
  <1> QED BY <1>5 DEF Contenders

\* What GatherInputs leaves is a situation to be judged.
LEMMA GatheredType ==
  ASSUME sensed \in [TargetInput \cup BodyInput -> Sensed], inputs \in [Input -> Sensed]
  PROVE  Gathered \in Situation
  <1>1. ASSUME NEW x \in Input PROVE Gathered[x] \in Sensed
    <2>1. CASE x \in PushedInput
      BY <2>1 DEF Gathered
    <2>2. CASE x \notin PushedInput /\ x \in TargetInput /\ primary = NoTarget
      BY <2>2, AbsentAssumption DEF Gathered
    <2>3. CASE x \notin PushedInput /\ ~(x \in TargetInput /\ primary = NoTarget)
      <3>1. x \in TargetInput \cup BodyInput /\ Gathered[x] = sensed[x]
        BY <2>3 DEF Gathered, Input
      <3> QED BY <3>1
    <2> QED BY <2>1, <2>2, <2>3
  <1> QED BY <1>1 DEF Gathered, Situation

\* What a decision leaves of the intent.
LEMMA SelectEffect ==
  ASSUME TypeOK, Gathered \in Situation, Select(Gathered)
  PROVE  /\ intent' \in Intent \cup {NoIntent}
         /\ target' \in Target \cup {NoTarget}
         /\ runningFor' \in 0 .. Longest
         /\ primary = NoTarget /\ DealsWithTarget(intent') =>
              /\ intent' = intent /\ intent \in Intent
              /\ runningFor + 1 < MinDuration[intent]
              /\ runningFor' = runningFor + 1
  <1>1. runningFor \in Nat /\ runningFor <= Longest /\ Longest \in Nat
    BY LongestBounds DEF TypeOK
  <1>2. Min({runningFor + 1, Longest}) \in 0 .. Longest
    BY <1>1, LesserOfTwo
  <1>3. CASE Contenders(Gathered) = {}
    <2>1. runningFor' = Min({runningFor + 1, Longest}) /\ intent' = intent /\ target' = target
      BY <1>3 DEF Select
    <2>2. Locked
      BY <1>3, SomebodyContends
    <2>3. intent \in Intent /\ runningFor + 1 < MinDuration[intent]
      BY <2>2 DEF Locked, TypeOK
    <2>4. MinDuration[intent] \in Nat /\ MinDuration[intent] <= Longest
      BY <2>3, LongestBounds
    <2>5. runningFor' = runningFor + 1
      <3>1. \/ Min({runningFor + 1, Longest}) = runningFor + 1
            \/ Min({runningFor + 1, Longest}) = Longest /\ Longest <= runningFor + 1
        BY <1>1, LesserOfTwo
      <3> QED BY <1>1, <2>1, <2>3, <2>4, <3>1
    <2> QED BY <1>2, <2>1, <2>3, <2>5 DEF TypeOK
  <1>4. CASE Contenders(Gathered) # {}
    <2>1. /\ intent' = Winner(Gathered) /\ target' = primary
          /\ runningFor' = Min({runningFor + 1, Longest}) \/ runningFor' = 0
      BY <1>4 DEF Select, Clock
    <2>2. Winner(Gathered) \in Contenders(Gathered)
      BY <1>4, WinnerContends
    <2>3. intent' \in Intent
      BY <2>1, <2>2 DEF Contenders
    <2>4. runningFor' \in 0 .. Longest
      BY <1>1, <1>2, <2>1
    <2>5. ~(primary = NoTarget /\ DealsWithTarget(intent'))
      BY <2>1, <2>2, <2>3, NoTargetNoContender
    <2> QED BY <2>1, <2>3, <2>4, <2>5 DEF TypeOK
  <1> QED BY <1>3, <1>4

----------------------------------------------------------------------------
(* The invariant.                                                          *)

\* Either the intent has run for as long as it has been aimless, or its minimum duration is
\* over; and the next decision comes before the bound is reached.
Bounded ==
  aimless > 0 =>
    /\ intent \in Intent
    /\ untilNext >= 1
    /\ aimless + untilNext <= MinDuration[intent] + Slowest
    /\ aimless <= runningFor \/ runningFor >= MinDuration[intent]

IInv == TypeOK /\ Bounded

\* A frame keeps the types and the bound.
LEMMA TickStep ==
  ASSUME IInv, Tick
  PROVE  IInv'
  <1> USE DEF IInv
  <1>1. /\ runningFor \in Nat /\ runningFor <= Longest /\ Longest \in Nat
        /\ untilNext \in Nat /\ untilNext <= Slowest /\ Slowest \in Nat
        /\ aimless \in Nat /\ aimless <= Longest + Slowest + 1
    BY LongestBounds, SlowestBounds DEF TypeOK
  <1>2. /\ frame' = ~frame /\ UNCHANGED worldVars
        /\ aimless' = IF primary = NoTarget /\ DealsWithTarget(intent')
                      THEN Min({aimless + 1, Longest + Slowest + 1}) ELSE 0
    BY DEF Tick
  <1>3. aimless' \in Nat /\ aimless' <= Longest + Slowest + 1 /\ aimless' <= aimless + 1
    BY <1>1, <1>2, LesserOfTwo
  <1>4. aimless' > 0 => primary = NoTarget /\ DealsWithTarget(intent')
    BY <1>2
  <1>5. /\ primary' \in Target \cup {NoTarget}
        /\ sensed' \in [TargetInput \cup BodyInput -> Sensed]
        /\ tier' \in DOMAIN Interval /\ frame' \in BOOLEAN
    BY <1>2 DEF TypeOK, worldVars
  <1>6. CASE Wait
    <2>1. /\ untilNext - 1 > 0 /\ untilNext' = untilNext - 1
          /\ runningFor' = Min({runningFor + 1, Longest})
          /\ urgent' = urgent /\ inputs' = inputs /\ intent' = intent /\ target' = target
      BY <1>6 DEF Wait
    <2>2. /\ runningFor' \in 0 .. Longest
          /\ runningFor' = runningFor + 1 \/ runningFor' = Longest
      BY <1>1, <2>1, LesserOfTwo
    <2>3. TypeOK'
      <3>1. untilNext' \in 0 .. Slowest
        BY <1>1, <2>1
      <3>2. aimless' \in 0 .. Longest + Slowest + 1
        BY <1>1, <1>3
      <3> QED BY <1>5, <2>1, <2>2, <3>1, <3>2, Zenon DEF TypeOK
    <2>4. ASSUME aimless' > 0 PROVE Bounded'
      <3>1. intent \in Intent
        BY <1>4, <2>1, <2>4 DEF DealsWithTarget, TypeOK
      <3>2. MinDuration[intent] \in Nat /\ MinDuration[intent] <= Longest
        BY <3>1, LongestBounds
      <3>3. aimless > 0 => /\ aimless + untilNext <= MinDuration[intent] + Slowest
                           /\ aimless <= runningFor \/ runningFor >= MinDuration[intent]
        BY DEF Bounded
      <3> DEFINE d == MinDuration[intent]
      <3>4. d \in Nat /\ d <= Longest /\ MinDuration' = MinDuration /\ Slowest' = Slowest
        BY <3>2
      <3>5. aimless > 0 => aimless + untilNext <= d + Slowest /\ (aimless <= runningFor \/ runningFor >= d)
        BY <3>3
      <3> HIDE DEF d
      <3>6. aimless' + untilNext' <= d + Slowest
        <4>1. /\ aimless \in Nat /\ aimless' \in Nat /\ untilNext \in Nat /\ untilNext' = untilNext - 1
              /\ d \in Nat /\ Slowest \in Nat /\ aimless' <= aimless + 1 /\ untilNext <= Slowest
          BY <1>1, <1>3, <2>1, <3>4
        <4>2. aimless > 0 => aimless + untilNext <= d + Slowest
          BY <3>5
        <4>3. ASSUME NEW a \in Nat, NEW b \in Nat, NEW u \in Nat, NEW x \in Nat, NEW s \in Nat,
                     b <= a + 1, u <= s, a > 0 => a + u <= x + s
              PROVE  b + (u - 1) <= x + s
          BY <4>3
        <4> QED BY <4>1, <4>2, <4>3, Zenon
      <3>7. aimless' <= runningFor' \/ runningFor' >= d
        BY <1>1, <1>3, <2>2, <3>4, <3>5
      <3>8. untilNext' >= 1
        BY <1>1, <2>1
      <3> QED BY <2>1, <3>1, <3>6, <3>7, <3>8 DEF Bounded, d
    <2>5. Bounded'
      BY <2>4 DEF Bounded
    <2> QED BY <2>3, <2>5
  <1>7. CASE Decide
    <2>1. /\ urgent' = FALSE /\ untilNext' = Interval[tier]
          /\ inputs' = Gathered /\ Select(Gathered)
      BY <1>7 DEF Decide
    <2>2. Gathered \in Situation
      BY GatheredType DEF TypeOK
    <2>3. /\ intent' \in Intent \cup {NoIntent}
          /\ target' \in Target \cup {NoTarget}
          /\ runningFor' \in 0 .. Longest
          /\ primary = NoTarget /\ DealsWithTarget(intent') =>
               /\ intent' = intent /\ intent \in Intent
               /\ runningFor + 1 < MinDuration[intent]
               /\ runningFor' = runningFor + 1
      BY <2>1, <2>2, SelectEffect
    <2>4. untilNext' \in Nat /\ untilNext' >= 1 /\ untilNext' <= Slowest
      BY <2>1, SlowestBounds DEF TypeOK
    <2>5. TypeOK'
      <3>1. untilNext' \in 0 .. Slowest
        BY <1>1, <2>4
      <3>2. aimless' \in 0 .. Longest + Slowest + 1
        BY <1>1, <1>3
      <3>3. inputs' \in [Input -> Sensed] /\ urgent' \in BOOLEAN
        BY <2>1, <2>2 DEF Situation
      <3> QED BY <1>5, <2>3, <3>1, <3>2, <3>3, Zenon DEF TypeOK
    <2>6. ASSUME aimless' > 0 PROVE Bounded'
      <3> DEFINE d == MinDuration[intent]
      <3>1. /\ intent' = intent /\ intent \in Intent
            /\ runningFor + 1 < d /\ runningFor' = runningFor + 1
        BY <1>4, <2>3, <2>6
      <3>2. d \in Nat
        BY <3>1, LongestBounds
      <3>3. aimless > 0 => aimless <= runningFor \/ runningFor >= d
        BY DEF Bounded
      <3> HIDE DEF d
      <3>4. aimless' <= runningFor'
        BY <1>1, <1>3, <3>1, <3>2, <3>3
      <3>5. aimless' + untilNext' <= d + Slowest
        <4>1. aimless' <= d
          BY <1>1, <1>3, <3>1, <3>2, <3>4
        <4>2. aimless' \in Int /\ untilNext' \in Int /\ d \in Int /\ Slowest \in Int
          BY <1>1, <1>3, <2>4, <3>2
        <4>3. \A a, b, x, y \in Int : a <= x /\ b <= y => a + b <= x + y
          OBVIOUS
        <4> QED BY <2>4, <4>1, <4>2, <4>3, Zenon
      <3> QED BY <2>4, <3>1, <3>4, <3>5 DEF Bounded, d
    <2>7. Bounded'
      BY <2>6 DEF Bounded
    <2> QED BY <2>5, <2>7
  <1> QED BY <1>6, <1>7 DEF Tick

\* The bound holds at first and in every step: between frames nothing that it speaks of changes.
THEOREM Invariant == Spec => []IInv
  <1>1. Init => IInv
    <2> SUFFICES ASSUME Init PROVE IInv
      OBVIOUS
    <2>1. 1 \in DOMAIN Interval
      <3>1. Interval \in Seq(Nat \ {0}) /\ Interval # <<>>
        BY IntervalAssumption
      <3> QED BY <3>1, LenProperties, EmptySeq
    <2>2. untilNext \in 0 .. Slowest
      BY <2>1, SlowestBounds DEF Init
    <2>3. Longest \in Nat /\ Slowest \in Nat
      BY LongestBounds, SlowestBounds
    <2>4. sensed \in [TargetInput \cup BodyInput -> Sensed] /\ inputs \in [Input -> Sensed]
      BY UnitAssumption DEF Init
    <2>5. TypeOK
      <3>1. runningFor \in 0 .. Longest /\ aimless \in 0 .. Longest + Slowest + 1
        BY <2>3 DEF Init
      <3>2. urgent \in BOOLEAN /\ frame \in BOOLEAN /\ tier \in DOMAIN Interval
        BY <2>1 DEF Init
      <3>3. intent \in Intent \cup {NoIntent} /\ primary \in Target \cup {NoTarget}
            /\ target \in Target \cup {NoTarget}
        BY DEF Init
      <3> QED BY <2>2, <2>4, <3>1, <3>2, <3>3, Zenon DEF TypeOK
    <2>6. Bounded
      BY DEF Init, Bounded
    <2> QED BY <2>5, <2>6 DEF IInv
  <1>2. IInv /\ [Next]_vars => IInv'
    <2> SUFFICES ASSUME IInv, [Next]_vars PROVE IInv'
      OBVIOUS
    <2> USE DEF IInv
    <2>1. CASE Tick
      BY <2>1, TickStep
    <2>2. ASSUME NEW t \in Target \cup {NoTarget}, NEW in \in [TargetInput \cup BodyInput -> Sensed],
                 Perceive(t, in)
          PROVE  IInv'
      BY <2>2 DEF Perceive, TypeOK, Bounded, intentVars
    <2>3. ASSUME NEW x \in PushedInput, NEW value \in Sensed, SetScoringInput(x, value)
          PROVE  IInv'
      BY <2>3 DEF SetScoringInput, TypeOK, Bounded, intentVars, worldVars
    <2>4. CASE RequestImmediateReevaluation
      BY <2>4 DEF RequestImmediateReevaluation, TypeOK, Bounded, intentVars, worldVars
    <2>5. ASSUME NEW n \in DOMAIN Interval, SetLODTier(n)
          PROVE  IInv'
      BY <2>5 DEF SetLODTier, TypeOK, Bounded, intentVars
    <2>6. CASE UNCHANGED vars
      BY <2>6 DEF vars, TypeOK, Bounded, intentVars, worldVars
    <2> QED BY <2>1, <2>2, <2>3, <2>4, <2>5, <2>6 DEF Next
  <1> QED BY <1>1, <1>2, PTL DEF Spec

\* Every variable keeps its type; the countdown never passes the slowest interval, and the
\* clock of the intent never passes the longest minimum duration.
THEOREM TypeCorrect == Spec => []TypeOK
  <1>1. IInv => TypeOK
    BY DEF IInv
  <1> QED BY <1>1, Invariant, PTL

\* A soldier whose target is gone is done with it after the minimum duration and one
\* decision interval: what GatherInputs writes without a target vetoes every intent that
\* needs one, and the idle intent is there to take over.
THEOREM AimlessnessEnds == Spec => []AimlessEnds
  <1>1. IInv => AimlessEnds
    <2> SUFFICES ASSUME IInv, aimless > 0 PROVE aimless < MinDuration[intent] + Slowest
      BY DEF AimlessEnds
    <2>1. /\ untilNext >= 1 /\ aimless + untilNext <= MinDuration[intent] + Slowest
          /\ intent \in Intent
      BY DEF IInv, Bounded
    <2>2. MinDuration[intent] \in Nat /\ Slowest \in Nat
      BY <2>1, LongestBounds, SlowestBounds
    <2>3. aimless \in Int /\ untilNext \in Int
      BY <2>2, LongestBounds, SlowestBounds DEF IInv, TypeOK
    <2> QED BY <2>1, <2>2, <2>3
  <1> QED BY <1>1, Invariant, PTL

=============================================================================
