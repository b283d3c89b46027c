----------------------------- MODULE AmortProofs -----------------------------
(***************************************************************************)
(* Theorems about the operators of module Amort, for every principal,      *)
(* rate, term and scale.                                                   *)
(*                                                                         *)
(* The provers cannot use the library's induction theorems, whose          *)
(* parameter is an operator.  NatSetInduction states induction for a set   *)
(* instead, FoldRule derives from it what a loop (Fold) computes, and the  *)
(* rest of the module applies FoldRule to the loops of the code.           *)
(***************************************************************************)
EXTENDS Amort, WellFoundedInduction, TLAPS

(***************************************************************************)
(* Induction and loops                                                     *)
(***************************************************************************)

\* Induction on the natural numbers for a set of them.
THEOREM NatSetInduction ==
  ASSUME NEW S, 0 \in S, \A n \in Nat : n \in S => n + 1 \in S
  PROVE  Nat \subseteq S
<1> DEFINE T == Nat \ S
<1>1. SUFFICES ASSUME T # {} PROVE FALSE
  OBVIOUS
<1> DEFINE R == OpToRel(<, Nat)
<1>2. \E x \in T : \A y \in T : ~(<<y, x>> \in R)
  <2>1. IsWellFoundedOn(R, Nat)
    BY NatLessThanWellFounded
  <2>2. T \subseteq Nat
    OBVIOUS
  <2> HIDE DEF R, T
  <2> QED
    BY <1>1, <2>1, <2>2, WFMin
<1>3. PICK x \in T : \A y \in T : ~(<<y, x>> \in R)
  BY <1>2
<1>4. \A y \in T : ~(y < x)
  BY <1>3 DEF OpToRel
<1>5. x # 0
  OBVIOUS
<1>6. x - 1 \in Nat /\ x - 1 < x
  BY <1>5
<1>7. x - 1 \in S
  BY <1>4, <1>6
<1> QED
  BY <1>6, <1>7

\* The bodies of a loop of n steps over integers.
Steps(n) == [1 .. n -> [Int -> Int]]

\* The recursive function inside Fold.
IsFold(f, first, step, n) ==
  f = [i \in 0 .. n |-> IF i = 0 THEN first ELSE step[i][f[i - 1]]]

LEMMA FoldIsItsLast ==
  ASSUME NEW first, NEW step, NEW n \in Nat
  PROVE  Fold(first, step, n) = (CHOOSE f : IsFold(f, first, step, n))[n]
BY DEF Fold, IsFold

LEMMA FoldExists ==
  ASSUME NEW first \in Int, NEW N \in Nat, NEW step \in Steps(N), NEW n \in 0 .. N
  PROVE  \E f \in [0 .. n -> Int] : IsFold(f, first, step, n)
<1> DEFINE S == {k \in Nat : k <= N => \E f \in [0 .. k -> Int] : IsFold(f, first, step, k)}
<1>1. 0 \in S
  <2> DEFINE f == [i \in 0 .. 0 |-> first]
  <2>1. f \in [0 .. 0 -> Int] /\ IsFold(f, first, step, 0)
    BY DEF IsFold
  <2> QED
    BY <2>1
<1>2. ASSUME NEW k \in Nat, k \in S, k + 1 <= N
      PROVE  \E f \in [0 .. k + 1 -> Int] : IsFold(f, first, step, k + 1)
  <2>1. PICK g \in [0 .. k -> Int] : IsFold(g, first, step, k)
    BY <1>2
  <2> DEFINE f == [i \in 0 .. k + 1 |-> IF i = k + 1 THEN step[k + 1][g[k]] ELSE g[i]]
  <2>2. step[k + 1][g[k]] \in Int
    BY <1>2 DEF Steps
  <2>3. f \in [0 .. k + 1 -> Int]
    BY <2>2
  <2>4. \A i \in 0 .. k + 1 : f[i] = IF i = 0 THEN first ELSE step[i][f[i - 1]]
    <3>1. \A i \in 0 .. k : g[i] = IF i = 0 THEN first ELSE step[i][g[i - 1]]
      BY <2>1 DEF IsFold
    <3>2. \A i \in 0 .. k : f[i] = g[i]
      OBVIOUS
    <3>3. f[k + 1] = step[k + 1][f[k]]
      BY <3>2
    <3> HIDE DEF f
    <3>4. ASSUME NEW i \in 1 .. k PROVE f[i] = step[i][f[i - 1]]
      <4>1. i \in 0 .. k /\ i - 1 \in 0 .. k /\ i # 0
        OBVIOUS
      <4> QED
        BY <3>1, <3>2, <4>1
    <3>5. f[0] = first
      BY <3>1, <3>2
    <3>6. \A i \in 0 .. k + 1 : i = 0 \/ i \in 1 .. k \/ i = k + 1
      OBVIOUS
    <3> QED
      BY <3>3, <3>4, <3>5, <3>6
  <2>5. IsFold(f, first, step, k + 1)
    BY <2>3, <2>4 DEF IsFold
  <2> QED
    BY <2>3, <2>5
<1>3. \A k \in Nat : k \in S => k + 1 \in S
  BY <1>2
<1>4. Nat \subseteq S
  <2> HIDE DEF S
  <2> QED
    BY <1>1, <1>3, NatSetInduction
<1> QED
  BY <1>4

\* A longer fold begins with the shorter one.
LEMMA FoldsAgree ==
  ASSUME NEW first, NEW step, NEW n1 \in Nat, NEW n2 \in Nat, NEW m \in Nat,
         m <= n1, m <= n2,
         NEW f1, IsFold(f1, first, step, n1),
         NEW f2, IsFold(f2, first, step, n2)
  PROVE  f1[m] = f2[m]
<1> DEFINE S == {k \in Nat : k <= m => f1[k] = f2[k]}
<1>1. /\ \A i \in 0 .. n1 : f1[i] = IF i = 0 THEN first ELSE step[i][f1[i - 1]]
      /\ \A i \in 0 .. n2 : f2[i] = IF i = 0 THEN first ELSE step[i][f2[i - 1]]
  BY DEF IsFold
<1>2. 0 \in S
  BY <1>1
<1>3. ASSUME NEW k \in Nat, k \in S PROVE k + 1 \in S
  <2>1. SUFFICES ASSUME k + 1 <= m PROVE f1[k + 1] = f2[k + 1]
    OBVIOUS
  <2>2. f1[k + 1] = step[k + 1][f1[k]] /\ f2[k + 1] = step[k + 1][f2[k]]
    BY <1>1, <2>1
  <2>3. f1[k] = f2[k]
    BY <1>3, <2>1
  <2> QED
    BY <2>2, <2>3
<1>4. Nat \subseteq S
  <2> HIDE DEF S
  <2> QED
    BY <1>2, <1>3, NatSetInduction
<1> QED
  BY <1>4

\* What a proof needs to know of a loop: where it starts, that its
\* accumulator stays an integer, and what one more step does to it.
LEMMA FoldRule ==
  ASSUME NEW first \in Int, NEW N \in Nat, NEW step \in Steps(N)
  PROVE  /\ Fold(first, step, 0) = first
         /\ \A n \in 0 .. N : Fold(first, step, n) \in Int
         /\ \A n \in 1 .. N : Fold(first, step, n) = step[n][Fold(first, step, n - 1)]
<1> DEFINE F(n) == CHOOSE f : IsFold(f, first, step, n)
<1>1. ASSUME NEW n \in 0 .. N
      PROVE  /\ IsFold(F(n), first, step, n)
             /\ F(n) \in [0 .. n -> Int]
  <2>1. PICK f \in [0 .. n -> Int] : IsFold(f, first, step, n)
    BY FoldExists
  <2>2. IsFold(F(n), first, step, n)
    BY <2>1
  <2>3. \A i \in 0 .. n : f[i] = F(n)[i]
    <3> HIDE DEF F
    <3>1. ASSUME NEW i \in 0 .. n PROVE f[i] = F(n)[i]
      <4>1. i \in Nat /\ n \in Nat /\ i <= n
        OBVIOUS
      <4> QED
        BY <2>1, <2>2, <4>1, FoldsAgree
    <3> QED
      BY <3>1
  <2>4. F(n) = f
    <3> HIDE DEF F
    <3>1. /\ F(n) = [i \in 0 .. n |-> F(n)[i]]
      BY <2>2 DEF IsFold
    <3> QED
      BY <2>3, <3>1
  <2> QED
    BY <2>1, <2>4
<1>2. \A n \in 0 .. N : Fold(first, step, n) = F(n)[n]
  BY FoldIsItsLast
<1> HIDE DEF F
<1>3. Fold(first, step, 0) = first
  BY <1>1, <1>2 DEF IsFold
<1>4. \A n \in 0 .. N : Fold(first, step, n) \in Int
  BY <1>1, <1>2
<1>5. ASSUME NEW n \in 1 .. N
      PROVE  Fold(first, step, n) = step[n][Fold(first, step, n - 1)]
  <2>1. F(n)[n] = step[n][F(n)[n - 1]]
    BY <1>1 DEF IsFold
  <2>2. F(n)[n - 1] = F(n - 1)[n - 1]
    <3>1. n \in Nat /\ n - 1 \in Nat /\ n - 1 <= n /\ n - 1 \in 0 .. N /\ n \in 0 .. N
      OBVIOUS
    <3>2. IsFold(F(n), first, step, n) /\ F(n) \in [0 .. n -> Int]
      BY <1>1, <3>1
    <3>3. IsFold(F(n - 1), first, step, n - 1)
      BY <1>1, <3>1
    <3> QED
      BY <3>1, <3>2, <3>3, FoldsAgree
  <2> QED
    BY <1>2, <2>1, <2>2
<1> QED
  BY <1>3, <1>4, <1>5

\* The same, one fact at a time.
LEMMA FoldBase ==
  ASSUME NEW first \in Int, NEW N \in Nat, NEW step \in Steps(N)
  PROVE  Fold(first, step, 0) = first
BY FoldRule

LEMMA FoldType ==
  ASSUME NEW first \in Int, NEW N \in Nat, NEW step \in Steps(N), NEW n \in 0 .. N
  PROVE  Fold(first, step, n) \in Int
BY FoldRule

LEMMA FoldStep ==
  ASSUME NEW first \in Int, NEW N \in Nat, NEW step \in Steps(N), NEW n \in 1 .. N
  PROVE  Fold(first, step, n) = step[n][Fold(first, step, n - 1)]
BY FoldRule

\* Loops over the same accumulators that take the same first n steps agree.
LEMMA FoldCongruence ==
  ASSUME NEW first \in Int, NEW N1 \in Nat, NEW N2 \in Nat,
         NEW step1 \in Steps(N1), NEW step2 \in Steps(N2),
         NEW n \in Nat, n <= N1, n <= N2,
         \A i \in 1 .. n : step1[i] = step2[i]
  PROVE  Fold(first, step1, n) = Fold(first, step2, n)
<1> DEFINE S == {k \in Nat : k <= n => Fold(first, step1, k) = Fold(first, step2, k)}
<1>1. /\ Fold(first, step1, 0) = first
      /\ \A k \in 1 .. N1 : Fold(first, step1, k) = step1[k][Fold(first, step1, k - 1)]
  BY FoldBase, FoldStep
<1>2. /\ Fold(first, step2, 0) = first
      /\ \A k \in 1 .. N2 : Fold(first, step2, k) = step2[k][Fold(first, step2, k - 1)]
  BY FoldBase, FoldStep
<1>3. 0 \in S
  BY <1>1, <1>2
<1>4. ASSUME NEW k \in Nat, k \in S PROVE k + 1 \in S
  <2>1. SUFFICES ASSUME k + 1 <= n
                 PROVE  Fold(first, step1, k + 1) = Fold(first, step2, k + 1)
    OBVIOUS
  <2>2. k + 1 \in 1 .. N1 /\ k + 1 \in 1 .. N2 /\ k + 1 \in 1 .. n /\ (k + 1) - 1 = k
    BY <2>1
  <2>3. Fold(first, step1, k) = Fold(first, step2, k)
    BY <1>4, <2>1
  <2> QED
    BY <1>1, <1>2, <2>2, <2>3
<1>5. Nat \subseteq S
  <2> HIDE DEF S
  <2> QED
    BY <1>3, <1>4, NatSetInduction
<1> QED
  BY <1>5

-----------------------------------------------------------------------------
(***************************************************************************)
(* Sums                                                                    *)
(***************************************************************************)

\* The step of the loop in Total.
Adding(amounts) == [i \in 1 .. Len(amounts) |-> [sum \in Int |-> sum + amounts[i]]]

LEMMA TotalType ==
  ASSUME NEW amounts \in Seq(Int)
  PROVE  Total(amounts) \in Int
<1> DEFINE n == Len(amounts)
<1>1. n \in Nat /\ n \in 0 .. n
  OBVIOUS
<1>2. Adding(amounts) \in Steps(n)
  BY DEF Steps, Adding
<1>3. Total(amounts) = Fold(0, Adding(amounts), n)
  BY DEF Total, Adding
<1> HIDE DEF n
<1> QED
  BY <1>1, <1>2, <1>3, FoldType

LEMMA TotalEmpty == Total(<< >>) = 0
<1>1. Adding(<< >>) \in Steps(0)
  BY DEF Steps, Adding
<1>2. Fold(0, Adding(<< >>), 0) = 0
  BY <1>1, FoldBase
<1> QED
  BY <1>2 DEF Total, Adding

\* A ledger entry adds its amount to the total, wherever the rest came from.
THEOREM TotalAppend ==
  ASSUME NEW amounts \in Seq(Int), NEW amount \in Int
  PROVE  Total(Append(amounts, amount)) = Total(amounts) + amount
<1> DEFINE more == Append(amounts, amount)
           n    == Len(amounts)
<1>1. n \in Nat /\ Len(more) = n + 1 /\ more \in Seq(Int)
  OBVIOUS
<1>2. more[n + 1] = amount /\ \A i \in 1 .. n : more[i] = amounts[i]
  OBVIOUS
<1> HIDE DEF more, n
<1>3. Adding(amounts) \in Steps(n)
  BY DEF Steps, Adding, n
<1>4. Adding(more) \in Steps(n + 1)
  BY <1>1 DEF Steps, Adding
<1>5. \A i \in 1 .. n : Adding(more)[i] = Adding(amounts)[i]
  <2>1. ASSUME NEW i \in 1 .. n PROVE Adding(more)[i] = Adding(amounts)[i]
    <3>1. Adding(more)[i] = [sum \in Int |-> sum + more[i]]
      BY <1>1 DEF Adding
    <3>2. Adding(amounts)[i] = [sum \in Int |-> sum + amounts[i]]
      BY DEF Adding, n
    <3>3. more[i] = amounts[i]
      BY <1>2
    <3> QED
      BY <3>1, <3>2, <3>3
  <2> QED
    BY <2>1
<1>6. Fold(0, Adding(more), n) = Fold(0, Adding(amounts), n)
  <2>1. n <= n + 1 /\ n <= n /\ n + 1 \in Nat /\ 0 \in Int
    BY <1>1
  <2> QED
    BY <1>1, <1>3, <1>4, <1>5, <2>1, FoldCongruence
<1>7. Fold(0, Adding(more), n + 1) = Adding(more)[n + 1][Fold(0, Adding(more), n)]
  <2>1. n + 1 \in 1 .. n + 1 /\ (n + 1) - 1 = n /\ n + 1 \in Nat
    BY <1>1
  <2> QED
    BY <1>4, <2>1, FoldStep
<1>8. Fold(0, Adding(amounts), n) \in Int
  BY <1>1, <1>3, FoldType
<1>9. Adding(more)[n + 1] = [sum \in Int |-> sum + amount]
  BY <1>1, <1>2 DEF Adding
<1>10. Fold(0, Adding(more), n + 1) = Fold(0, Adding(amounts), n) + amount
  BY <1>6, <1>7, <1>8, <1>9
<1>11. Total(more) = Fold(0, Adding(more), n + 1)
  BY <1>1 DEF Total, Adding
<1>12. Total(amounts) = Fold(0, Adding(amounts), n)
  BY DEF Total, Adding, n
<1> QED
  BY <1>10, <1>11, <1>12 DEF more

-----------------------------------------------------------------------------
(***************************************************************************)
(* Powers                                                                  *)
(***************************************************************************)

\* The step of the loop in Pow.
Multiplying(base, n) == [i \in 1 .. n |-> [power \in Int |-> base * power]]

LEMMA PowRule ==
  ASSUME NEW base \in Int, NEW n \in Nat
  PROVE  /\ Pow(base, 0) = 1
         /\ Pow(base, n) \in Int
         /\ Pow(base, n + 1) = base * Pow(base, n)
<1>1. \A k \in Nat : Multiplying(base, k) \in Steps(k)
  BY DEF Steps, Multiplying
<1>2. \A k \in Nat : Pow(base, k) = Fold(1, Multiplying(base, k), k)
  BY DEF Pow, Multiplying
<1>3. Pow(base, 0) = 1
  BY <1>1, <1>2, FoldBase
<1>4. Pow(base, n) \in Int
  <2>1. n \in 0 .. n /\ 1 \in Int
    OBVIOUS
  <2> QED
    BY <1>1, <1>2, <2>1, FoldType
<1>5. Fold(1, Multiplying(base, n + 1), n) = Fold(1, Multiplying(base, n), n)
  <2>1. n <= n /\ n <= n + 1 /\ n + 1 \in Nat /\ 1 \in Int
    OBVIOUS
  <2>2. \A i \in 1 .. n : Multiplying(base, n + 1)[i] = Multiplying(base, n)[i]
    BY DEF Multiplying
  <2> QED
    BY <1>1, <2>1, <2>2, FoldCongruence
<1>6. Fold(1, Multiplying(base, n + 1), n + 1)
        = Multiplying(base, n + 1)[n + 1][Fold(1, Multiplying(base, n + 1), n)]
  <2>1. n + 1 \in 1 .. n + 1 /\ n + 1 \in Nat /\ (n + 1) - 1 = n /\ 1 \in Int
    OBVIOUS
  <2> QED
    BY <1>1, <2>1, FoldStep
<1>7. Multiplying(base, n + 1)[n + 1] = [power \in Int |-> base * power]
  BY DEF Multiplying
<1>8. Pow(base, n + 1) = base * Pow(base, n)
  <2>1. Pow(base, n + 1) = Fold(1, Multiplying(base, n + 1), n + 1)
    BY <1>2
  <2>2. Pow(base, n) = Fold(1, Multiplying(base, n), n)
    BY <1>2
  <2> QED
    BY <1>4, <1>5, <1>6, <1>7, <2>1, <2>2
<1> QED
  BY <1>3, <1>4, <1>8

LEMMA TimesPositive ==
  ASSUME NEW a \in Int, NEW b \in Int, a > 0, b > 0
  PROVE  a * b > 0
OBVIOUS

LEMMA PowPositive ==
  ASSUME NEW base \in Nat \ {0}, NEW n \in Nat
  PROVE  Pow(base, n) \in Nat \ {0}
<1> DEFINE S == {k \in Nat : Pow(base, k) \in Nat \ {0}}
<1>1. 0 \in S
  BY PowRule
<1>2. ASSUME NEW k \in Nat, k \in S PROVE k + 1 \in S
  <2>1. Pow(base, k + 1) = base * Pow(base, k)
    BY PowRule
  <2>2. Pow(base, k) \in Int /\ Pow(base, k) > 0 /\ base \in Int /\ base > 0
    BY <1>2
  <2>3. base * Pow(base, k) > 0
    BY <2>2, TimesPositive
  <2> QED
    BY <2>1, <2>2, <2>3
<1>3. Nat \subseteq S
  <2> HIDE DEF S
  <2> QED
    BY <1>1, <1>2, NatSetInduction
<1> QED
  BY <1>3

LEMMA TimesMonotone ==
  ASSUME NEW a \in Nat \ {0}, NEW b \in Nat \ {0}, NEW c \in Nat, NEW d \in Nat,
         a < b, c <= d, 0 < c
  PROVE  a * c < b * d
<1>1. a * c < b * c
  <2>1. b - a > 0 /\ b - a \in Int
    OBVIOUS
  <2>2. (b - a) * c > 0
    BY <2>1, TimesPositive
  <2> QED
    BY <2>2
<1>2. b * c <= b * d
  <2>1. d - c >= 0 /\ d - c \in Int
    OBVIOUS
  <2>2. b * (d - c) >= 0
    BY <2>1
  <2> QED
    BY <2>2
<1> QED
  BY <1>1, <1>2

\* A larger base has strictly larger powers, from the first power on.
LEMMA PowMonotone ==
  ASSUME NEW a \in Nat \ {0}, NEW b \in Nat \ {0}, a < b, NEW n \in Nat \ {0}
  PROVE  Pow(a, n) < Pow(b, n)
<1> DEFINE S == {k \in Nat : Pow(a, k + 1) < Pow(b, k + 1)}
<1>1. 0 \in S
  <2>1. /\ Pow(a, 0) = 1 /\ Pow(a, 0 + 1) = a * Pow(a, 0)
        /\ Pow(b, 0) = 1 /\ Pow(b, 0 + 1) = b * Pow(b, 0)
    BY PowRule
  <2> QED
    BY <2>1
<1>2. ASSUME NEW k \in Nat, k \in S PROVE k + 1 \in S
  <2>1. /\ Pow(a, (k + 1) + 1) = a * Pow(a, k + 1)
        /\ Pow(b, (k + 1) + 1) = b * Pow(b, k + 1)
    BY PowRule
  <2>2. Pow(a, k + 1) \in Nat \ {0} /\ Pow(b, k + 1) \in Nat \ {0}
    BY PowPositive
  <2>3. Pow(a, k + 1) <= Pow(b, k + 1) /\ 0 < Pow(a, k + 1)
    BY <1>2, <2>2
  <2>4. a * Pow(a, k + 1) < b * Pow(b, k + 1)
    BY <2>2, <2>3, TimesMonotone
  <2> QED
    BY <2>1, <2>4
<1>3. Nat \subseteq S
  <2> HIDE DEF S
  <2> QED
    BY <1>1, <1>2, NatSetInduction
<1>4. n - 1 \in S /\ (n - 1) + 1 = n
  BY <1>3
<1> QED
  BY <1>4

-----------------------------------------------------------------------------
(***************************************************************************)
(* Rounding                                                                *)
(***************************************************************************)

LEMMA RoundCentsType ==
  ASSUME NEW num \in Int, NEW den \in Nat \ {0}
  PROVE  /\ RoundCents(num, den) \in Int
         /\ num >= 0 => RoundCents(num, den) >= 0
BY DEF RoundCents

\* The quotient q of a floor division, by its defining inequalities.
LEMMA DivBounds ==
  ASSUME NEW x \in Int, NEW d \in Nat \ {0}
  PROVE  /\ x \div d \in Int
         /\ d * (x \div d) <= x
         /\ x < d * (x \div d) + d
OBVIOUS

LEMMA DivMonotone ==
  ASSUME NEW x \in Int, NEW y \in Int, NEW d \in Nat \ {0}, x <= y
  PROVE  x \div d <= y \div d
<1>1. /\ x \div d \in Int /\ d * (x \div d) <= x
      /\ y \div d \in Int /\ y < d * (y \div d) + d
  BY DivBounds
<1>2. SUFFICES ASSUME x \div d > y \div d PROVE FALSE
  BY <1>1
<1>3. d * ((x \div d) - (y \div d) - 1) >= 0
  BY <1>1, <1>2
<1>4. d * ((x \div d) - (y \div d) - 1) = d * (x \div d) - d * (y \div d) - d
  BY <1>1
<1> QED
  BY <1>1, <1>3, <1>4

LEMMA RoundCentsMonotone ==
  ASSUME NEW a \in Nat, NEW b \in Nat, NEW den \in Nat \ {0}, a <= b
  PROVE  RoundCents(a, den) <= RoundCents(b, den)
<1>1. 2 * a + den <= 2 * b + den /\ 2 * den \in Nat \ {0}
  OBVIOUS
<1>2. (2 * a + den) \div (2 * den) <= (2 * b + den) \div (2 * den)
  BY <1>1, DivMonotone
<1> QED
  BY <1>2 DEF RoundCents

LEMMA MulRateMicroType ==
  ASSUME NEW balance \in Int, NEW rate \in Nat
  PROVE  /\ MulRateMicro(balance, rate) \in Int
         /\ balance >= 0 => MulRateMicro(balance, rate) >= 0
<1>1. balance * rate \in Int
  OBVIOUS
<1>2. balance >= 0 => balance * rate >= 0
  OBVIOUS
<1> QED
  BY <1>1, <1>2, RoundCentsType, ScaleAssumption DEF MulRateMicro

\* The interest of a debt is not negative.
LEMMA InterestType ==
  ASSUME NEW balance \in Nat, NEW rate \in Nat
  PROVE  MulRateMicro(balance, rate) \in Nat
BY MulRateMicroType

\* Less principal owed, no more interest due.
LEMMA MulRateMicroMonotone ==
  ASSUME NEW small \in Nat, NEW large \in Nat, small <= large, NEW rate \in Nat
  PROVE  MulRateMicro(small, rate) <= MulRateMicro(large, rate)
<1>1. small * rate \in Nat /\ large * rate \in Nat
  OBVIOUS
<1>2. small * rate <= large * rate
  <2>1. (large - small) * rate >= 0
    OBVIOUS
  <2> QED
    BY <2>1
<1> QED
  BY <1>1, <1>2, RoundCentsMonotone, ScaleAssumption DEF MulRateMicro

-----------------------------------------------------------------------------
(***************************************************************************)
(* The annuity payment                                                     *)
(***************************************************************************)

\* Rounding a quotient that is at least num/den.
LEMMA RoundCentsScaled ==
  ASSUME NEW num \in Nat, NEW den \in Nat \ {0}, NEW up \in Nat \ {0}, NEW down \in Nat \ {0},
         down <= up
  PROVE  RoundCents(num, den) <= RoundCents(num * up, den * down)
<1> DEFINE q == (2 * num + den) \div (2 * den)
           D == den * down
           N == num * up
<1>1. /\ q \in Int
      /\ 2 * den * q <= 2 * num + den
  <2>1. 2 * num + den \in Int /\ 2 * den \in Nat \ {0}
    OBVIOUS
  <2> QED
    BY <2>1, DivBounds
<1>2. D \in Nat \ {0} /\ N \in Nat
  <2>1. den * down > 0
    BY TimesPositive
  <2> QED
    BY <2>1
<1>3. down * (2 * den * q) <= down * (2 * num + den)
  <2>1. ASSUME NEW x \in Int, NEW y \in Int, x <= y PROVE down * x <= down * y
    <3>1. down * (y - x) >= 0
      BY <2>1
    <3> QED
      BY <3>1
  <2>2. 2 * den * q \in Int /\ 2 * num + den \in Int
    BY <1>1
  <2> QED
    BY <1>1, <2>1, <2>2
<1>4. down * (2 * den * q) = 2 * D * q
  BY <1>1
<1>5. down * (2 * num + den) = 2 * (num * down) + D
  OBVIOUS
<1>6. num * down <= N
  <2>1. num * (up - down) >= 0
    OBVIOUS
  <2> QED
    BY <2>1
<1>7. 2 * D * q <= 2 * N + D
  <2> HIDE DEF q, D, N
  <2>1. num * down \in Int
    OBVIOUS
  <2> QED
    BY <1>1, <1>2, <1>3, <1>4, <1>5, <1>6, <2>1
<1> HIDE DEF q, D, N
<1>8. q <= (2 * N + D) \div (2 * D)
  <2> DEFINE p == (2 * N + D) \div (2 * D)
  <2>1. p \in Int /\ 2 * N + D < 2 * D * p + 2 * D
    <3>1. 2 * N + D \in Int /\ 2 * D \in Nat \ {0}
      BY <1>2
    <3> QED
      BY <3>1, DivBounds
  <2> HIDE DEF p
  <2>2. SUFFICES ASSUME q > p PROVE FALSE
    BY <1>1, <2>1 DEF p
  <2>3. 2 * D * q < 2 * D * p + 2 * D
    <3>1. 2 * D * q \in Int /\ 2 * D * p \in Int /\ 2 * N + D \in Int /\ 2 * D \in Int
      BY <1>1, <1>2, <2>1
    <3> QED
      BY <1>7, <2>1, <3>1
  <2>4. (2 * D) * (q - p - 1) >= 0
    BY <1>1, <1>2, <2>1, <2>2
  <2>5. (2 * D) * (q - p - 1) = 2 * D * q - 2 * D * p - 2 * D
    BY <1>1, <1>2, <2>1
  <2> QED
    <3>1. 2 * D * q \in Int /\ 2 * D * p \in Int /\ 2 * D \in Int
      BY <1>1, <1>2, <2>1
    <3> QED
      BY <2>3, <2>4, <2>5, <3>1
<1>9. RoundCents(num, den) = q
  BY DEF RoundCents, q
<1>10. RoundCents(N, D) = (2 * N + D) \div (2 * D)
  BY <1>2 DEF RoundCents
<1> QED
  BY <1>8, <1>9, <1>10 DEF N, D

\* The payment PaymentAmount computes never lies below the interest of the
\* principal it is computed for, whatever the rate and the term.
THEOREM PaymentAmountCoversInterest ==
  ASSUME NEW outstanding \in Nat, NEW rate \in Nat, NEW n \in Nat \ {0}
  PROVE  /\ PaymentAmount(outstanding, rate, n) \in Nat
         /\ MulRateMicro(outstanding, rate) <= PaymentAmount(outstanding, rate, n)
<1> DEFINE S     == RateMicroScale
           grown == Pow(S + rate, n)
           flat  == Pow(S, n)
<1>1. CASE rate = 0 \/ outstanding = 0
  <2>1. PaymentAmount(outstanding, rate, n) = RoundCents(outstanding, n)
    BY <1>1 DEF PaymentAmount
  <2>2. RoundCents(outstanding, n) \in Nat
    BY RoundCentsType
  <2>3. outstanding * rate = 0
    BY <1>1
  <2>4. MulRateMicro(outstanding, rate) = RoundCents(0, S)
    BY <2>3 DEF MulRateMicro
  <2>5. RoundCents(0, S) = 0
    <3>1. S \in Nat \ {0}
      BY ScaleAssumption
    <3>2. (2 * 0 + S) \div (2 * S) = 0
      BY <3>1
    <3> QED
      BY <3>2 DEF RoundCents
  <2> QED
    BY <2>1, <2>2, <2>4, <2>5
<1>2. CASE rate # 0 /\ outstanding # 0
  <2>1. S \in Nat \ {0} /\ S + rate \in Nat \ {0} /\ S < S + rate
    BY <1>2, ScaleAssumption
  <2>2. grown \in Nat \ {0} /\ flat \in Nat \ {0} /\ flat < grown
    BY <2>1, PowPositive, PowMonotone
  <2>3. PaymentAmount(outstanding, rate, n)
          = RoundCents(outstanding * rate * grown, S * (grown - flat))
    BY <1>2 DEF PaymentAmount
  <2> HIDE DEF S, grown, flat
  <2>4. grown - flat \in Nat \ {0} /\ grown - flat <= grown
    BY <2>2
  <2>5. outstanding * rate \in Nat
    OBVIOUS
  <2>6. RoundCents(outstanding * rate, S)
          <= RoundCents(outstanding * rate * grown, S * (grown - flat))
    BY <2>1, <2>2, <2>4, <2>5, RoundCentsScaled
  <2>7. RoundCents(outstanding * rate, S) \in Nat
    BY <2>1, <2>5, RoundCentsType
  <2>8. RoundCents(outstanding * rate * grown, S * (grown - flat)) \in Int
    <3>1. S * (grown - flat) > 0
      BY <2>1, <2>4, TimesPositive
    <3>2. outstanding * rate * grown \in Int
      BY <2>2, <2>5
    <3> QED
      BY <2>1, <2>4, <3>1, <3>2, RoundCentsType
  <2> QED
    BY <2>3, <2>6, <2>7, <2>8 DEF MulRateMicro, S
<1> QED
  BY <1>1, <1>2

-----------------------------------------------------------------------------
(***************************************************************************)
(* Schedules                                                               *)
(***************************************************************************)

\* What Build is given: its other arguments are rejected.
ScheduleInputs == [outstanding : Nat, rate : Nat, periods : Nat \ {0}, type : LoanTypes]

\* The step of the loop in Balance.
Repaying(in, due) == [i \in 1 .. in.periods |-> [b \in Int |-> b - due[i][b]]]

LEMMA RepayingType ==
  ASSUME NEW in \in ScheduleInputs, NEW due \in Steps(in.periods)
  PROVE  Repaying(in, due) \in Steps(in.periods)
<1>1. \A i \in 1 .. in.periods, b \in Int : b - due[i][b] \in Int
  BY DEF Steps
<1>2. \A i \in 1 .. in.periods : [b \in Int |-> b - due[i][b]] \in [Int -> Int]
  BY <1>1
<1> QED
  BY <1>2 DEF Repaying, Steps

LEMMA BalanceRule ==
  ASSUME NEW in \in ScheduleInputs, NEW due \in Steps(in.periods)
  PROVE  /\ Balance(in, due, 0) = in.outstanding
         /\ \A n \in 0 .. in.periods : Balance(in, due, n) \in Int
         /\ \A n \in 1 .. in.periods :
              Balance(in, due, n) = Balance(in, due, n - 1) - due[n][Balance(in, due, n - 1)]
<1>1. in.outstanding \in Int /\ in.periods \in Nat
  BY DEF ScheduleInputs
<1>2. Repaying(in, due) \in Steps(in.periods)
  BY RepayingType
<1>3. \A n \in 0 .. in.periods :
        Balance(in, due, n) = Fold(in.outstanding, Repaying(in, due), n)
  BY DEF Balance, Repaying
<1>4. Balance(in, due, 0) = in.outstanding
  BY <1>1, <1>2, <1>3, FoldBase
<1>5. \A n \in 0 .. in.periods : Balance(in, due, n) \in Int
  BY <1>1, <1>2, <1>3, FoldType
<1>6. ASSUME NEW n \in 1 .. in.periods
      PROVE  Balance(in, due, n) = Balance(in, due, n - 1) - due[n][Balance(in, due, n - 1)]
  <2>1. n \in 0 .. in.periods /\ n - 1 \in 0 .. in.periods
    BY <1>1
  <2>2. Fold(in.outstanding, Repaying(in, due), n)
          = Repaying(in, due)[n][Fold(in.outstanding, Repaying(in, due), n - 1)]
    BY <1>1, <1>2, FoldStep
  <2>3. Repaying(in, due)[n] = [b \in Int |-> b - due[n][b]]
    BY DEF Repaying
  <2>4. Balance(in, due, n - 1) \in Int
    BY <1>5, <2>1
  <2> QED
    BY <1>3, <2>1, <2>2, <2>3, <2>4
<1> QED
  BY <1>4, <1>5, <1>6

\* A row of a schedule, for what follows.
PlanRows == [number : Nat, principal : Int, interest : Int, payment : Int, balance : Int]

LEMMA AmortizeRows ==
  ASSUME NEW in \in ScheduleInputs, NEW due \in Steps(in.periods)
  PROVE  /\ Amortize(in, due) \in Seq(PlanRows)
         /\ Len(Amortize(in, due)) = in.periods
         /\ \A i \in 1 .. in.periods :
              /\ Amortize(in, due)[i].number = i
              /\ Amortize(in, due)[i].principal = due[i][Balance(in, due, i - 1)]
              /\ Amortize(in, due)[i].interest = MulRateMicro(Balance(in, due, i - 1), in.rate)
              /\ Amortize(in, due)[i].payment
                   = Amortize(in, due)[i].principal + Amortize(in, due)[i].interest
              /\ Amortize(in, due)[i].balance = Balance(in, due, i)
<1>1. in.periods \in Nat /\ in.rate \in Nat
  BY DEF ScheduleInputs
<1>2. ASSUME NEW i \in 1 .. in.periods
      PROVE  LET before == Balance(in, due, i - 1)
                 row    == Row(i, before, due[i][before], in.rate)
             IN  /\ row \in PlanRows
                 /\ row.number = i
                 /\ row.principal = due[i][before]
                 /\ row.interest = MulRateMicro(before, in.rate)
                 /\ row.payment = row.principal + row.interest
                 /\ row.balance = Balance(in, due, i)
  <2> DEFINE before == Balance(in, due, i - 1)
  <2>1. i \in Nat /\ i - 1 \in 0 .. in.periods
    BY <1>1
  <2>2. before \in Int
    BY <2>1, BalanceRule
  <2>3. due[i][before] \in Int
    BY <2>2 DEF Steps
  <2>4. MulRateMicro(before, in.rate) \in Int
    BY <1>1, <2>2, MulRateMicroType
  <2>5. Balance(in, due, i) = before - due[i][before]
    BY BalanceRule
  <2> HIDE DEF before
  <2> QED
    BY <2>1, <2>2, <2>3, <2>4, <2>5 DEF Row, PlanRows, before
<1>3. Amortize(in, due)
        = [i \in 1 .. in.periods |->
             Row(i, Balance(in, due, i - 1), due[i][Balance(in, due, i - 1)], in.rate)]
  BY DEF Amortize
<1>4. Amortize(in, due) \in [1 .. in.periods -> PlanRows]
  BY <1>2, <1>3
<1>5. Amortize(in, due) \in Seq(PlanRows) /\ Len(Amortize(in, due)) = in.periods
  BY <1>1, <1>4
<1>6. ASSUME NEW i \in 1 .. in.periods
      PROVE  Amortize(in, due)[i]
               = Row(i, Balance(in, due, i - 1), due[i][Balance(in, due, i - 1)], in.rate)
  BY <1>3
<1> QED
  BY <1>2, <1>5, <1>6

\* The principal a plan collects is what it starts from less what it leaves.
THEOREM PlanConservesPrincipal ==
  ASSUME NEW in \in ScheduleInputs, NEW due \in Steps(in.periods)
  PROVE  /\ SumPrincipal(Amortize(in, due)) = in.outstanding - Balance(in, due, in.periods)
         /\ FinalBalance(Amortize(in, due)) = Balance(in, due, in.periods)
<1> DEFINE rows       == Amortize(in, due)
           n          == in.periods
           principals == [i \in 1 .. n |-> rows[i].principal]
<1>1. n \in Nat \ {0} /\ n \in Nat /\ in.outstanding \in Int
  BY DEF ScheduleInputs
<1>2. rows \in Seq(PlanRows) /\ Len(rows) = n
  BY AmortizeRows
<1>3. \A i \in 1 .. n : rows[i].principal = due[i][Balance(in, due, i - 1)]
  BY AmortizeRows
<1>4. /\ Balance(in, due, 0) = in.outstanding
      /\ \A k \in 0 .. n : Balance(in, due, k) \in Int
      /\ \A k \in 1 .. n :
           Balance(in, due, k) = Balance(in, due, k - 1) - due[k][Balance(in, due, k - 1)]
  BY BalanceRule
<1>5. \A i \in 1 .. n : rows[i].principal \in Int
  <2>1. \A i \in 1 .. n : rows[i] \in PlanRows
    BY <1>2
  <2> QED
    BY <2>1 DEF PlanRows
<1> HIDE DEF rows, n
<1>6. principals \in Seq(Int) /\ Len(principals) = n
  BY <1>1, <1>5
<1>7. \A i \in 1 .. n : principals[i] = due[i][Balance(in, due, i - 1)]
  BY <1>3
<1>8. SumPrincipal(rows) = Total(principals)
  BY <1>2 DEF SumPrincipal
<1> HIDE DEF principals
<1>9. Adding(principals) \in Steps(n)
  BY <1>1, <1>6 DEF Steps, Adding
<1> DEFINE sum(k) == Fold(0, Adding(principals), k)
           S == {k \in Nat : k <= n => sum(k) = in.outstanding - Balance(in, due, k)}
<1>10. 0 \in S
  BY <1>1, <1>4, <1>9, FoldBase
<1>11. ASSUME NEW k \in Nat, k \in S PROVE k + 1 \in S
  <2>1. SUFFICES ASSUME k + 1 <= n
                 PROVE  sum(k + 1) = in.outstanding - Balance(in, due, k + 1)
    OBVIOUS
  <2>2. k + 1 \in 1 .. n /\ (k + 1) - 1 = k /\ k \in 0 .. n /\ 0 \in Int
    BY <1>1, <2>1
  <2>3. sum(k + 1) = Adding(principals)[k + 1][sum(k)]
    BY <1>1, <1>9, <2>2, FoldStep
  <2>4. Adding(principals)[k + 1] = [s \in Int |-> s + principals[k + 1]]
    BY <1>6, <2>2 DEF Adding
  <2>5. sum(k) \in Int
    BY <1>1, <1>9, <2>2, FoldType
  <2>6. sum(k) = in.outstanding - Balance(in, due, k)
    BY <1>1, <1>11, <2>1
  <2> HIDE DEF sum
  <2>7. sum(k + 1) = sum(k) + principals[k + 1]
    BY <2>3, <2>4, <2>5
  <2>8. Balance(in, due, k + 1) = Balance(in, due, k) - principals[k + 1]
    BY <1>4, <1>7, <2>2
  <2>9. principals[k + 1] \in Int /\ Balance(in, due, k) \in Int
    BY <1>4, <1>6, <2>2
  <2> QED
    BY <1>1, <2>5, <2>6, <2>7, <2>8, <2>9
<1>12. Nat \subseteq S
  <2> HIDE DEF S
  <2> QED
    BY <1>10, <1>11, NatSetInduction
<1>13. sum(n) = in.outstanding - Balance(in, due, n)
  BY <1>1, <1>12
<1>14. Total(principals) = sum(n)
  BY <1>6 DEF Total, Adding
<1>15. FinalBalance(rows) = Balance(in, due, n)
  <2>1. n \in 1 .. n /\ rows # << >>
    BY <1>1, <1>2
  <2>2. rows[n].balance = Balance(in, due, n)
    BY <2>1, AmortizeRows DEF rows, n
  <2> QED
    BY <1>2, <2>1, <2>2 DEF FinalBalance
<1> QED
  BY <1>8, <1>13, <1>14, <1>15 DEF rows, n

LEMMA InterestOnlyDueType ==
  ASSUME NEW in \in ScheduleInputs
  PROVE  InterestOnlyDue(in) \in Steps(in.periods)
BY DEF InterestOnlyDue, Steps

LEMMA FixedPaymentDueType ==
  ASSUME NEW in \in ScheduleInputs, NEW payment \in Int
  PROVE  FixedPaymentDue(in, payment) \in Steps(in.periods)
<1>1. in.rate \in Nat
  BY DEF ScheduleInputs
<1>2. \A b \in Int : payment - MulRateMicro(b, in.rate) \in Int
  BY <1>1, MulRateMicroType
<1>3. ASSUME NEW i \in 1 .. in.periods
      PROVE  [b \in Int |-> IF i = in.periods THEN b ELSE payment - MulRateMicro(b, in.rate)]
               \in [Int -> Int]
  BY <1>2
<1> QED
  BY <1>3 DEF FixedPaymentDue, Steps

\* A plan whose last period repays whatever is left ends at balance zero.
LEMMA TailCorrectionCloses ==
  ASSUME NEW in \in ScheduleInputs, NEW due \in Steps(in.periods),
         \A b \in Int : due[in.periods][b] = b
  PROVE  Balance(in, due, in.periods) = 0
<1>1. in.periods \in 1 .. in.periods /\ in.periods - 1 \in 0 .. in.periods
  BY DEF ScheduleInputs
<1>2. /\ Balance(in, due, in.periods - 1) \in Int
      /\ Balance(in, due, in.periods)
           = Balance(in, due, in.periods - 1) - due[in.periods][Balance(in, due, in.periods - 1)]
  BY <1>1, BalanceRule
<1> QED
  BY <1>2

LEMMA QuotientRemainder ==
  ASSUME NEW a \in Nat, NEW b \in Nat \ {0}
  PROVE  /\ a \div b \in Nat /\ a % b \in Nat /\ a % b < b
         /\ a = b * (a \div b) + (a % b)
  OBVIOUS

\* Quotient and remainder of the equal principal split.
LEMMA EqualPrincipalSplit ==
  ASSUME NEW in \in ScheduleInputs
  PROVE  LET base == in.outstanding \div in.periods
             rem  == in.outstanding % in.periods
         IN  /\ base \in Nat /\ rem \in Nat /\ rem < in.periods
             /\ in.outstanding = in.periods * base + rem
<1>1. in.outstanding \in Nat /\ in.periods \in Nat \ {0}
  BY DEF ScheduleInputs
<1> QED
  BY <1>1, QuotientRemainder

LEMMA EqualPrincipalDueType ==
  ASSUME NEW in \in ScheduleInputs
  PROVE  EqualPrincipalDue(in) \in Steps(in.periods)
<1> DEFINE base == in.outstanding \div in.periods
           rem  == in.outstanding % in.periods
<1>1. base \in Int /\ rem \in Int
  BY EqualPrincipalSplit
<1>2. EqualPrincipalDue(in)
        = [i \in 1 .. in.periods |-> [b \in Int |-> IF i <= rem THEN base + 1 ELSE base]]
  BY DEF EqualPrincipalDue
<1> HIDE DEF base, rem
<1> QED
  BY <1>1, <1>2 DEF Steps

\* Handing out the remainder one cent at a time leaves nothing.
LEMMA EqualPrincipalCloses ==
  ASSUME NEW in \in ScheduleInputs
  PROVE  Balance(in, EqualPrincipalDue(in), in.periods) = 0
<1> DEFINE base    == in.outstanding \div in.periods
           rem     == in.outstanding % in.periods
           due     == EqualPrincipalDue(in)
           n       == in.periods
           left(k) == Balance(in, due, k)
           S       == {k \in Nat : k <= n =>
                         left(k) = in.outstanding - k * base - (IF k <= rem THEN k ELSE rem)}
<1>1. /\ base \in Nat /\ rem \in Nat /\ rem < n
      /\ in.outstanding = n * base + rem
  BY EqualPrincipalSplit
<1>2. n \in Nat \ {0} /\ in.outstanding \in Nat
  BY DEF ScheduleInputs
<1>3. due = [i \in 1 .. n |-> [b \in Int |-> IF i <= rem THEN base + 1 ELSE base]]
  BY DEF EqualPrincipalDue
<1>4. /\ left(0) = in.outstanding
      /\ \A k \in 0 .. n : left(k) \in Int
      /\ \A k \in 1 .. n : left(k) = left(k - 1) - due[k][left(k - 1)]
  BY BalanceRule, EqualPrincipalDueType
<1> HIDE DEF base, rem, due, n, left
<1>5. 0 \in S
  BY <1>1, <1>2, <1>4
<1>6. ASSUME NEW k \in Nat, k \in S PROVE k + 1 \in S
  <2>1. SUFFICES ASSUME k + 1 <= n
                 PROVE  left(k + 1) = in.outstanding - (k + 1) * base
                                        - (IF k + 1 <= rem THEN k + 1 ELSE rem)
    OBVIOUS
  <2>2. k + 1 \in 1 .. n /\ (k + 1) - 1 = k /\ k \in 0 .. n /\ k <= n
    BY <1>2, <2>1
  <2>3. left(k) \in Int /\ left(k + 1) = left(k) - due[k + 1][left(k)]
    BY <1>4, <2>2
  <2>4. left(k + 1) = left(k) - (IF k + 1 <= rem THEN base + 1 ELSE base)
    BY <1>3, <2>2, <2>3
  <2>5. left(k) = in.outstanding - k * base - (IF k <= rem THEN k ELSE rem)
    BY <1>6, <2>2
  <2>6. (k + 1) * base = k * base + base /\ k * base \in Int
    BY <1>1
  <2> QED
    BY <1>1, <1>2, <2>3, <2>4, <2>5, <2>6
<1>7. Nat \subseteq S
  <2> HIDE DEF S
  <2> QED
    BY <1>5, <1>6, NatSetInduction
<1>8. left(n) = in.outstanding - n * base - rem
  <2>1. n \in S /\ ~(n <= rem)
    BY <1>1, <1>2, <1>7
  <2> QED
    BY <2>1, <1>1, <1>2
<1>9. left(n) = 0
  <2>1. n * base \in Int
    BY <1>1, <1>2
  <2> QED
    BY <1>1, <1>2, <1>8, <2>1
<1> QED
  BY <1>9 DEF left, due, n

-----------------------------------------------------------------------------
(***************************************************************************)
(* The plans close                                                         *)
(***************************************************************************)

\* The due function Build chooses.
DueOf(in) == CASE in.type = "interest_only"     -> InterestOnlyDue(in)
               [] in.type = "equal_principal"   -> EqualPrincipalDue(in)
               [] in.type = "equal_installment" -> EqualInstallmentDue(in)

LEMMA DueOfType ==
  ASSUME NEW in \in ScheduleInputs
  PROVE  /\ DueOf(in) \in Steps(in.periods)
         /\ Balance(in, DueOf(in), in.periods) = 0
<1>1. in.periods \in 1 .. in.periods /\ in.outstanding \in Nat /\ in.rate \in Nat
      /\ in.periods \in Nat \ {0}
  BY DEF ScheduleInputs
<1>2. ASSUME NEW payment \in Int
      PROVE  /\ FixedPaymentDue(in, payment) \in Steps(in.periods)
             /\ Balance(in, FixedPaymentDue(in, payment), in.periods) = 0
  <2>1. \A b \in Int : FixedPaymentDue(in, payment)[in.periods][b] = b
    BY <1>1 DEF FixedPaymentDue
  <2> QED
    BY <2>1, FixedPaymentDueType, TailCorrectionCloses
<1>3. CASE in.type = "interest_only"
  <2>1. \A b \in Int : InterestOnlyDue(in)[in.periods][b] = b
    BY <1>1 DEF InterestOnlyDue
  <2>2. DueOf(in) = InterestOnlyDue(in)
    BY <1>3 DEF DueOf
  <2> QED
    BY <2>1, <2>2, InterestOnlyDueType, TailCorrectionCloses
<1>4. CASE in.type = "equal_principal"
  <2>1. DueOf(in) = EqualPrincipalDue(in)
    BY <1>4 DEF DueOf
  <2> QED
    BY <2>1, EqualPrincipalDueType, EqualPrincipalCloses
<1>5. CASE in.type = "equal_installment"
  <2>1. DueOf(in) = EqualInstallmentDue(in)
    BY <1>5 DEF DueOf
  <2>2. CASE in.rate = 0 \/ in.outstanding = 0
    BY <2>1, <2>2, EqualPrincipalDueType, EqualPrincipalCloses DEF EqualInstallmentDue
  <2>3. CASE in.rate # 0 /\ in.outstanding # 0
    <3>1. PaymentAmount(in.outstanding, in.rate, in.periods) \in Nat
      BY <1>1, PaymentAmountCoversInterest
    <3> QED
      BY <1>2, <2>1, <2>3, <3>1 DEF EqualInstallmentDue
  <2> QED
    BY <2>2, <2>3
<1>6. in.type \in LoanTypes
  BY DEF ScheduleInputs
<1> QED
  BY <1>3, <1>4, <1>5, <1>6 DEF LoanTypes

\* Every plan Build returns collects exactly the outstanding principal and
\* ends at balance zero: schedule.go:65-67 for every input.
THEOREM BuildCloses ==
  ASSUME NEW in \in ScheduleInputs
  PROVE  /\ SumPrincipal(Build(in)) = in.outstanding
         /\ FinalBalance(Build(in)) = 0
<1>1. Build(in) = Amortize(in, DueOf(in))
  BY DEF Build, DueOf
<1>2. in.outstanding \in Int
  BY DEF ScheduleInputs
<1>3. DueOf(in) \in Steps(in.periods) /\ Balance(in, DueOf(in), in.periods) = 0
  BY DueOfType
<1> QED
  BY <1>1, <1>2, <1>3, PlanConservesPrincipal

\* So does every plan at a kept payment, even one that lies below the
\* interest and lets the principal grow until the last period.
THEOREM BuildFixedPaymentCloses ==
  ASSUME NEW in \in ScheduleInputs, NEW payment \in Int, in.outstanding # 0
  PROVE  /\ SumPrincipal(BuildFixedPayment(in, payment)) = in.outstanding
         /\ FinalBalance(BuildFixedPayment(in, payment)) = 0
<1> DEFINE due == FixedPaymentDue(in, payment)
<1>1. in.periods \in 1 .. in.periods /\ in.outstanding \in Int
  BY DEF ScheduleInputs
<1>2. due \in Steps(in.periods)
  BY FixedPaymentDueType
<1>3. \A b \in Int : due[in.periods][b] = b
  BY <1>1 DEF FixedPaymentDue
<1>4. BuildFixedPayment(in, payment) = Amortize(in, due)
  BY DEF BuildFixedPayment
<1> HIDE DEF due
<1>5. Balance(in, due, in.periods) = 0
  BY <1>2, <1>3, TailCorrectionCloses
<1> QED
  BY <1>1, <1>2, <1>4, <1>5, PlanConservesPrincipal

-----------------------------------------------------------------------------
(***************************************************************************)
(* The first row: the only one of a plan that is ever paid                 *)
(***************************************************************************)

\* Row is the first row of a plan for in whose due function is due.
FirstRow(row, in, principal) ==
  /\ row.number = 1
  /\ row.principal = principal
  /\ row.interest = MulRateMicro(in.outstanding, in.rate)
  /\ row.payment = row.principal + row.interest

LEMMA AmortizeFirstRow ==
  ASSUME NEW in \in ScheduleInputs, NEW due \in Steps(in.periods)
  PROVE  /\ Amortize(in, due) # << >>
         /\ FirstRow(Amortize(in, due)[1], in, due[1][in.outstanding])
         /\ due[1][in.outstanding] \in Int
<1>1. in.periods \in Nat \ {0} /\ 1 \in 1 .. in.periods /\ in.outstanding \in Int
  BY DEF ScheduleInputs
<1>2. Balance(in, due, 1 - 1) = in.outstanding
  BY BalanceRule
<1>3. Amortize(in, due) # << >>
  BY <1>1, AmortizeRows
<1>4. due[1][in.outstanding] \in Int
  BY <1>1 DEF Steps
<1> QED
  BY <1>1, <1>2, <1>3, <1>4, AmortizeRows DEF FirstRow

\* The principal Build makes due in period 1.
FirstPrincipal(in) == DueOf(in)[1][in.outstanding]

LEMMA BuildFirstRow ==
  ASSUME NEW in \in ScheduleInputs
  PROVE  /\ Build(in) # << >>
         /\ FirstRow(Build(in)[1], in, FirstPrincipal(in))
         /\ FirstPrincipal(in) \in Int
<1>1. Build(in) = Amortize(in, DueOf(in))
  BY DEF Build, DueOf
<1> QED
  BY <1>1, DueOfType, AmortizeFirstRow DEF FirstPrincipal

\* A plan of one period returns everything in it.
LEMMA OnlyPeriodReturnsAll ==
  ASSUME NEW in \in ScheduleInputs, in.periods = 1
  PROVE  FirstPrincipal(in) = in.outstanding
<1>1. DueOf(in) \in Steps(in.periods) /\ Balance(in, DueOf(in), in.periods) = 0
  BY DueOfType
<1>2. 1 \in 1 .. in.periods
  BY DEF ScheduleInputs
<1>3. Balance(in, DueOf(in), 0) = in.outstanding
  BY <1>1, BalanceRule
<1>4. Balance(in, DueOf(in), 1)
        = Balance(in, DueOf(in), 1 - 1) - DueOf(in)[1][Balance(in, DueOf(in), 1 - 1)]
  BY <1>1, <1>2, BalanceRule
<1>5. in.outstanding \in Int /\ FirstPrincipal(in) \in Int
  BY BuildFirstRow DEF ScheduleInputs
<1> QED
  BY <1>1, <1>3, <1>4, <1>5 DEF FirstPrincipal

\* The plans split in equal parts of principal: a cent of debt is enough for
\* the first part not to be empty.
LEMMA EqualPrincipalFirst ==
  ASSUME NEW in \in ScheduleInputs
  PROVE  /\ EqualPrincipalDue(in)[1][in.outstanding] \in Nat
         /\ in.outstanding > 0 => EqualPrincipalDue(in)[1][in.outstanding] > 0
<1> DEFINE base == in.outstanding \div in.periods
           rem  == in.outstanding % in.periods
<1>1. /\ base \in Nat /\ rem \in Nat
      /\ in.outstanding = in.periods * base + rem
  BY EqualPrincipalSplit
<1>2. in.periods \in Nat \ {0} /\ 1 \in 1 .. in.periods /\ in.outstanding \in Int
  BY DEF ScheduleInputs
<1>3. EqualPrincipalDue(in)
        = [i \in 1 .. in.periods |-> [b \in Int |-> IF i <= rem THEN base + 1 ELSE base]]
  BY DEF EqualPrincipalDue
<1> HIDE DEF base, rem
<1>4. EqualPrincipalDue(in)[1][in.outstanding] = IF 1 <= rem THEN base + 1 ELSE base
  BY <1>2, <1>3
<1>5. base = 0 => in.outstanding = rem
  BY <1>1, <1>2
<1> QED
  BY <1>1, <1>2, <1>4, <1>5

\* Build's first row never asks for a negative principal.
LEMMA FirstPrincipalType ==
  ASSUME NEW in \in ScheduleInputs
  PROVE  FirstPrincipal(in) \in Nat
<1>1. /\ in.outstanding \in Nat /\ in.rate \in Nat /\ in.periods \in Nat \ {0}
      /\ 1 \in 1 .. in.periods /\ in.outstanding \in Int /\ in.type \in LoanTypes
  BY DEF ScheduleInputs
<1>2. CASE in.type = "interest_only"
  BY <1>1, <1>2 DEF FirstPrincipal, DueOf, InterestOnlyDue
<1>3. CASE in.type = "equal_principal"
  BY <1>3, EqualPrincipalFirst DEF FirstPrincipal, DueOf
<1>4. CASE in.type = "equal_installment"
  <2>1. FirstPrincipal(in) = EqualInstallmentDue(in)[1][in.outstanding]
    BY <1>4 DEF FirstPrincipal, DueOf
  <2>2. CASE in.rate = 0 \/ in.outstanding = 0
    BY <2>1, <2>2, EqualPrincipalFirst DEF EqualInstallmentDue
  <2>3. CASE in.rate # 0 /\ in.outstanding # 0
    <3> DEFINE payment == PaymentAmount(in.outstanding, in.rate, in.periods)
    <3>1. payment \in Nat /\ MulRateMicro(in.outstanding, in.rate) <= payment
      BY <1>1, PaymentAmountCoversInterest
    <3>2. MulRateMicro(in.outstanding, in.rate) \in Int
      BY <1>1, MulRateMicroType
    <3>3. EqualInstallmentDue(in) = FixedPaymentDue(in, payment)
      BY <2>3 DEF EqualInstallmentDue
    <3> HIDE DEF payment
    <3>4. FixedPaymentDue(in, payment)[1][in.outstanding]
            = IF 1 = in.periods THEN in.outstanding
              ELSE payment - MulRateMicro(in.outstanding, in.rate)
      BY <1>1 DEF FixedPaymentDue
    <3> QED
      BY <1>1, <2>1, <3>1, <3>2, <3>3, <3>4
  <2> QED
    BY <2>2, <2>3
<1> QED
  BY <1>1, <1>2, <1>3, <1>4 DEF LoanTypes

\* The equal installment is what period 1 pays, when it is not the last.
LEMMA EqualInstallmentFirstPayment ==
  ASSUME NEW in \in ScheduleInputs, in.type = "equal_installment",
         in.rate # 0, in.outstanding # 0, in.periods # 1
  PROVE  Build(in)[1].payment = PaymentAmount(in.outstanding, in.rate, in.periods)
<1> DEFINE payment == PaymentAmount(in.outstanding, in.rate, in.periods)
<1>1. /\ in.outstanding \in Nat /\ in.rate \in Nat /\ in.periods \in Nat \ {0}
      /\ 1 \in 1 .. in.periods /\ in.outstanding \in Int
  BY DEF ScheduleInputs
<1>2. payment \in Nat
  BY <1>1, PaymentAmountCoversInterest
<1>3. MulRateMicro(in.outstanding, in.rate) \in Int
  BY <1>1, MulRateMicroType
<1>4. DueOf(in) = FixedPaymentDue(in, payment)
  BY DEF DueOf, EqualInstallmentDue
<1> HIDE DEF payment
<1>5. FixedPaymentDue(in, payment)[1][in.outstanding]
        = payment - MulRateMicro(in.outstanding, in.rate)
  BY <1>1 DEF FixedPaymentDue
<1>6. FirstPrincipal(in) = payment - MulRateMicro(in.outstanding, in.rate)
  BY <1>4, <1>5 DEF FirstPrincipal
<1>7. /\ Build(in)[1].payment = Build(in)[1].principal + Build(in)[1].interest
      /\ Build(in)[1].principal = FirstPrincipal(in)
      /\ Build(in)[1].interest = MulRateMicro(in.outstanding, in.rate)
  BY BuildFirstRow DEF FirstRow
<1>8. Build(in)[1].payment = payment
  BY <1>2, <1>3, <1>6, <1>7
<1> QED
  BY <1>8 DEF payment

\* The first row of a plan at a kept payment.
LEMMA FixedPaymentFirstRow ==
  ASSUME NEW in \in ScheduleInputs, NEW payment \in Int, in.outstanding # 0
  PROVE  /\ BuildFixedPayment(in, payment) # << >>
         /\ FirstRow(BuildFixedPayment(in, payment)[1], in,
                     IF in.periods = 1 THEN in.outstanding
                     ELSE payment - MulRateMicro(in.outstanding, in.rate))
<1> DEFINE due == FixedPaymentDue(in, payment)
<1>1. in.periods \in Nat \ {0} /\ 1 \in 1 .. in.periods /\ in.outstanding \in Int
  BY DEF ScheduleInputs
<1>2. due \in Steps(in.periods)
  BY FixedPaymentDueType
<1>3. due[1][in.outstanding] = IF in.periods = 1 THEN in.outstanding
                               ELSE payment - MulRateMicro(in.outstanding, in.rate)
  BY <1>1 DEF FixedPaymentDue
<1>4. BuildFixedPayment(in, payment) = Amortize(in, due)
  BY DEF BuildFixedPayment
<1> HIDE DEF due
<1> QED
  BY <1>2, <1>3, <1>4, AmortizeFirstRow
==============================================================================
