-------------------------- MODULE AmortCallsProofs --------------------------
(***************************************************************************)
(* The numeric properties of module AmortCalls, proved for every scale,    *)
(* principal, rate, number of periods and payment.                         *)
(*                                                                         *)
(* The argument follows the rounding error: a plan whose interest is       *)
(* rounded to a cent stays within half a cent per period, compounded, of   *)
(* the exact annuity (BalanceNearAnnuity), and the annuity is a geometric  *)
(* sum (AnnuityClosed).  The last payment is what those two leave.         *)
(***************************************************************************)
EXTENDS AmortCalls, AmortProofs

-----------------------------------------------------------------------------
(***************************************************************************)
(* The calls                                                               *)
(***************************************************************************)

\* The recast CallRecastReduceTerm makes.
Kept(i, p) == [type |-> i.type, outstanding |-> i.outstanding, rate |-> i.rate,
               paid |-> 0, term |-> i.periods, payment |-> p]

\* The periods of in are a remaining term the ceiling can yield.
TermSolved ==
  LET Least(m) == Amortizes(Kept(in, payment), m)
                  /\ (m > 1 => ~Amortizes(Kept(in, payment), m - 1))
      n == in.periods
  IN  Least(n) \/ (n > 1 /\ Least(n - 1) /\ ExactTerm(Kept(in, payment), n - 1))

BuildReturned ==
  /\ op = "Build"
  /\ rows = Build(in)
  /\ payment = IF in.type = "equal_installment"
               THEN PaymentAmount(in.outstanding, in.rate, in.periods) ELSE 0

FixedPaymentReturned ==
  /\ op = "BuildFixedPayment" \/ (op = "RecastReduceTerm" /\ TermSolved)
  /\ in.type = "equal_installment"
  /\ payment \in Nat \ {0}
  /\ rows = BuildFixedPayment(in, payment)

\* The state holds a call's input and what the call returned for it.
Returned ==
  op # "idle" => /\ in \in ScheduleInputs
                 /\ in.outstanding # 0
                 /\ BuildReturned \/ FixedPaymentReturned

LEMMA InputsType ==
  ASSUME NEW i \in Inputs
  PROVE  i \in ScheduleInputs /\ i.outstanding # 0
BY CallAssumption DEF Inputs, ScheduleInputs

\* Two recasts that differ in the term they start from solve for the same one.
LEMMA KeptTerm ==
  ASSUME NEW i \in ScheduleInputs, NEW p, NEW m, NEW k
  PROVE  /\ Amortizes(Kept([i EXCEPT !.periods = m], p), k) <=> Amortizes(Kept(i, p), k)
         /\ ExactTerm(Kept([i EXCEPT !.periods = m], p), k) <=> ExactTerm(Kept(i, p), k)
<1> DEFINE j == [i EXCEPT !.periods = m]
<1>1. j.outstanding = i.outstanding /\ j.rate = i.rate
  BY DEF ScheduleInputs
<1>2. /\ Kept(j, p).outstanding = Kept(i, p).outstanding
      /\ Kept(j, p).rate = Kept(i, p).rate
      /\ Kept(j, p).payment = Kept(i, p).payment
  BY <1>1 DEF Kept
<1> HIDE DEF j
<1> QED
  <2>1. Amortizes(Kept(j, p), k) <=> Amortizes(Kept(i, p), k)
    BY <1>2 DEF Amortizes
  <2>2. ExactTerm(Kept(j, p), k) <=> ExactTerm(Kept(i, p), k)
    BY <1>2 DEF ExactTerm
  <2> QED
    BY <2>1, <2>2 DEF j

LEMMA ReturnedInit == Init => Returned
BY DEF Init, Returned

LEMMA ReturnedStep == Returned /\ [Next]_vars => Returned'
<1> SUFFICES ASSUME Returned, [Next]_vars PROVE Returned'
  OBVIOUS
<1>1. ASSUME NEW i \in Inputs, CallBuild(i) PROVE Returned'
  BY <1>1, InputsType DEF CallBuild, Returned, BuildReturned
<1>2. ASSUME NEW i \in Inputs, NEW p \in Payments, CallBuildFixedPayment(i, p)
      PROVE  Returned'
  <2>1. p \in Nat \ {0}
    BY CallAssumption
  <2> QED
    BY <1>2, <2>1, InputsType DEF CallBuildFixedPayment, Returned, FixedPaymentReturned
<1>3. ASSUME NEW i \in Inputs, NEW p \in Payments, CallRecastReduceTerm(i, p)
      PROVE  Returned'
  <2>1. p \in Nat \ {0} /\ i \in ScheduleInputs /\ i.outstanding # 0
        /\ i.outstanding \in Nat /\ i.periods \in Nat \ {0}
    BY CallAssumption, InputsType DEF ScheduleInputs
  <2>2. PICK m \in RecastReduceTerm(Kept(i, p), i.periods) :
           /\ in' = [i EXCEPT !.periods = m]
           /\ rows' = BuildFixedPayment(in', p)
    BY <1>3 DEF CallRecastReduceTerm, Kept
  <2>3. op' = "RecastReduceTerm" /\ payment' = p /\ i.type = "equal_installment"
    BY <1>3 DEF CallRecastReduceTerm
  <2>4. /\ Kept(i, p).outstanding = i.outstanding /\ Kept(i, p).paid = 0
        /\ Kept(i, p).rate = i.rate /\ Kept(i, p).payment = p
    BY DEF Kept
  <2>5. m \in {0 + k : k \in ReduceTermPeriods(Kept(i, p), i.periods)}
    BY <2>1, <2>2, <2>4 DEF RecastReduceTerm
  <2>6. ReduceTermPeriods(Kept(i, p), i.periods) \subseteq 1 .. i.periods
    BY DEF ReduceTermPeriods
  <2>7. m \in ReduceTermPeriods(Kept(i, p), i.periods) /\ m \in Nat \ {0}
    BY <2>1, <2>5, <2>6
  <2>8. /\ in' \in ScheduleInputs /\ in'.outstanding # 0
        /\ in'.type = "equal_installment" /\ in'.periods = m
    BY <2>1, <2>2, <2>3, <2>7 DEF ScheduleInputs
  <2>9. TermSolved'
    <3> DEFINE Least(k) == Amortizes(Kept(i, p), k)
                           /\ (k > 1 => ~Amortizes(Kept(i, p), k - 1))
    <3>1. Least(m) \/ (m > 1 /\ Least(m - 1) /\ ExactTerm(Kept(i, p), m - 1))
      BY <2>7 DEF ReduceTermPeriods
    <3>2. \A k : /\ Amortizes(Kept(in', p), k) <=> Amortizes(Kept(i, p), k)
                 /\ ExactTerm(Kept(in', p), k) <=> ExactTerm(Kept(i, p), k)
      BY <2>1, <2>2, KeptTerm
    <3> QED
      BY <2>3, <2>8, <3>1, <3>2 DEF TermSolved
  <2> QED
    BY <2>1, <2>2, <2>3, <2>8, <2>9 DEF Returned, FixedPaymentReturned
<1>4. CASE Return
  BY <1>4 DEF Return, Returned
<1>5. CASE UNCHANGED vars
  BY <1>5 DEF vars, Returned, BuildReturned, FixedPaymentReturned, TermSolved
<1> QED
  BY <1>1, <1>2, <1>3, <1>4, <1>5 DEF Next

LEMMA ReturnedAlways == Spec => []Returned
BY ReturnedInit, ReturnedStep, PTL DEF Spec

-----------------------------------------------------------------------------
(***************************************************************************)
(* Every plan closes                                                       *)
(***************************************************************************)

LEMMA ReturnedCloses == Returned => PlansClose
<1> SUFFICES ASSUME Returned, op # "idle"
             PROVE  SumPrincipal(rows) = in.outstanding /\ FinalBalance(rows) = 0
  BY DEF PlansClose
<1>1. in \in ScheduleInputs /\ in.outstanding # 0
  BY DEF Returned
<1>2. CASE BuildReturned
  BY <1>1, <1>2, BuildCloses DEF BuildReturned
<1>3. CASE FixedPaymentReturned
  <2>1. payment \in Int /\ rows = BuildFixedPayment(in, payment)
    BY <1>3 DEF FixedPaymentReturned
  <2> QED
    BY <1>1, <2>1, BuildFixedPaymentCloses
<1> QED
  BY <1>2, <1>3 DEF Returned

\* Every plan the three builders return collects exactly the principal it
\* starts from and ends at balance zero, whatever its numbers
\* (schedule.go:65-67, recast.go:88).
THEOREM PlansAlwaysClose == Spec => []PlansClose
BY ReturnedAlways, ReturnedCloses, PTL

-----------------------------------------------------------------------------
(***************************************************************************)
(* The annuity                                                             *)
(***************************************************************************)

\* The growth of one cent over n periods, over RateMicroScale^n.
LEMMA GrowthType ==
  ASSUME NEW rate \in Nat, NEW n \in Nat, NEW j \in 0 .. n
  PROVE  Growth(rate, n, j) \in Nat \ {0}
<1>1. /\ RateMicroScale + rate \in Nat \ {0} /\ RateMicroScale \in Nat \ {0}
      /\ j \in Nat /\ n - j \in Nat
  BY ScaleAssumption
<1>2. /\ Pow(RateMicroScale + rate, j) \in Nat \ {0}
      /\ Pow(RateMicroScale, n - j) \in Nat \ {0}
  BY <1>1, PowPositive
<1> QED
  BY <1>2, TimesPositive DEF Growth

\* One period more of compounding, or of the denominator.
LEMMA GrowthStep ==
  ASSUME NEW rate \in Nat, NEW n \in Nat, NEW j \in 0 .. n
  PROVE  /\ Growth(rate, n + 1, j + 1) = (RateMicroScale + rate) * Growth(rate, n, j)
         /\ Growth(rate, n, 0) = Pow(RateMicroScale, n)
         /\ Growth(rate, n, n) = Pow(RateMicroScale + rate, n)
<1> DEFINE S == RateMicroScale
           R == RateMicroScale + rate
<1>1. S \in Int /\ R \in Int /\ j \in Nat /\ n - j \in Nat /\ (n + 1) - (j + 1) = n - j
      /\ n - 0 = n /\ n - n = 0
  BY ScaleAssumption
<1> HIDE DEF S, R
<1>2. /\ Pow(R, j + 1) = R * Pow(R, j)
      /\ Pow(R, j) \in Int /\ Pow(S, n - j) \in Int /\ Pow(S, n) \in Int /\ Pow(R, n) \in Int
      /\ Pow(R, 0) = 1 /\ Pow(S, 0) = 1
  BY <1>1, PowRule
<1>3. Pow(R, j + 1) * Pow(S, n - j) = R * (Pow(R, j) * Pow(S, n - j))
  BY <1>1, <1>2
<1> QED
  BY <1>1, <1>2, <1>3 DEF Growth, R, S

\* The step of the loop that sums the growth of n payments.
Accruing(rate, n) == [i \in 1 .. n |-> [sum \in Int |-> sum + Growth(rate, n, i - 1)]]

\* The first k terms of the annuity of n periods.
Partial(rate, n, k) == Fold(0, Accruing(rate, n), k)

LEMMA PartialRule ==
  ASSUME NEW rate \in Nat, NEW n \in Nat
  PROVE  /\ Partial(rate, n, 0) = 0
         /\ \A k \in 0 .. n : Partial(rate, n, k) \in Int
         /\ \A k \in 1 .. n :
              Partial(rate, n, k) = Partial(rate, n, k - 1) + Growth(rate, n, k - 1)
<1>1. \A i \in 1 .. n : Growth(rate, n, i - 1) \in Int
  <2>1. ASSUME NEW i \in 1 .. n PROVE Growth(rate, n, i - 1) \in Int
    <3>1. i - 1 \in 0 .. n
      OBVIOUS
    <3> QED
      BY <3>1, GrowthType
  <2> QED
    BY <2>1
<1>2. Accruing(rate, n) \in Steps(n)
  BY <1>1 DEF Steps, Accruing
<1>3. Partial(rate, n, 0) = 0
  BY <1>2, FoldBase DEF Partial
<1>4. \A k \in 0 .. n : Partial(rate, n, k) \in Int
  BY <1>2, FoldType DEF Partial
<1>5. ASSUME NEW k \in 1 .. n
      PROVE  Partial(rate, n, k) = Partial(rate, n, k - 1) + Growth(rate, n, k - 1)
  <2>1. Partial(rate, n, k) = Accruing(rate, n)[k][Partial(rate, n, k - 1)]
    BY <1>2, FoldStep DEF Partial
  <2>2. Partial(rate, n, k - 1) \in Int
    BY <1>4
  <2> QED
    BY <2>1, <2>2 DEF Accruing
<1> QED
  BY <1>3, <1>4, <1>5

\* The annuity of n periods from the first on: what n payments of one cent
\* are worth at maturity.
Due(rate, n) == Annuity(rate, n, 0, n - 1)

LEMMA DueIsPartial ==
  ASSUME NEW rate \in Nat, NEW n \in Nat
  PROVE  Due(rate, n) = Partial(rate, n, n)
<1> DEFINE terms == [k \in 1 .. n |-> Growth(rate, n, k - 1)]
<1>1. (n - 1) - 0 + 1 = n
  OBVIOUS
<1>2. [k \in 1 .. (n - 1) - 0 + 1 |-> Growth(rate, n, 0 + k - 1)] = terms
  BY <1>1
<1>3. Due(rate, n) = Total(terms)
  BY <1>2 DEF Due, Annuity
<1>4. Len(terms) = n /\ \A i \in 1 .. n : terms[i] = Growth(rate, n, i - 1)
  OBVIOUS
<1> HIDE DEF terms
<1>5. [i \in 1 .. n |-> [sum \in Int |-> sum + terms[i]]] = Accruing(rate, n)
  BY <1>4 DEF Accruing
<1> QED
  BY <1>3, <1>4, <1>5 DEF Total, Partial

\* One period more: what was due compounds once, and one payment joins it.
LEMMA DueRule ==
  ASSUME NEW rate \in Nat, NEW n \in Nat
  PROVE  /\ Due(rate, 0) = 0
         /\ Due(rate, n) \in Int
         /\ Due(rate, n + 1) = (RateMicroScale + rate) * Due(rate, n) + Pow(RateMicroScale, n + 1)
<1> DEFINE R    == RateMicroScale + rate
           F    == Pow(RateMicroScale, n + 1)
           A(k) == Partial(rate, n, k)
           B(k) == Partial(rate, n + 1, k)
           S    == {k \in Nat : k <= n => B(k + 1) = R * A(k) + F}
<1>1. R \in Int /\ F \in Int /\ n + 1 \in Nat
  BY ScaleAssumption, PowRule
<1>2. /\ A(0) = 0
      /\ \A k \in 0 .. n : A(k) \in Int
      /\ \A k \in 1 .. n : A(k) = A(k - 1) + Growth(rate, n, k - 1)
  BY PartialRule
<1>3. /\ B(0) = 0
      /\ \A k \in 0 .. n + 1 : B(k) \in Int
      /\ \A k \in 1 .. n + 1 : B(k) = B(k - 1) + Growth(rate, n + 1, k - 1)
  BY <1>1, PartialRule
<1>4. 0 \in S
  <2>1. 0 + 1 \in 1 .. n + 1 /\ (0 + 1) - 1 = 0
    OBVIOUS
  <2>2. 0 \in 0 .. n + 1
    OBVIOUS
  <2>3. Growth(rate, n + 1, 0) = F
    BY <1>1, <2>2, GrowthStep DEF F
  <2>4. B(0 + 1) = B(0) + Growth(rate, n + 1, 0)
    BY <1>3, <2>1
  <2> HIDE DEF A, B, R, F
  <2> QED
    BY <1>1, <1>2, <1>3, <2>3, <2>4
<1>5. ASSUME NEW k \in Nat, k \in S PROVE k + 1 \in S
  <2>1. SUFFICES ASSUME k + 1 <= n PROVE B((k + 1) + 1) = R * A(k + 1) + F
    OBVIOUS
  <2>2. /\ k + 1 \in 1 .. n /\ (k + 1) - 1 = k /\ k \in 0 .. n
        /\ (k + 1) + 1 \in 1 .. n + 1 /\ ((k + 1) + 1) - 1 = k + 1 /\ k + 1 \in 0 .. n + 1
    BY <2>1
  <2>3. A(k + 1) = A(k) + Growth(rate, n, k)
    BY <1>2, <2>2
  <2>4. B((k + 1) + 1) = B(k + 1) + Growth(rate, n + 1, k + 1)
    BY <1>3, <2>2
  <2>5. Growth(rate, n + 1, k + 1) = R * Growth(rate, n, k)
    BY <2>2, GrowthStep
  <2>6. Growth(rate, n, k) \in Int
    BY <2>2, GrowthType
  <2>7. B(k + 1) = R * A(k) + F
    BY <1>5, <2>2
  <2>8. A(k) \in Int
    BY <1>2, <2>2
  <2> HIDE DEF A, B, R, F
  <2>9. R * (A(k) + Growth(rate, n, k)) = R * A(k) + R * Growth(rate, n, k)
    BY <1>1, <2>6, <2>8
  <2>10. R * A(k) \in Int /\ R * Growth(rate, n, k) \in Int
    BY <1>1, <2>6, <2>8
  <2> QED
    BY <1>1, <2>3, <2>4, <2>5, <2>7, <2>9, <2>10
<1>6. Nat \subseteq S
  <2> HIDE DEF S
  <2> QED
    BY <1>4, <1>5, NatSetInduction
<1>7. B(n + 1) = R * A(n) + F
  <2>1. n \in S /\ n <= n
    BY <1>6
  <2> QED
    BY <2>1
<1>8. Due(rate, n) = A(n) /\ Due(rate, n + 1) = B(n + 1)
  BY <1>1, DueIsPartial
<1>9. Due(rate, 0) = 0
  BY DueIsPartial, PartialRule
<1> QED
  BY <1>2, <1>7, <1>8, <1>9

\* The closed form: r times the annuity is (1+r)^n - 1, over the denominator.
LEMMA AnnuityClosed ==
  ASSUME NEW rate \in Nat, NEW n \in Nat
  PROVE  /\ Due(rate, n) \in Nat
         /\ n > 0 => Due(rate, n) >= Pow(RateMicroScale, n)
         /\ rate * Due(rate, n)
              = RateMicroScale * (Pow(RateMicroScale + rate, n) - Pow(RateMicroScale, n))
         /\ rate = 0 => Due(rate, n) = n * Pow(RateMicroScale, n)
<1> DEFINE S == RateMicroScale
           R == RateMicroScale + rate
           D(k) == Due(rate, k)
           G(k) == Pow(R, k)
           F(k) == Pow(S, k)
           T == {k \in Nat : /\ D(k) \in Nat
                             /\ k > 0 => D(k) >= F(k)
                             /\ rate * D(k) = S * (G(k) - F(k))
                             /\ rate = 0 => D(k) = k * F(k)}
<1>1. S \in Nat \ {0} /\ R \in Nat \ {0} /\ R = S + rate /\ (rate = 0 => R = S)
  BY ScaleAssumption
<1>2. \A k \in Nat : /\ D(0) = 0 /\ D(k) \in Int /\ D(k + 1) = R * D(k) + F(k + 1)
  BY DueRule
<1>3. \A k \in Nat : /\ G(0) = 1 /\ G(k) \in Int /\ G(k + 1) = R * G(k)
                     /\ F(0) = 1 /\ F(k) \in Int /\ F(k + 1) = S * F(k)
  BY <1>1, PowRule
<1>4. \A k \in Nat : F(k) > 0
  BY <1>1, PowPositive
<1> HIDE DEF D, G, F, S, R
<1>5. 0 \in T
  <2>1. D(0) = 0 /\ G(0) = 1 /\ F(0) = 1
    BY <1>2, <1>3
  <2>2. rate * 0 = S * (1 - 1) /\ 0 = 0 * 1
    BY <1>1
  <2> QED
    BY <2>1, <2>2
<1>6. ASSUME NEW k \in Nat, k \in T PROVE k + 1 \in T
  <2>1. /\ D(k) \in Nat /\ rate * D(k) = S * (G(k) - F(k))
        /\ rate = 0 => D(k) = k * F(k)
    BY <1>6
  <2>2. /\ D(k + 1) = R * D(k) + F(k + 1) /\ G(k + 1) = R * G(k) /\ F(k + 1) = S * F(k)
        /\ G(k) \in Int /\ F(k) \in Int /\ F(k + 1) \in Int /\ F(k + 1) > 0 /\ G(k + 1) \in Int
        /\ k + 1 \in Nat
    BY <1>2, <1>3, <1>4
  <2>3. R * D(k) \in Nat
    BY <1>1, <2>1
  <2>4. D(k + 1) \in Nat /\ D(k + 1) >= F(k + 1)
    BY <2>2, <2>3
  <2>5. rate * D(k + 1) = S * (G(k + 1) - F(k + 1))
    <3>1. rate * (R * D(k)) = R * (rate * D(k))
      BY <1>1, <2>1
    <3>2. rate * D(k + 1) = R * (S * (G(k) - F(k))) + rate * F(k + 1)
      BY <1>1, <2>1, <2>2, <2>3, <3>1
    <3>3. R * (S * (G(k) - F(k))) = S * (R * G(k)) - R * (S * F(k))
      BY <1>1, <2>2
    <3>4. R * (S * F(k)) = S * F(k + 1) + rate * F(k + 1)
      BY <1>1, <2>2
    <3>5. S * (G(k + 1) - F(k + 1)) = S * (R * G(k)) - S * F(k + 1)
      BY <1>1, <2>2
    <3> QED
      BY <3>2, <3>3, <3>4, <3>5, <1>1, <2>2
  <2>6. ASSUME rate = 0 PROVE D(k + 1) = (k + 1) * F(k + 1)
    <3>1. R * D(k) = k * (S * F(k))
      BY <1>1, <2>1, <2>2, <2>6
    <3> QED
      BY <2>2, <3>1
  <2> QED
    BY <2>2, <2>4, <2>5, <2>6
<1>7. Nat \subseteq T
  <2> HIDE DEF T
  <2> QED
    BY <1>5, <1>6, NatSetInduction
<1>8. n \in T
  BY <1>7
<1> QED
  BY <1>8 DEF D, G, F, S, R

-----------------------------------------------------------------------------
(***************************************************************************)
(* Rounding errors                                                         *)
(***************************************************************************)

\* x lies within a of zero.
Within(x, a) == -a <= x /\ x <= a

\* An interest of one period is the exact one up to half a cent.
InterestIsNear(interest, balance, rate) ==
  Within(2 * RateMicroScale * interest - 2 * (balance * rate), RateMicroScale)

\* A balance b is what is left of owed after payments of p, up to half the
\* annuity d: over the common denominator f, with g the growth of the debt.
BalanceIsNear(b, owed, p, f, g, d) == Within(2 * f * b - 2 * owed * g + 2 * p * d, d)

\* Rounding to a cent is off by half a cent at most.
LEMMA RoundCentsNear ==
  ASSUME NEW num \in Int, NEW den \in Nat \ {0}
  PROVE  /\ RoundCents(num, den) \in Int
         /\ Within(2 * den * RoundCents(num, den) - 2 * num, den)
<1> DEFINE q == RoundCents(num, den)
<1>1. ASSUME NEW x \in Int
      PROVE  LET d == x \div (2 * den)
             IN  d \in Int /\ 2 * den * d <= x /\ x < 2 * den * d + 2 * den
  <2> DEFINE e == 2 * den
  <2>1. e \in Nat \ {0}
    OBVIOUS
  <2> HIDE DEF e
  <2>2. x \div e \in Int /\ e * (x \div e) <= x /\ x < e * (x \div e) + e
    BY <2>1, DivBounds
  <2> QED
    BY <2>2 DEF e
<1>2. CASE num >= 0
  <2> DEFINE x == 2 * num + den
             d == x \div (2 * den)
  <2>1. q = d /\ x \in Int /\ x = 2 * num + den
    BY <1>2 DEF RoundCents
  <2>2. d \in Int /\ 2 * den * d <= x /\ x < 2 * den * d + 2 * den
    BY <1>1, <2>1
  <2> HIDE DEF d, q, x
  <2>3. Within(2 * den * q - 2 * num, den) /\ q \in Int
    BY <2>1, <2>2 DEF Within
  <2> QED
    BY <2>3 DEF q
<1>3. CASE ~(num >= 0)
  <2> DEFINE x == den - 2 * num
             d == x \div (2 * den)
  <2>1. q = -d /\ x \in Int /\ x = den - 2 * num
    BY <1>3 DEF RoundCents
  <2>2. d \in Int /\ 2 * den * d <= x /\ x < 2 * den * d + 2 * den
    BY <1>1, <2>1
  <2> HIDE DEF d, q, x
  <2>3. 2 * den * (-d) = -(2 * den * d)
    BY <2>2
  <2>4. Within(2 * den * q - 2 * num, den) /\ q \in Int
    BY <2>1, <2>2, <2>3 DEF Within
  <2> QED
    BY <2>4 DEF q
<1> QED
  BY <1>2, <1>3

\* So is the interest of a period.
LEMMA InterestNear ==
  ASSUME NEW balance \in Int, NEW rate \in Nat
  PROVE  /\ MulRateMicro(balance, rate) \in Int
         /\ InterestIsNear(MulRateMicro(balance, rate), balance, rate)
<1> DEFINE num == balance * rate
<1>1. num \in Int /\ RateMicroScale \in Nat \ {0}
  BY ScaleAssumption
<1>2. MulRateMicro(balance, rate) = RoundCents(num, RateMicroScale)
  BY DEF MulRateMicro
<1> HIDE DEF num
<1>3. /\ RoundCents(num, RateMicroScale) \in Int
      /\ Within(2 * RateMicroScale * RoundCents(num, RateMicroScale) - 2 * num, RateMicroScale)
  BY <1>1, RoundCentsNear
<1> QED
  BY <1>2, <1>3 DEF num, InterestIsNear

LEMMA PowFacts ==
  ASSUME NEW base \in Nat \ {0}, NEW k \in Nat
  PROVE  /\ Pow(base, k) \in Nat \ {0}
         /\ Pow(base, 0) = 1
         /\ Pow(base, k + 1) = base * Pow(base, k)
BY PowRule, PowPositive

\* One period of a plan at a fixed payment p: the error x of the balance b
\* compounds, and the rounding of the interest joins it.
LEMMA ErrorStep ==
  ASSUME NEW rate \in Nat, NEW f \in Nat, NEW g \in Int,
         NEW d \in Int, NEW b \in Int, NEW interest \in Int, NEW p \in Int, NEW owed \in Int,
         NEW b1, NEW f1, NEW g1, NEW d1,
         b1 = b - (p - interest), f1 = RateMicroScale * f,
         g1 = (RateMicroScale + rate) * g, d1 = (RateMicroScale + rate) * d + RateMicroScale * f,
         InterestIsNear(interest, b, rate),
         BalanceIsNear(b, owed, p, f, g, d)
  PROVE  BalanceIsNear(b1, owed, p, f1, g1, d1)
<1> DEFINE scale == RateMicroScale
           R == scale + rate
           e == 2 * scale * interest - 2 * (b * rate)
           x == 2 * f * b - 2 * owed * g + 2 * p * d
           y == 2 * (scale * f) * (b - (p - interest)) - 2 * owed * (R * g)
                  + 2 * p * (R * d + scale * f)
<1>0. scale \in Nat \ {0}
  BY ScaleAssumption
<1> HIDE DEF scale
<1>1. R \in Nat /\ e \in Int /\ x \in Int
  BY <1>0
<1>2. y = R * x + f * e
  <2>1. R * x = 2 * scale * f * b + 2 * rate * f * b - 2 * owed * (R * g) + 2 * p * (R * d)
    BY <1>0
  <2>2. f * e = 2 * scale * f * interest - 2 * rate * f * b
    BY <1>0
  <2>3. y = 2 * scale * f * b - 2 * p * (scale * f) + 2 * scale * f * interest
              - 2 * owed * (R * g) + 2 * p * (R * d) + 2 * p * (scale * f)
    BY <1>0
  <2> QED
    BY <1>0, <2>1, <2>2, <2>3
<1>3. -d <= x /\ x <= d /\ -scale <= e /\ e <= scale
  BY DEF Within, InterestIsNear, BalanceIsNear, scale
<1> HIDE DEF x, e, R
<1>4. R * x <= R * d /\ R * (-d) <= R * x
  <2>1. R * (d - x) >= 0 /\ R * (d + x) >= 0
    BY <1>0, <1>1, <1>3
  <2> QED
    BY <1>0, <1>1, <2>1
<1>5. f * e <= scale * f /\ -(scale * f) <= f * e
  <2>1. f * (scale - e) >= 0 /\ f * (scale + e) >= 0
    BY <1>0, <1>1, <1>3
  <2> QED
    BY <1>0, <1>1, <2>1
<1>6. Within(R * x + f * e, R * d + scale * f)
  <2>1. R * (-d) = -(R * d) /\ R * d \in Int /\ R * x \in Int /\ f * e \in Int /\ scale * f \in Int
    BY <1>0, <1>1
  <2> QED
    BY <1>4, <1>5, <2>1 DEF Within
<1>7. Within(y, d1)
  BY <1>2, <1>6 DEF R, scale
<1> HIDE DEF y
<1>8. y = 2 * f1 * b1 - 2 * owed * g1 + 2 * p * d1
  BY DEF y, R, scale
<1> QED
  BY <1>7, <1>8 DEF BalanceIsNear

\* Before its last period, the balance of a plan at a fixed payment is the
\* exact one up to half a cent per period paid, compounded.
LEMMA BalanceNearAnnuity ==
  ASSUME NEW i \in ScheduleInputs, NEW p \in Int, NEW m \in Nat, m < i.periods
  PROVE  LET b == Balance(i, FixedPaymentDue(i, p), m)
         IN  /\ b \in Int
             /\ BalanceIsNear(b, i.outstanding, p, Pow(RateMicroScale, m),
                              Pow(RateMicroScale + i.rate, m), Due(i.rate, m))
<1> DEFINE S    == RateMicroScale
           R    == RateMicroScale + i.rate
           P    == i.outstanding
           due  == FixedPaymentDue(i, p)
           b(k) == Balance(i, due, k)
           D(k) == Due(i.rate, k)
           F(k) == Pow(S, k)
           G(k) == Pow(R, k)
           T    == {k \in Nat : k < i.periods =>
                      BalanceIsNear(b(k), P, p, F(k), G(k), D(k))}
<1>1. P \in Nat /\ i.rate \in Nat /\ i.periods \in Nat \ {0} /\ S \in Nat \ {0}
      /\ R = S + i.rate /\ R \in Nat \ {0}
  BY ScaleAssumption DEF ScheduleInputs
<1>2. due \in Steps(i.periods)
  BY FixedPaymentDueType
<1>3. /\ b(0) = P
      /\ \A k \in 0 .. i.periods : b(k) \in Int
      /\ \A k \in 1 .. i.periods : b(k) = b(k - 1) - due[k][b(k - 1)]
  BY <1>2, BalanceRule
<1>4. \A k \in Nat : /\ D(k) \in Nat /\ D(0) = 0 /\ D(k + 1) = R * D(k) + F(k + 1)
  BY <1>1, DueRule, AnnuityClosed
<1>5. \A k \in Nat : /\ F(k) \in Nat \ {0} /\ F(0) = 1 /\ F(k + 1) = S * F(k)
                     /\ G(k) \in Nat \ {0} /\ G(0) = 1 /\ G(k + 1) = R * G(k)
  <2> TAKE k \in Nat
  <2>1. /\ F(k) \in Nat \ {0} /\ F(0) = 1 /\ F(k + 1) = S * F(k)
    BY <1>1, PowFacts
  <2>2. /\ G(k) \in Nat \ {0} /\ G(0) = 1 /\ G(k + 1) = R * G(k)
    BY <1>1, PowFacts
  <2> QED
    BY <2>1, <2>2
<1>6. 0 \in T
  <2>1. D(0) = 0 /\ F(0) = 1 /\ G(0) = 1 /\ b(0) = P
    BY <1>3, <1>4, <1>5
  <2>2. 2 * 1 * P - 2 * P * 1 + 2 * p * 0 = 0
    BY <1>1
  <2> HIDE DEF b, D, F, G
  <2> QED
    BY <2>1, <2>2 DEF Within, BalanceIsNear
<1>7. ASSUME NEW k \in Nat, k \in T PROVE k + 1 \in T
  <2>1. SUFFICES ASSUME k + 1 < i.periods
                 PROVE  BalanceIsNear(b(k + 1), P, p, F(k + 1), G(k + 1), D(k + 1))
    OBVIOUS
  <2> DEFINE interest == MulRateMicro(b(k), i.rate)
  <2>2. k + 1 \in 1 .. i.periods /\ (k + 1) - 1 = k /\ k \in 0 .. i.periods /\ k < i.periods
    BY <2>1, <1>1
  <2>3. b(k) \in Int
    BY <1>3, <2>2
  <2>4. due[k + 1][b(k)] = p - interest
    BY <2>1, <2>2, <2>3 DEF FixedPaymentDue
  <2>5. b(k + 1) = b(k) - (p - interest)
    BY <1>3, <2>2, <2>4
  <2>6. /\ interest \in Int
        /\ InterestIsNear(interest, b(k), i.rate)
    BY <1>1, <2>3, InterestNear
  <2>7. BalanceIsNear(b(k), P, p, F(k), G(k), D(k))
    BY <1>7, <2>2
  <2>8. D(k) \in Int /\ F(k) \in Nat /\ G(k) \in Int
    BY <1>4, <1>5
  <2>9. /\ D(k + 1) = R * D(k) + S * F(k)
        /\ F(k + 1) = S * F(k) /\ G(k + 1) = R * G(k)
    BY <1>4, <1>5
  <2> HIDE DEF b, D, F, G, P, interest, due
  <2> QED
    BY <1>1, <2>3, <2>5, <2>6, <2>7, <2>8, <2>9, ErrorStep
<1>8. Nat \subseteq T
  <2> HIDE DEF T
  <2> QED
    BY <1>6, <1>7, NatSetInduction
<1>9. m \in T
  BY <1>8
<1>10. m \in 0 .. i.periods
  BY <1>1
<1>11. b(m) \in Int
  BY <1>3, <1>10
<1> QED
  BY <1>9, <1>11

\* What the last payment differs by from the fixed one is what the exact
\* annuity leaves over, up to the same error.
LEMMA LastPaymentNearAnnuity ==
  ASSUME NEW i \in ScheduleInputs, NEW p \in Int
  PROVE  LET n    == i.periods
             last == Amortize(i, FixedPaymentDue(i, p))[n].payment
         IN  /\ last \in Int
             /\ BalanceIsNear(last - p, i.outstanding, p, Pow(RateMicroScale, n),
                              Pow(RateMicroScale + i.rate, n), Due(i.rate, n))
<1> DEFINE S    == RateMicroScale
           R    == RateMicroScale + i.rate
           P    == i.outstanding
           due  == FixedPaymentDue(i, p)
           n    == i.periods
           k    == i.periods - 1
           b    == Balance(i, due, k)
           D(j) == Due(i.rate, j)
           F(j) == Pow(S, j)
           G(j) == Pow(R, j)
           interest == MulRateMicro(b, i.rate)
           last == Amortize(i, due)[n].payment
<1>1. /\ P \in Nat /\ i.rate \in Nat /\ i.periods \in Nat \ {0} /\ S \in Nat \ {0}
      /\ R = S + i.rate /\ R \in Nat \ {0}
      /\ k \in Nat /\ k < i.periods /\ k + 1 = n /\ n \in 1 .. n
  BY ScaleAssumption DEF ScheduleInputs
<1>2. due \in Steps(i.periods)
  BY FixedPaymentDueType
<1>3. /\ b \in Int
      /\ BalanceIsNear(b, P, p, F(k), G(k), D(k))
  BY <1>1, BalanceNearAnnuity
<1>4. due[n][b] = b
  BY <1>1, <1>3 DEF FixedPaymentDue
<1>5. last = b + interest
  <2>1. /\ Amortize(i, due)[n].principal = due[n][b]
        /\ Amortize(i, due)[n].interest = interest
        /\ last = Amortize(i, due)[n].principal + Amortize(i, due)[n].interest
    BY <1>1, <1>2, AmortizeRows
  <2> QED
    BY <1>4, <2>1
<1>6. /\ interest \in Int
      /\ InterestIsNear(interest, b, i.rate)
  BY <1>1, <1>3, InterestNear
<1>7. /\ D(k) \in Int /\ F(k) \in Nat /\ G(k) \in Int
      /\ D(n) = R * D(k) + S * F(k) /\ F(n) = S * F(k) /\ G(n) = R * G(k)
  <2>1. D(k) \in Int /\ D(k + 1) = R * D(k) + F(k + 1)
    BY <1>1, DueRule
  <2> HIDE DEF k, R, S, n
  <2>2. F(k) \in Nat \ {0} /\ F(k + 1) = S * F(k)
    BY <1>1, PowFacts
  <2>3. G(k) \in Nat \ {0} /\ G(k + 1) = R * G(k)
    BY <1>1, PowFacts
  <2> HIDE DEF D, F, G
  <2> QED
    BY <1>1, <2>1, <2>2, <2>3
<1> HIDE DEF b, D, F, G, P, interest, due, last, n, k
<1>8. last \in Int /\ last - p = b - (p - interest)
  BY <1>3, <1>5, <1>6
<1>9. BalanceIsNear(last - p, P, p, F(n), G(n), D(n))
  BY <1>1, <1>3, <1>6, <1>7, <1>8, ErrorStep
<1> QED
  BY <1>8, <1>9 DEF D, F, G, P, last, n, due

-----------------------------------------------------------------------------
(***************************************************************************)
(* The payment                                                             *)
(***************************************************************************)

LEMMA WithinScaled ==
  ASSUME NEW x \in Int, NEW a \in Int, NEW f \in Nat, Within(x, a)
  PROVE  Within(f * x, f * a)
<1>1. f * (a - x) >= 0 /\ f * (a + x) >= 0
  BY DEF Within
<1>2. f * (a - x) = f * a - f * x /\ f * (a + x) = f * a + f * x
      /\ f * a \in Int /\ f * x \in Int
  OBVIOUS
<1> QED
  BY <1>1, <1>2 DEF Within

LEMMA WithinCancelled ==
  ASSUME NEW x \in Int, NEW a \in Int, NEW f \in Nat \ {0}, Within(f * x, f * a)
  PROVE  Within(x, a)
<1>1. f * (a - x) >= 0 /\ f * (a + x) >= 0
  <2>1. f * (a - x) = f * a - f * x /\ f * (a + x) = f * a + f * x
        /\ f * a \in Int /\ f * x \in Int
    OBVIOUS
  <2> QED
    BY <2>1 DEF Within
<1>2. a - x >= 0
  <2>1. SUFFICES ASSUME x - a > 0 PROVE FALSE
    OBVIOUS
  <2>2. f * (x - a) > 0
    BY <2>1, TimesPositive
  <2>3. f * (x - a) = -(f * (a - x))
    OBVIOUS
  <2> QED
    BY <1>1, <2>2, <2>3
<1>3. a + x >= 0
  <2>1. SUFFICES ASSUME -(a + x) > 0 PROVE FALSE
    OBVIOUS
  <2>2. f * (-(a + x)) > 0
    BY <2>1, TimesPositive
  <2>3. f * (-(a + x)) = -(f * (a + x))
    OBVIOUS
  <2> QED
    BY <1>1, <2>2, <2>3
<1> QED
  BY <1>2, <1>3 DEF Within

\* The rounded payment repays the debt up to half a cent per period.
LEMMA PaymentNearAnnuity ==
  ASSUME NEW owed \in Nat \ {0}, NEW rate \in Nat, NEW n \in Nat \ {0}
  PROVE  /\ PaymentAmount(owed, rate, n) \in Int
         /\ Within(2 * (PaymentAmount(owed, rate, n) * Due(rate, n))
                     - 2 * (owed * Pow(RateMicroScale + rate, n)), Due(rate, n))
<1> DEFINE S == RateMicroScale
           R == RateMicroScale + rate
           p == PaymentAmount(owed, rate, n)
           D == Due(rate, n)
           F == Pow(S, n)
           G == Pow(R, n)
<1>1. S \in Nat \ {0} /\ R \in Nat \ {0} /\ (rate = 0 => R = S)
  BY ScaleAssumption
<1>2. F \in Nat \ {0} /\ G \in Nat \ {0}
  BY <1>1, PowPositive
<1>3. /\ D \in Nat /\ D >= F /\ rate * D = S * (G - F)
      /\ rate = 0 => D = n * F
  <2>1. n \in Nat /\ n > 0
    OBVIOUS
  <2>2. D \in Nat /\ D >= F
    BY <2>1, AnnuityClosed
  <2>3. rate * D = S * (G - F)
    BY <2>1, AnnuityClosed
  <2>4. rate = 0 => D = n * F
    BY <2>1, AnnuityClosed
  <2> QED
    BY <2>2, <2>3, <2>4
<1>4. p \in Int
  BY PaymentAmountCoversInterest
<1>5. CASE rate = 0
  <2>1. p = RoundCents(owed, n) /\ G = F /\ D = n * F
    BY <1>1, <1>3, <1>5 DEF PaymentAmount
  <2> DEFINE x == 2 * n * p - 2 * owed
             y == 2 * (p * D) - 2 * (owed * G)
  <2>2. Within(x, n) /\ x \in Int
    BY <1>4, <2>1, RoundCentsNear
  <2>3. F * x = y /\ F * n = D
    <3> HIDE DEF p, D, F, G
    <3>1. F * x = 2 * (p * (n * F)) - 2 * (owed * F)
      BY <1>2, <1>4
    <3> QED
      BY <1>2, <2>1, <3>1
  <2> HIDE DEF x, y, p, D, F, G
  <2>4. F \in Nat /\ n \in Int
    BY <1>2
  <2>5. Within(F * x, F * n)
    BY <2>2, <2>4, WithinScaled
  <2>6. Within(y, D)
    BY <2>3, <2>5
  <2> QED
    BY <1>4, <2>6 DEF y, p, D, G
<1>6. CASE rate # 0
  <2> DEFINE num == owed * rate * G
             den == S * (G - F)
  <2>1. p = RoundCents(num, den)
    BY <1>6 DEF PaymentAmount
  <2>2. rate \in Nat \ {0} /\ den = rate * D /\ D \in Nat \ {0}
    BY <1>2, <1>3, <1>6
  <2>3. rate * D > 0
    BY <2>2, TimesPositive
  <2>4. num \in Int /\ den \in Nat \ {0}
    BY <1>2, <2>2, <2>3
  <2> HIDE DEF p, num, den, D, F, G
  <2>5. Within(2 * den * p - 2 * num, den)
    BY <2>1, <2>4, RoundCentsNear
  <2>6. 2 * den * p - 2 * num = rate * (2 * (p * D) - 2 * (owed * G))
    <3>1. 2 * den * p = rate * (2 * (p * D))
      BY <1>4, <2>2
    <3>2. 2 * num = rate * (2 * (owed * G))
      BY <1>2 DEF num
    <3>3. p * D \in Int /\ owed * G \in Int
      BY <1>2, <1>4, <2>2
    <3> QED
      BY <3>1, <3>2, <3>3
  <2>7. p * D \in Int /\ owed * G \in Int /\ D \in Int
    BY <1>2, <1>4, <2>2
  <2> DEFINE x == 2 * (p * D) - 2 * (owed * G)
  <2>8. x \in Int
    BY <2>7
  <2>9. Within(rate * x, rate * D)
    BY <2>2, <2>5, <2>6
  <2> HIDE DEF x
  <2>10. Within(x, D)
    BY <2>2, <2>7, <2>8, <2>9, WithinCancelled
  <2> QED
    BY <1>4, <2>10 DEF x, p, D, G
<1> QED
  BY <1>4, <1>5, <1>6

\* An annuity plan Build returned: its payment is that of the formula.
LEMMA BuildReturnedType ==
  ASSUME Returned, op = "Build", in.type = "equal_installment"
  PROVE  /\ in \in ScheduleInputs
         /\ in.outstanding \in Nat \ {0} /\ in.rate \in Nat /\ in.periods \in Nat \ {0}
         /\ rows = Build(in)
         /\ payment = PaymentAmount(in.outstanding, in.rate, in.periods)
BY DEF Returned, BuildReturned, FixedPaymentReturned, ScheduleInputs

LEMMA ReturnedIsPresentValue == Returned => PaymentIsPresentValue
<1> SUFFICES ASSUME Returned, op = "Build", in.type = "equal_installment"
             PROVE  2 * Abs(payment * Annuity(in.rate, in.periods, 0, in.periods - 1)
                              - in.outstanding * Growth(in.rate, in.periods, in.periods))
                      <= Annuity(in.rate, in.periods, 0, in.periods - 1)
  BY DEF PaymentIsPresentValue
<1> DEFINE n == in.periods
           D == Due(in.rate, n)
           G == Pow(RateMicroScale + in.rate, n)
<1>1. /\ in.outstanding \in Nat \ {0} /\ in.rate \in Nat /\ n \in Nat \ {0}
      /\ payment = PaymentAmount(in.outstanding, in.rate, n)
  BY BuildReturnedType
<1>2. payment \in Int /\ Within(2 * (payment * D) - 2 * (in.outstanding * G), D)
  BY <1>1, PaymentNearAnnuity
<1>3. Growth(in.rate, n, n) = G
  <2>1. n \in 0 .. n
    BY <1>1
  <2> QED
    BY <1>1, <2>1, GrowthStep
<1>4. G \in Int /\ D \in Int
  <2>1. RateMicroScale + in.rate \in Int
    BY <1>1, ScaleAssumption
  <2> QED
    <3>1. G \in Int
      BY <1>1, <2>1, PowRule
    <3>2. D \in Int
      BY <1>1, DueRule
    <3> QED
      BY <3>1, <3>2
<1>5. D = Annuity(in.rate, in.periods, 0, in.periods - 1)
  BY DEF Due
<1> HIDE DEF D, G
<1>6. payment * D \in Int /\ in.outstanding * G \in Int
  BY <1>1, <1>2, <1>4
<1>7. 2 * Abs(payment * D - in.outstanding * G) <= D
  BY <1>2, <1>4, <1>6 DEF Within, Abs
<1> QED
  BY <1>3, <1>5, <1>7

\* The annuity payment is the cent nearest to the one whose present value is
\* the principal, for every rate and every number of periods: the closed
\* formula of schedule.go:51 is the sum it abbreviates.
THEOREM PaymentAlwaysPresentValue == Spec => []PaymentIsPresentValue
BY ReturnedAlways, ReturnedIsPresentValue, PTL

-----------------------------------------------------------------------------
(***************************************************************************)
(* The tail of an annuity                                                  *)
(***************************************************************************)

LEMMA AbsTimes ==
  ASSUME NEW x \in Int, NEW f \in Nat, NEW a \in Int, Within(2 * f * x, 2 * a)
  PROVE  Abs(x) * f <= a
<1>1. CASE x < 0
  <2>1. Abs(x) = -x /\ (-x) * f = -(f * x) /\ f * x \in Int /\ 2 * f * x = 2 * (f * x)
    BY <1>1 DEF Abs
  <2> QED
    BY <2>1 DEF Within
<1>2. CASE ~(x < 0)
  <2>1. Abs(x) = x /\ x * f = f * x /\ f * x \in Int /\ 2 * f * x = 2 * (f * x)
    BY <1>2 DEF Abs
  <2> QED
    BY <2>1 DEF Within
<1> QED
  BY <1>1, <1>2

LEMMA NoRateNoInterest ==
  ASSUME NEW balance \in Int
  PROVE  MulRateMicro(balance, 0) = 0
<1> DEFINE x == MulRateMicro(balance, 0)
<1>1. RateMicroScale \in Nat \ {0} /\ 0 \in Nat /\ balance * 0 = 0
  BY ScaleAssumption
<1>2. x = RoundCents(0, RateMicroScale)
  BY <1>1 DEF MulRateMicro
<1>3. RoundCents(0, RateMicroScale) = 0
  BY <1>1 DEF RoundCents
<1> QED
  BY <1>2, <1>3

\* The annuity plan of a loan without interest: an equal split of the
\* principal, whose last payment is the quotient.
LEMMA FlatTail ==
  ASSUME NEW i \in ScheduleInputs, i.type = "equal_installment", i.rate = 0
  PROVE  Build(i)[i.periods].payment = i.outstanding \div i.periods
<1> DEFINE due  == EqualPrincipalDue(i)
           n    == i.periods
           base == i.outstanding \div i.periods
           rem  == i.outstanding % i.periods
           b    == Balance(i, due, n - 1)
<1>1. n \in Nat \ {0} /\ n \in 1 .. n /\ n - 1 \in 0 .. n
  BY DEF ScheduleInputs
<1>2. due \in Steps(n)
  BY EqualPrincipalDueType
<1>3. Build(i) = Amortize(i, due)
  BY DEF Build, EqualInstallmentDue
<1>4. b \in Int
  BY <1>1, <1>2, BalanceRule
<1>5. base \in Nat /\ rem \in Nat /\ ~(n <= rem)
  BY <1>1, EqualPrincipalSplit
<1>6. due[n][b] = base
  BY <1>1, <1>4, <1>5 DEF EqualPrincipalDue
<1>7. /\ Amortize(i, due)[n].principal = due[n][b]
      /\ Amortize(i, due)[n].interest = MulRateMicro(b, i.rate)
      /\ Amortize(i, due)[n].payment
           = Amortize(i, due)[n].principal + Amortize(i, due)[n].interest
  BY <1>1, <1>2, AmortizeRows
<1>8. MulRateMicro(b, i.rate) = 0
  BY <1>4, NoRateNoInterest
<1> QED
  BY <1>3, <1>5, <1>6, <1>7, <1>8

LEMMA ReturnedAbsorbsRounding == Returned => TailAbsorbsRounding
<1> SUFFICES ASSUME Returned, op = "Build", in.type = "equal_installment"
             PROVE  Abs(rows[in.periods].payment - payment) * Pow(RateMicroScale, in.periods)
                      <= Annuity(in.rate, in.periods, 0, in.periods - 1)
  BY DEF TailAbsorbsRounding
<1> DEFINE n    == in.periods
           P    == in.outstanding
           D    == Due(in.rate, n)
           F    == Pow(RateMicroScale, n)
           G    == Pow(RateMicroScale + in.rate, n)
           last == rows[n].payment
<1>1. /\ in \in ScheduleInputs
      /\ P \in Nat \ {0} /\ in.rate \in Nat /\ n \in Nat \ {0}
      /\ payment = PaymentAmount(P, in.rate, n) /\ rows = Build(in)
  BY BuildReturnedType
<1>2. payment \in Int
  BY <1>1, PaymentNearAnnuity
<1>3. F \in Nat \ {0} /\ G \in Nat \ {0}
  <2>1. RateMicroScale \in Nat \ {0} /\ RateMicroScale + in.rate \in Nat \ {0}
    BY <1>1, ScaleAssumption
  <2> QED
    BY <1>1, <2>1, PowPositive
<1>4. D \in Nat /\ D >= F
  <2>1. n \in Nat /\ n > 0
    BY <1>1
  <2> QED
    BY <1>1, <2>1, AnnuityClosed
<1>5. CASE in.rate = 0
  <2> DEFINE base == P \div n
             rem  == P % n
  <2>1. last = base
    BY <1>1, <1>5, FlatTail
  <2>2. base \in Nat /\ rem \in Nat /\ rem < n /\ P = n * base + rem
    BY <1>1, QuotientRemainder
  <2>3. payment = RoundCents(P, n)
    BY <1>1, <1>5 DEF PaymentAmount
  <2> HIDE DEF base, rem, P, n
  <2>4. Within(2 * n * payment - 2 * P, n)
    <3>1. P \in Int /\ n \in Nat \ {0}
      BY <1>1
    <3>2. Within(2 * n * RoundCents(P, n) - 2 * P, n)
      BY <3>1, RoundCentsNear
    <3> QED
      BY <2>3, <3>2
  <2>5. n * (payment - base) = n * payment - n * base /\ n * payment \in Int /\ n * base \in Int
        /\ 2 * n * payment = 2 * (n * payment)
    BY <1>1, <1>2, <2>2
  <2>6. 2 * (n * (payment - base)) >= -n /\ 2 * (n * (payment - base)) < 3 * n
    BY <1>1, <2>2, <2>4, <2>5 DEF Within
  <2>7. payment - base \in {0, 1}
    <3> DEFINE x == payment - base
    <3>1. x \in Int
      BY <1>2, <2>2
    <3>2. 2 * (n * x) >= -n /\ 2 * (n * x) < 3 * n
      BY <2>6
    <3> HIDE DEF x
    <3>3. ASSUME x <= -1 PROVE FALSE
      <4>1. n * (-1 - x) >= 0
        BY <1>1, <3>1, <3>3
      <4>2. n * (-1 - x) = -n - n * x /\ n * x \in Int
        BY <1>1, <3>1
      <4> QED
        BY <1>1, <3>2, <4>1, <4>2
    <3>4. ASSUME x >= 2 PROVE FALSE
      <4>1. n * (x - 2) >= 0
        BY <1>1, <3>1, <3>4
      <4>2. n * (x - 2) = n * x - 2 * n /\ n * x \in Int
        BY <1>1, <3>1
      <4> QED
        BY <1>1, <3>2, <4>1, <4>2
    <3>5. x \in {0, 1}
      BY <3>1, <3>3, <3>4
    <3> QED
      BY <3>5 DEF x
  <2>8. Abs(last - payment) \in {0, 1}
    BY <1>2, <2>1, <2>2, <2>7 DEF Abs
  <2> HIDE DEF last, D, F
  <2>9. Abs(last - payment) * F <= D
    <3>1. CASE Abs(last - payment) = 0
      BY <1>3, <1>4, <3>1
    <3>2. CASE Abs(last - payment) = 1
      BY <1>3, <1>4, <3>2
    <3> QED
      BY <2>8, <3>1, <3>2
  <2> QED
    BY <2>9 DEF last, n, D, F, Due
<1>6. CASE in.rate # 0
  <2>1. rows = Amortize(in, FixedPaymentDue(in, payment))
    BY <1>1, <1>6 DEF Build, EqualInstallmentDue
  <2>2. last \in Int /\ BalanceIsNear(last - payment, P, payment, F, G, D)
    BY <1>1, <1>2, <2>1, LastPaymentNearAnnuity
  <2>3. Within(2 * (payment * D) - 2 * (P * G), D)
    BY <1>1, PaymentNearAnnuity
  <2>4. last - payment \in Int
    BY <1>2, <2>2
  <2> DEFINE x == last - payment
  <2> HIDE DEF last, D, F, G, P
  <2>5. Within(2 * F * x, 2 * D)
    <3>1. payment * D \in Int /\ P * G \in Int /\ 2 * F * x \in Int
      BY <1>1, <1>2, <1>3, <1>4, <2>4
    <3>2. Within(2 * F * x - 2 * P * G + 2 * payment * D, D)
      BY <2>2 DEF BalanceIsNear
    <3>3. 2 * P * G = 2 * (P * G) /\ 2 * payment * D = 2 * (payment * D)
      BY <1>1, <1>2, <1>3, <1>4
    <3> HIDE DEF x
    <3> QED
      BY <1>4, <2>3, <3>1, <3>2, <3>3 DEF Within
  <2> HIDE DEF x
  <2>6. Abs(x) * F <= D
    BY <1>3, <1>4, <2>4, <2>5, AbsTimes DEF x
  <2> QED
    BY <2>6 DEF x, last, n, D, F, Due
<1> QED
  BY <1>5, <1>6

\* The last payment of every annuity plan differs from the others by no more
\* than a cent per period, compounded to maturity (domain.go:42).
THEOREM TailAlwaysAbsorbsRounding == Spec => []TailAbsorbsRounding
BY ReturnedAlways, ReturnedAbsorbsRounding, PTL

-----------------------------------------------------------------------------
(***************************************************************************)
(* The term reduce_term solves for                                         *)
(***************************************************************************)

LEMMA SignCancelled ==
  ASSUME NEW f \in Nat \ {0}, NEW x \in Int
  PROVE  /\ f * x >= 0 <=> x >= 0
         /\ f * x = 0 <=> x = 0
<1>1. CASE x = 0
  BY <1>1
<1>2. CASE x > 0
  BY <1>2, TimesPositive
<1>3. CASE x < 0
  <2>1. f * (-x) > 0
    BY <1>3, TimesPositive
  <2>2. f * (-x) = -(f * x) /\ f * x \in Int
    OBVIOUS
  <2> QED
    BY <1>3, <2>1, <2>2
<1> QED
  BY <1>1, <1>2, <1>3

\* What m payments of p leave of the debt, over the common denominator: the
\* condition recast.go:58 takes the logarithm of, without its division.
LEMMA AmortizesAnnuity ==
  ASSUME NEW i \in ScheduleInputs, NEW p \in Int, NEW m \in Nat
  PROVE  LET paid == p * Due(i.rate, m)
             owed == i.outstanding * Pow(RateMicroScale + i.rate, m)
         IN  /\ paid \in Int /\ owed \in Int
             /\ Amortizes(Kept(i, p), m) <=> paid >= owed
             /\ ExactTerm(Kept(i, p), m) => paid = owed
<1> DEFINE S == RateMicroScale
           r == i.rate
           R == RateMicroScale + i.rate
           P == i.outstanding
           D == Due(i.rate, m)
           F == Pow(S, m)
           G == Pow(R, m)
<1>1. /\ S \in Nat \ {0} /\ R \in Nat \ {0} /\ P \in Nat /\ r \in Nat /\ (r = 0 => R = S)
  BY ScaleAssumption DEF ScheduleInputs
<1>2. F \in Nat \ {0} /\ G \in Nat \ {0}
  BY <1>1, PowPositive
<1>3. D \in Nat /\ r * D = S * (G - F) /\ (r = 0 => D = m * F)
  <2>1. D \in Nat
    BY <1>1, AnnuityClosed
  <2>2. r * D = S * (G - F)
    BY <1>1, AnnuityClosed
  <2>3. r = 0 => D = m * F
    BY <1>1, AnnuityClosed
  <2> QED
    BY <2>1, <2>2, <2>3
<1>4. /\ Kept(i, p).outstanding = P /\ Kept(i, p).rate = r /\ Kept(i, p).payment = p
  BY DEF Kept
<1>5. p * D \in Int /\ P * G \in Int
  BY <1>1, <1>2, <1>3
<1>6. CASE r = 0
  <2>1. Amortizes(Kept(i, p), m) <=> m * p >= P
    BY <1>4, <1>6 DEF Amortizes
  <2>2. ~ExactTerm(Kept(i, p), m)
    BY <1>4, <1>6 DEF ExactTerm
  <2>3. D = m * F /\ G = F
    BY <1>1, <1>3, <1>6
  <2> DEFINE x == m * p - P
  <2> HIDE DEF D, F, G, P
  <2>4. p * D - P * G = F * x
    BY <1>1, <1>2, <2>3
  <2>5. x \in Int /\ (m * p >= P <=> x >= 0)
    BY <1>1
  <2> HIDE DEF x
  <2>6. F * x >= 0 <=> x >= 0
    BY <1>2, <2>5, SignCancelled
  <2>7. p * D >= P * G <=> F * x >= 0
    BY <1>5, <2>4
  <2>8. Amortizes(Kept(i, p), m) <=> p * D >= P * G
    BY <2>1, <2>5, <2>6, <2>7
  <2> QED
    BY <1>5, <2>2, <2>8 DEF D, F, G, P
<1>7. CASE r # 0
  <2> DEFINE x == p * D - P * G
  <2>1. Amortizes(Kept(i, p), m) <=> G * (p * S - P * r) >= F * p * S
    BY <1>4, <1>7 DEF Amortizes
  <2>2. ExactTerm(Kept(i, p), m) => G * (p * S - P * r) = F * p * S
    BY <1>4 DEF ExactTerm
  <2> HIDE DEF D, F, G, P, S, R, r
  <2>3. G * (p * S - P * r) - F * p * S = r * x
    <3>1. r * x = p * (r * D) - P * G * r
      BY <1>1, <1>2, <1>3
    <3>2. p * (r * D) = p * S * G - p * S * F
      BY <1>1, <1>2, <1>3
    <3>3. G * (p * S - P * r) = p * S * G - P * G * r
      BY <1>1, <1>2
    <3>4. F * p * S = p * S * F
      BY <1>1, <1>2
    <3> QED
      BY <1>1, <1>2, <3>1, <3>2, <3>3, <3>4
  <2>4. x \in Int /\ (p * D >= P * G <=> x >= 0) /\ (p * D = P * G <=> x = 0)
    BY <1>5
  <2> DEFINE a == G * (p * S - P * r)
             c == F * p * S
  <2>5. a \in Int /\ c \in Int
    BY <1>1, <1>2
  <2> HIDE DEF x, a, c
  <2>6. (r * x >= 0 <=> x >= 0) /\ (r * x = 0 <=> x = 0)
    BY <1>1, <1>7, <2>4, SignCancelled
  <2>7. a - c = r * x
    BY <2>3 DEF a, c
  <2>8. (a >= c <=> r * x >= 0) /\ (a = c <=> r * x = 0)
    BY <2>5, <2>7
  <2>9. (Amortizes(Kept(i, p), m) <=> p * D >= P * G)
        /\ (ExactTerm(Kept(i, p), m) => p * D = P * G)
    BY <2>1, <2>2, <2>4, <2>6, <2>8 DEF a, c
  <2> QED
    BY <1>5, <2>9 DEF D, F, G, P, S, R, r
<1> QED
  BY <1>6, <1>7

LEMMA ReturnedFitsPayment == Returned => ReducedTermFitsPayment
<1> SUFFICES ASSUME Returned, op = "RecastReduceTerm"
             PROVE  LET m     == in.periods
                        last  == rows[m].payment
                        drift == Annuity(in.rate, m, 0, m - 1)
                    IN  /\ 2 * last * Pow(RateMicroScale, m) >= -drift
                        /\ 2 * (last - payment) * Pow(RateMicroScale, m) <= drift
  BY DEF ReducedTermFitsPayment
<1> DEFINE m    == in.periods
           p    == payment
           P    == in.outstanding
           S    == RateMicroScale
           R    == RateMicroScale + in.rate
           D(k) == Due(in.rate, k)
           F    == Pow(S, m)
           G(k) == Pow(R, k)
           last == rows[m].payment
<1>1. /\ in \in ScheduleInputs /\ P \in Nat \ {0} /\ m \in Nat \ {0} /\ in.rate \in Nat
      /\ m - 1 \in Nat /\ (m - 1) + 1 = m
      /\ p \in Nat \ {0} /\ rows = BuildFixedPayment(in, p) /\ TermSolved
  BY DEF Returned, BuildReturned, FixedPaymentReturned, ScheduleInputs
<1>2. S \in Nat \ {0} /\ R \in Nat \ {0}
  BY <1>1, ScaleAssumption
<1>3. last \in Int /\ BalanceIsNear(last - p, P, p, F, G(m), D(m))
  <2>1. rows = Amortize(in, FixedPaymentDue(in, p))
    BY <1>1 DEF BuildFixedPayment
  <2> QED
    BY <1>1, <2>1, LastPaymentNearAnnuity
<1>4. F \in Nat \ {0} /\ G(m) \in Nat \ {0} /\ G(m - 1) \in Nat \ {0} /\ G(m) = R * G(m - 1)
  <2>1. F \in Nat \ {0} /\ G(m) \in Nat \ {0} /\ G(m - 1) \in Nat \ {0}
    BY <1>1, <1>2, PowPositive
  <2>2. Pow(R, (m - 1) + 1) = R * G(m - 1)
    BY <1>1, <1>2, PowFacts
  <2> QED
    BY <1>1, <2>1, <2>2
<1>5. D(m) \in Int /\ D(m - 1) \in Nat /\ D(m) = R * D(m - 1) + F /\ D(0) = 0
  <2>1. D(m - 1) \in Nat
    BY <1>1, AnnuityClosed
  <2>2. /\ D(m) \in Int /\ D(0) = 0
        /\ Due(in.rate, (m - 1) + 1) = R * D(m - 1) + Pow(S, (m - 1) + 1)
    BY <1>1, DueRule
  <2> QED
    BY <1>1, <2>1, <2>2
<1>6. \A k \in Nat : /\ p * D(k) \in Int /\ P * G(k) \in Int
                     /\ Amortizes(Kept(in, p), k) <=> p * D(k) >= P * G(k)
                     /\ ExactTerm(Kept(in, p), k) => p * D(k) = P * G(k)
  BY <1>1, AmortizesAnnuity
<1>7. \/ /\ Amortizes(Kept(in, p), m)
         /\ m > 1 => ~Amortizes(Kept(in, p), m - 1)
      \/ m > 1 /\ ExactTerm(Kept(in, p), m - 1)
  BY <1>1 DEF TermSolved
<1> HIDE DEF D, F, G, P, S, R, m, p, last
\* The m payments suffice ...
<1>8. p * D(m) >= P * G(m)
  <2>1. CASE Amortizes(Kept(in, p), m)
    <3>1. m \in Nat
      BY <1>1
    <3> QED
      BY <1>6, <2>1, <3>1
  <2>2. CASE ExactTerm(Kept(in, p), m - 1)
    <3>1. p * D(m - 1) = P * G(m - 1)
      BY <1>1, <1>6, <2>2
    <3>2. p * D(m) = R * (p * D(m - 1)) + p * F
      BY <1>1, <1>2, <1>4, <1>5
    <3>3. P * G(m) = R * (P * G(m - 1))
      BY <1>1, <1>2, <1>4
    <3>4. p * F > 0
      BY <1>1, <1>4, TimesPositive
    <3>5. p * F \in Int /\ R * (P * G(m - 1)) \in Int
      BY <1>1, <1>2, <1>4
    <3> QED
      BY <3>1, <3>2, <3>3, <3>4, <3>5
  <2> QED
    BY <1>7, <2>1, <2>2
\* ... and one payment fewer would not.
<1>9. p * D(m) - p * F <= P * G(m)
  <2>1. p * D(m - 1) <= P * G(m - 1)
    <3>1. CASE m = 1
      <4>1. D(m - 1) = 0
        BY <1>1, <1>5, <3>1
      <4>2. P * G(m - 1) >= 0
        BY <1>1, <1>4
      <4> QED
        BY <1>1, <4>1, <4>2
    <3>2. CASE m > 1
      <4>1. \/ ~(p * D(m - 1) >= P * G(m - 1))
            \/ p * D(m - 1) = P * G(m - 1)
        <5>1. ~Amortizes(Kept(in, p), m - 1) \/ ExactTerm(Kept(in, p), m - 1)
          BY <1>7, <3>2
        <5> QED
          BY <1>1, <1>6, <5>1
      <4>2. p * D(m - 1) \in Int /\ P * G(m - 1) \in Int
        BY <1>1, <1>6
      <4> QED
        BY <4>1, <4>2
    <3> QED
      BY <1>1, <3>1, <3>2
  <2>2. p * D(m) - p * F = R * (p * D(m - 1))
    BY <1>1, <1>2, <1>4, <1>5
  <2>3. P * G(m) = R * (P * G(m - 1))
    BY <1>1, <1>2, <1>4
  <2> DEFINE x == P * G(m - 1) - p * D(m - 1)
  <2>4. x \in Nat
    BY <1>1, <1>4, <1>5, <2>1
  <2>5. R * x = P * G(m) - (p * D(m) - p * F)
    BY <1>1, <1>2, <1>4, <1>5, <2>2, <2>3
  <2>6. P * G(m) \in Int /\ p * D(m) - p * F \in Int
    BY <1>1, <1>4, <1>5
  <2> HIDE DEF x
  <2>7. R * x >= 0
    BY <1>2, <2>4
  <2> QED
    BY <2>5, <2>6, <2>7
<1>10. /\ 2 * F * (last - p) = 2 * (last * F) - 2 * (p * F)
       /\ 2 * (last - p) * F = 2 * (last * F) - 2 * (p * F)
       /\ 2 * last * F = 2 * (last * F)
       /\ 2 * P * G(m) = 2 * (P * G(m)) /\ 2 * p * D(m) = 2 * (p * D(m))
       /\ last * F \in Int /\ p * F \in Int /\ P * G(m) \in Int /\ p * D(m) \in Int
  BY <1>1, <1>3, <1>4, <1>5
<1>11. Within(2 * F * (last - p) - 2 * P * G(m) + 2 * p * D(m), D(m))
  BY <1>3 DEF BalanceIsNear
<1>12. 2 * last * F >= -D(m) /\ 2 * (last - p) * F <= D(m)
  BY <1>5, <1>8, <1>9, <1>10, <1>11 DEF Within
<1> QED
  BY <1>12 DEF D, F, S, m, p, last, Due

\* The remaining term reduce_term solves for is the one the kept payment
\* fits, for every debt, rate and payment: one period more or fewer leaves a
\* last payment beyond the rounding error (recast.go:52-64).
THEOREM ReducedTermAlwaysFits == Spec => []ReducedTermFitsPayment
BY ReturnedAlways, ReturnedFitsPayment, PTL

-----------------------------------------------------------------------------
(***************************************************************************)
(* The shape of a plan                                                     *)
(***************************************************************************)

\* Rounding is monotone on both sides of zero.
LEMMA RoundCentsGrows ==
  ASSUME NEW a \in Int, NEW b \in Int, NEW den \in Nat \ {0}, a <= b
  PROVE  RoundCents(a, den) <= RoundCents(b, den)
<1> DEFINE e == 2 * den
<1>1. e \in Nat \ {0}
  OBVIOUS
<1>2. CASE a >= 0
  BY <1>2, RoundCentsMonotone
<1>3. CASE a < 0 /\ b >= 0
  <2>1. RoundCents(b, den) >= 0 /\ RoundCents(b, den) \in Int
    BY <1>3, RoundCentsType
  <2> DEFINE x == den - 2 * a
             d == x \div e
  <2>2. RoundCents(a, den) = -d /\ x \in Nat /\ x >= 0
    BY <1>3 DEF RoundCents
  <2> HIDE DEF x, e
  <2>3. d \in Int /\ d >= 0
    BY <1>1, <2>2
  <2> QED
    BY <2>1, <2>2, <2>3
<1>4. CASE b < 0
  <2> DEFINE x == den - 2 * a
             y == den - 2 * b
  <2>1. RoundCents(a, den) = -(x \div e) /\ RoundCents(b, den) = -(y \div e)
    BY <1>4 DEF RoundCents
  <2>2. x \in Int /\ y \in Int /\ y <= x
    OBVIOUS
  <2> HIDE DEF x, y, e
  <2>3. y \div e <= x \div e /\ y \div e \in Int /\ x \div e \in Int
    BY <1>1, <2>2, DivMonotone, DivBounds
  <2> QED
    BY <2>1, <2>3
<1> QED
  BY <1>2, <1>3, <1>4

LEMMA InterestGrows ==
  ASSUME NEW a \in Int, NEW b \in Int, NEW rate \in Nat, a <= b
  PROVE  MulRateMicro(a, rate) <= MulRateMicro(b, rate)
<1> DEFINE x == a * rate
           y == b * rate
<1>1. x \in Int /\ y \in Int /\ x <= y
  <2>1. (b - a) * rate >= 0 /\ (b - a) * rate = y - x /\ x \in Int /\ y \in Int
    OBVIOUS
  <2> QED
    BY <2>1
<1> HIDE DEF x, y
<1>2. RoundCents(x, RateMicroScale) <= RoundCents(y, RateMicroScale)
  BY <1>1, RoundCentsGrows, ScaleAssumption
<1> QED
  BY <1>2 DEF MulRateMicro, x, y

\* The payment of an equal principal plan declines.
LEMMA EqualPrincipalDeclines ==
  ASSUME NEW i \in ScheduleInputs, NEW k \in 1 .. i.periods - 1
  PROVE  LET plan == Amortize(i, EqualPrincipalDue(i))
         IN  /\ plan[k + 1].payment <= plan[k].payment
             /\ i.rate = 0 => plan[k + 1].payment \in {plan[k].payment - 1, plan[k].payment}
<1> DEFINE due  == EqualPrincipalDue(i)
           base == i.outstanding \div i.periods
           rem  == i.outstanding % i.periods
           b    == Balance(i, due, k - 1)
           c    == Balance(i, due, k)
           plan == Amortize(i, due)
<1>1. /\ i.periods \in Nat \ {0} /\ i.rate \in Nat
      /\ k \in 1 .. i.periods /\ k + 1 \in 1 .. i.periods /\ (k + 1) - 1 = k
      /\ k - 1 \in 0 .. i.periods /\ k \in 0 .. i.periods
  BY DEF ScheduleInputs
<1>2. due \in Steps(i.periods)
  BY EqualPrincipalDueType
<1>3. b \in Int /\ c \in Int /\ c = b - due[k][b]
  BY <1>1, <1>2, BalanceRule
<1>4. base \in Nat /\ rem \in Nat
  BY EqualPrincipalSplit
<1>5. /\ due[k][b] = IF k <= rem THEN base + 1 ELSE base
      /\ due[k + 1][c] = IF k + 1 <= rem THEN base + 1 ELSE base
  BY <1>1, <1>3 DEF EqualPrincipalDue
<1>6. /\ plan[k].payment = plan[k].principal + plan[k].interest
      /\ plan[k].principal = due[k][b] /\ plan[k].interest = MulRateMicro(b, i.rate)
      /\ plan[k + 1].payment = plan[k + 1].principal + plan[k + 1].interest
      /\ plan[k + 1].principal = due[k + 1][c]
      /\ plan[k + 1].interest = MulRateMicro(c, i.rate)
  BY <1>1, <1>2, AmortizeRows
<1> HIDE DEF b, c, plan, due, base, rem
<1>7. /\ MulRateMicro(c, i.rate) <= MulRateMicro(b, i.rate)
      /\ MulRateMicro(c, i.rate) \in Int /\ MulRateMicro(b, i.rate) \in Int
  <2>1. c <= b
    BY <1>3, <1>4, <1>5
  <2> QED
    BY <1>1, <1>3, <2>1, InterestGrows, MulRateMicroType
<1>8. plan[k + 1].payment <= plan[k].payment
  BY <1>1, <1>4, <1>5, <1>6, <1>7
<1>9. ASSUME i.rate = 0
      PROVE  plan[k + 1].payment \in {plan[k].payment - 1, plan[k].payment}
  <2>1. MulRateMicro(b, i.rate) = 0 /\ MulRateMicro(c, i.rate) = 0
    BY <1>3, <1>9, NoRateNoInterest
  <2> QED
    BY <1>1, <1>4, <1>5, <1>6, <2>1
<1> QED
  BY <1>8, <1>9 DEF plan, due

\* Until its last period an interest_only plan returns nothing, and so its
\* interest stays what it was.
LEMMA InterestOnlyStays ==
  ASSUME NEW i \in ScheduleInputs, NEW k \in 1 .. i.periods - 1
  PROVE  LET plan == Amortize(i, InterestOnlyDue(i))
         IN  plan[k].principal = 0 /\ plan[k + 1].interest = plan[k].interest
<1> DEFINE due  == InterestOnlyDue(i)
           b    == Balance(i, due, k - 1)
           c    == Balance(i, due, k)
           plan == Amortize(i, due)
<1>1. /\ i.periods \in Nat \ {0} /\ k # i.periods
      /\ k \in 1 .. i.periods /\ k + 1 \in 1 .. i.periods /\ (k + 1) - 1 = k
      /\ k - 1 \in 0 .. i.periods
  BY DEF ScheduleInputs
<1>2. due \in Steps(i.periods)
  BY InterestOnlyDueType
<1>3. b \in Int /\ c = b - due[k][b]
  BY <1>1, <1>2, BalanceRule
<1>4. due[k][b] = 0
  BY <1>1, <1>3 DEF InterestOnlyDue
<1>5. /\ plan[k].principal = due[k][b] /\ plan[k].interest = MulRateMicro(b, i.rate)
      /\ plan[k + 1].interest = MulRateMicro(c, i.rate)
  BY <1>1, <1>2, AmortizeRows
<1> HIDE DEF b, c, plan, due
<1>6. c = b
  BY <1>3, <1>4
<1>7. plan[k].principal = 0 /\ plan[k + 1].interest = plan[k].interest
  BY <1>4, <1>5, <1>6
<1> QED
  BY <1>7 DEF plan, due

\* An annuity never repays less than nothing before its last period: the
\* balance falls, its interest with it, and the principal takes its place.
LEMMA AnnuityAmortizes ==
  ASSUME NEW i \in ScheduleInputs, NEW p \in Int,
         MulRateMicro(i.outstanding, i.rate) <= p, NEW m \in Nat, m + 1 < i.periods
  PROVE  MulRateMicro(Balance(i, FixedPaymentDue(i, p), m), i.rate) <= p
<1> DEFINE due  == FixedPaymentDue(i, p)
           b(k) == Balance(i, due, k)
           I(k) == MulRateMicro(b(k), i.rate)
           T    == {k \in Nat : k + 1 < i.periods => I(k) <= p}
<1>1. i.periods \in Nat \ {0} /\ i.rate \in Nat
  BY DEF ScheduleInputs
<1>2. due \in Steps(i.periods)
  BY FixedPaymentDueType
<1>3. /\ b(0) = i.outstanding
      /\ \A k \in 0 .. i.periods : b(k) \in Int
      /\ \A k \in 1 .. i.periods : b(k) = b(k - 1) - due[k][b(k - 1)]
  BY <1>2, BalanceRule
<1>4. 0 \in T
  BY <1>3
<1>5. ASSUME NEW k \in Nat, k \in T PROVE k + 1 \in T
  <2>1. SUFFICES ASSUME (k + 1) + 1 < i.periods PROVE I(k + 1) <= p
    OBVIOUS
  <2>2. /\ k + 1 \in 1 .. i.periods /\ (k + 1) - 1 = k /\ k \in 0 .. i.periods
        /\ k + 1 \in 0 .. i.periods /\ k + 1 < i.periods
    BY <1>1, <2>1
  <2>3. b(k) \in Int /\ b(k + 1) \in Int /\ b(k + 1) = b(k) - due[k + 1][b(k)]
    BY <1>3, <2>2
  <2>4. due[k + 1][b(k)] = p - I(k)
    BY <2>2, <2>3 DEF FixedPaymentDue
  <2>5. I(k) <= p
    BY <1>5, <2>2
  <2> HIDE DEF b, due
  <2>6. I(k) \in Int /\ I(k + 1) \in Int
    BY <1>1, <2>3, MulRateMicroType
  <2>7. b(k + 1) <= b(k)
    BY <2>3, <2>4, <2>5, <2>6
  <2>8. I(k + 1) <= I(k)
    BY <1>1, <2>3, <2>7, InterestGrows
  <2> QED
    BY <2>5, <2>6, <2>8
<1>6. Nat \subseteq T
  <2> HIDE DEF T
  <2> QED
    BY <1>4, <1>5, NatSetInduction
<1>7. m \in T
  BY <1>6
<1> QED
  BY <1>7

LEMMA AnnuityShifts ==
  ASSUME NEW i \in ScheduleInputs, NEW p \in Int,
         MulRateMicro(i.outstanding, i.rate) <= p,
         NEW k \in 1 .. i.periods - 1, k + 1 < i.periods
  PROVE  LET plan == Amortize(i, FixedPaymentDue(i, p))
         IN  plan[k + 1].interest <= plan[k].interest /\ plan[k + 1].principal >= plan[k].principal
<1> DEFINE due  == FixedPaymentDue(i, p)
           b    == Balance(i, due, k - 1)
           c    == Balance(i, due, k)
           plan == Amortize(i, due)
<1>1. /\ i.periods \in Nat \ {0} /\ i.rate \in Nat
      /\ k \in 1 .. i.periods /\ k + 1 \in 1 .. i.periods /\ (k + 1) - 1 = k
      /\ k - 1 \in 0 .. i.periods /\ k \in 0 .. i.periods
      /\ k - 1 \in Nat /\ (k - 1) + 1 < i.periods
  BY DEF ScheduleInputs
<1>2. due \in Steps(i.periods)
  BY FixedPaymentDueType
<1>3. b \in Int /\ c \in Int /\ c = b - due[k][b]
  BY <1>1, <1>2, BalanceRule
<1>4. due[k][b] = p - MulRateMicro(b, i.rate) /\ due[k + 1][c] = p - MulRateMicro(c, i.rate)
  BY <1>1, <1>3 DEF FixedPaymentDue
<1>5. MulRateMicro(b, i.rate) <= p
  BY <1>1, AnnuityAmortizes
<1>6. /\ plan[k].principal = due[k][b] /\ plan[k].interest = MulRateMicro(b, i.rate)
      /\ plan[k + 1].principal = due[k + 1][c]
      /\ plan[k + 1].interest = MulRateMicro(c, i.rate)
  BY <1>1, <1>2, AmortizeRows
<1> HIDE DEF b, c, plan, due
<1>7. MulRateMicro(c, i.rate) \in Int /\ MulRateMicro(b, i.rate) \in Int
  BY <1>1, <1>3, MulRateMicroType
<1>8. MulRateMicro(c, i.rate) <= MulRateMicro(b, i.rate)
  <2>1. c <= b
    BY <1>3, <1>4, <1>5, <1>7
  <2> QED
    BY <1>1, <1>3, <2>1, InterestGrows
<1>9. plan[k + 1].interest <= plan[k].interest /\ plan[k + 1].principal >= plan[k].principal
  BY <1>4, <1>6, <1>7, <1>8
<1> QED
  BY <1>9 DEF plan, due

LEMMA ReturnedHasItsShape == Returned => PlansHaveTheirShape
<1> SUFFICES ASSUME Returned, op = "Build", NEW k \in 1 .. in.periods - 1
             PROVE  /\ in.type = "equal_principal" => rows[k + 1].payment <= rows[k].payment
                    /\ in.type = "equal_installment" /\ k + 1 < in.periods /\ in.rate # 0
                         => /\ rows[k + 1].interest <= rows[k].interest
                            /\ rows[k + 1].principal >= rows[k].principal
                    /\ in.type = "equal_installment" /\ in.rate = 0
                         => rows[k + 1].payment \in {rows[k].payment - 1, rows[k].payment}
                    /\ in.type = "interest_only"
                         => rows[k].principal = 0 /\ rows[k + 1].interest = rows[k].interest
  BY DEF PlansHaveTheirShape
<1>1. in \in ScheduleInputs /\ in.outstanding # 0 /\ rows = Build(in)
  BY DEF Returned, BuildReturned, FixedPaymentReturned
<1>2. ASSUME in.type = "equal_principal" PROVE rows[k + 1].payment <= rows[k].payment
  <2>1. rows = Amortize(in, EqualPrincipalDue(in))
    BY <1>1, <1>2 DEF Build
  <2> QED
    BY <1>1, <2>1, EqualPrincipalDeclines
<1>3. ASSUME in.type = "equal_installment", k + 1 < in.periods, in.rate # 0
      PROVE  /\ rows[k + 1].interest <= rows[k].interest
             /\ rows[k + 1].principal >= rows[k].principal
  <2> DEFINE p == PaymentAmount(in.outstanding, in.rate, in.periods)
  <2>1. rows = Amortize(in, FixedPaymentDue(in, p))
    BY <1>1, <1>3 DEF Build, EqualInstallmentDue
  <2>2. p \in Int /\ MulRateMicro(in.outstanding, in.rate) <= p
    BY <1>1, PaymentAmountCoversInterest DEF ScheduleInputs
  <2> HIDE DEF p
  <2> QED
    BY <1>1, <1>3, <2>1, <2>2, AnnuityShifts
<1>4. ASSUME in.type = "equal_installment", in.rate = 0
      PROVE  rows[k + 1].payment \in {rows[k].payment - 1, rows[k].payment}
  <2>1. rows = Amortize(in, EqualPrincipalDue(in))
    BY <1>1, <1>4 DEF Build, EqualInstallmentDue
  <2> QED
    BY <1>1, <1>4, <2>1, EqualPrincipalDeclines
<1>5. ASSUME in.type = "interest_only"
      PROVE  rows[k].principal = 0 /\ rows[k + 1].interest = rows[k].interest
  <2>1. rows = Amortize(in, InterestOnlyDue(in))
    BY <1>1, <1>5 DEF Build
  <2> QED
    BY <1>1, <2>1, InterestOnlyStays
<1> QED
  BY <1>2, <1>3, <1>4, <1>5

\* Every plan has the shape domain.go:17-25 describes: the payment of an equal
\* principal plan declines, an annuity shifts from interest to principal or, at
\* rate 0, is level up to a cent, and interest alone is paid until maturity.
THEOREM PlansAlwaysHaveTheirShape == Spec => []PlansHaveTheirShape
BY ReturnedAlways, ReturnedHasItsShape, PTL
==============================================================================
