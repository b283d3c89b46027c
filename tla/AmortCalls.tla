----------------------------- MODULE AmortCalls -----------------------------
(***************************************************************************)
(* The calls the loan component makes into internal/amort, one at a time,  *)
(* over bounded arguments, and what each returns: the amortization math    *)
(* checked against reference definitions that do not share its loops.      *)
(***************************************************************************)
EXTENDS Amort

CONSTANTS Outstandings,  \* principals a schedule starts from
          Rates,         \* periodic rates
          Periods,       \* numbers of periods
          Payments       \* fixed payments

ASSUME CallAssumption ==
  /\ Outstandings \subseteq Nat \ {0}
  /\ Rates \subseteq Nat
  /\ Periods \subseteq Nat \ {0}
  /\ Payments \subseteq Nat \ {0}

VARIABLES op,       \* the function called, "idle" between calls
          in,       \* its ScheduleInput
          payment,  \* the fixed payment of the plan (0 when it has none)
          rows      \* the schedule returned

vars == <<op, in, payment, rows>>

NoInput == [outstanding |-> 0, rate |-> 0, periods |-> 0, type |-> "none"]

Inputs == [outstanding : Outstandings, rate : Rates, periods : Periods, type : LoanTypes]

Init == op = "idle" /\ in = NoInput /\ payment = 0 /\ rows = << >>

CallBuild(i) ==
  /\ op = "idle"
  /\ ~BuildRejects(i)
  /\ op' = "Build"
  /\ in' = i
  /\ payment' = IF i.type = "equal_installment"
                THEN PaymentAmount(i.outstanding, i.rate, i.periods) ELSE 0
  /\ rows' = Build(i)

CallBuildFixedPayment(i, p) ==
  /\ op = "idle"
  /\ i.type = "equal_installment"
  /\ ~FixedPaymentRejects(i, p)
  /\ op' = "BuildFixedPayment"
  /\ in' = i
  /\ payment' = p
  /\ rows' = BuildFixedPayment(i, p)

\* The recast starts from a loan with no paid period.
CallRecastReduceTerm(i, p) ==
  LET recast == [type |-> i.type, outstanding |-> i.outstanding, rate |-> i.rate,
                 paid |-> 0, term |-> i.periods, payment |-> p]
  IN  /\ op = "idle"
      /\ i.type = "equal_installment"
      /\ ~ReduceTermRejects(recast)
      /\ \E m \in RecastReduceTerm(recast, i.periods) :
           /\ in' = [i EXCEPT !.periods = m]
           /\ rows' = BuildFixedPayment(in', p)
      /\ op' = "RecastReduceTerm"
      /\ payment' = p

Return ==
  /\ op # "idle"
  /\ op' = "idle" /\ in' = NoInput /\ payment' = 0 /\ rows' = << >>

Next ==
  \/ \E i \in Inputs :
       \/ CallBuild(i)
       \/ \E p \in Payments : CallBuildFixedPayment(i, p) \/ CallRecastReduceTerm(i, p)
  \/ Return

Spec == Init /\ [][Next]_vars

-----------------------------------------------------------------------------
(* Reference definitions.  growth(j) stands for (1+r)^j over the common    *)
(* denominator RateMicroScale^n.                                           *)

Growth(rate, n, j) == Pow(RateMicroScale + rate, j) * Pow(RateMicroScale, n - j)

\* The sum of (1+r)^j for j in first..last, over RateMicroScale^n.
Annuity(rate, n, first, last) ==
  Total([k \in 1 .. last - first + 1 |-> Growth(rate, n, first + k - 1)])

Abs(x) == IF x < 0 THEN -x ELSE x

-----------------------------------------------------------------------------
(* Properties *)

\* Every accepted plan collects exactly the principal it starts from and ends
\* at balance zero: remainder, tail correction and rounding of each loop.
PlansClose ==
  op # "idle" => SumPrincipal(rows) = in.outstanding /\ FinalBalance(rows) = 0

\* The annuity payment is the cent nearest to the payment whose present value
\* is the principal: M.((1+r)^0 + ... + (1+r)^(n-1)) = P.(1+r)^n up to half a
\* cent per payment.  This is the defining equation, not the closed formula.
PaymentIsPresentValue ==
  op = "Build" /\ in.type = "equal_installment"
    => LET n == in.periods
           a == Annuity(in.rate, n, 0, n - 1)
       IN  2 * Abs(payment * a - in.outstanding * Growth(in.rate, n, n)) <= a

\* domain.go:42: "cent-level rounding drift is absorbed by the final period":
\* the last payment of an equal-installment plan differs from the others by
\* no more than one cent per period, compounded to maturity.
TailAbsorbsRounding ==
  op = "Build" /\ in.type = "equal_installment"
    => LET n == in.periods
       IN  Abs(rows[n].payment - payment) * Pow(RateMicroScale, n)
             <= Annuity(in.rate, n, 0, n - 1)

\* The term reduce_term solves for fits the kept payment: the last payment
\* lies between 0 and the kept one up to half a cent per period, compounded.
\* One period more or fewer would leave it outside.
ReducedTermFitsPayment ==
  op = "RecastReduceTerm"
    => LET m     == in.periods
           last  == rows[m].payment
           drift == Annuity(in.rate, m, 0, m - 1)
       IN  /\ 2 * last * Pow(RateMicroScale, m) >= -drift
           /\ 2 * (last - payment) * Pow(RateMicroScale, m) <= drift

\* domain.go:17-25: the payment of an equal_principal plan declines over the
\* term; an interest_only plan pays the same interest, and no principal, until
\* its last row; an equal_installment plan shifts from interest to principal
\* (its last row, which absorbs the drift, aside), and without interest its
\* payments are level up to the remainder, a cent each for the first periods.
PlansHaveTheirShape ==
  op = "Build" =>
    \A i \in 1 .. in.periods - 1 :
      /\ in.type = "equal_principal" => rows[i + 1].payment <= rows[i].payment
      /\ in.type = "equal_installment" /\ i + 1 < in.periods /\ in.rate # 0
           => /\ rows[i + 1].interest <= rows[i].interest
              /\ rows[i + 1].principal >= rows[i].principal
      /\ in.type = "equal_installment" /\ in.rate = 0
           => rows[i + 1].payment \in {rows[i].payment - 1, rows[i].payment}
      /\ in.type = "interest_only"
           => /\ rows[i].principal = 0
              /\ rows[i + 1].interest = rows[i].interest

-----------------------------------------------------------------------------
(* What the comments and tests of the code say, and the code does not do.  *)

\* balance_test.go:60: "A payment below first-period interest must be rejected."
FixedPaymentCoversInterest ==
  op = "BuildFixedPayment" => payment >= rows[1].interest
=============================================================================
