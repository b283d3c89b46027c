------------------------------- MODULE Amort -------------------------------
(***************************************************************************)
(* The amortization mathematics of internal/amort and the money primitives *)
(* of internal/domain it rests on.  Everything here is a pure operator:    *)
(* the loan component (module Loan) applies them to its ledger.            *)
(*                                                                         *)
(* Money is an integer number of cents.  A periodic rate is an integer     *)
(* over RateMicroScale (10^6 in the code; a small number in the instances  *)
(* TLC explores, any positive number in the theorems).  Where the code     *)
(* goes through float64 and rounds to a cent, the model rounds the exact   *)
(* rational; the one place where a float decides an integer by a ceiling   *)
(* (RecastReduceTerm) is a set of possible outcomes.                       *)
(*                                                                         *)
(* A function of the code that returns an error is two operators: one that *)
(* says which inputs it rejects and one for its result on the others.      *)
(***************************************************************************)
EXTENDS Integers, Sequences

CONSTANT RateMicroScale   \* denominator of a periodic rate

ASSUME ScaleAssumption == RateMicroScale \in Nat \ {0}

LoanTypes == {"equal_installment", "equal_principal", "interest_only"}

-----------------------------------------------------------------------------
(* Money primitives (internal/domain) *)

\* num/den rounded half away from zero, den > 0.
RoundCents(num, den) ==
  IF num >= 0 THEN (2 * num + den) \div (2 * den)
              ELSE -((den - 2 * num) \div (2 * den))

\* The interest of one period on a balance.
MulRateMicro(balance, rate) == RoundCents(balance * rate, RateMicroScale)

\* The n-th accumulator of a loop that starts from first and in step i turns
\* the accumulator a into step[i][a].  Every loop below is one: a recursive
\* function, because a proof can unfold it for every n.
Fold(first, step, n) ==
  LET acc[i \in 0 .. n] == IF i = 0 THEN first ELSE step[i][acc[i - 1]]
  IN  acc[n]

Pow(base, n) == Fold(1, [i \in 1 .. n |-> [power \in Int |-> base * power]], n)

\* Mutant: one period fewer in the annuity formula's growth factor.
PaymentAmount_ShortGrowth(outstanding, rate, n) ==
  IF n <= 0 THEN 0
  ELSE IF rate = 0 \/ outstanding = 0 THEN RoundCents(outstanding, n)
  ELSE RoundCents(outstanding * rate * Pow(RateMicroScale + rate, n - 1) * RateMicroScale,
                  RateMicroScale * (Pow(RateMicroScale + rate, n) - Pow(RateMicroScale, n)))

\* M = P.r.(1+r)^n / ((1+r)^n - 1) over the common denominator of r.
PaymentAmount(outstanding, rate, n) ==
  IF n <= 0 THEN 0
  ELSE IF rate = 0 \/ outstanding = 0 THEN RoundCents(outstanding, n)
  ELSE LET grown == Pow(RateMicroScale + rate, n)
           flat  == Pow(RateMicroScale, n)
       IN  RoundCents(outstanding * rate * grown,
                      RateMicroScale * (grown - flat))

-----------------------------------------------------------------------------
(* Schedules.  A ScheduleInput is [outstanding, rate, periods, type]; a    *)
(* schedule is a sequence of rows [number, principal, interest, payment,   *)
(* balance].  The loops of the code differ only in the principal they make *)
(* due in period i when b is still owed: the function due[i][b].           *)

\* The balance after n periods.
Balance(in, due, n) ==
  Fold(in.outstanding, 
       [i \in 1 .. in.periods |-> [b \in Int |-> b - due[i][b]]], n)

Row(number, before, principal, rate) ==
  LET interest == MulRateMicro(before, rate)
  IN  [number    |-> number,
       principal |-> principal,
       interest  |-> interest,
       payment   |-> principal + interest,
       balance   |-> before - principal]

Amortize(in, due) ==
  [i \in 1 .. in.periods |->
     LET before == Balance(in, due, i - 1)
     IN  Row(i, before, due[i][before], in.rate)]

InterestOnlyDue(in) ==
  [i \in 1 .. in.periods |-> [b \in Int |-> IF i = in.periods THEN b ELSE 0]]

\* Mutant: the remainder goes to the last periods instead of the first.
EqualPrincipalDue_RemainderLast(in) ==
  LET base == in.outstanding \div in.periods
      rem  == in.outstanding % in.periods
  IN  [i \in 1 .. in.periods |-> [b \in Int |->
         IF i > in.periods - rem THEN base + 1 ELSE base]]

\* Mutant: the remainder is dropped.
EqualPrincipalDue_NoRemainder(in) ==
  [i \in 1 .. in.periods |-> [b \in Int |-> in.outstanding \div in.periods]]

EqualPrincipalDue(in) ==
  LET base == in.outstanding \div in.periods
      rem  == in.outstanding % in.periods
  IN  [i \in 1 .. in.periods |-> [b \in Int |->
         IF i <= rem THEN base + 1 ELSE base]]

\* Mutant: no tail correction.
FixedPaymentDue_NoTail(in, payment) ==
  [i \in 1 .. in.periods |-> [b \in Int |-> payment - MulRateMicro(b, in.rate)]]

FixedPaymentDue(in, payment) ==
  [i \in 1 .. in.periods |-> [b \in Int |->
     IF i = in.periods THEN b ELSE payment - MulRateMicro(b, in.rate)]]

\* Mutant: the payment is computed for one period too many.
EqualInstallmentDue_LongTerm(in) ==
  IF in.rate = 0 \/ in.outstanding = 0
  THEN EqualPrincipalDue(in)
  ELSE FixedPaymentDue(in, PaymentAmount(in.outstanding, in.rate, in.periods + 1))

\* buildEqualInstallment: its plan degenerates to equal principal at rate 0.
EqualInstallmentDue(in) ==
  IF in.rate = 0 \/ in.outstanding = 0
  THEN EqualPrincipalDue(in)
  ELSE FixedPaymentDue(in, PaymentAmount(in.outstanding, in.rate, in.periods))

\* buildEqualInstallment's negative-amortization guard.
NegativelyAmortizes(in) ==
  /\ in.type = "equal_installment"
  /\ in.rate # 0
  /\ in.outstanding # 0
  /\ PaymentAmount(in.outstanding, in.rate, in.periods)
       <= MulRateMicro(in.outstanding, in.rate)

BuildRejects(in) ==
  \/ in.periods <= 0
  \/ in.outstanding < 0
  \/ in.rate < 0
  \/ in.type \notin LoanTypes
  \/ NegativelyAmortizes(in)

Build(in) ==
  Amortize(in, CASE in.type = "interest_only"     -> InterestOnlyDue(in)
                 [] in.type = "equal_principal"   -> EqualPrincipalDue(in)
                 [] in.type = "equal_installment" -> EqualInstallmentDue(in))

FixedPaymentRejects(in, payment) ==
  \/ in.periods <= 0
  \/ in.outstanding < 0
  \/ in.outstanding # 0 /\ payment <= 0

BuildFixedPayment(in, payment) ==
  IF in.outstanding = 0 THEN << >>
  ELSE Amortize(in, FixedPaymentDue(in, payment))

-----------------------------------------------------------------------------
(* Reading a schedule (internal/amort/balance.go and invariants.go).       *)

Total(amounts) ==
  Fold(0, [i \in 1 .. Len(amounts) |-> [sum \in Int |-> sum + amounts[i]]], Len(amounts))

SumPrincipal(rows) == Total([i \in 1 .. Len(rows) |-> rows[i].principal])

FinalBalance(rows) == IF rows = << >> THEN 0 ELSE rows[Len(rows)].balance

NextUnpaidPeriod(paid, term) == IF paid >= term THEN term + 1 ELSE paid + 1

ValidSchedule(rows, principal) ==
  /\ rows = << >> => principal = 0
  /\ \A i \in 1 .. Len(rows) :
       /\ rows[i].number = i
       /\ rows[i].principal >= 0
       /\ rows[i].interest >= 0
       /\ rows[i].payment >= 0
       /\ rows[i].balance >= 0
  /\ SumPrincipal(rows) = principal
  /\ FinalBalance(rows) = 0

-----------------------------------------------------------------------------
(* Recasts (internal/amort/recast.go).  A RecastInput is [type,            *)
(* outstanding, rate, paid, term, payment].                                *)

Remaining(in, periods) == [outstanding |-> in.outstanding, rate |-> in.rate,
                           periods |-> periods, type |-> in.type]

\* m payments at the kept amount amortize the outstanding principal: over
\* the common denominator, (1+r)^m (M - B.r) >= M, or m.M >= B at rate 0.
Amortizes(in, m) ==
  IF in.rate = 0
  THEN m * in.payment >= in.outstanding
  ELSE Pow(RateMicroScale + in.rate, m)
         * (in.payment * RateMicroScale - in.outstanding * in.rate)
       >= Pow(RateMicroScale, m) * in.payment * RateMicroScale

\* m is exactly the logarithm the code computes in float64 and rounds up.
ExactTerm(in, m) ==
  /\ in.rate # 0
  /\ Pow(RateMicroScale + in.rate, m)
       * (in.payment * RateMicroScale - in.outstanding * in.rate)
     = Pow(RateMicroScale, m) * in.payment * RateMicroScale

ReduceTermRejects(in) ==
  /\ in.outstanding > 0
  /\ \/ in.payment <= 0
     \/ in.rate # 0 /\ in.payment * RateMicroScale <= in.outstanding * in.rate

\* Mutant: the logarithm is rounded down.
ReduceTermPeriods_Floor(in, limit) ==
  {m \in 1 .. limit : ~Amortizes(in, m) /\ Amortizes(in, m + 1)}

\* The remaining terms the ceiling can yield: the least sufficient m, or its
\* successor where the logarithm is an integer and the float may lie above it.
ReduceTermPeriods(in, limit) ==
  LET Least(m) == Amortizes(in, m) /\ (m > 1 => ~Amortizes(in, m - 1))
  IN  {m \in 1 .. limit :
         \/ Least(m)
         \/ m > 1 /\ Least(m - 1) /\ ExactTerm(in, m - 1)}

\* Mutant: the paid periods are forgotten.
RecastReduceTerm_RemainingOnly(in, limit) ==
  IF in.outstanding <= 0 THEN {in.paid} ELSE ReduceTermPeriods(in, limit)

\* Mutant: counted from the end of the term, not from the last paid period.
RecastReduceTerm_AfterTerm(in, limit) ==
  IF in.outstanding <= 0 THEN {in.paid}
  ELSE {in.term + m : m \in ReduceTermPeriods(in, limit)}

\* The TermPeriods RecastReduceTerm may return.
RecastReduceTerm(in, limit) ==
  IF in.outstanding <= 0 THEN {in.paid}
  ELSE {in.paid + m : m \in ReduceTermPeriods(in, limit)}

\* Mutant: the rebuilt plan is not checked.
ReducePaymentRejects_Unchecked(in) == in.term < 0

\* RecastReducePayment rebuilds over the whole term, not over what is left.
ReducePaymentRejects(in) ==
  \/ in.term < 0
  \/ in.outstanding > 0 /\ BuildRejects(Remaining(in, in.term))

RecastReducePayment(in) ==
  IF in.outstanding <= 0 THEN [term |-> in.paid + in.term, rows |-> << >>]
  ELSE [term |-> in.term, rows |-> Build(Remaining(in, in.term))]

\* RecastRateChange rebuilds over one period more than is left.
RateChangePeriods(in) == in.term - in.paid + 1

RateChangeRejects(in) ==
  \/ RateChangePeriods(in) < 0
  \/ in.outstanding > 0 /\ BuildRejects(Remaining(in, RateChangePeriods(in)))

RecastRateChange(in) ==
  IF in.outstanding <= 0 THEN [term |-> in.term, rows |-> << >>]
  ELSE [term |-> in.term, rows |-> Build(Remaining(in, RateChangePeriods(in)))]
=============================================================================
