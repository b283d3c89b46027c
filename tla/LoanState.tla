------------------------------ MODULE LoanState ------------------------------
(***************************************************************************)
(* One loan of internal/loan as a value: its row in the loans table and    *)
(* its payment rows, what the service derives from them, and the rows its  *)
(* operations write.  Pure operators: module Loan applies them to the      *)
(* variables of one loan, module Operations to every loan of a database.   *)
(*                                                                         *)
(* Nothing derived is stored.  As in the service, the outstanding          *)
(* principal, the number of paid periods and the plan for the remaining    *)
(* periods are recomputed from the row and the ledger in every operation.  *)
(***************************************************************************)
EXTENDS Amort, FiniteSets

\* No row yet.
NoLoan == [principal |-> 0, rate |-> 0, payment |-> 0, term |-> 0,
           type |-> "none", status |-> "none"]

LoanRows == [principal : Nat, rate : Nat, payment : Nat, term : Nat,
             type : LoanTypes \cup {"none"},
             status : {"none", "active", "closed", "canceled"}]

PaymentRows == [seq : Nat, amount : Nat, principal : Nat, interest : Nat,
                type : {"scheduled", "prepayment"}]

-----------------------------------------------------------------------------
(* The derived state (loadState). *)

PrincipalOf(rows) == Total([i \in 1 .. Len(rows) |-> rows[i].principal])

OutstandingOf(loan, ledger) == loan.principal - PrincipalOf(ledger)

Scheduled(rows) == {i \in 1 .. Len(rows) : rows[i].type = "scheduled"}

PaidPeriodsOf(ledger) == Cardinality(Scheduled(ledger))

FullyPaidOf(loan, ledger) == PaidPeriodsOf(ledger) >= loan.term

UnpaidOf(loan, ledger) ==
  [outstanding |-> OutstandingOf(loan, ledger), rate |-> loan.rate,
   periods |-> loan.term - PaidPeriodsOf(ledger), type |-> loan.type]

HasPlanOf(loan, ledger) ==
  loan.term - PaidPeriodsOf(ledger) > 0 /\ OutstandingOf(loan, ledger) > 0

\* The plan cannot be rebuilt: loadState fails, and with it every operation
\* but CancelLoan.
LoadFailsOf(loan, ledger) ==
  /\ HasPlanOf(loan, ledger)
  /\ IF loan.payment > 0 THEN FixedPaymentRejects(UnpaidOf(loan, ledger), loan.payment)
                         ELSE BuildRejects(UnpaidOf(loan, ledger))

\* Mutant: the plan is rebuilt from the formula, not at the stored payment.
RemainingScheduleOf_Recomputed(loan, ledger) ==
  IF ~HasPlanOf(loan, ledger) THEN << >> ELSE Build(UnpaidOf(loan, ledger))

\* The stored payment is authoritative for every loan type; the rows are
\* numbered from 1, whatever has been paid.
RemainingScheduleOf(loan, ledger) ==
  IF ~HasPlanOf(loan, ledger) THEN << >>
  ELSE IF loan.payment > 0 THEN BuildFixedPayment(UnpaidOf(loan, ledger), loan.payment)
  ELSE Build(UnpaidOf(loan, ledger))

\* Recompute reports a loan whose remaining plan does not collect what it owes.
DriftsOf(loan, ledger) ==
  SumPrincipal(RemainingScheduleOf(loan, ledger)) # OutstandingOf(loan, ledger)

\* The checks RecordPayment, Prepay and ChangeRate share.
AcceptingOf(loan, ledger) ==
  loan.status = "active" /\ ~LoadFailsOf(loan, ledger) /\ ~FullyPaidOf(loan, ledger)

\* The plan the loan would have had from its first day, with the rate and the
\* term it has now; Payoff fails where Build rejects it.
FullScheduleOf(loan) == [outstanding |-> loan.principal, rate |-> loan.rate,
                         periods |-> loan.term, type |-> loan.type]

-----------------------------------------------------------------------------
(* The rows the operations write. *)

\* CreateLoan: the terms asked for are in range and their plan is well formed.
GoodTerms(principal, rate, periods, type) ==
  LET in == [outstanding |-> principal, rate |-> rate,
             periods |-> periods, type |-> type]
  IN  /\ principal > 0 /\ rate >= 0 /\ periods > 0
      /\ ~BuildRejects(in)
      /\ ValidSchedule(Build(in), principal)

NewLoan(principal, rate, periods, type) ==
  [principal |-> principal, rate |-> rate,
   payment |-> PaymentAmount(principal, rate, periods),
   term |-> periods, type |-> type, status |-> "active"]

\* The row of a payment that collects the planned period next.
ScheduledRow(next) ==
  [seq |-> next.number - 1, amount |-> next.payment, principal |-> next.principal,
   interest |-> next.interest, type |-> "scheduled"]

\* Mutant: the last period is taken for paid one period early.
AfterPayment_ClosesEarly(loan, ledger, next) ==
  IF PaidPeriodsOf(ledger) + 1 >= loan.term - 1
  THEN [loan EXCEPT !.status = "closed"] ELSE loan

\* The payment of the last period, or of all that is owed, closes the loan.
AfterPayment(loan, ledger, next) ==
  IF \/ PaidPeriodsOf(ledger) + 1 >= loan.term
     \/ OutstandingOf(loan, ledger) - next.principal <= 0
  THEN [loan EXCEPT !.status = "closed"]
  ELSE loan

\* What is left to recast once outstanding is owed at the rate.
RecastInput(loan, ledger, outstanding, rate) ==
  [type |-> loan.type, outstanding |-> outstanding, rate |-> rate,
   paid |-> PaidPeriodsOf(ledger), term |-> loan.term, payment |-> loan.payment]

\* Mutant: stamped like the scheduled payments, with Seq 0.
PrepaymentRow_NotStamped(loan, ledger, amount) ==
  [seq |-> 0, amount |-> amount, principal |-> amount, interest |-> 0,
   type |-> "prepayment"]

PrepaymentRow(loan, ledger, amount) ==
  [seq |-> NextUnpaidPeriod(PaidPeriodsOf(ledger), loan.term), amount |-> amount,
   principal |-> amount, interest |-> 0, type |-> "prepayment"]

\* Mutant: the payment is cleared whatever is left.
ReducedTerm_Cleared(loan, in, term) == [loan EXCEPT !.term = term, !.payment = 0]

\* A prepayment that keeps the payment and solves for the term, which may turn
\* out as term.
ReducedTerm(loan, in, term) ==
  [loan EXCEPT !.term = term, !.payment = IF in.outstanding <= 0 THEN 0 ELSE @]

\* A prepayment that keeps the term and recomputes the payment.
ReducedPayment(loan, in) ==
  LET term == RecastReducePayment(in).term
  IN  [loan EXCEPT
         !.term = term,
         !.payment = IF in.outstanding <= 0 THEN 0
                     ELSE PaymentAmount(in.outstanding, loan.rate, term)]

\* Refinancing: a new rate and, while principal is owed, a new payment.
Recasts(in) == RateChangePeriods(in) > 0 /\ in.outstanding > 0

\* Mutant: the payment is not recomputed.
Refinanced_KeepsPayment(loan, in) == [loan EXCEPT !.rate = in.rate]

Refinanced(loan, in) ==
  LET rows == RecastRateChange(in).rows
  IN  [loan EXCEPT
         !.rate = in.rate,
         !.payment = IF Recasts(in) /\ rows # << >> THEN rows[1].payment ELSE @]

-----------------------------------------------------------------------------
(* What holds of every loan the service stores. *)

\* The stored payment, if there is one, pays at least the interest of what is
\* owed; that of an equal_installment loan at a rate exists and returns principal,
\* and one without a payment owes less than half a cent for each of its periods.
Serviced(loan, ledger) ==
  LET interest == MulRateMicro(OutstandingOf(loan, ledger), loan.rate)
  IN  /\ loan.payment = 0 \/ loan.payment >= interest
      /\ loan.type = "equal_installment" /\ loan.rate > 0 => loan.payment > interest
      /\ loan.type = "equal_installment" /\ loan.payment = 0
           => 2 * OutstandingOf(loan, ledger) < loan.term

\* The row and the ledger have their types; before the loan is created nothing
\* is owed; only the payment that closes it may return more than was owed; while
\* principal is owed a period is left to collect it in and the payment services it.
Healthy(loan, ledger) ==
  /\ loan \in LoanRows /\ ledger \in Seq(PaymentRows)
  /\ loan.status = "none" => OutstandingOf(loan, ledger) = 0 /\ ledger = << >>
  /\ loan.status # "none" => loan.type \in LoanTypes
  /\ loan.status \in {"active", "canceled"} => OutstandingOf(loan, ledger) >= 0
  /\ loan.status = "closed" => OutstandingOf(loan, ledger) <= 0
  /\ loan.status = "canceled" => ledger = << >>
  /\ OutstandingOf(loan, ledger) > 0 =>
       PaidPeriodsOf(ledger) < loan.term /\ Serviced(loan, ledger)
=============================================================================
