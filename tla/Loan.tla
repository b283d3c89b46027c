-------------------------------- MODULE Loan --------------------------------
(***************************************************************************)
(* One loan of internal/loan: its row in the loans table, its append-only  *)
(* payment ledger, and the five operations of the service that write them. *)
(*                                                                         *)
(* Each operation of the service runs its reads, its checks and its writes *)
(* in one BEGIN IMMEDIATE transaction on the store's only connection, so   *)
(* each is one atomic action here.  A request the service refuses leaves   *)
(* no trace in the store: it is the action not being enabled.              *)
(*                                                                         *)
(* What the operations read off the row and the ledger, and the rows they  *)
(* write, are the operators of module LoanState.                           *)
(***************************************************************************)
EXTENDS LoanState

CONSTANTS Principals,   \* the amounts a borrower asks for
          Rates,        \* the periodic rates of loans and refinancings
          Terms,        \* the numbers of periods a borrower asks for
          Prepayments,  \* the amounts a borrower prepays
          MaxRemaining  \* bound: the longest term a recast searches

ASSUME RequestAssumption ==
  /\ Principals \subseteq Int
  /\ Rates \subseteq Int
  /\ Terms \subseteq Int
  /\ Prepayments \subseteq Int
  /\ MaxRemaining \in Nat

VARIABLES loan,    \* the row of the loan
          ledger   \* its payment rows, in the order they were committed

vars == <<loan, ledger>>

Strategies == {"reduce_term", "reduce_payment"}

-----------------------------------------------------------------------------
(* The derived state (loadState). *)

Outstanding == OutstandingOf(loan, ledger)

PaidPeriods == PaidPeriodsOf(ledger)

FullyPaid == FullyPaidOf(loan, ledger)

Unpaid == UnpaidOf(loan, ledger)

HasPlan == HasPlanOf(loan, ledger)

LoadFails == LoadFailsOf(loan, ledger)

RemainingSchedule == RemainingScheduleOf(loan, ledger)

Drifts == DriftsOf(loan, ledger)

Accepting == AcceptingOf(loan, ledger)

-----------------------------------------------------------------------------
(* The operations. *)

Init == loan = NoLoan /\ ledger = << >>

CreateLoan(principal, rate, periods, type) ==
  /\ loan.status = "none"
  /\ GoodTerms(principal, rate, periods, type)
  /\ loan' = NewLoan(principal, rate, periods, type)
  /\ UNCHANGED ledger

\* Mutant: the ledger is not consulted.
CancelLoan_Unchecked ==
  /\ loan.status = "active"
  /\ loan' = [loan EXCEPT !.status = "canceled"]
  /\ UNCHANGED ledger

CancelLoan ==
  /\ loan.status = "active"
  /\ Len(ledger) = 0
  /\ loan' = [loan EXCEPT !.status = "canceled"]
  /\ UNCHANGED ledger

\* The borrower pays exactly the next planned payment, which must be > 0.
RecordPayment ==
  /\ Accepting
  /\ RemainingSchedule # << >>
  /\ LET next == RemainingSchedule[1]
     IN  /\ next.payment > 0
         /\ ledger' = Append(ledger, ScheduledRow(next))
         /\ loan' = AfterPayment(loan, ledger, next)

\* A prepayment that keeps the payment and solves for the term.
PrepayReducingTerm(amount) ==
  LET in == RecastInput(loan, ledger, Outstanding - amount, loan.rate)
  IN  /\ Accepting
      /\ amount > 0 /\ amount <= Outstanding
      /\ loan.type = "equal_installment"
      /\ ~ReduceTermRejects(in)
      /\ ledger' = Append(ledger, PrepaymentRow(loan, ledger, amount))
      /\ \E term \in RecastReduceTerm(in, MaxRemaining) :
           loan' = ReducedTerm(loan, in, term)

\* A prepayment that keeps the term and recomputes the payment.
PrepayReducingPayment(amount) ==
  LET in == RecastInput(loan, ledger, Outstanding - amount, loan.rate)
  IN  /\ Accepting
      /\ amount > 0 /\ amount <= Outstanding
      /\ ~ReducePaymentRejects(in)
      /\ ledger' = Append(ledger, PrepaymentRow(loan, ledger, amount))
      /\ loan' = ReducedPayment(loan, in)

Prepay(amount, strategy) ==
  \/ strategy = "reduce_term" /\ PrepayReducingTerm(amount)
  \/ strategy = "reduce_payment" /\ PrepayReducingPayment(amount)

ChangeRate(rate) ==
  LET in == RecastInput(loan, ledger, Outstanding, rate)
  IN  /\ rate >= 0
      /\ Accepting
      /\ Recasts(in) => ~RateChangeRejects(in)
      /\ loan' = Refinanced(loan, in)
      /\ UNCHANGED ledger

Next ==
  \/ \E principal \in Principals, rate \in Rates, periods \in Terms, type \in LoanTypes :
       CreateLoan(principal, rate, periods, type)
  \/ CancelLoan
  \/ RecordPayment
  \/ \E amount \in Prepayments, strategy \in Strategies : Prepay(amount, strategy)
  \/ \E rate \in Rates : ChangeRate(rate)

Spec == Init /\ [][Next]_vars

\* The borrower keeps paying the planned payments that are accepted.  This is
\* an assumption about the borrower: the service only answers requests.
FairSpec == Spec /\ WF_vars(RecordPayment)

-----------------------------------------------------------------------------
(* What holds. *)

\* The row and the ledger have their types: no payment row ever carries a
\* negative principal or interest, no recast stores a negative payment.
TypeOK == loan \in LoanRows /\ ledger \in Seq(PaymentRows)

\* An open loan that owes principal has a period left to collect it in, so
\* that FullyPaid never locks the borrower of an unsettled loan out.
DebtHasAPeriod ==
  loan.status = "active" /\ Outstanding > 0 => PaidPeriods < loan.term

\* loadState can always rebuild the plan: no sequence of prepayments and
\* refinancings stores a rate, a term and a payment it then refuses.  (One
\* loan it failed for would fail Recompute for the whole portfolio.)
LoadStateNeverFails == ~LoadFails

\* A loan is closed only when its ledger has returned the whole principal,
\* and canceled only while the ledger is empty.
TerminalMeansSettled ==
  /\ loan.status = "closed" => Outstanding <= 0
  /\ loan.status = "canceled" => ledger = << >>

\* Until a loan closes, the remaining plan collects exactly the principal the
\* ledger says is outstanding: the equation Recompute audits.
PlanCollectsDebt ==
  loan.status \in {"active", "canceled"} => SumPrincipal(RemainingSchedule) = Outstanding

\* An equal_installment or equal_principal loan that owes principal always
\* has a next payment RecordPayment would take (an amount must be > 0).
NextPaymentIsPayable ==
  loan.status = "active" /\ loan.type # "interest_only" /\ Outstanding > 0
    => RemainingSchedule[1].payment > 0

\* The stored payment of an equal_installment loan exceeds the interest of
\* what is owed, whatever recasts it went through, so that a reduce_term
\* prepayment is never refused for a payment too small to amortize.
ReduceTermNeverRefused ==
  loan.status = "active" /\ loan.type = "equal_installment" /\ loan.payment > 0
    => \A amount \in 1 .. Outstanding :
         ~ReduceTermRejects(RecastInput(loan, ledger, Outstanding - amount, loan.rate))

\* The stored payment, when there is one, pays at least the interest of what
\* is owed; that of an equal_installment loan at a rate also exists and
\* returns principal, and one whose payment is 0 owes less than half a cent for
\* each of its periods.  This is what the rebuilt plans rest on.
PaymentServicesDebt ==
  Outstanding > 0 =>
    /\ loan.payment = 0 \/ loan.payment >= MulRateMicro(Outstanding, loan.rate)
    /\ loan.type = "equal_installment" /\ loan.rate > 0
         => loan.payment > MulRateMicro(Outstanding, loan.rate)
    /\ loan.type = "equal_installment" /\ loan.payment = 0
         => 2 * Outstanding < loan.term

\* A prepayment that keeps the payment never stores a term longer than two
\* periods per cent still owed, and one, after those paid: however little the
\* payment exceeds the interest, the ceiling of the logarithm RecastReduceTerm
\* allocates a schedule for stays in proportion to the debt.
SolvedTermIsBounded ==
  [][\A amount \in Prepayments :
       PrepayReducingTerm(amount)
         => loan'.term <= PaidPeriods + 2 * (Outstanding - amount) + 1]_vars

\* No period of the remaining plan leaves more owed, or costs more interest,
\* than the loan owes now: no history makes a plan grow the debt, and no product
\* MulRateMicro takes in float64 is above the principal lent times the rate.
PlanNeverGrowsDebt ==
  \A i \in 1 .. Len(RemainingSchedule) :
    /\ RemainingSchedule[i].balance <= Outstanding
    /\ RemainingSchedule[i].interest <= MulRateMicro(Outstanding, loan.rate)

\* What the loan promises its owner: module LoanContract.
Contract == INSTANCE LoanContract
              WITH phase <- loan.status, owed <- Outstanding, entries <- Len(ledger)

\* Every behaviour of the five operations is a behaviour of the contract.
KeepsContract == Contract!Spec

\* A borrower who keeps paying the planned payments settles the loan, however
\* prepayments and refinancings are mixed in.  (An interest_only loan is exempt:
\* at rate 0 its planned payments are 0, which RecordPayment refuses.  A loan
\* prepaid in full counts as settled although it is not closed.)
PayingSettles ==
  loan.status = "active" /\ loan.type # "interest_only"
    ~> loan.status = "canceled" \/ Outstanding <= 0

-----------------------------------------------------------------------------
(* What the comments and tests of the code say, and the code does not do.  *)

\* loan/store.go:44: "a scheduled payment for period k has Seq=k; a prepayment
\* made after period k has Seq=k".
SeqIsThePeriodPaid ==
  \A i \in DOMAIN ledger :
    ledger[i].seq = Cardinality({j \in Scheduled(ledger) : j <= i})

\* recast.go:46: "Fully prepaid: no remaining periods, loan closes this period."
FullyPrepaidCloses ==
  loan.status = "active" => Outstanding > 0

\* domain.go:25: "periods 1..n-1 pay interest only".
InterestOnlyUntilMaturity ==
  loan.status = "active" /\ loan.type = "interest_only"
    => \A i \in 1 .. Len(RemainingSchedule) - 1 : RemainingSchedule[i].principal = 0

\* loan/service.go:834: "A healthy portfolio has zero drift", drift being the
\* difference of the two sides.
HealthyHasNoDrift == ~Drifts

\* recast.go:80: reduce_payment "keeps the remaining term fixed"; "the
\* remaining periods = OriginalTerm - PaidPeriods".
ReducePaymentKeepsRemaining ==
  [][\A amount \in Prepayments :
       PrepayReducingPayment(amount) /\ amount < Outstanding
         => loan'.payment = PaymentAmount(Outstanding - amount, loan.rate,
                                          loan.term - PaidPeriods)]_vars

\* service.go:684: a rate change applies "for the remaining term and
\* recomputes the payment": it is the one Build plans for that term.
RateChangeKeepsRemaining ==
  [][\A rate \in Rates :
       ChangeRate(rate) /\ HasPlan
         => loan'.payment = Build([Unpaid EXCEPT !.rate = rate])[1].payment]_vars
=============================================================================
