----------------------------- MODULE LoanProofs -----------------------------
(***************************************************************************)
(* Proofs about module Loan, for every scale, every set of requests and    *)
(* every bound.                                                            *)
(*                                                                         *)
(* The invariants are proved together from one inductive invariant, IInv:  *)
(* the loan is Healthy.  An effect lemma per operation says what it does   *)
(* to the outstanding principal and to the number of paid periods; the     *)
(* step of the contract follows from it.  Both are facts of                *)
(* LoanStateProofs about the operation as a relation between values.       *)
(***************************************************************************)
EXTENDS Loan, LoanStateProofs

-----------------------------------------------------------------------------
(***************************************************************************)
(* The inductive invariant                                                 *)
(***************************************************************************)

\* Before the loan is created there is nothing to owe.
Untouched == loan.status = "none" => Outstanding = 0 /\ ledger = << >>

Typed == loan.status # "none" => loan.type \in LoanTypes

\* Only the entry that closes the loan may return more than is owed.
NotOverCollected == loan.status \in {"active", "canceled"} => Outstanding >= 0

PeriodLeft == Outstanding > 0 => PaidPeriods < loan.term

IInv ==
  /\ TypeOK
  /\ Untouched
  /\ Typed
  /\ NotOverCollected
  /\ TerminalMeansSettled
  /\ PeriodLeft
  /\ PaymentServicesDebt

\* The inductive invariant says that the loan is healthy.
LEMMA IInvIsHealthy ==
  /\ IInv <=> Healthy(loan, ledger)
  /\ IInv' <=> Healthy(loan', ledger')
<1>1. IInv <=> Healthy(loan, ledger)
  BY DEF IInv, TypeOK, Untouched, Typed, NotOverCollected, TerminalMeansSettled, PeriodLeft,
         PaymentServicesDebt, Healthy, Serviced, Outstanding, PaidPeriods
<1>2. IInv' <=> Healthy(loan', ledger')
  BY DEF IInv, TypeOK, Untouched, Typed, NotOverCollected, TerminalMeansSettled, PeriodLeft,
         PaymentServicesDebt, Healthy, Serviced, Outstanding, PaidPeriods
<1> QED
  BY <1>1, <1>2

\* The operations are those of LoanStateProofs.
LEMMA OperationRelations ==
  ASSUME NEW principal, NEW rate, NEW periods, NEW type, NEW amount
  PROVE  /\ CreateLoan(principal, rate, periods, type)
              <=> Creates(loan, ledger, loan', ledger', principal, rate, periods, type)
         /\ CancelLoan <=> Cancels(loan, ledger, loan', ledger')
         /\ RecordPayment <=> Pays(loan, ledger, loan', ledger')
         /\ PrepayReducingTerm(amount)
              <=> ReducesTerm(loan, ledger, loan', ledger', amount, MaxRemaining)
         /\ PrepayReducingPayment(amount)
              <=> ReducesPayment(loan, ledger, loan', ledger', amount)
         /\ ChangeRate(rate) <=> Refinances(loan, ledger, loan', ledger', rate)
<1>1. CreateLoan(principal, rate, periods, type)
        <=> Creates(loan, ledger, loan', ledger', principal, rate, periods, type)
  BY DEF CreateLoan, Creates
<1>2. CancelLoan <=> Cancels(loan, ledger, loan', ledger')
  BY DEF CancelLoan, Cancels
<1>3. RecordPayment <=> Pays(loan, ledger, loan', ledger')
  BY DEF RecordPayment, Pays, Accepting, RemainingSchedule
<1>4. PrepayReducingTerm(amount)
        <=> ReducesTerm(loan, ledger, loan', ledger', amount, MaxRemaining)
  BY DEF PrepayReducingTerm, ReducesTerm, Prepays, Left, Accepting, Outstanding
<1>5. PrepayReducingPayment(amount)
        <=> ReducesPayment(loan, ledger, loan', ledger', amount)
  BY DEF PrepayReducingPayment, ReducesPayment, Prepays, Left, Accepting, Outstanding
<1>6. ChangeRate(rate) <=> Refinances(loan, ledger, loan', ledger', rate)
  BY DEF ChangeRate, Refinances, Accepting, Outstanding
<1> QED
  BY <1>1, <1>2, <1>3, <1>4, <1>5, <1>6

LEMMA DerivedTypes ==
  ASSUME IInv
  PROVE  /\ Outstanding \in Int
         /\ PaidPeriods \in Nat
         /\ loan.term \in Nat /\ loan.rate \in Nat /\ loan.payment \in Nat
         /\ loan.principal \in Nat
         /\ ledger \in Seq(PaymentRows)
BY IInvIsHealthy, HealthyTypes DEF Outstanding, PaidPeriods

\* What an entry does to the derived state.
LEMMA LedgerGrows ==
  ASSUME IInv, NEW row \in PaymentRows,
         ledger' = Append(ledger, row), loan'.principal = loan.principal
  PROVE  /\ ledger' \in Seq(PaymentRows)
         /\ Len(ledger') = Len(ledger) + 1
         /\ Outstanding' = Outstanding - row.principal
         /\ PaidPeriods' = PaidPeriods + (IF row.type = "scheduled" THEN 1 ELSE 0)
<1>1. Outstanding' = OutstandingOf(loan, ledger')
  BY SamePrincipal DEF Outstanding
<1> QED
  BY <1>1, IInvIsHealthy, RowAdded DEF Outstanding, PaidPeriods

-----------------------------------------------------------------------------
(***************************************************************************)
(* The plan of a loan that satisfies the invariant                         *)
(***************************************************************************)

LEMMA UnpaidInput ==
  ASSUME IInv, HasPlan
  PROVE  /\ Unpaid \in ScheduleInputs
         /\ Unpaid.outstanding = Outstanding /\ Unpaid.rate = loan.rate
         /\ Unpaid.periods = loan.term - PaidPeriods /\ Unpaid.type = loan.type
         /\ Outstanding > 0
BY IInvIsHealthy, UnpaidIsInput DEF Unpaid, HasPlan, Outstanding, PaidPeriods

\* loadState never fails.
LEMMA LoadNeverFails ==
  ASSUME IInv
  PROVE  LoadStateNeverFails
BY IInvIsHealthy, HealthyLoads DEF LoadStateNeverFails, LoadFails

\* The next planned payment.
LEMMA NextRow ==
  ASSUME IInv, HasPlan
  PROVE  /\ RemainingSchedule # << >>
         /\ RemainingSchedule[1].number = 1
         /\ RemainingSchedule[1].principal \in Nat
         /\ RemainingSchedule[1].interest = MulRateMicro(Outstanding, loan.rate)
         /\ RemainingSchedule[1].interest \in Nat
         /\ RemainingSchedule[1].payment
              = RemainingSchedule[1].principal + RemainingSchedule[1].interest
         /\ loan.term - PaidPeriods = 1 => RemainingSchedule[1].principal = Outstanding
BY IInvIsHealthy, PlannedRow DEF RemainingSchedule, HasPlan, Outstanding, PaidPeriods

-----------------------------------------------------------------------------
(***************************************************************************)
(* The effects of the operations                                           *)
(***************************************************************************)

\* A new entry that returns at least nothing, while the rest of the row does
\* what the operation says.
Collects == Collected(loan, ledger, loan', ledger')

LEMMA RecordPaymentEffect ==
  ASSUME IInv, RecordPayment
  PROVE  /\ loan.status = "active"
         /\ Collects
         /\ PaidPeriods' = PaidPeriods + 1
         /\ \/ /\ PaidPeriods + 1 < loan.term
               /\ Outstanding' > 0
               /\ loan' = loan
            \/ /\ Outstanding' <= 0
               /\ loan' = [loan EXCEPT !.status = "closed"]
<1>1. Healthy(loan, ledger) /\ Pays(loan, ledger, loan', ledger')
  BY IInvIsHealthy, OperationRelations
<1> QED
  BY <1>1, PaymentEffect DEF Collects, Outstanding, PaidPeriods

LEMMA ReduceTermEffect ==
  ASSUME IInv, NEW amount \in Int, PrepayReducingTerm(amount)
  PROVE  /\ loan.status = "active"
         /\ Collects
         /\ Outstanding' \in Nat
         /\ PaidPeriods' = PaidPeriods
         /\ \E term \in Nat :
              \/ Outstanding' = 0 /\ loan' = [loan EXCEPT !.term = term, !.payment = 0]
              \/ PaidPeriods < term /\ loan' = [loan EXCEPT !.term = term]
<1>1. /\ Healthy(loan, ledger) /\ MaxRemaining \in Nat
      /\ ReducesTerm(loan, ledger, loan', ledger', amount, MaxRemaining)
  BY IInvIsHealthy, OperationRelations, RequestAssumption
<1>2. /\ loan.status = "active"
      /\ Collected(loan, ledger, loan', ledger')
      /\ OutstandingOf(loan', ledger') \in Nat
      /\ PaidPeriodsOf(ledger') = PaidPeriodsOf(ledger)
      /\ NewTerm(loan, ledger, loan', ledger')
  BY <1>1, ReducedTermEffect
<1> QED
  BY <1>2 DEF Collects, NewTerm, Outstanding, PaidPeriods

LEMMA ReducePaymentEffect ==
  ASSUME IInv, NEW amount \in Int, PrepayReducingPayment(amount)
  PROVE  /\ loan.status = "active"
         /\ Collects
         /\ Outstanding' \in Nat
         /\ PaidPeriods' = PaidPeriods
         /\ PaidPeriods < loan.term
         /\ \/ /\ Outstanding' = 0
               /\ \E term \in Nat : loan' = [loan EXCEPT !.term = term, !.payment = 0]
            \/ \E payment \in Nat :
                 /\ Services(payment, loan.type, Outstanding', loan.rate, loan.term)
                 /\ loan' = [loan EXCEPT !.payment = payment]
<1>1. Healthy(loan, ledger) /\ ReducesPayment(loan, ledger, loan', ledger', amount)
  BY IInvIsHealthy, OperationRelations
<1>2. /\ loan.status = "active"
      /\ Collected(loan, ledger, loan', ledger')
      /\ OutstandingOf(loan', ledger') \in Nat
      /\ PaidPeriodsOf(ledger') = PaidPeriodsOf(ledger)
      /\ PaidPeriodsOf(ledger) < loan.term
      /\ NewPayment(loan, ledger, loan', ledger')
  BY <1>1, ReducedPaymentEffect
<1> QED
  BY <1>2 DEF Collects, NewPayment, Outstanding, PaidPeriods

LEMMA ChangeRateEffect ==
  ASSUME IInv, NEW rate \in Int, ChangeRate(rate)
  PROVE  /\ loan.status = "active"
         /\ rate \in Nat
         /\ ledger' = ledger
         /\ Outstanding' = Outstanding
         /\ PaidPeriods' = PaidPeriods
         /\ PaidPeriods < loan.term
         /\ \E payment \in Nat :
              /\ Outstanding > 0 => Services(payment, loan.type, Outstanding, rate, loan.term)
              /\ loan' = [loan EXCEPT !.rate = rate, !.payment = payment]
<1>1. Healthy(loan, ledger) /\ Refinances(loan, ledger, loan', ledger', rate)
  BY IInvIsHealthy, OperationRelations
<1>2. /\ loan.status = "active"
      /\ rate \in Nat
      /\ ledger' = ledger
      /\ OutstandingOf(loan', ledger') = OutstandingOf(loan, ledger)
      /\ PaidPeriodsOf(ledger') = PaidPeriodsOf(ledger)
      /\ PaidPeriodsOf(ledger) < loan.term
      /\ NewRate(loan, ledger, loan', rate)
  BY <1>1, RefinancedEffect
<1> QED
  BY <1>2 DEF NewRate, Outstanding, PaidPeriods

LEMMA CreateLoanEffect ==
  ASSUME IInv, NEW principal \in Int, NEW rate \in Int, NEW periods \in Int,
         NEW type \in LoanTypes, CreateLoan(principal, rate, periods, type)
  PROVE  /\ loan.status = "none"
         /\ ledger' = ledger /\ ledger = << >>
         /\ loan' \in LoanRows
         /\ loan'.status = "active"
         /\ loan'.type \in LoanTypes
         /\ Outstanding' \in Nat \ {0}
         /\ PaidPeriods' = 0
         /\ loan'.term > 0
         /\ Services(loan'.payment, loan'.type, Outstanding', loan'.rate, loan'.term)
<1>1. /\ Healthy(loan, ledger)
      /\ Creates(loan, ledger, loan', ledger', principal, rate, periods, type)
  BY IInvIsHealthy, OperationRelations
<1> QED
  BY <1>1, NewLoanEffect DEF Outstanding, PaidPeriods

LEMMA CancelLoanEffect ==
  ASSUME IInv, CancelLoan
  PROVE  /\ loan.status = "active" /\ loan'.status = "canceled"
         /\ ledger = << >> /\ ledger' = ledger
         /\ loan' = [loan EXCEPT !.status = "canceled"]
         /\ Outstanding' = Outstanding /\ PaidPeriods' = PaidPeriods
<1>1. Healthy(loan, ledger) /\ Cancels(loan, ledger, loan', ledger')
  BY IInvIsHealthy, OperationRelations
<1> QED
  BY <1>1, CanceledEffect DEF Outstanding, PaidPeriods

-----------------------------------------------------------------------------
(***************************************************************************)
(* The invariant is inductive                                              *)
(***************************************************************************)

LEMMA InitIInv == Init => IInv
<1> SUFFICES ASSUME Init PROVE IInv
  OBVIOUS
<1>1. loan = NoLoan /\ ledger = << >>
  BY DEF Init
<1>2. Outstanding = 0
  BY <1>1, PrincipalOfEmpty DEF Outstanding, OutstandingOf, NoLoan
<1>3. TypeOK
  BY <1>1 DEF TypeOK, NoLoan, LoanRows, LoanTypes
<1>4. loan.status = "none"
  BY <1>1 DEF NoLoan
<1> QED
  BY <1>1, <1>2, <1>3, <1>4
  DEF IInv, Untouched, Typed, NotOverCollected, TerminalMeansSettled, PeriodLeft,
      PaymentServicesDebt

LEMMA CreateLoanKeeps ==
  ASSUME IInv, NEW principal \in Int, NEW rate \in Int, NEW periods \in Int,
         NEW type \in LoanTypes, CreateLoan(principal, rate, periods, type)
  PROVE  IInv'
<1>1. /\ Healthy(loan, ledger)
      /\ Creates(loan, ledger, loan', ledger', principal, rate, periods, type)
  BY IInvIsHealthy, OperationRelations
<1> QED
  BY <1>1, NewLoanIsHealthy, IInvIsHealthy

LEMMA CancelLoanKeeps ==
  ASSUME IInv, CancelLoan
  PROVE  IInv'
<1>1. Healthy(loan, ledger) /\ Cancels(loan, ledger, loan', ledger')
  BY IInvIsHealthy, OperationRelations
<1> QED
  BY <1>1, CanceledIsHealthy, IInvIsHealthy

LEMMA RecordPaymentKeeps ==
  ASSUME IInv, RecordPayment
  PROVE  IInv'
<1>1. Healthy(loan, ledger) /\ Pays(loan, ledger, loan', ledger')
  BY IInvIsHealthy, OperationRelations
<1> QED
  BY <1>1, PaidIsHealthy, IInvIsHealthy

LEMMA ReduceTermKeeps ==
  ASSUME IInv, NEW amount \in Int, PrepayReducingTerm(amount)
  PROVE  IInv'
<1>1. /\ Healthy(loan, ledger) /\ MaxRemaining \in Nat
      /\ ReducesTerm(loan, ledger, loan', ledger', amount, MaxRemaining)
  BY IInvIsHealthy, OperationRelations, RequestAssumption
<1> QED
  BY <1>1, ReducedTermIsHealthy, IInvIsHealthy

LEMMA ReducePaymentKeeps ==
  ASSUME IInv, NEW amount \in Int, PrepayReducingPayment(amount)
  PROVE  IInv'
<1>1. Healthy(loan, ledger) /\ ReducesPayment(loan, ledger, loan', ledger', amount)
  BY IInvIsHealthy, OperationRelations
<1> QED
  BY <1>1, ReducedPaymentIsHealthy, IInvIsHealthy

LEMMA ChangeRateKeeps ==
  ASSUME IInv, NEW rate \in Int, ChangeRate(rate)
  PROVE  IInv'
<1>1. Healthy(loan, ledger) /\ Refinances(loan, ledger, loan', ledger', rate)
  BY IInvIsHealthy, OperationRelations
<1> QED
  BY <1>1, RefinancedIsHealthy, IInvIsHealthy

LEMMA StutterKeeps ==
  ASSUME IInv, UNCHANGED vars
  PROVE  IInv'
<1>1. loan' = loan /\ ledger' = ledger
  BY DEF vars
<1>2. Outstanding' = Outstanding /\ PaidPeriods' = PaidPeriods
  BY <1>1 DEF Outstanding, OutstandingOf, PaidPeriods, PaidPeriodsOf
<1> QED
  BY <1>1, <1>2
  DEF IInv, TypeOK, Untouched, Typed, NotOverCollected, TerminalMeansSettled, PeriodLeft,
      PaymentServicesDebt

LEMMA NextIInv == IInv /\ [Next]_vars => IInv'
<1> SUFFICES ASSUME IInv, [Next]_vars PROVE IInv'
  OBVIOUS
<1>1. ASSUME NEW principal \in Principals, NEW rate \in Rates, NEW periods \in Terms,
             NEW type \in LoanTypes, CreateLoan(principal, rate, periods, type)
      PROVE  IInv'
  <2>1. principal \in Int /\ rate \in Int /\ periods \in Int
    BY RequestAssumption
  <2> QED
    BY <1>1, <2>1, CreateLoanKeeps
<1>2. CASE CancelLoan
  BY <1>2, CancelLoanKeeps
<1>3. CASE RecordPayment
  BY <1>3, RecordPaymentKeeps
<1>4. ASSUME NEW amount \in Prepayments, NEW strategy \in Strategies,
             Prepay(amount, strategy)
      PROVE  IInv'
  <2>1. amount \in Int
    BY RequestAssumption
  <2>2. CASE PrepayReducingTerm(amount)
    BY <2>1, <2>2, ReduceTermKeeps
  <2>3. CASE PrepayReducingPayment(amount)
    BY <2>1, <2>3, ReducePaymentKeeps
  <2> QED
    BY <1>4, <2>2, <2>3 DEF Prepay
<1>5. ASSUME NEW rate \in Rates, ChangeRate(rate)
      PROVE  IInv'
  <2>1. rate \in Int
    BY RequestAssumption
  <2> QED
    BY <1>5, <2>1, ChangeRateKeeps
<1>6. CASE UNCHANGED vars
  BY <1>6, StutterKeeps
<1> QED
  BY <1>1, <1>2, <1>3, <1>4, <1>5, <1>6 DEF Next

THEOREM Invariance == Spec => []IInv
<1>1. Init => IInv
  BY InitIInv
<1>2. IInv /\ [Next]_vars => IInv'
  BY NextIInv
<1> QED
  BY <1>1, <1>2, PTL DEF Spec

-----------------------------------------------------------------------------
(***************************************************************************)
(* The invariants of the runs                                              *)
(***************************************************************************)

\* The row and the ledger keep their types: no request makes the service
\* commit a negative principal, interest, payment or term.
THEOREM TypeCorrect == Spec => []TypeOK
<1>1. IInv => TypeOK
  BY DEF IInv
<1> QED
  BY <1>1, Invariance, PTL

\* An open loan with principal to return has a period left to return it in.
THEOREM DebtAlwaysHasAPeriod == Spec => []DebtHasAPeriod
<1>1. IInv => DebtHasAPeriod
  BY DEF IInv, PeriodLeft, DebtHasAPeriod
<1> QED
  BY <1>1, Invariance, PTL

\* loadState rebuilds the plan of every loan the service can store, so that
\* Recompute and the reads never fail for one.
THEOREM LoadStateAlwaysSucceeds == Spec => []LoadStateNeverFails
<1>1. IInv => LoadStateNeverFails
  BY LoadNeverFails
<1> QED
  BY <1>1, Invariance, PTL

\* A loan is closed only when it is settled, canceled only untouched.
THEOREM TerminalAlwaysSettled == Spec => []TerminalMeansSettled
<1>1. IInv => TerminalMeansSettled
  BY DEF IInv
<1> QED
  BY <1>1, Invariance, PTL

\* The stored payment services the debt, through every recast.
THEOREM PaymentAlwaysServices == Spec => []PaymentServicesDebt
<1>1. IInv => PaymentServicesDebt
  BY DEF IInv
<1> QED
  BY <1>1, Invariance, PTL

\* Until the loan closes, the remaining plan collects exactly the principal
\* the ledger leaves outstanding: what Recompute audits has no drift.
THEOREM PlanAlwaysCollectsDebt == Spec => []PlanCollectsDebt
<1>1. ASSUME IInv PROVE PlanCollectsDebt
  <2> SUFFICES ASSUME loan.status \in {"active", "canceled"}
               PROVE  SumPrincipal(RemainingSchedule) = Outstanding
    BY DEF PlanCollectsDebt
  <2>1. CASE HasPlan
    <3>1. /\ Unpaid \in ScheduleInputs
          /\ Unpaid.outstanding = Outstanding /\ Outstanding > 0
      BY <1>1, <2>1, UnpaidInput
    <3>2. Outstanding \in Int /\ loan.payment \in Nat
      BY <1>1, DerivedTypes DEF IInv
    <3>3. Unpaid.outstanding # 0
      BY <3>1, <3>2
    <3>4. SumPrincipal(Build(Unpaid)) = Outstanding
      BY <3>1, BuildCloses
    <3>5. SumPrincipal(BuildFixedPayment(Unpaid, loan.payment)) = Outstanding
      BY <3>1, <3>2, <3>3, BuildFixedPaymentCloses
    <3> QED
      BY <2>1, <3>4, <3>5 DEF RemainingSchedule, RemainingScheduleOf, HasPlan, Unpaid
  <2>2. CASE ~HasPlan
    <3>1. RemainingSchedule = << >>
      BY <2>2 DEF RemainingSchedule, RemainingScheduleOf, HasPlan, Unpaid
    <3>2. SumPrincipal(<< >>) = 0
      BY PrincipalOfEmpty DEF SumPrincipal, PrincipalOf
    <3>3. Outstanding \in Int /\ PaidPeriods \in Nat /\ loan.term \in Nat
      BY <1>1, DerivedTypes DEF IInv
    <3>4. Outstanding = 0
      BY <1>1, <2>2, <3>3 DEF HasPlan, HasPlanOf, Outstanding, PaidPeriods, IInv,
                              NotOverCollected, PeriodLeft
    <3> QED
      BY <3>1, <3>2, <3>4
  <2> QED
    BY <2>1, <2>2
<1> QED
  BY <1>1, Invariance, PTL

\* An amortizing loan that owes principal has a next payment RecordPayment
\* accepts: its row or, at a payment rounded to zero, its part of principal.
THEOREM NextPaymentAlwaysPayable == Spec => []NextPaymentIsPayable
<1>1. ASSUME IInv PROVE NextPaymentIsPayable
  <2> SUFFICES ASSUME loan.status = "active", loan.type # "interest_only", Outstanding > 0
               PROVE  RemainingSchedule[1].payment > 0
    BY DEF NextPaymentIsPayable
  <2>1. HasPlan
    <3>1. PaidPeriods < loan.term
      BY <1>1 DEF IInv, PeriodLeft
    <3> QED
      BY <1>1, <3>1, DerivedTypes DEF IInv, HasPlan, HasPlanOf, Outstanding, PaidPeriods
  <2>2. /\ Unpaid \in ScheduleInputs
        /\ Unpaid.outstanding = Outstanding /\ Unpaid.type = loan.type
        /\ Unpaid.rate = loan.rate /\ Unpaid.periods = loan.term - PaidPeriods
    BY <1>1, <2>1, UnpaidInput
  <2>3. Outstanding \in Int /\ loan.payment \in Nat /\ loan.rate \in Nat
    BY <1>1, DerivedTypes DEF IInv
  <2>4. LET row == RemainingSchedule[1]
        IN  /\ row.principal \in Nat /\ row.interest \in Nat
            /\ row.payment = row.principal + row.interest
            /\ row.interest = MulRateMicro(Outstanding, loan.rate)
            /\ Unpaid.periods = 1 => row.principal = Outstanding
    BY <1>1, <2>1, <2>2, NextRow
  <2>5. CASE Unpaid.periods = 1
    BY <2>3, <2>4, <2>5
  <2>6. CASE Unpaid.periods # 1 /\ loan.payment > 0
    <3>1. RemainingSchedule = BuildFixedPayment(Unpaid, loan.payment)
      BY <2>1, <2>6 DEF RemainingSchedule, RemainingScheduleOf, HasPlan, Unpaid
    <3>2. RemainingSchedule[1].principal
            = loan.payment - MulRateMicro(Outstanding, loan.rate)
      BY <2>2, <2>3, <2>6, <3>1, FixedPaymentFirstRow DEF FirstRow
    <3>3. RemainingSchedule[1].payment = loan.payment
      BY <2>3, <2>4, <3>2
    <3> QED
      BY <2>6, <3>3
  <2>7. CASE Unpaid.periods # 1 /\ ~(loan.payment > 0)
    <3>1. RemainingSchedule = Build(Unpaid)
      BY <2>1, <2>7 DEF RemainingSchedule, RemainingScheduleOf, HasPlan, Unpaid
    <3>2. loan.type \in LoanTypes
      BY <1>1 DEF IInv, Typed
    <3>3. loan.type = "equal_principal" \/ loan.rate = 0
      <4>1. loan.payment = 0
        BY <2>3, <2>7
      <4>2. MulRateMicro(Outstanding, loan.rate) \in Nat
        <5>1. Outstanding \in Nat
          BY <2>3
        <5> QED
          BY <2>3, <5>1, InterestType
      <4>3. ~(loan.type = "equal_installment" /\ loan.rate > 0)
        BY <1>1, <4>1, <4>2 DEF IInv, PaymentServicesDebt
      <4> QED
        BY <2>3, <3>2, <4>3 DEF LoanTypes
    <3>4. DueOf(Unpaid) = EqualPrincipalDue(Unpaid)
      BY <2>2, <3>2, <3>3 DEF DueOf, EqualInstallmentDue, LoanTypes
    <3>5. FirstPrincipal(Unpaid) > 0
      BY <2>2, <3>4, EqualPrincipalFirst DEF FirstPrincipal
    <3>6. RemainingSchedule[1].principal = FirstPrincipal(Unpaid)
      BY <2>2, <3>1, BuildFirstRow DEF FirstRow
    <3> QED
      BY <2>4, <3>5, <3>6
  <2> QED
    BY <2>5, <2>6, <2>7
<1> QED
  BY <1>1, Invariance, PTL

\* reduce_term is never refused for the payment of an equal_installment loan.
THEOREM ReduceTermAlwaysAccepted == Spec => []ReduceTermNeverRefused
<1>1. ASSUME IInv PROVE ReduceTermNeverRefused
  <2> SUFFICES ASSUME loan.type = "equal_installment", loan.payment > 0,
                      NEW amount \in 1 .. Outstanding
               PROVE  ~ReduceTermRejects(RecastInput(loan, ledger,
                                                     Outstanding - amount, loan.rate))
    BY DEF ReduceTermNeverRefused
  <2> DEFINE in == RecastInput(loan, ledger, Outstanding - amount, loan.rate)
  <2>1. Outstanding \in Int /\ loan.payment \in Nat /\ loan.rate \in Nat
    BY <1>1, DerivedTypes DEF IInv
  <2>2. in.outstanding = Outstanding - amount /\ in.rate = loan.rate
        /\ in.payment = loan.payment
    BY DEF RecastInput
  <2> HIDE DEF in
  <2>3. SUFFICES ASSUME in.rate # 0, in.payment * RateMicroScale <= in.outstanding * in.rate
                 PROVE  FALSE
    BY <2>1, <2>2 DEF ReduceTermRejects, in
  <2>4. /\ loan.rate > 0 /\ Outstanding \in Nat \ {0}
        /\ amount \in Nat /\ amount <= Outstanding
    BY <2>1, <2>2, <2>3
  <2>5. loan.payment > MulRateMicro(Outstanding, loan.rate)
    BY <1>1, <2>4 DEF IInv, PaymentServicesDebt
  <2>6. Outstanding * loan.rate \in Nat /\ RateMicroScale \in Nat \ {0}
    BY <2>1, <2>4, ScaleAssumption
  <2>7. loan.payment * RateMicroScale > Outstanding * loan.rate
    <3>1. loan.payment > RoundCents(Outstanding * loan.rate, RateMicroScale)
      BY <2>5 DEF MulRateMicro
    <3> QED
      BY <2>1, <2>6, <3>1, AboveRoundedInterest
  <2>8. (Outstanding - amount) * loan.rate = Outstanding * loan.rate - amount * loan.rate
    BY <2>1, <2>4
  <2>9. amount * loan.rate \in Nat
    BY <2>1, <2>4
  <2> QED
    BY <2>1, <2>2, <2>3, <2>6, <2>7, <2>8, <2>9
<1> QED
  BY <1>1, Invariance, PTL

\* No plan of a stored loan grows the debt.
THEOREM PlanNeverGrows == Spec => []PlanNeverGrowsDebt
<1>1. IInv => PlanNeverGrowsDebt
  BY IInvIsHealthy, HealthyPlanNeverGrows
     DEF PlanNeverGrowsDebt, RemainingSchedule, Outstanding
<1> QED
  BY <1>1, Invariance, PTL

\* However little the kept payment exceeds the interest, the term solved for is
\* within two periods per cent still owed, and one, of the periods paid.
THEOREM SolvedTermAlwaysBounded == Spec => SolvedTermIsBounded
<1> DEFINE Within(amount) ==
             PrepayReducingTerm(amount)
               => loan'.term <= PaidPeriods + 2 * (Outstanding - amount) + 1
<1>1. ASSUME IInv, NEW amount \in Prepayments PROVE Within(amount)
  <2>1. SUFFICES ASSUME PrepayReducingTerm(amount)
                 PROVE  loan'.term <= PaidPeriods + 2 * (Outstanding - amount) + 1
    OBVIOUS
  <2>2. /\ Healthy(loan, ledger) /\ amount \in Int /\ MaxRemaining \in Nat
        /\ ReducesTerm(loan, ledger, loan', ledger', amount, MaxRemaining)
    BY <1>1, <2>1, IInvIsHealthy, OperationRelations, RequestAssumption
  <2>3. /\ amount > 0 /\ amount <= OutstandingOf(loan, ledger)
        /\ loan.type = "equal_installment"
        /\ ~ReduceTermRejects(Left(loan, ledger, amount))
    BY <2>2 DEF ReducesTerm, Prepays
  <2>4. PICK term \in RecastReduceTerm(Left(loan, ledger, amount), MaxRemaining) :
          loan' = ReducedTerm(loan, Left(loan, ledger, amount), term)
    BY <2>2 DEF ReducesTerm
  <2>5. loan'.term = term
    BY <2>2, <2>4 DEF ReducedTerm, Healthy, LoanRows
  <2>6. term <= PaidPeriodsOf(ledger) + 2 * (OutstandingOf(loan, ledger) - amount) + 1
    BY <2>2, <2>3, SolvedTermWithinDebt
  <2> QED
    BY <2>5, <2>6 DEF PaidPeriods, Outstanding
<1>2. IInv => \A amount \in Prepayments : Within(amount)
  BY <1>1
<1> QED
  BY <1>2, Invariance, PTL DEF SolvedTermIsBounded

-----------------------------------------------------------------------------
(***************************************************************************)
(* The loan implements its contract                                        *)
(***************************************************************************)

LEMMA InitContract == Init => Contract!Init
<1> SUFFICES ASSUME Init PROVE Contract!Init
  OBVIOUS
<1>1. loan = NoLoan /\ ledger = << >>
  BY DEF Init
<1>2. Outstanding = 0
  BY <1>1, PrincipalOfEmpty DEF Outstanding, OutstandingOf, NoLoan
<1> QED
  BY <1>1, <1>2 DEF Contract!Init, NoLoan

LEMMA CreateLoanOpens ==
  ASSUME IInv, NEW principal \in Int, NEW rate \in Int, NEW periods \in Int,
         NEW type \in LoanTypes, CreateLoan(principal, rate, periods, type)
  PROVE  Contract!Open
BY CreateLoanEffect DEF Contract!Open

LEMMA CancelLoanCancels ==
  ASSUME IInv, CancelLoan
  PROVE  Contract!Cancel
BY CancelLoanEffect DEF Contract!Cancel

LEMMA RecordPaymentCollects ==
  ASSUME IInv, RecordPayment
  PROVE  Contract!Collect
<1>1. /\ loan.status = "active"
      /\ Collects
      /\ \/ /\ Outstanding' > 0
            /\ loan' = loan
         \/ /\ Outstanding' <= 0
            /\ loan' = [loan EXCEPT !.status = "closed"]
  BY RecordPaymentEffect
<1>2. loan \in LoanRows
  BY DEF IInv, TypeOK
<1>3. \/ Outstanding' > 0 /\ loan'.status = "active"
      \/ Outstanding' <= 0 /\ loan'.status = "closed"
  BY <1>1, <1>2 DEF LoanRows
<1>4. Outstanding' \in Int /\ Outstanding' <= Outstanding /\ Outstanding > 0
      /\ Len(ledger') = Len(ledger) + 1
  BY <1>1 DEF Collects, Collected, Outstanding
<1>5. Outstanding' > 0 => Outstanding' >= 0
  BY <1>4
<1> QED
  BY <1>1, <1>3, <1>4, <1>5 DEF Contract!Collect

\* A prepayment, of either strategy.
LEMMA PrepaymentCollects ==
  ASSUME IInv, loan.status = "active", loan'.status = "active",
         Collects, Outstanding' \in Nat
  PROVE  Contract!Collect
<1>1. Outstanding' >= 0
  OBVIOUS
<1> QED
  BY <1>1 DEF Contract!Collect, Collects, Collected, Outstanding

LEMMA PrepayCollects ==
  ASSUME IInv, NEW amount \in Int, NEW strategy \in Strategies, Prepay(amount, strategy)
  PROVE  Contract!Collect
<1>1. loan \in LoanRows
  BY DEF IInv, TypeOK
<1>2. CASE PrepayReducingTerm(amount)
  <2>1. /\ loan.status = "active" /\ Collects /\ Outstanding' \in Nat
        /\ \E term \in Nat :
             \/ Outstanding' = 0 /\ loan' = [loan EXCEPT !.term = term, !.payment = 0]
             \/ PaidPeriods < term /\ loan' = [loan EXCEPT !.term = term]
    BY <1>2, ReduceTermEffect
  <2>2. loan'.status = "active"
    BY <1>1, <2>1 DEF LoanRows
  <2> QED
    BY <2>1, <2>2, PrepaymentCollects
<1>3. CASE PrepayReducingPayment(amount)
  <2>1. /\ loan.status = "active" /\ Collects /\ Outstanding' \in Nat
        /\ \/ \E term \in Nat : loan' = [loan EXCEPT !.term = term, !.payment = 0]
           \/ \E payment \in Nat : loan' = [loan EXCEPT !.payment = payment]
    BY <1>3, ReducePaymentEffect
  <2>2. loan'.status = "active"
    BY <1>1, <2>1 DEF LoanRows
  <2> QED
    BY <2>1, <2>2, PrepaymentCollects
<1> QED
  BY <1>2, <1>3 DEF Prepay

\* A refinancing is invisible to the owner's contract.
LEMMA ChangeRateStutters ==
  ASSUME IInv, NEW rate \in Int, ChangeRate(rate)
  PROVE  UNCHANGED <<loan.status, Outstanding, Len(ledger)>>
<1>1. /\ loan.status = "active" /\ ledger' = ledger /\ Outstanding' = Outstanding
      /\ \E payment \in Nat : loan' = [loan EXCEPT !.rate = rate, !.payment = payment]
  BY ChangeRateEffect
<1>2. loan \in LoanRows
  BY DEF IInv, TypeOK
<1>3. loan'.status = loan.status
  BY <1>1, <1>2 DEF LoanRows
<1> QED
  BY <1>1, <1>3

LEMMA NextContract ==
  IInv /\ [Next]_vars => [Contract!Next]_(Contract!vars)
<1> SUFFICES ASSUME IInv, [Next]_vars
             PROVE  Contract!Next \/ UNCHANGED <<loan.status, Outstanding, Len(ledger)>>
  BY DEF Contract!vars
<1>1. ASSUME NEW principal \in Principals, NEW rate \in Rates, NEW periods \in Terms,
             NEW type \in LoanTypes, CreateLoan(principal, rate, periods, type)
      PROVE  Contract!Open
  <2>1. principal \in Int /\ rate \in Int /\ periods \in Int
    BY RequestAssumption
  <2> QED
    BY <1>1, <2>1, CreateLoanOpens
<1>2. CASE CancelLoan
  BY <1>2, CancelLoanCancels DEF Contract!Next
<1>3. CASE RecordPayment
  BY <1>3, RecordPaymentCollects DEF Contract!Next
<1>4. ASSUME NEW amount \in Prepayments, NEW strategy \in Strategies,
             Prepay(amount, strategy)
      PROVE  Contract!Collect
  <2>1. amount \in Int
    BY RequestAssumption
  <2> QED
    BY <1>4, <2>1, PrepayCollects
<1>5. ASSUME NEW rate \in Rates, ChangeRate(rate)
      PROVE  UNCHANGED <<loan.status, Outstanding, Len(ledger)>>
  <2>1. rate \in Int
    BY RequestAssumption
  <2> QED
    BY <1>5, <2>1, ChangeRateStutters
<1>6. CASE UNCHANGED vars
  <2>1. loan' = loan /\ ledger' = ledger
    BY <1>6 DEF vars
  <2>2. Outstanding' = Outstanding
    BY <2>1 DEF Outstanding, OutstandingOf
  <2> QED
    BY <2>1, <2>2
<1> QED
  BY <1>1, <1>2, <1>3, <1>4, <1>5, <1>6 DEF Next, Contract!Next

\* Every behaviour of the loan is one of the contract: principal is returned
\* entry by entry, the settling payment closes, nothing happens afterwards.
THEOREM ContractKept == Spec => KeepsContract
<1>1. Init => Contract!Init
  BY InitContract
<1>2. IInv /\ [Next]_vars => [Contract!Next]_(Contract!vars)
  BY NextContract
<1> QED
  BY <1>1, <1>2, Invariance, PTL DEF Spec, KeepsContract, Contract!Spec
==============================================================================
