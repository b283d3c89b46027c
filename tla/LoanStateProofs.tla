--------------------------- MODULE LoanStateProofs ---------------------------
(***************************************************************************)
(* Proofs about module LoanState, for every scale: what the operators read *)
(* off a stored loan, what the operations do to it, and that none of them  *)
(* makes it unhealthy.  loan2 and ledger2 are what an operation leaves.    *)
(*                                                                         *)
(* No variable occurs here.  LoanProofs applies these facts to the loan of *)
(* module Loan, ServiceLoansProofs to every loan of a database.            *)
(***************************************************************************)
EXTENDS LoanState, AmortProofs, FiniteSetTheorems

-----------------------------------------------------------------------------
(***************************************************************************)
(* The ledger                                                              *)
(***************************************************************************)

LEMMA PrincipalOfEmpty == PrincipalOf(<< >>) = 0
<1>1. [i \in 1 .. Len(<< >>) |-> << >>[i].principal] = << >>
  OBVIOUS
<1> QED
  BY <1>1, TotalEmpty DEF PrincipalOf

LEMMA RowPrincipal ==
  ASSUME NEW rows \in Seq(PaymentRows), NEW i \in 1 .. Len(rows)
  PROVE  rows[i].principal \in Int
<1>1. rows[i] \in PaymentRows
  OBVIOUS
<1> QED
  BY <1>1 DEF PaymentRows

LEMMA PrincipalOfType ==
  ASSUME NEW rows \in Seq(PaymentRows)
  PROVE  PrincipalOf(rows) \in Int
<1>1. [i \in 1 .. Len(rows) |-> rows[i].principal] \in Seq(Int)
  <2>1. \A i \in 1 .. Len(rows) : rows[i].principal \in Int
    BY RowPrincipal
  <2>2. Len(rows) \in Nat
    OBVIOUS
  <2> QED
    BY <2>1, <2>2
<1> QED
  BY <1>1, TotalType DEF PrincipalOf

\* An entry returns its principal.
LEMMA PrincipalOfAppend ==
  ASSUME NEW rows \in Seq(PaymentRows), NEW row \in PaymentRows
  PROVE  PrincipalOf(Append(rows, row)) = PrincipalOf(rows) + row.principal
<1> DEFINE amounts == [i \in 1 .. Len(rows) |-> rows[i].principal]
           longer  == Append(rows, row)
<1>1. Len(rows) \in Nat /\ Len(longer) = Len(rows) + 1
  OBVIOUS
<1>2. /\ \A i \in 1 .. Len(rows) : longer[i] = rows[i]
      /\ longer[Len(rows) + 1] = row
  OBVIOUS
<1>3. amounts \in Seq(Int) /\ Len(amounts) = Len(rows)
  <2>1. \A i \in 1 .. Len(rows) : rows[i].principal \in Int
    BY RowPrincipal
  <2> QED
    BY <1>1, <2>1
<1>4. row.principal \in Int
  BY DEF PaymentRows
<1> HIDE DEF longer
<1>5. [i \in 1 .. Len(longer) |-> longer[i].principal] = Append(amounts, row.principal)
  BY <1>1, <1>2, <1>3
<1>6. PrincipalOf(longer) = Total(Append(amounts, row.principal))
  BY <1>5 DEF PrincipalOf
<1>7. PrincipalOf(rows) = Total(amounts)
  BY DEF PrincipalOf
<1> HIDE DEF amounts
<1> QED
  BY <1>3, <1>4, <1>6, <1>7, TotalAppend DEF longer

LEMMA ScheduledEmpty == Cardinality(Scheduled(<< >>)) = 0
<1>1. Scheduled(<< >>) = {}
  BY DEF Scheduled
<1> QED
  BY <1>1, FS_EmptySet

LEMMA ScheduledType ==
  ASSUME NEW rows \in Seq(PaymentRows)
  PROVE  IsFiniteSet(Scheduled(rows)) /\ Cardinality(Scheduled(rows)) \in Nat
<1>1. Len(rows) \in Nat
  OBVIOUS
<1>2. IsFiniteSet(1 .. Len(rows))
  BY <1>1, FS_Interval
<1>3. Scheduled(rows) \in SUBSET (1 .. Len(rows))
  BY DEF Scheduled
<1> QED
  BY <1>2, <1>3, FS_Subset, FS_CardinalityType

\* A scheduled entry pays one period, a prepayment none.
LEMMA ScheduledAppend ==
  ASSUME NEW rows \in Seq(PaymentRows), NEW row \in PaymentRows
  PROVE  Cardinality(Scheduled(Append(rows, row)))
           = Cardinality(Scheduled(rows)) + (IF row.type = "scheduled" THEN 1 ELSE 0)
<1> DEFINE longer == Append(rows, row)
           last   == Len(rows) + 1
<1>1. Len(rows) \in Nat /\ Len(longer) = last
  OBVIOUS
<1>2. /\ \A i \in 1 .. Len(rows) : longer[i] = rows[i]
      /\ longer[last] = row
  OBVIOUS
<1>3. Scheduled(rows) \subseteq 1 .. Len(rows)
  BY DEF Scheduled
<1>4. last \notin Scheduled(rows)
  BY <1>1, <1>3
<1> HIDE DEF longer
<1>5. CASE row.type = "scheduled"
  <2>1. Scheduled(longer) = Scheduled(rows) \cup {last}
    BY <1>1, <1>2, <1>5 DEF Scheduled
  <2> HIDE DEF last
  <2> QED
    BY <1>4, <1>5, <2>1, FS_AddElement, ScheduledType DEF longer
<1>6. CASE row.type # "scheduled"
  <2>1. Scheduled(longer) = Scheduled(rows)
    BY <1>1, <1>2, <1>6 DEF Scheduled
  <2> QED
    BY <1>6, <2>1, ScheduledType DEF longer
<1> QED
  BY <1>5, <1>6
-----------------------------------------------------------------------------
(***************************************************************************)
(* A stored loan                                                           *)
(***************************************************************************)

LEMMA HealthyTypes ==
  ASSUME NEW loan, NEW ledger, Healthy(loan, ledger)
  PROVE  /\ OutstandingOf(loan, ledger) \in Int
         /\ PaidPeriodsOf(ledger) \in Nat
         /\ loan.term \in Nat /\ loan.rate \in Nat /\ loan.payment \in Nat
         /\ loan.principal \in Nat
         /\ ledger \in Seq(PaymentRows)
<1>1. loan \in LoanRows /\ ledger \in Seq(PaymentRows)
  BY DEF Healthy
<1>2. /\ loan.term \in Nat /\ loan.rate \in Nat /\ loan.payment \in Nat
      /\ loan.principal \in Nat
  BY <1>1 DEF LoanRows
<1>3. PrincipalOf(ledger) \in Int
  BY <1>1, PrincipalOfType
<1>4. OutstandingOf(loan, ledger) \in Int
  BY <1>2, <1>3 DEF OutstandingOf
<1>5. PaidPeriodsOf(ledger) \in Nat
  BY <1>1, ScheduledType DEF PaidPeriodsOf
<1> QED
  BY <1>1, <1>2, <1>4, <1>5

\* What an entry does to the derived state.
LEMMA RowAdded ==
  ASSUME NEW loan, NEW ledger, Healthy(loan, ledger), NEW row \in PaymentRows
  PROVE  LET longer == Append(ledger, row)
         IN  /\ longer \in Seq(PaymentRows)
             /\ Len(longer) = Len(ledger) + 1
             /\ OutstandingOf(loan, longer) = OutstandingOf(loan, ledger) - row.principal
             /\ PaidPeriodsOf(longer)
                  = PaidPeriodsOf(ledger) + (IF row.type = "scheduled" THEN 1 ELSE 0)
<1> DEFINE longer == Append(ledger, row)
<1>1. ledger \in Seq(PaymentRows) /\ loan.principal \in Nat
  BY HealthyTypes
<1>2. longer \in Seq(PaymentRows) /\ Len(longer) = Len(ledger) + 1
  BY <1>1
<1>3. PrincipalOf(longer) = PrincipalOf(ledger) + row.principal
  BY <1>1, PrincipalOfAppend
<1>4. Cardinality(Scheduled(longer))
        = Cardinality(Scheduled(ledger)) + (IF row.type = "scheduled" THEN 1 ELSE 0)
  BY <1>1, ScheduledAppend
<1>5. PrincipalOf(ledger) \in Int /\ row.principal \in Int
  BY <1>1, PrincipalOfType DEF PaymentRows
<1> HIDE DEF longer
<1>6. OutstandingOf(loan, longer) = OutstandingOf(loan, ledger) - row.principal
  BY <1>1, <1>3, <1>5 DEF OutstandingOf
<1>7. PaidPeriodsOf(longer)
        = PaidPeriodsOf(ledger) + (IF row.type = "scheduled" THEN 1 ELSE 0)
  BY <1>4 DEF PaidPeriodsOf
<1> QED
  BY <1>2, <1>6, <1>7 DEF longer

-----------------------------------------------------------------------------
(***************************************************************************)
(* Its plan                                                                *)
(***************************************************************************)

LEMMA UnpaidIsInput ==
  ASSUME NEW loan, NEW ledger, Healthy(loan, ledger), HasPlanOf(loan, ledger)
  PROVE  /\ UnpaidOf(loan, ledger) \in ScheduleInputs
         /\ UnpaidOf(loan, ledger).outstanding = OutstandingOf(loan, ledger)
         /\ UnpaidOf(loan, ledger).rate = loan.rate
         /\ UnpaidOf(loan, ledger).periods = loan.term - PaidPeriodsOf(ledger)
         /\ UnpaidOf(loan, ledger).type = loan.type
         /\ OutstandingOf(loan, ledger) > 0
<1> DEFINE owed == OutstandingOf(loan, ledger)
           paid == PaidPeriodsOf(ledger)
<1>1. /\ owed \in Int /\ paid \in Nat /\ loan.term \in Nat
      /\ loan.rate \in Nat
  BY HealthyTypes DEF Healthy
<1>2. loan.term - paid > 0 /\ owed > 0
  BY DEF HasPlanOf
<1>3. loan.type \in LoanTypes
  BY <1>2 DEF Healthy
<1>4. /\ owed \in Nat
      /\ loan.term - paid \in Nat \ {0}
  BY <1>1, <1>2
<1> QED
  BY <1>1, <1>2, <1>3, <1>4 DEF UnpaidOf, ScheduleInputs

\* loadState never fails: a loan either keeps a positive payment, or is of a
\* kind whose plan Build accepts.
THEOREM HealthyLoads ==
  ASSUME NEW loan, NEW ledger, Healthy(loan, ledger)
  PROVE  ~LoadFailsOf(loan, ledger)
<1> DEFINE unpaid == UnpaidOf(loan, ledger)
           owed   == OutstandingOf(loan, ledger)
<1>1. SUFFICES ASSUME HasPlanOf(loan, ledger), LoadFailsOf(loan, ledger)
               PROVE  FALSE
  BY DEF LoadFailsOf
<1>2. /\ unpaid \in ScheduleInputs
      /\ unpaid.outstanding = owed /\ unpaid.rate = loan.rate
      /\ unpaid.periods = loan.term - PaidPeriodsOf(ledger) /\ unpaid.type = loan.type
      /\ owed > 0
  BY <1>1, UnpaidIsInput
<1>3. /\ unpaid.outstanding \in Nat /\ unpaid.rate \in Nat
      /\ unpaid.periods \in Nat \ {0} /\ unpaid.type \in LoanTypes
  BY <1>2 DEF ScheduleInputs
<1>4. loan.payment \in Nat
  BY HealthyTypes DEF Healthy
<1>5. CASE loan.payment > 0
  <2>1. FixedPaymentRejects(unpaid, loan.payment)
    BY <1>1, <1>5 DEF LoadFailsOf
  <2> QED
    BY <1>3, <1>4, <1>5, <2>1 DEF FixedPaymentRejects
<1>6. CASE loan.payment = 0
  <2>1. BuildRejects(unpaid)
    BY <1>1, <1>6 DEF LoadFailsOf
  <2>2. NegativelyAmortizes(unpaid)
    BY <1>3, <2>1 DEF BuildRejects
  <2>3. loan.type = "equal_installment" /\ loan.rate # 0
    BY <1>2, <2>2 DEF NegativelyAmortizes
  <2>4. loan.rate > 0
    BY <1>2, <1>3, <2>3
  <2>5. loan.payment > MulRateMicro(owed, loan.rate)
    BY <1>2, <2>3, <2>4 DEF Healthy, Serviced
  <2>6. MulRateMicro(owed, loan.rate) \in Nat
    BY <1>2, <1>3, InterestType
  <2> QED
    BY <1>6, <2>5, <2>6
<1> QED
  BY <1>4, <1>5, <1>6

\* The next planned payment.
LEMMA PlannedRow ==
  ASSUME NEW loan, NEW ledger, Healthy(loan, ledger), HasPlanOf(loan, ledger)
  PROVE  /\ RemainingScheduleOf(loan, ledger) # << >>
         /\ LET next == RemainingScheduleOf(loan, ledger)[1]
            IN  /\ next.number = 1
                /\ next.principal \in Nat /\ next.interest \in Nat
                /\ next.payment = next.principal + next.interest
                /\ next.interest = MulRateMicro(OutstandingOf(loan, ledger), loan.rate)
                /\ loan.term - PaidPeriodsOf(ledger) = 1
                     => next.principal = OutstandingOf(loan, ledger)
<1> DEFINE unpaid == UnpaidOf(loan, ledger)
           plan   == RemainingScheduleOf(loan, ledger)
           owed   == OutstandingOf(loan, ledger)
<1>1. /\ unpaid \in ScheduleInputs
      /\ unpaid.outstanding = owed /\ unpaid.rate = loan.rate
      /\ unpaid.periods = loan.term - PaidPeriodsOf(ledger) /\ unpaid.type = loan.type
      /\ owed > 0
  BY UnpaidIsInput
<1>2. owed \in Int /\ loan.payment \in Nat /\ loan.rate \in Nat
  BY HealthyTypes DEF Healthy
<1>3. MulRateMicro(owed, loan.rate) \in Nat
  <2>1. owed \in Nat
    BY <1>1, <1>2
  <2> QED
    BY <1>2, <2>1, InterestType
<1>4. CASE loan.payment > 0
  <2>1. plan = BuildFixedPayment(unpaid, loan.payment)
    BY <1>4 DEF RemainingScheduleOf
  <2>2. /\ plan # << >>
        /\ FirstRow(plan[1], unpaid,
                    IF unpaid.periods = 1 THEN unpaid.outstanding
                    ELSE loan.payment - MulRateMicro(unpaid.outstanding, unpaid.rate))
    BY <1>1, <1>2, <2>1, FixedPaymentFirstRow
  <2>3. loan.payment >= MulRateMicro(owed, loan.rate)
    BY <1>1, <1>4 DEF Healthy, Serviced
  <2> QED
    BY <1>1, <1>2, <1>3, <2>2, <2>3 DEF FirstRow
<1>5. CASE ~(loan.payment > 0)
  <2>1. plan = Build(unpaid)
    BY <1>5 DEF RemainingScheduleOf
  <2>2. /\ plan # << >>
        /\ FirstRow(plan[1], unpaid, FirstPrincipal(unpaid))
        /\ FirstPrincipal(unpaid) \in Nat
        /\ unpaid.periods = 1 => FirstPrincipal(unpaid) = unpaid.outstanding
    BY <1>1, <2>1, BuildFirstRow, FirstPrincipalType, OnlyPeriodReturnsAll
  <2> QED
    BY <1>1, <1>3, <2>2 DEF FirstRow
<1> QED
  BY <1>4, <1>5

-----------------------------------------------------------------------------
(***************************************************************************)
(* Its plan never grows the debt                                           *)
(***************************************************************************)

\* Less owed, no more interest, also once more than all has been collected.
LEMMA SmallerInterest ==
  ASSUME NEW owed \in Nat, NEW b \in Int, b <= owed, NEW rate \in Nat
  PROVE  MulRateMicro(b, rate) <= MulRateMicro(owed, rate)
<1>1. CASE b >= 0
  BY <1>1, MulRateMicroMonotone
<1>2. CASE b < 0
  <2> DEFINE S   == RateMicroScale
             num == b * rate
             q   == (S - 2 * num) \div (2 * S)
  <2>1. S \in Nat \ {0}
    BY ScaleAssumption
  <2>2. num \in Int /\ num <= 0
    <3>1. (-b) * rate >= 0 /\ num = -((-b) * rate)
      BY <1>2
    <3> QED
      BY <3>1
  <2> HIDE DEF num
  <2>3. q \in Int /\ q >= 0
    BY <2>1, <2>2
  <2>4. RoundCents(num, S) <= 0
    <3>1. CASE num < 0
      <4>1. RoundCents(num, S) = -q
        BY <2>1, <2>2, <3>1 DEF RoundCents
      <4> QED
        BY <2>3, <4>1
    <3>2. CASE num = 0
      BY <2>1, <3>2 DEF RoundCents
    <3> QED
      BY <2>2, <3>1, <3>2
  <2>5. MulRateMicro(owed, rate) \in Nat /\ MulRateMicro(b, rate) \in Int
    BY InterestType, MulRateMicroType
  <2> QED
    BY <2>4, <2>5 DEF MulRateMicro, num, S
<1> QED
  BY <1>1, <1>2

\* No period leaves more owed than the plan started from.
NeverGrows(in, due) ==
  \A i \in 1 .. in.periods, b \in Int :
    b <= in.outstanding => b - due[i][b] <= in.outstanding

LEMMA BalancesStayBelow ==
  ASSUME NEW in \in ScheduleInputs, NEW due \in Steps(in.periods), NeverGrows(in, due)
  PROVE  /\ \A i \in 1 .. in.periods :
              /\ Amortize(in, due)[i].balance <= in.outstanding
              /\ Amortize(in, due)[i].interest <= MulRateMicro(in.outstanding, in.rate)
         /\ Len(Amortize(in, due)) = in.periods
<1> DEFINE n == in.periods
           left(k) == Balance(in, due, k)
           T == {k \in Nat : k <= n => left(k) <= in.outstanding}
<1>1. n \in Nat /\ in.outstanding \in Nat /\ in.rate \in Nat
  BY DEF ScheduleInputs
<1>2. /\ left(0) = in.outstanding
      /\ \A k \in 0 .. n : left(k) \in Int
      /\ \A k \in 1 .. n : left(k) = left(k - 1) - due[k][left(k - 1)]
  BY BalanceRule
<1> HIDE DEF left
<1>3. 0 \in T
  BY <1>1, <1>2
<1>4. ASSUME NEW k \in Nat, k \in T PROVE k + 1 \in T
  <2>1. SUFFICES ASSUME k + 1 <= n PROVE left(k + 1) <= in.outstanding
    OBVIOUS
  <2>2. k + 1 \in 1 .. n /\ (k + 1) - 1 = k /\ k \in 0 .. n /\ k <= n
    BY <1>1, <2>1
  <2>3. left(k) \in Int /\ left(k) <= in.outstanding
    BY <1>2, <1>4, <2>2
  <2>4. left(k + 1) = left(k) - due[k + 1][left(k)]
    BY <1>2, <2>2
  <2> QED
    BY <2>2, <2>3, <2>4 DEF NeverGrows
<1>5. Nat \subseteq T
  <2> HIDE DEF T
  <2> QED
    BY <1>3, <1>4, NatSetInduction
<1>6. \A k \in 0 .. n : left(k) \in Int /\ left(k) <= in.outstanding
  BY <1>1, <1>2, <1>5
<1>7. ASSUME NEW i \in 1 .. n
      PROVE  /\ Amortize(in, due)[i].balance <= in.outstanding
             /\ Amortize(in, due)[i].interest <= MulRateMicro(in.outstanding, in.rate)
  <2>1. i \in 0 .. n /\ i - 1 \in 0 .. n
    BY <1>1
  <2>2. /\ Amortize(in, due)[i].balance = left(i)
        /\ Amortize(in, due)[i].interest = MulRateMicro(left(i - 1), in.rate)
    BY AmortizeRows DEF left
  <2> QED
    BY <1>1, <1>6, <2>1, <2>2, SmallerInterest
<1> QED
  BY <1>7, AmortizeRows

LEMMA FixedPaymentNeverGrows ==
  ASSUME NEW in \in ScheduleInputs, NEW payment \in Nat,
         payment >= MulRateMicro(in.outstanding, in.rate)
  PROVE  NeverGrows(in, FixedPaymentDue(in, payment))
<1>1. in.outstanding \in Nat /\ in.rate \in Nat /\ in.periods \in Nat
  BY DEF ScheduleInputs
<1>2. SUFFICES ASSUME NEW i \in 1 .. in.periods, NEW b \in Int, b <= in.outstanding
               PROVE  b - FixedPaymentDue(in, payment)[i][b] <= in.outstanding
  BY DEF NeverGrows
<1>3. FixedPaymentDue(in, payment)[i][b]
        = IF i = in.periods THEN b ELSE payment - MulRateMicro(b, in.rate)
  BY DEF FixedPaymentDue
<1>4. /\ MulRateMicro(b, in.rate) \in Int
      /\ MulRateMicro(in.outstanding, in.rate) \in Int
      /\ MulRateMicro(b, in.rate) <= MulRateMicro(in.outstanding, in.rate)
  <2>1. MulRateMicro(b, in.rate) <= MulRateMicro(in.outstanding, in.rate)
    BY <1>1, <1>2, SmallerInterest
  <2>2. in.outstanding \in Int
    BY <1>1
  <2> QED
    BY <1>1, <2>1, <2>2, MulRateMicroType
<1> QED
  BY <1>1, <1>2, <1>3, <1>4

LEMMA EqualPrincipalNeverGrows ==
  ASSUME NEW in \in ScheduleInputs
  PROVE  NeverGrows(in, EqualPrincipalDue(in))
<1> DEFINE base == in.outstanding \div in.periods
           rem  == in.outstanding % in.periods
<1>1. base \in Nat /\ rem \in Nat /\ in.outstanding \in Nat
  BY EqualPrincipalSplit DEF ScheduleInputs
<1>2. SUFFICES ASSUME NEW i \in 1 .. in.periods, NEW b \in Int, b <= in.outstanding
               PROVE  b - EqualPrincipalDue(in)[i][b] <= in.outstanding
  BY DEF NeverGrows
<1>3. EqualPrincipalDue(in)[i][b] = IF i <= rem THEN base + 1 ELSE base
  BY DEF EqualPrincipalDue
<1> HIDE DEF base, rem
<1> QED
  BY <1>1, <1>2, <1>3

LEMMA BuildNeverGrows ==
  ASSUME NEW in \in ScheduleInputs,
         in.type = "equal_installment" => in.rate = 0
  PROVE  NeverGrows(in, DueOf(in))
<1>1. CASE in.type = "interest_only"
  <2>1. DueOf(in) = InterestOnlyDue(in)
    BY <1>1 DEF DueOf
  <2>2. in.outstanding \in Nat
    BY DEF ScheduleInputs
  <2> QED
    BY <2>1, <2>2 DEF NeverGrows, InterestOnlyDue
<1>2. CASE in.type = "equal_principal"
  <2>1. DueOf(in) = EqualPrincipalDue(in)
    BY <1>2 DEF DueOf
  <2> QED
    BY <2>1, EqualPrincipalNeverGrows
<1>3. CASE in.type = "equal_installment"
  <2>1. DueOf(in) = EqualPrincipalDue(in)
    BY <1>3 DEF DueOf, EqualInstallmentDue
  <2> QED
    BY <2>1, EqualPrincipalNeverGrows
<1>4. in.type \in LoanTypes
  BY DEF ScheduleInputs
<1> QED
  BY <1>1, <1>2, <1>3, <1>4 DEF LoanTypes

\* In the plan of a healthy loan no period leaves more owed, or costs more
\* interest, than the loan owes now.
THEOREM HealthyPlanNeverGrows ==
  ASSUME NEW loan, NEW ledger, Healthy(loan, ledger)
  PROVE  LET plan == RemainingScheduleOf(loan, ledger)
             owed == OutstandingOf(loan, ledger)
         IN  \A i \in 1 .. Len(plan) :
               /\ plan[i].balance <= owed
               /\ plan[i].interest <= MulRateMicro(owed, loan.rate)
<1> DEFINE plan   == RemainingScheduleOf(loan, ledger)
           owed   == OutstandingOf(loan, ledger)
           unpaid == UnpaidOf(loan, ledger)
<1>1. CASE ~HasPlanOf(loan, ledger)
  <2>1. plan = << >>
    BY <1>1 DEF RemainingScheduleOf
  <2> QED
    BY <2>1
<1>2. CASE HasPlanOf(loan, ledger)
  <2>1. /\ unpaid \in ScheduleInputs
        /\ unpaid.outstanding = owed /\ unpaid.rate = loan.rate
        /\ unpaid.type = loan.type /\ owed > 0
    BY <1>2, UnpaidIsInput
  <2>2. loan.payment \in Nat /\ loan.rate \in Nat /\ owed \in Nat
    BY <2>1, HealthyTypes
  <2>3. Serviced(loan, ledger)
    BY <2>1 DEF Healthy
  <2>4. PICK due \in Steps(unpaid.periods) :
          plan = Amortize(unpaid, due) /\ NeverGrows(unpaid, due)
    <3>1. CASE loan.payment > 0
      <4>1. plan = BuildFixedPayment(unpaid, loan.payment)
        BY <1>2, <3>1 DEF RemainingScheduleOf
      <4>2. unpaid.outstanding # 0 /\ loan.payment >= MulRateMicro(owed, loan.rate)
        BY <2>1, <2>2, <2>3, <3>1 DEF Serviced
      <4>3. plan = Amortize(unpaid, FixedPaymentDue(unpaid, loan.payment))
        BY <4>1, <4>2 DEF BuildFixedPayment
      <4>4. NeverGrows(unpaid, FixedPaymentDue(unpaid, loan.payment))
        BY <2>1, <2>2, <4>2, FixedPaymentNeverGrows
      <4>5. FixedPaymentDue(unpaid, loan.payment) \in Steps(unpaid.periods)
        BY <2>1, <2>2, FixedPaymentDueType
      <4> QED
        BY <4>3, <4>4, <4>5
    <3>2. CASE ~(loan.payment > 0)
      <4>1. plan = Build(unpaid)
        BY <1>2, <3>2 DEF RemainingScheduleOf
      <4>2. loan.type = "equal_installment" => loan.rate = 0
        <5>1. MulRateMicro(owed, loan.rate) \in Nat
          BY <2>2, InterestType
        <5> QED
          BY <2>2, <2>3, <3>2, <5>1 DEF Serviced
      <4>3. NeverGrows(unpaid, DueOf(unpaid))
        BY <2>1, <4>2, BuildNeverGrows
      <4>4. DueOf(unpaid) \in Steps(unpaid.periods)
        BY <2>1, DueOfType
      <4>5. Build(unpaid) = Amortize(unpaid, DueOf(unpaid))
        BY DEF Build, DueOf
      <4> QED
        BY <4>1, <4>3, <4>4, <4>5
    <3> QED
      BY <3>1, <3>2
  <2> HIDE DEF plan, unpaid, owed
  <2> QED
    BY <2>1, <2>4, BalancesStayBelow DEF plan, owed
<1> QED
  BY <1>1, <1>2

-----------------------------------------------------------------------------
(***************************************************************************)
(* What the operations do to it                                            *)
(***************************************************************************)

\* The operations of module Loan, from what is stored to what they leave.
Creates(loan, ledger, loan2, ledger2, principal, rate, periods, type) ==
  /\ loan.status = "none"
  /\ GoodTerms(principal, rate, periods, type)
  /\ loan2 = NewLoan(principal, rate, periods, type)
  /\ ledger2 = ledger

Cancels(loan, ledger, loan2, ledger2) ==
  /\ loan.status = "active"
  /\ Len(ledger) = 0
  /\ loan2 = [loan EXCEPT !.status = "canceled"]
  /\ ledger2 = ledger

Pays(loan, ledger, loan2, ledger2) ==
  /\ AcceptingOf(loan, ledger)
  /\ RemainingScheduleOf(loan, ledger) # << >>
  /\ LET next == RemainingScheduleOf(loan, ledger)[1]
     IN  /\ next.payment > 0
         /\ ledger2 = Append(ledger, ScheduledRow(next))
         /\ loan2 = AfterPayment(loan, ledger, next)

\* What is left to recast after a prepayment.
Left(loan, ledger, amount) ==
  RecastInput(loan, ledger, OutstandingOf(loan, ledger) - amount, loan.rate)

Prepays(loan, ledger, ledger2, amount) ==
  /\ AcceptingOf(loan, ledger)
  /\ amount > 0 /\ amount <= OutstandingOf(loan, ledger)
  /\ ledger2 = Append(ledger, PrepaymentRow(loan, ledger, amount))

ReducesTerm(loan, ledger, loan2, ledger2, amount, bound) ==
  /\ Prepays(loan, ledger, ledger2, amount)
  /\ loan.type = "equal_installment"
  /\ ~ReduceTermRejects(Left(loan, ledger, amount))
  /\ \E term \in RecastReduceTerm(Left(loan, ledger, amount), bound) :
       loan2 = ReducedTerm(loan, Left(loan, ledger, amount), term)

ReducesPayment(loan, ledger, loan2, ledger2, amount) ==
  /\ Prepays(loan, ledger, ledger2, amount)
  /\ ~ReducePaymentRejects(Left(loan, ledger, amount))
  /\ loan2 = ReducedPayment(loan, Left(loan, ledger, amount))

Refinances(loan, ledger, loan2, ledger2, rate) ==
  LET in == RecastInput(loan, ledger, OutstandingOf(loan, ledger), rate)
  IN  /\ rate >= 0
      /\ AcceptingOf(loan, ledger)
      /\ Recasts(in) => ~RateChangeRejects(in)
      /\ loan2 = Refinanced(loan, in)
      /\ ledger2 = ledger

\* A new entry that returns at least nothing, while the rest of the row does
\* what the operation says.
Collected(loan, ledger, loan2, ledger2) ==
  /\ ledger2 \in Seq(PaymentRows)
  /\ Len(ledger2) = Len(ledger) + 1
  /\ OutstandingOf(loan2, ledger2) \in Int
  /\ OutstandingOf(loan2, ledger2) <= OutstandingOf(loan, ledger)
  /\ OutstandingOf(loan, ledger) > 0

\* A payment that services a debt over a term.
Services(payment, type, outstanding, rate, term) ==
  /\ payment \in Nat
  /\ payment >= MulRateMicro(outstanding, rate)
  /\ type = "equal_installment" /\ rate > 0 => payment > MulRateMicro(outstanding, rate)
  /\ type = "equal_installment" /\ payment = 0 => 2 * outstanding < term

\* What the recasts leave: everything prepaid, a new term, or a new payment
\* that services what is owed.
NewTerm(loan, ledger, loan2, ledger2) ==
  \E term \in Nat :
    \/ /\ OutstandingOf(loan2, ledger2) = 0
       /\ loan2 = [loan EXCEPT !.term = term, !.payment = 0]
    \/ /\ PaidPeriodsOf(ledger) < term /\ loan.payment > 0
       /\ loan2 = [loan EXCEPT !.term = term]

NewPayment(loan, ledger, loan2, ledger2) ==
  \/ /\ OutstandingOf(loan2, ledger2) = 0
     /\ \E term \in Nat : loan2 = [loan EXCEPT !.term = term, !.payment = 0]
  \/ \E payment \in Nat :
       /\ Services(payment, loan.type, OutstandingOf(loan2, ledger2), loan.rate,
                   loan.term)
       /\ loan2 = [loan EXCEPT !.payment = payment]

NewRate(loan, ledger, loan2, rate) ==
  \E payment \in Nat :
    /\ OutstandingOf(loan, ledger) > 0
         => Services(payment, loan.type, OutstandingOf(loan, ledger), rate,
                     loan.term)
    /\ loan2 = [loan EXCEPT !.rate = rate, !.payment = payment]

LEMMA PaymentEffect ==
  ASSUME NEW loan, NEW ledger, NEW loan2, NEW ledger2,
         Healthy(loan, ledger), Pays(loan, ledger, loan2, ledger2)
  PROVE  /\ loan.status = "active"
         /\ Collected(loan, ledger, loan2, ledger2)
         /\ PaidPeriodsOf(ledger2) = PaidPeriodsOf(ledger) + 1
         /\ \/ /\ PaidPeriodsOf(ledger) + 1 < loan.term
               /\ OutstandingOf(loan2, ledger2) > 0
               /\ loan2 = loan
            \/ /\ OutstandingOf(loan2, ledger2) <= 0
               /\ loan2 = [loan EXCEPT !.status = "closed"]
<1> DEFINE plan  == RemainingScheduleOf(loan, ledger)
           owed  == OutstandingOf(loan, ledger)
           paid  == PaidPeriodsOf(ledger)
           owed2 == OutstandingOf(loan2, ledger2)
           next  == plan[1]
           row   == [seq       |-> next.number - 1,
                     amount    |-> next.payment,
                     principal |-> next.principal,
                     interest  |-> next.interest,
                     type      |-> "scheduled"]
<1>1. /\ loan.status = "active"
      /\ plan # << >>
      /\ next.payment > 0
      /\ ledger2 = Append(ledger, row)
      /\ loan2 = IF \/ paid + 1 >= loan.term
                    \/ owed - next.principal <= 0
                 THEN [loan EXCEPT !.status = "closed"]
                 ELSE loan
  BY DEF Pays, ScheduledRow, AfterPayment, AcceptingOf
<1>2. HasPlanOf(loan, ledger)
  BY <1>1 DEF RemainingScheduleOf
<1>3. /\ next.number = 1
      /\ next.principal \in Nat /\ next.interest \in Nat
      /\ next.payment = next.principal + next.interest
      /\ loan.term - paid = 1 => next.principal = owed
  BY <1>2, PlannedRow
<1>4. /\ owed > 0 /\ paid < loan.term
      /\ owed \in Int /\ paid \in Nat /\ loan.term \in Nat
  BY <1>2, HealthyTypes DEF HasPlanOf, Healthy
<1> HIDE DEF next
<1>5. row \in PaymentRows /\ row.principal = next.principal /\ row.type = "scheduled"
  <2>1. next.payment \in Nat /\ next.number - 1 \in Nat
    BY <1>3
  <2> QED
    BY <1>3, <2>1 DEF PaymentRows
<1>6. loan \in LoanRows
  BY DEF Healthy
<1>7. loan2.principal = loan.principal
  BY <1>1, <1>6 DEF LoanRows
<1> HIDE DEF row
<1>8. /\ ledger2 \in Seq(PaymentRows)
      /\ Len(ledger2) = Len(ledger) + 1
      /\ owed2 = owed - next.principal
      /\ PaidPeriodsOf(ledger2) = paid + 1
  <2>1. owed2 = OutstandingOf(loan, ledger2)
    BY <1>7 DEF OutstandingOf
  <2> QED
    BY <1>1, <1>5, <2>1, RowAdded
<1>9. Collected(loan, ledger, loan2, ledger2)
  BY <1>3, <1>4, <1>8 DEF Collected
<1>10. CASE paid + 1 >= loan.term \/ owed - next.principal <= 0
  <2>1. loan2 = [loan EXCEPT !.status = "closed"]
    BY <1>1, <1>10
  <2>2. paid + 1 >= loan.term => loan.term - paid = 1
    BY <1>4
  <2>3. owed2 <= 0
    BY <1>3, <1>4, <1>8, <1>10, <2>2
  <2> QED
    BY <1>1, <1>8, <1>9, <2>1, <2>3
<1>11. CASE ~(paid + 1 >= loan.term \/ owed - next.principal <= 0)
  <2>1. loan2 = loan
    BY <1>1, <1>11
  <2>2. paid + 1 < loan.term /\ owed2 > 0
    BY <1>3, <1>4, <1>8, <1>11
  <2> QED
    BY <1>1, <1>8, <1>9, <2>1, <2>2
<1> QED
  BY <1>10, <1>11

\* What every prepayment does to the ledger.
LEMMA PrepaidEffect ==
  ASSUME NEW loan, NEW ledger, NEW ledger2, NEW amount \in Int,
         Healthy(loan, ledger), Prepays(loan, ledger, ledger2, amount)
  PROVE  /\ loan.status = "active"
         /\ Collected(loan, ledger, loan, ledger2)
         /\ OutstandingOf(loan, ledger2) = OutstandingOf(loan, ledger) - amount
         /\ OutstandingOf(loan, ledger2) \in Nat
         /\ PaidPeriodsOf(ledger2) = PaidPeriodsOf(ledger)
         /\ PaidPeriodsOf(ledger) < loan.term
<1> DEFINE owed == OutstandingOf(loan, ledger)
           paid == PaidPeriodsOf(ledger)
           row  == PrepaymentRow(loan, ledger, amount)
<1>1. owed \in Int /\ paid \in Nat /\ loan.term \in Nat
  BY HealthyTypes
<1>2. /\ amount > 0 /\ amount <= owed
      /\ ledger2 = Append(ledger, row)
  BY DEF Prepays
<1>3. loan.status = "active" /\ paid < loan.term
  BY <1>1 DEF Prepays, AcceptingOf, FullyPaidOf
<1>4. NextUnpaidPeriod(paid, loan.term) \in Nat
  BY <1>1 DEF NextUnpaidPeriod
<1>5. row \in PaymentRows /\ row.principal = amount /\ row.type = "prepayment"
  BY <1>2, <1>4 DEF PrepaymentRow, PaymentRows
<1> HIDE DEF row
<1>6. /\ ledger2 \in Seq(PaymentRows)
      /\ Len(ledger2) = Len(ledger) + 1
      /\ OutstandingOf(loan, ledger2) = owed - amount
      /\ PaidPeriodsOf(ledger2) = paid + 0
  BY <1>2, <1>5, RowAdded
<1> QED
  BY <1>1, <1>2, <1>3, <1>6 DEF Collected

\* An operation that writes a loan leaves the amount it was created with.
LEMMA SamePrincipal ==
  ASSUME NEW loan, NEW ledger, NEW loan2, NEW ledger2, loan2.principal = loan.principal
  PROVE  /\ OutstandingOf(loan2, ledger2) = OutstandingOf(loan, ledger2)
         /\ Collected(loan, ledger, loan, ledger2)
              => Collected(loan, ledger, loan2, ledger2)
<1>1. OutstandingOf(loan2, ledger2) = OutstandingOf(loan, ledger2)
  BY DEF OutstandingOf
<1> QED
  BY <1>1 DEF Collected

LEMMA ReducedTermEffect ==
  ASSUME NEW loan, NEW ledger, NEW loan2, NEW ledger2,
         Healthy(loan, ledger), NEW bound \in Nat,
         NEW amount \in Int, ReducesTerm(loan, ledger, loan2, ledger2, amount, bound)
  PROVE  /\ loan.status = "active"
         /\ Collected(loan, ledger, loan2, ledger2)
         /\ OutstandingOf(loan2, ledger2) \in Nat
         /\ PaidPeriodsOf(ledger2) = PaidPeriodsOf(ledger)
         /\ NewTerm(loan, ledger, loan2, ledger2)
<1> DEFINE owed  == OutstandingOf(loan, ledger)
           paid  == PaidPeriodsOf(ledger)
           owed2 == OutstandingOf(loan2, ledger2)
           in    == RecastInput(loan, ledger, owed - amount, loan.rate)
<1>1. /\ AcceptingOf(loan, ledger)
      /\ Prepays(loan, ledger, ledger2, amount)
      /\ ~ReduceTermRejects(in)
      /\ \E term \in RecastReduceTerm(in, bound) :
           loan2 = [loan EXCEPT
                      !.term = term,
                      !.payment = IF in.outstanding <= 0 THEN 0 ELSE @]
  BY DEF ReducesTerm, Prepays, Left, ReducedTerm
<1>2. in.outstanding = owed - amount /\ in.paid = paid /\ in.payment = loan.payment
  BY DEF RecastInput
<1>3. loan \in LoanRows
  BY DEF Healthy
<1> HIDE DEF in
<1>4. PICK term \in RecastReduceTerm(in, bound) :
        loan2 = [loan EXCEPT !.term = term,
                             !.payment = IF in.outstanding <= 0 THEN 0 ELSE @]
  BY <1>1
<1>5. loan2.principal = loan.principal
  BY <1>3, <1>4 DEF LoanRows
<1>6. /\ Collected(loan, ledger, loan2, ledger2)
      /\ owed2 = owed - amount
      /\ owed2 \in Nat
      /\ PaidPeriodsOf(ledger2) = paid
      /\ paid \in Nat
  <2>1. /\ Collected(loan, ledger, loan, ledger2)
        /\ OutstandingOf(loan, ledger2) = owed - amount
        /\ OutstandingOf(loan, ledger2) \in Nat
        /\ PaidPeriodsOf(ledger2) = paid
    BY <1>1, PrepaidEffect
  <2> QED
    BY <1>5, <2>1, SamePrincipal, HealthyTypes
<1>7. CASE in.outstanding <= 0
  <2>1. term = paid
    BY <1>2, <1>7 DEF RecastReduceTerm
  <2>2. loan2 = [loan EXCEPT !.term = term, !.payment = 0]
    BY <1>4, <1>7
  <2>3. owed2 = 0
    BY <1>2, <1>6, <1>7
  <2> QED
    BY <1>1, <1>6, <2>1, <2>2, <2>3 DEF AcceptingOf, NewTerm
<1>8. CASE ~(in.outstanding <= 0)
  <2>1. \E m \in ReduceTermPeriods(in, bound) : term = paid + m
    BY <1>2, <1>8 DEF RecastReduceTerm
  <2>2. PICK m \in 1 .. bound : term = paid + m
    BY <2>1 DEF ReduceTermPeriods
  <2>3. term \in Nat /\ paid < term
    BY <1>6, <2>2
  <2>4. loan2 = [loan EXCEPT !.term = term]
    BY <1>3, <1>4, <1>8 DEF LoanRows
  <2>5. in.outstanding > 0 /\ loan.payment \in Nat
    BY <1>2, <1>6, <1>8, HealthyTypes
  <2>6. loan.payment > 0
    BY <1>1, <1>2, <2>5 DEF ReduceTermRejects
  <2> QED
    BY <1>1, <1>6, <2>3, <2>4, <2>6 DEF AcceptingOf, NewTerm
<1> QED
  BY <1>7, <1>8

\* Less than half a cent rounds to nothing, and only that does.
LEMMA RoundsToNothing ==
  ASSUME NEW num \in Nat, NEW den \in Nat \ {0}, RoundCents(num, den) = 0
  PROVE  2 * num < den
<1>1. (2 * num + den) \div (2 * den) = 0
  BY DEF RoundCents
<1>2. 2 * num + den \in Int /\ 2 * den \in Nat \ {0}
  OBVIOUS
<1>3. 2 * num + den < (2 * den) * ((2 * num + den) \div (2 * den)) + 2 * den
  BY <1>2, DivBounds
<1> QED
  BY <1>1, <1>3

\* The level payment of a plan Build accepts services its debt.
LEMMA LevelPaymentServices ==
  ASSUME NEW in \in ScheduleInputs, ~BuildRejects(in), in.outstanding > 0
  PROVE  Services(PaymentAmount(in.outstanding, in.rate, in.periods),
                  in.type, in.outstanding, in.rate, in.periods)
<1> DEFINE payment == PaymentAmount(in.outstanding, in.rate, in.periods)
<1>1. in.outstanding \in Nat /\ in.rate \in Nat /\ in.periods \in Nat \ {0}
  BY DEF ScheduleInputs
<1>2. payment \in Nat /\ MulRateMicro(in.outstanding, in.rate) <= payment
  BY <1>1, PaymentAmountCoversInterest
<1>3. MulRateMicro(in.outstanding, in.rate) \in Nat
  BY <1>1, InterestType
<1>4. in.type = "equal_installment" /\ in.rate > 0
        => ~(payment <= MulRateMicro(in.outstanding, in.rate))
  BY <1>1 DEF BuildRejects, NegativelyAmortizes
<1>5. in.rate = 0 /\ payment = 0 => 2 * in.outstanding < in.periods
  <2>1. SUFFICES ASSUME in.rate = 0, payment = 0
                 PROVE  2 * in.outstanding < in.periods
    OBVIOUS
  <2>2. RoundCents(in.outstanding, in.periods) = 0
    BY <1>1, <2>1 DEF PaymentAmount
  <2> QED
    BY <1>1, <2>2, RoundsToNothing
<1> HIDE DEF payment
<1>6. Services(payment, in.type, in.outstanding, in.rate, in.periods)
  BY <1>1, <1>2, <1>3, <1>4, <1>5 DEF Services
<1> QED
  BY <1>6 DEF payment

\* So does the first payment of the plan, which is what ChangeRate stores.
LEMMA FirstPaymentServices ==
  ASSUME NEW in \in ScheduleInputs, ~BuildRejects(in), in.outstanding > 0,
         in.periods # 1, NEW term
  PROVE  Services(Build(in)[1].payment, in.type, in.outstanding, in.rate, term)
<1>1. in.outstanding \in Nat /\ in.rate \in Nat
  BY DEF ScheduleInputs
<1>2. MulRateMicro(in.outstanding, in.rate) \in Nat
  BY <1>1, InterestType
<1>3. /\ FirstPrincipal(in) \in Nat
      /\ Build(in)[1].payment = FirstPrincipal(in) + MulRateMicro(in.outstanding, in.rate)
  BY BuildFirstRow, FirstPrincipalType DEF FirstRow
<1>4. CASE in.type = "equal_installment" /\ in.rate > 0
  <2>1. Build(in)[1].payment = PaymentAmount(in.outstanding, in.rate, in.periods)
    BY <1>1, <1>4, EqualInstallmentFirstPayment
  <2>2. Services(Build(in)[1].payment, in.type, in.outstanding, in.rate, in.periods)
    BY <2>1, LevelPaymentServices
  <2>3. Build(in)[1].payment # 0
    BY <1>2, <1>4, <2>2 DEF Services
  <2> QED
    BY <2>2, <2>3 DEF Services
<1>5. CASE in.type = "equal_installment" /\ ~(in.rate > 0)
  <2>1. FirstPrincipal(in) = EqualPrincipalDue(in)[1][in.outstanding]
    BY <1>1, <1>5 DEF FirstPrincipal, DueOf, EqualInstallmentDue
  <2>2. FirstPrincipal(in) > 0
    BY <2>1, EqualPrincipalFirst
  <2>3. Build(in)[1].payment # 0
    BY <1>2, <1>3, <2>2
  <2> QED
    BY <1>2, <1>3, <1>5, <2>3 DEF Services
<1>6. CASE in.type # "equal_installment"
  BY <1>2, <1>3, <1>6 DEF Services
<1> QED
  BY <1>4, <1>5, <1>6

LEMMA ReducedPaymentEffect ==
  ASSUME NEW loan, NEW ledger, NEW loan2, NEW ledger2,
         Healthy(loan, ledger), NEW amount \in Int,
         ReducesPayment(loan, ledger, loan2, ledger2, amount)
  PROVE  /\ loan.status = "active"
         /\ Collected(loan, ledger, loan2, ledger2)
         /\ OutstandingOf(loan2, ledger2) \in Nat
         /\ PaidPeriodsOf(ledger2) = PaidPeriodsOf(ledger)
         /\ PaidPeriodsOf(ledger) < loan.term
         /\ NewPayment(loan, ledger, loan2, ledger2)
<1> DEFINE owed  == OutstandingOf(loan, ledger)
           paid  == PaidPeriodsOf(ledger)
           owed2 == OutstandingOf(loan2, ledger2)
           in    == RecastInput(loan, ledger, owed - amount, loan.rate)
           term  == RecastReducePayment(in).term
<1>1. /\ AcceptingOf(loan, ledger)
      /\ Prepays(loan, ledger, ledger2, amount)
      /\ ~ReducePaymentRejects(in)
      /\ loan2 = [loan EXCEPT
                    !.term = term,
                    !.payment = IF in.outstanding <= 0 THEN 0
                                ELSE PaymentAmount(in.outstanding, loan.rate, term)]
  BY DEF ReducesPayment, Prepays, Left, ReducedPayment
<1>2. /\ in.outstanding = owed - amount /\ in.paid = paid
      /\ in.term = loan.term /\ in.rate = loan.rate /\ in.type = loan.type
  BY DEF RecastInput
<1>3. loan \in LoanRows
  BY DEF Healthy
<1>4. loan2.principal = loan.principal
  BY <1>1, <1>3 DEF LoanRows
<1>5. /\ Collected(loan, ledger, loan2, ledger2)
      /\ owed2 = owed - amount
      /\ owed2 \in Nat
      /\ PaidPeriodsOf(ledger2) = paid
      /\ paid < loan.term
  <2>1. /\ Collected(loan, ledger, loan, ledger2)
        /\ OutstandingOf(loan, ledger2) = owed - amount
        /\ OutstandingOf(loan, ledger2) \in Nat
        /\ PaidPeriodsOf(ledger2) = paid /\ paid < loan.term
    BY <1>1, PrepaidEffect
  <2> QED
    BY <1>4, <2>1, SamePrincipal
<1>6. /\ paid \in Nat /\ loan.term \in Nat /\ loan.rate \in Nat
  BY HealthyTypes DEF Healthy
<1>7. loan.status = "active"
  BY <1>1 DEF AcceptingOf
<1> HIDE DEF in
<1>8. CASE in.outstanding <= 0
  <2>1. term = paid + loan.term
    BY <1>2, <1>8 DEF RecastReducePayment
  <2>2. loan2 = [loan EXCEPT !.term = paid + loan.term, !.payment = 0]
    BY <1>1, <1>8, <2>1
  <2>3. paid + loan.term \in Nat
    BY <1>6
  <2>4. owed2 = 0
    BY <1>2, <1>5, <1>8
  <2> QED
    BY <1>5, <1>7, <2>2, <2>3, <2>4 DEF NewPayment
<1>9. CASE ~(in.outstanding <= 0)
  <2> DEFINE plan    == Remaining(in, in.term)
             payment == PaymentAmount(owed2, loan.rate, loan.term)
  <2>1. term = loan.term
    BY <1>2, <1>9 DEF RecastReducePayment
  <2>2. in.outstanding = owed2 /\ owed2 > 0
    BY <1>2, <1>5, <1>9
  <2>3. loan2 = [loan EXCEPT !.payment = payment]
    BY <1>1, <1>3, <1>9, <2>1, <2>2 DEF LoanRows
  <2>4. loan.type \in LoanTypes
    BY <1>7 DEF Healthy
  <2>5. /\ plan.outstanding = owed2 /\ plan.rate = loan.rate
        /\ plan.periods = loan.term /\ plan.type = loan.type
    BY <1>2, <2>2 DEF Remaining
  <2>6. plan \in ScheduleInputs
    <3>1. loan.term \in Nat \ {0}
      BY <1>5, <1>6
    <3>2. plan = [outstanding |-> owed2, rate |-> loan.rate,
                  periods |-> loan.term, type |-> loan.type]
      BY <1>2, <2>2 DEF Remaining
    <3> QED
      BY <1>5, <1>6, <2>4, <3>1, <3>2 DEF ScheduleInputs
  <2>7. ~BuildRejects(plan)
    BY <1>1, <1>2, <1>9, <2>2 DEF ReducePaymentRejects
  <2> HIDE DEF plan
  <2>8. Services(payment, loan.type, owed2, loan.rate, loan.term)
    BY <2>2, <2>5, <2>6, <2>7, LevelPaymentServices
  <2>9. payment \in Nat
    BY <2>8 DEF Services
  <2> HIDE DEF payment
  <2> QED
    BY <1>5, <1>7, <2>3, <2>8, <2>9 DEF NewPayment
<1> QED
  BY <1>8, <1>9

LEMMA RefinancedEffect ==
  ASSUME NEW loan, NEW ledger, NEW loan2, NEW ledger2,
         Healthy(loan, ledger), NEW rate \in Int,
         Refinances(loan, ledger, loan2, ledger2, rate)
  PROVE  /\ loan.status = "active"
         /\ rate \in Nat
         /\ ledger2 = ledger
         /\ OutstandingOf(loan2, ledger2) = OutstandingOf(loan, ledger)
         /\ PaidPeriodsOf(ledger2) = PaidPeriodsOf(ledger)
         /\ PaidPeriodsOf(ledger) < loan.term
         /\ NewRate(loan, ledger, loan2, rate)
<1> DEFINE owed   == OutstandingOf(loan, ledger)
           paid   == PaidPeriodsOf(ledger)
           in     == RecastInput(loan, ledger, owed, rate)
           recast == RateChangePeriods(in) > 0 /\ owed > 0
           rows   == RecastRateChange(in).rows
<1>1. /\ rate >= 0
      /\ AcceptingOf(loan, ledger)
      /\ recast => ~RateChangeRejects(in)
      /\ loan2 = [loan EXCEPT
                    !.rate = rate,
                    !.payment = IF recast /\ rows # << >> THEN rows[1].payment ELSE @]
      /\ ledger2 = ledger
  BY DEF Refinances, Refinanced, Recasts, RecastInput
<1>2. /\ in.outstanding = owed /\ in.paid = paid
      /\ in.term = loan.term /\ in.rate = rate /\ in.type = loan.type
  BY DEF RecastInput
<1>3. loan \in LoanRows
  BY DEF Healthy
<1>4. loan2.principal = loan.principal
  BY <1>1, <1>3 DEF LoanRows
<1>5. OutstandingOf(loan2, ledger2) = owed /\ PaidPeriodsOf(ledger2) = paid
  <2>1. ledger2 = ledger
    BY <1>1
  <2> QED
    BY <1>4, <2>1, SamePrincipal
<1>6. /\ paid \in Nat /\ loan.term \in Nat /\ loan.payment \in Nat
      /\ owed \in Int
  BY HealthyTypes DEF Healthy
<1>7. loan.status = "active" /\ paid < loan.term /\ rate \in Nat
  BY <1>1, <1>6 DEF AcceptingOf, FullyPaidOf
<1> HIDE DEF in
<1>8. CASE owed > 0
  <2> DEFINE plan    == Remaining(in, RateChangePeriods(in))
             payment == Build(plan)[1].payment
  <2>1. RateChangePeriods(in) = loan.term - paid + 1
    BY <1>2 DEF RateChangePeriods
  <2>2. RateChangePeriods(in) \in Nat \ {0} /\ RateChangePeriods(in) # 1
    BY <1>6, <1>7, <2>1
  <2>3. recast
    BY <1>8, <2>2
  <2>4. rows = Build(plan)
    BY <1>2, <1>6, <1>8 DEF RecastRateChange
  <2>5. loan.type \in LoanTypes
    BY <1>7 DEF Healthy
  <2>6. /\ plan.outstanding = owed /\ plan.rate = rate
        /\ plan.periods = RateChangePeriods(in) /\ plan.type = loan.type
    BY <1>2 DEF Remaining
  <2>7. plan \in ScheduleInputs
    <3>1. plan = [outstanding |-> owed, rate |-> rate,
                  periods |-> RateChangePeriods(in), type |-> loan.type]
      BY <1>2 DEF Remaining
    <3>2. owed \in Nat
      BY <1>6, <1>8
    <3> QED
      BY <1>7, <2>2, <2>5, <3>1, <3>2 DEF ScheduleInputs
  <2>8. ~BuildRejects(plan)
    BY <1>1, <1>2, <1>8, <2>3 DEF RateChangeRejects
  <2> HIDE DEF plan
  <2>9. Build(plan) # << >>
    BY <2>7, BuildFirstRow
  <2>10. Services(payment, loan.type, owed, rate, loan.term)
    BY <1>8, <2>2, <2>6, <2>7, <2>8, FirstPaymentServices
  <2>11. loan2 = [loan EXCEPT !.rate = rate, !.payment = payment]
    BY <1>1, <2>3, <2>4, <2>9
  <2>12. payment \in Nat
    BY <2>10 DEF Services
  <2> HIDE DEF payment
  <2> QED
    BY <1>1, <1>5, <1>7, <2>10, <2>11, <2>12 DEF NewRate
<1>9. CASE ~(owed > 0)
  <2>1. loan2 = [loan EXCEPT !.rate = rate, !.payment = loan.payment]
    BY <1>1, <1>3, <1>9 DEF LoanRows
  <2> QED
    BY <1>1, <1>5, <1>6, <1>7, <1>9, <2>1 DEF NewRate
<1> QED
  BY <1>8, <1>9

LEMMA NewLoanEffect ==
  ASSUME NEW loan, NEW ledger, NEW loan2, NEW ledger2,
         Healthy(loan, ledger),
         NEW principal \in Int, NEW rate \in Int, NEW periods \in Int,
         NEW type \in LoanTypes,
         Creates(loan, ledger, loan2, ledger2, principal, rate, periods, type)
  PROVE  /\ loan.status = "none"
         /\ ledger2 = ledger /\ ledger = << >>
         /\ loan2 \in LoanRows
         /\ loan2.status = "active"
         /\ loan2.type \in LoanTypes
         /\ OutstandingOf(loan2, ledger2) \in Nat \ {0}
         /\ PaidPeriodsOf(ledger2) = 0
         /\ loan2.term > 0
         /\ Services(loan2.payment, loan2.type, OutstandingOf(loan2, ledger2), loan2.rate,
                     loan2.term)
<1> DEFINE in == [outstanding |-> principal, rate |-> rate,
                  periods |-> periods, type |-> type]
           payment == PaymentAmount(principal, rate, periods)
<1>1. /\ loan.status = "none"
      /\ principal > 0 /\ rate >= 0 /\ periods > 0
      /\ ~BuildRejects(in)
      /\ loan2 = [principal |-> principal, rate |-> rate, payment |-> payment,
                  term |-> periods, type |-> type, status |-> "active"]
      /\ ledger2 = ledger
  BY DEF Creates, GoodTerms, NewLoan
<1>2. ledger = << >>
  BY <1>1 DEF Healthy
<1>3. principal \in Nat /\ rate \in Nat /\ periods \in Nat \ {0}
  BY <1>1
<1>4. in \in ScheduleInputs
  BY <1>3 DEF ScheduleInputs
<1>5. Services(PaymentAmount(in.outstanding, in.rate, in.periods),
               in.type, in.outstanding, in.rate, in.periods)
  BY <1>1, <1>4, LevelPaymentServices
<1>6. Services(payment, type, principal, rate, periods)
  BY <1>5
<1>7. payment \in Nat
  BY <1>6 DEF Services
<1> HIDE DEF payment
<1>8. loan2 \in LoanRows
  BY <1>1, <1>3, <1>7 DEF LoanRows
<1>9. PrincipalOf(ledger2) = 0 /\ Cardinality(Scheduled(ledger2)) = 0
  BY <1>1, <1>2, PrincipalOfEmpty, ScheduledEmpty
<1>10. OutstandingOf(loan2, ledger2) = principal
  BY <1>1, <1>3, <1>9 DEF OutstandingOf
<1>11. PaidPeriodsOf(ledger2) = 0
  BY <1>9 DEF PaidPeriodsOf
<1> QED
  BY <1>1, <1>2, <1>3, <1>6, <1>8, <1>10, <1>11

-----------------------------------------------------------------------------
(***************************************************************************)
(* No operation makes it unhealthy                                         *)
(***************************************************************************)

\* What makes an open loan healthy.
LEMMA OpenIsHealthy ==
  ASSUME NEW loan, NEW ledger, loan \in LoanRows, ledger \in Seq(PaymentRows),
         loan.status = "active", loan.type \in LoanTypes,
         OutstandingOf(loan, ledger) \in Nat,
         OutstandingOf(loan, ledger) > 0
           => PaidPeriodsOf(ledger) < loan.term /\ Serviced(loan, ledger)
  PROVE  Healthy(loan, ledger)
<1>1. OutstandingOf(loan, ledger) >= 0
  OBVIOUS
<1> QED
  BY <1>1 DEF Healthy

LEMMA NewLoanIsHealthy ==
  ASSUME NEW loan, NEW ledger, NEW loan2, NEW ledger2,
         Healthy(loan, ledger),
         NEW principal \in Int, NEW rate \in Int, NEW periods \in Int,
         NEW type \in LoanTypes,
         Creates(loan, ledger, loan2, ledger2, principal, rate, periods, type)
  PROVE  Healthy(loan2, ledger2)
<1> DEFINE owed2 == OutstandingOf(loan2, ledger2)
<1>1. /\ ledger2 = << >>
      /\ loan2 \in LoanRows /\ loan2.status = "active" /\ loan2.type \in LoanTypes
      /\ owed2 \in Nat /\ PaidPeriodsOf(ledger2) = 0 /\ loan2.term > 0
      /\ Services(loan2.payment, loan2.type, owed2, loan2.rate, loan2.term)
  BY NewLoanEffect
<1>2. Serviced(loan2, ledger2) /\ ledger2 \in Seq(PaymentRows)
  BY <1>1 DEF Serviced, Services
<1> HIDE DEF owed2
<1>3. PaidPeriodsOf(ledger2) < loan2.term
  BY <1>1
<1> QED
  BY <1>1, <1>2, <1>3, OpenIsHealthy DEF owed2

LEMMA CanceledEffect ==
  ASSUME NEW loan, NEW ledger, NEW loan2, NEW ledger2,
         Healthy(loan, ledger), Cancels(loan, ledger, loan2, ledger2)
  PROVE  /\ loan.status = "active" /\ loan2.status = "canceled"
         /\ ledger = << >> /\ ledger2 = ledger
         /\ loan2 = [loan EXCEPT !.status = "canceled"]
         /\ OutstandingOf(loan2, ledger2) = OutstandingOf(loan, ledger)
         /\ PaidPeriodsOf(ledger2) = PaidPeriodsOf(ledger)
<1>1. /\ loan.status = "active" /\ Len(ledger) = 0 /\ ledger2 = ledger
      /\ loan2 = [loan EXCEPT !.status = "canceled"]
  BY DEF Cancels
<1>2. loan \in LoanRows /\ ledger \in Seq(PaymentRows)
  BY DEF Healthy
<1>3. loan2.principal = loan.principal /\ loan2.status = "canceled"
  BY <1>1, <1>2 DEF LoanRows
<1>4. ledger = << >>
  BY <1>1, <1>2
<1> QED
  BY <1>1, <1>3, <1>4, SamePrincipal

LEMMA CanceledIsHealthy ==
  ASSUME NEW loan, NEW ledger, NEW loan2, NEW ledger2,
         Healthy(loan, ledger), Cancels(loan, ledger, loan2, ledger2)
  PROVE  Healthy(loan2, ledger2)
<1>1. /\ loan.status = "active"
      /\ ledger = << >> /\ ledger2 = ledger
      /\ loan2 = [loan EXCEPT !.status = "canceled"]
      /\ OutstandingOf(loan2, ledger2) = OutstandingOf(loan, ledger)
      /\ PaidPeriodsOf(ledger2) = PaidPeriodsOf(ledger)
  BY CanceledEffect
<1>2. loan \in LoanRows /\ ledger \in Seq(PaymentRows)
  BY DEF Healthy
<1>3. /\ loan2 \in LoanRows
      /\ loan2.status = "canceled" /\ loan2.type = loan.type
      /\ loan2.term = loan.term /\ loan2.payment = loan.payment
      /\ loan2.rate = loan.rate
  BY <1>1, <1>2 DEF LoanRows
<1>4. OutstandingOf(loan, ledger) > 0 => Serviced(loan2, ledger2)
  BY <1>1, <1>3 DEF Healthy, Serviced
<1> QED
  BY <1>1, <1>2, <1>3, <1>4 DEF Healthy

\* A debt that shrinks is still serviced by the same payment, over the same
\* term or over any other if there is a payment.
LEMMA SmallerDebtIsServiced ==
  ASSUME NEW loan, NEW ledger, NEW loan2, NEW ledger2,
         Healthy(loan, ledger), OutstandingOf(loan2, ledger2) \in Nat,
         OutstandingOf(loan2, ledger2) <= OutstandingOf(loan, ledger),
         OutstandingOf(loan, ledger) > 0,
         loan2.payment = loan.payment, loan2.rate = loan.rate, loan2.type = loan.type,
         loan2.term = loan.term \/ loan.payment > 0
  PROVE  Serviced(loan2, ledger2)
<1> DEFINE owed  == OutstandingOf(loan, ledger)
           owed2 == OutstandingOf(loan2, ledger2)
<1>1. owed \in Nat /\ loan.rate \in Nat /\ loan.payment \in Nat
  BY HealthyTypes
<1>2. /\ MulRateMicro(owed2, loan.rate) \in Nat
      /\ MulRateMicro(owed, loan.rate) \in Nat
      /\ MulRateMicro(owed2, loan.rate) <= MulRateMicro(owed, loan.rate)
  BY <1>1, InterestType, MulRateMicroMonotone
<1>3. /\ loan.payment = 0 \/ loan.payment >= MulRateMicro(owed, loan.rate)
      /\ loan.type = "equal_installment" /\ loan.rate > 0
           => loan.payment > MulRateMicro(owed, loan.rate)
      /\ loan.type = "equal_installment" /\ loan.payment = 0 => 2 * owed < loan.term
  BY DEF Healthy, Serviced
<1>4. loan.term \in Nat /\ owed2 \in Nat /\ owed2 <= owed
  BY HealthyTypes
<1> HIDE DEF owed, owed2
<1>5. /\ loan.payment = 0 \/ loan.payment >= MulRateMicro(owed2, loan.rate)
      /\ loan.type = "equal_installment" /\ loan.rate > 0
           => loan.payment > MulRateMicro(owed2, loan.rate)
  BY <1>1, <1>2, <1>3
<1>6. loan.type = "equal_installment" /\ loan.payment = 0 => 2 * owed2 < loan2.term
  BY <1>1, <1>3, <1>4
<1> QED
  BY <1>5, <1>6 DEF Serviced, owed2

LEMMA PaidIsHealthy ==
  ASSUME NEW loan, NEW ledger, NEW loan2, NEW ledger2,
         Healthy(loan, ledger), Pays(loan, ledger, loan2, ledger2)
  PROVE  Healthy(loan2, ledger2)
<1> DEFINE owed2 == OutstandingOf(loan2, ledger2)
<1>1. /\ loan.status = "active"
      /\ Collected(loan, ledger, loan2, ledger2)
      /\ PaidPeriodsOf(ledger2) = PaidPeriodsOf(ledger) + 1
      /\ \/ /\ PaidPeriodsOf(ledger) + 1 < loan.term
            /\ owed2 > 0
            /\ loan2 = loan
         \/ /\ owed2 <= 0
            /\ loan2 = [loan EXCEPT !.status = "closed"]
  BY PaymentEffect
<1>2. /\ ledger2 \in Seq(PaymentRows)
      /\ owed2 \in Int /\ owed2 <= OutstandingOf(loan, ledger)
      /\ OutstandingOf(loan, ledger) > 0
  BY <1>1 DEF Collected
<1>3. loan \in LoanRows /\ loan.type \in LoanTypes
  BY <1>1 DEF Healthy
<1>4. CASE owed2 <= 0 /\ loan2 = [loan EXCEPT !.status = "closed"]
  <2>1. /\ loan2 \in LoanRows /\ loan2.status = "closed" /\ loan2.type = loan.type
    BY <1>3, <1>4 DEF LoanRows
  <2>2. ~(owed2 > 0)
    BY <1>2, <1>4
  <2> QED
    BY <1>2, <1>3, <1>4, <2>1, <2>2 DEF Healthy
<1>5. CASE PaidPeriodsOf(ledger) + 1 < loan.term /\ owed2 > 0 /\ loan2 = loan
  <2>1. owed2 \in Nat
    BY <1>2, <1>5
  <2>2. Serviced(loan2, ledger2)
    BY <1>2, <1>5, <2>1, SmallerDebtIsServiced
  <2>3. PaidPeriodsOf(ledger2) < loan2.term
    BY <1>1, <1>5
  <2> QED
    BY <1>1, <1>2, <1>3, <1>5, <2>1, <2>2, <2>3, OpenIsHealthy
<1> QED
  BY <1>1, <1>4, <1>5

LEMMA ReducedTermIsHealthy ==
  ASSUME NEW loan, NEW ledger, NEW loan2, NEW ledger2,
         Healthy(loan, ledger), NEW bound \in Nat, NEW amount \in Int,
         ReducesTerm(loan, ledger, loan2, ledger2, amount, bound)
  PROVE  Healthy(loan2, ledger2)
<1> DEFINE owed2 == OutstandingOf(loan2, ledger2)
           paid  == PaidPeriodsOf(ledger)
<1>1. /\ loan.status = "active"
      /\ Collected(loan, ledger, loan2, ledger2)
      /\ owed2 \in Nat
      /\ PaidPeriodsOf(ledger2) = paid
      /\ NewTerm(loan, ledger, loan2, ledger2)
  BY ReducedTermEffect
<1>2. PICK term \in Nat :
        \/ owed2 = 0 /\ loan2 = [loan EXCEPT !.term = term, !.payment = 0]
        \/ /\ paid < term /\ loan.payment > 0
           /\ loan2 = [loan EXCEPT !.term = term]
  BY <1>1 DEF NewTerm
<1>3. loan \in LoanRows /\ loan.type \in LoanTypes
  BY <1>1 DEF Healthy
<1>4. /\ ledger2 \in Seq(PaymentRows)
      /\ owed2 <= OutstandingOf(loan, ledger) /\ OutstandingOf(loan, ledger) > 0
  BY <1>1 DEF Collected
<1>5. CASE owed2 = 0 /\ loan2 = [loan EXCEPT !.term = term, !.payment = 0]
  <2>1. loan2 \in LoanRows /\ loan2.status = "active" /\ loan2.type = loan.type
    BY <1>1, <1>3, <1>5 DEF LoanRows
  <2>2. ~(owed2 > 0)
    BY <1>5
  <2> QED
    BY <1>1, <1>3, <1>4, <2>1, <2>2, OpenIsHealthy
<1>6. CASE /\ paid < term /\ loan.payment > 0
           /\ loan2 = [loan EXCEPT !.term = term]
  <2>1. /\ loan2 \in LoanRows /\ loan2.status = "active" /\ loan2.type = loan.type
        /\ loan2.payment = loan.payment /\ loan2.rate = loan.rate
        /\ loan2.term = term
    BY <1>1, <1>3, <1>6 DEF LoanRows
  <2>2. Serviced(loan2, ledger2)
    BY <1>1, <1>4, <1>6, <2>1, SmallerDebtIsServiced
  <2> QED
    BY <1>1, <1>3, <1>4, <1>6, <2>1, <2>2, OpenIsHealthy
<1> QED
  BY <1>2, <1>5, <1>6

LEMMA ReducedPaymentIsHealthy ==
  ASSUME NEW loan, NEW ledger, NEW loan2, NEW ledger2,
         Healthy(loan, ledger), NEW amount \in Int,
         ReducesPayment(loan, ledger, loan2, ledger2, amount)
  PROVE  Healthy(loan2, ledger2)
<1> DEFINE owed2 == OutstandingOf(loan2, ledger2)
<1>1. /\ loan.status = "active"
      /\ Collected(loan, ledger, loan2, ledger2)
      /\ owed2 \in Nat
      /\ PaidPeriodsOf(ledger2) = PaidPeriodsOf(ledger)
      /\ PaidPeriodsOf(ledger) < loan.term
      /\ NewPayment(loan, ledger, loan2, ledger2)
  BY ReducedPaymentEffect
<1>2. loan \in LoanRows /\ loan.type \in LoanTypes
  BY <1>1 DEF Healthy
<1>3. ledger2 \in Seq(PaymentRows)
  BY <1>1 DEF Collected
<1>4. ASSUME owed2 = 0, NEW term \in Nat,
             loan2 = [loan EXCEPT !.term = term, !.payment = 0]
      PROVE  Healthy(loan2, ledger2)
  <2>1. loan2 \in LoanRows /\ loan2.status = "active" /\ loan2.type = loan.type
    BY <1>1, <1>2, <1>4 DEF LoanRows
  <2>2. ~(owed2 > 0)
    BY <1>4
  <2> QED
    BY <1>1, <1>2, <1>3, <2>1, <2>2, OpenIsHealthy
<1>5. ASSUME NEW payment \in Nat,
             Services(payment, loan.type, owed2, loan.rate, loan.term),
             loan2 = [loan EXCEPT !.payment = payment]
      PROVE  Healthy(loan2, ledger2)
  <2>1. /\ loan2 \in LoanRows /\ loan2.status = "active" /\ loan2.type = loan.type
        /\ loan2.payment = payment /\ loan2.rate = loan.rate
        /\ loan2.term = loan.term
    BY <1>1, <1>2, <1>5 DEF LoanRows
  <2>2. Serviced(loan2, ledger2)
    BY <1>5, <2>1 DEF Serviced, Services
  <2> QED
    BY <1>1, <1>2, <1>3, <2>1, <2>2, OpenIsHealthy
<1> QED
  BY <1>1, <1>4, <1>5 DEF NewPayment

LEMMA RefinancedIsHealthy ==
  ASSUME NEW loan, NEW ledger, NEW loan2, NEW ledger2,
         Healthy(loan, ledger), NEW rate \in Int,
         Refinances(loan, ledger, loan2, ledger2, rate)
  PROVE  Healthy(loan2, ledger2)
<1> DEFINE owed == OutstandingOf(loan, ledger)
<1>1. /\ loan.status = "active"
      /\ rate \in Nat
      /\ ledger2 = ledger
      /\ OutstandingOf(loan2, ledger2) = owed
      /\ PaidPeriodsOf(ledger2) = PaidPeriodsOf(ledger)
      /\ PaidPeriodsOf(ledger) < loan.term
      /\ NewRate(loan, ledger, loan2, rate)
  BY RefinancedEffect
<1>2. PICK payment \in Nat :
        /\ owed > 0 => Services(payment, loan.type, owed, rate, loan.term)
        /\ loan2 = [loan EXCEPT !.rate = rate, !.payment = payment]
  BY <1>1 DEF NewRate
<1>3. /\ loan \in LoanRows /\ loan.type \in LoanTypes
      /\ ledger \in Seq(PaymentRows) /\ owed >= 0
  BY <1>1 DEF Healthy
<1>4. /\ loan2 \in LoanRows /\ loan2.status = "active" /\ loan2.type = loan.type
      /\ loan2.payment = payment /\ loan2.rate = rate
      /\ loan2.term = loan.term
  BY <1>1, <1>2, <1>3 DEF LoanRows
<1>5. owed > 0 => Serviced(loan2, ledger2)
  BY <1>1, <1>2, <1>4 DEF Serviced, Services
<1>6. owed \in Nat
  BY <1>3, HealthyTypes
<1> QED
  BY <1>1, <1>3, <1>4, <1>5, <1>6, OpenIsHealthy

\* A payment above the rounded interest is above the exact one too.
LEMMA AboveRoundedInterest ==
  ASSUME NEW num \in Nat, NEW den \in Nat \ {0}, NEW payment \in Nat,
         payment > RoundCents(num, den)
  PROVE  payment * den > num
<1> DEFINE q == (2 * num + den) \div (2 * den)
<1>1. RoundCents(num, den) = q
  BY DEF RoundCents
<1>2. 2 * num + den \in Int /\ 2 * den \in Nat \ {0}
  OBVIOUS
<1>3. q \in Int /\ 2 * num + den < (2 * den) * q + 2 * den
  BY <1>2, DivBounds
<1> HIDE DEF q
<1>4. payment > q
  BY <1>1
<1>5. PICK k \in Nat : payment = q + 1 + k
  <2>1. payment - q - 1 \in Nat
    BY <1>3, <1>4
  <2> WITNESS payment - q - 1 \in Nat
  <2> QED
    BY <1>3
<1>6. payment * den = q * den + den + k * den /\ k * den \in Nat /\ q * den \in Int
  BY <1>3, <1>5
<1>7. (2 * den) * q = 2 * (q * den)
  BY <1>3
<1> QED
  BY <1>3, <1>6, <1>7

-----------------------------------------------------------------------------
(***************************************************************************)
(* The prepayments a recast refuses                                        *)
(***************************************************************************)

\* A prepayment that keeps the payment is refused only when there is none to
\* keep: the loan bears no interest and half a cent a period repays it.
LEMMA TermRejected ==
  ASSUME NEW loan, NEW ledger, NEW amount \in Int,
         Healthy(loan, ledger), loan.type = "equal_installment",
         amount > 0, amount <= OutstandingOf(loan, ledger),
         ReduceTermRejects(Left(loan, ledger, amount))
  PROVE  /\ loan.rate = 0 /\ loan.payment = 0
         /\ 2 * (OutstandingOf(loan, ledger) - amount) < loan.term
<1> DEFINE owed == OutstandingOf(loan, ledger)
<1>1. /\ owed \in Nat \ {0} /\ loan.payment \in Nat /\ loan.rate \in Nat
      /\ loan.term \in Nat
  BY HealthyTypes
<1>2. \/ loan.payment <= 0
      \/ loan.rate # 0 /\ loan.payment * RateMicroScale <= (owed - amount) * loan.rate
  BY DEF ReduceTermRejects, Left, RecastInput
<1>3. /\ loan.rate > 0 => loan.payment > MulRateMicro(owed, loan.rate)
      /\ loan.payment = 0 => 2 * owed < loan.term
  BY <1>1 DEF Healthy, Serviced
<1>4. MulRateMicro(owed, loan.rate) \in Nat
  BY <1>1, InterestType
<1> HIDE DEF owed
<1>5. CASE loan.rate = 0
  BY <1>1, <1>2, <1>3, <1>5 DEF owed
<1>6. CASE loan.rate > 0
  <2>1. owed * loan.rate \in Nat /\ RateMicroScale \in Nat \ {0}
    BY <1>1, ScaleAssumption
  <2>2. loan.payment > RoundCents(owed * loan.rate, RateMicroScale)
    BY <1>3, <1>6 DEF MulRateMicro
  <2>3. loan.payment * RateMicroScale > owed * loan.rate
    BY <1>1, <2>1, <2>2, AboveRoundedInterest
  <2>4. (owed - amount) * loan.rate = owed * loan.rate - amount * loan.rate
    BY <1>1
  <2>5. amount * loan.rate \in Nat
    <3>1. amount \in Nat
      OBVIOUS
    <3> QED
      BY <1>1, <3>1
  <2>6. loan.payment * RateMicroScale \in Int
    BY <1>1, <2>1
  <2>7. loan.payment > 0
    BY <1>1, <1>3, <1>4, <1>6
  <2>8. (owed - amount) * loan.rate < loan.payment * RateMicroScale
    BY <2>1, <2>3, <2>4, <2>5, <2>6
  <2> QED
    BY <1>1, <1>2, <2>1, <2>4, <2>5, <2>6, <2>7, <2>8
<1> QED
  BY <1>1, <1>5, <1>6

\* Two quotients that are less than 1 apart, as they are when they round to the
\* same cent: a (e + f) / (s e) - a / s = a f / (s e).
LEMMA EqualRoundings ==
  ASSUME NEW a \in Nat, NEW s \in Nat \ {0}, NEW e \in Nat \ {0}, NEW f \in Nat,
         RoundCents(a * (e + f), s * e) <= RoundCents(a, s)
  PROVE  a * f < s * e
<1> DEFINE p == (2 * (a * (e + f)) + s * e) \div (2 * (s * e))
           q == (2 * a + s) \div (2 * s)
<1>1. s * e \in Nat \ {0} /\ a * (e + f) \in Nat
  <2>1. s * e > 0
    BY TimesPositive
  <2> QED
    BY <2>1
<1>2. p <= q
  BY <1>1 DEF RoundCents
<1>3. p \in Int /\ 2 * (a * (e + f)) + s * e < (2 * (s * e)) * p + 2 * (s * e)
  <2>1. 2 * (a * (e + f)) + s * e \in Int /\ 2 * (s * e) \in Nat \ {0}
    BY <1>1
  <2> HIDE DEF p
  <2> QED
    BY <2>1, DivBounds DEF p
<1>4. q \in Int /\ (2 * s) * q <= 2 * a + s
  <2>1. 2 * a + s \in Int /\ 2 * s \in Nat \ {0}
    OBVIOUS
  <2> QED
    BY <2>1, DivBounds
<1> HIDE DEF p, q
<1>5. (2 * (s * e)) * p <= (2 * (s * e)) * q
  <2>1. (2 * (s * e)) * (q - p) >= 0
    BY <1>1, <1>2, <1>3, <1>4
  <2> QED
    BY <1>1, <1>3, <1>4, <2>1
<1>6. (2 * (s * e)) * q <= 2 * (a * e) + s * e
  <2>1. e * ((2 * a + s) - (2 * s) * q) >= 0
    BY <1>4
  <2>2. e * ((2 * a + s) - (2 * s) * q) = 2 * (a * e) + s * e - (2 * (s * e)) * q
    BY <1>4
  <2>3. 2 * (a * e) + s * e \in Int /\ (2 * (s * e)) * q \in Int
    BY <1>1, <1>4
  <2> QED
    BY <2>1, <2>2, <2>3
<1>7. a * (e + f) = a * e + a * f /\ a * e \in Nat /\ a * f \in Nat
  OBVIOUS
<1>8. (2 * (s * e)) * p \in Int /\ (2 * (s * e)) * q \in Int
  BY <1>1, <1>3, <1>4
<1> QED
  BY <1>1, <1>3, <1>5, <1>6, <1>7, <1>8

\* A level payment that rounds to the interest: the exact one exceeds it by less
\* than a cent, outstanding * rate / ((1 + rate)^periods - 1) < 1.
LEMMA RejectedReturnsUnderACent ==
  ASSUME NEW in \in ScheduleInputs, NegativelyAmortizes(in)
  PROVE  in.outstanding * in.rate * Pow(RateMicroScale, in.periods)
           < RateMicroScale
               * (Pow(RateMicroScale + in.rate, in.periods)
                    - Pow(RateMicroScale, in.periods))
<1> DEFINE s     == RateMicroScale
           a     == in.outstanding * in.rate
           grown == Pow(s + in.rate, in.periods)
           flat  == Pow(s, in.periods)
           e     == grown - flat
<1>1. /\ in.outstanding \in Nat \ {0} /\ in.rate \in Nat \ {0} /\ in.periods \in Nat \ {0}
      /\ PaymentAmount(in.outstanding, in.rate, in.periods)
           <= MulRateMicro(in.outstanding, in.rate)
  BY DEF ScheduleInputs, NegativelyAmortizes
<1>2. s \in Nat \ {0} /\ s + in.rate \in Nat \ {0} /\ s < s + in.rate
  BY <1>1, ScaleAssumption
<1>3. grown \in Nat \ {0} /\ flat \in Nat \ {0} /\ flat < grown
  BY <1>1, <1>2, PowPositive, PowMonotone
<1>4. PaymentAmount(in.outstanding, in.rate, in.periods) = RoundCents(a * grown, s * e)
  BY <1>1 DEF PaymentAmount
<1>5. MulRateMicro(in.outstanding, in.rate) = RoundCents(a, s)
  BY DEF MulRateMicro
<1>6. a \in Nat
  BY <1>1
<1> HIDE DEF s, a, grown, flat
<1>7. e \in Nat \ {0} /\ grown = e + flat
  BY <1>3
<1> HIDE DEF e
<1>8. a * flat < s * e
  BY <1>1, <1>2, <1>3, <1>4, <1>5, <1>6, <1>7, EqualRoundings
<1> QED
  BY <1>8 DEF s, a, grown, flat, e

\* A prepayment that keeps the term is refused by Build only when it leaves, of an
\* equal_installment loan at a rate, so little over so long a term that the exact
\* level payment exceeds the interest by less than a cent.
THEOREM PaymentRejected ==
  ASSUME NEW loan, NEW ledger, NEW amount \in Int,
         Healthy(loan, ledger), AcceptingOf(loan, ledger),
         amount > 0, amount <= OutstandingOf(loan, ledger),
         ReducePaymentRejects(Left(loan, ledger, amount))
  PROVE  LET left == Left(loan, ledger, amount)
         IN  /\ left.type = "equal_installment" /\ left.rate > 0
             /\ left.outstanding * left.rate * Pow(RateMicroScale, left.term)
                  < RateMicroScale
                      * (Pow(RateMicroScale + left.rate, left.term)
                           - Pow(RateMicroScale, left.term))
<1> DEFINE left == Left(loan, ledger, amount)
           in   == Remaining(left, left.term)
<1>1. /\ OutstandingOf(loan, ledger) \in Nat /\ loan.rate \in Nat
      /\ loan.term \in Nat /\ PaidPeriodsOf(ledger) \in Nat
  BY HealthyTypes
<1>2. /\ left.outstanding = OutstandingOf(loan, ledger) - amount
      /\ left.rate = loan.rate /\ left.term = loan.term /\ left.type = loan.type
  BY DEF Left, RecastInput
<1>3. loan.status = "active" /\ PaidPeriodsOf(ledger) < loan.term
  BY <1>1 DEF AcceptingOf, FullyPaidOf
<1>4. loan.type \in LoanTypes
  BY <1>3 DEF Healthy
<1>5. /\ in.outstanding = left.outstanding /\ in.rate = left.rate
      /\ in.periods = left.term /\ in.type = left.type
      /\ in = [outstanding |-> left.outstanding, rate |-> left.rate,
               periods |-> left.term, type |-> left.type]
  BY DEF Remaining
<1> HIDE DEF left
<1>6. left.outstanding \in Nat /\ left.term \in Nat \ {0}
  BY <1>1, <1>2, <1>3
<1>7. BuildRejects(in)
  BY <1>6 DEF ReducePaymentRejects, left
<1> HIDE DEF in
<1>8. in \in ScheduleInputs
  BY <1>1, <1>2, <1>4, <1>5, <1>6 DEF ScheduleInputs
<1>9. NegativelyAmortizes(in)
  BY <1>1, <1>2, <1>4, <1>5, <1>6, <1>7 DEF BuildRejects
<1>10. in.type = "equal_installment" /\ in.rate > 0
  BY <1>1, <1>2, <1>5, <1>9 DEF NegativelyAmortizes
<1> QED
  BY <1>5, <1>8, <1>9, <1>10, RejectedReturnsUnderACent DEF left

-----------------------------------------------------------------------------
(***************************************************************************)
(* How long a term a prepayment that keeps the payment may be given        *)
(***************************************************************************)

LEMMA TimesKeepsOrder ==
  ASSUME NEW a \in Nat, NEW b \in Int, NEW c \in Int, b <= c
  PROVE  a * b <= a * c
<1>1. PICK k \in Nat : c = b + k
  <2>1. c - b \in Nat
    OBVIOUS
  <2> WITNESS c - b \in Nat
  <2> QED
    OBVIOUS
<1>2. a * c = a * b + a * k /\ a * k \in Nat
  BY <1>1
<1> QED
  BY <1>2

LEMMA TimesReflectsOrder ==
  ASSUME NEW a \in Nat \ {0}, NEW b \in Int, NEW c \in Int, a * b <= a * c
  PROVE  b <= c
<1>1. SUFFICES ASSUME c + 1 <= b PROVE FALSE
  OBVIOUS
<1>2. a * (c + 1) <= a * b
  BY <1>1, TimesKeepsOrder
<1>3. a * (c + 1) = a * c + a
  OBVIOUS
<1> QED
  BY <1>2, <1>3

\* Compound growth is at least simple growth: (1 + r)^n >= 1 + n.r.
LEMMA CompoundOutgrowsSimple ==
  ASSUME NEW s \in Nat \ {0}, NEW r \in Nat, NEW n \in Nat
  PROVE  Pow(s, n) * (s + n * r) <= s * Pow(s + r, n)
<1> DEFINE T == {k \in Nat : Pow(s, k) * (s + k * r) <= s * Pow(s + r, k)}
<1>1. 0 \in T
  <2>1. Pow(s, 0) = 1 /\ Pow(s + r, 0) = 1
    BY PowRule
  <2> QED
    BY <2>1
<1>2. ASSUME NEW k \in Nat, k \in T PROVE k + 1 \in T
  <2> DEFINE flat  == Pow(s, k)
             grown == Pow(s + r, k)
  <2>1. /\ flat \in Nat \ {0} /\ grown \in Nat \ {0}
        /\ Pow(s, k + 1) = s * flat /\ Pow(s + r, k + 1) = (s + r) * grown
    <3>1. s + r \in Nat \ {0}
      OBVIOUS
    <3>2. flat \in Nat \ {0} /\ grown \in Nat \ {0}
      BY <3>1, PowPositive
    <3>3. Pow(s, k + 1) = s * flat
      BY PowRule
    <3>4. Pow(s + r, k + 1) = (s + r) * grown
      BY <3>1, PowRule
    <3> QED
      BY <3>2, <3>3, <3>4
  <2>2. flat * (s + k * r) <= s * grown
    BY <1>2
  <2> HIDE DEF flat, grown
  <2>3. (s + r) * (flat * (s + k * r)) <= (s + r) * (s * grown)
    <3>1. flat * (s + k * r) \in Int /\ s * grown \in Int /\ s + r \in Nat
      BY <2>1
    <3> QED
      BY <2>2, <3>1, TimesKeepsOrder
  <2>4. (s + r) * (flat * (s + k * r))
          = (s * flat) * (s + (k + 1) * r) + flat * (k * (r * r))
    BY <2>1
  <2>5. flat * (k * (r * r)) \in Nat
    BY <2>1
  <2>6. (s + r) * (s * grown) = s * ((s + r) * grown)
    BY <2>1
  <2>7. (s * flat) * (s + (k + 1) * r) \in Int /\ s * ((s + r) * grown) \in Int
    BY <2>1
  <2>8. (s * flat) * (s + (k + 1) * r) <= s * ((s + r) * grown)
    BY <2>3, <2>4, <2>5, <2>6, <2>7
  <2> QED
    BY <2>1, <2>8
<1>3. Nat \subseteq T
  BY <1>1, <1>2, NatSetInduction
<1> QED
  BY <1>3

\* What a kept payment returns in its first period, over the scale.
KeptReturn(in) == in.payment * RateMicroScale - in.outstanding * in.rate

\* A payment amortizes at the latest when its first period's principal, were it
\* returned in each, would: the interest only falls.
LEMMA AmortizesWithin ==
  ASSUME NEW in, in.outstanding \in Nat, in.rate \in Nat, in.payment \in Nat,
         KeptReturn(in) > 0, NEW m \in Nat,
         in.outstanding * RateMicroScale <= m * KeptReturn(in)
  PROVE  Amortizes(in, m)
<1> DEFINE S == RateMicroScale
           P == in.payment
           B == in.outstanding
           r == in.rate
           d == KeptReturn(in)
           flat  == Pow(S, m)
           grown == Pow(S + r, m)
<1>1. S \in Nat \ {0} /\ P \in Nat /\ B \in Nat /\ r \in Nat
  BY ScaleAssumption
<1>2. d = P * S - B * r /\ d \in Nat \ {0} /\ B * S <= m * d
  BY <1>1 DEF KeptReturn
<1>3. Amortizes(in, m) <=> IF r = 0 THEN m * P >= B ELSE grown * d >= flat * P * S
  BY DEF Amortizes, KeptReturn
<1>4. CASE r = 0
  <2>1. S * B <= S * (m * P)
    BY <1>1, <1>2, <1>4
  <2>2. B <= m * P
    BY <1>1, <2>1, TimesReflectsOrder
  <2> QED
    BY <1>1, <1>3, <1>4, <2>2
<1>5. CASE r # 0
  <2>1. flat * (S + m * r) <= S * grown
    BY <1>1, CompoundOutgrowsSimple
  <2>2. flat \in Nat \ {0} /\ grown \in Nat \ {0}
    BY <1>1, PowPositive
  <2> HIDE DEF flat, grown, d, S, P, B, r
  <2>3. d * (flat * (S + m * r)) <= d * (S * grown)
    <3>1. flat * (S + m * r) \in Int /\ S * grown \in Int /\ d \in Nat
      BY <1>1, <1>2, <2>2
    <3> QED
      BY <2>1, <3>1, TimesKeepsOrder
  <2>4. S * (P * S) <= d * (S + m * r)
    <3>1. r * (B * S) <= r * (m * d)
      <4>1. B * S \in Int /\ m * d \in Int
        BY <1>1, <1>2
      <4> QED
        BY <1>1, <1>2, <4>1, TimesKeepsOrder
    <3>2. d * (S + m * r) = d * S + r * (m * d)
      BY <1>1, <1>2
    <3>3. S * (P * S) = d * S + r * (B * S)
      <4>1. d + B * r = P * S
        BY <1>1, <1>2
      <4>2. S * (d + B * r) = d * S + r * (B * S)
        BY <1>1, <1>2
      <4> QED
        BY <4>1, <4>2
    <3>4. d * S \in Int /\ r * (B * S) \in Int /\ r * (m * d) \in Int
      BY <1>1, <1>2
    <3> QED
      BY <3>1, <3>2, <3>3, <3>4
  <2>5. flat * (S * (P * S)) <= flat * (d * (S + m * r))
    <3>1. S * (P * S) \in Int /\ d * (S + m * r) \in Int
      BY <1>1, <1>2
    <3> QED
      BY <2>2, <2>4, <3>1, TimesKeepsOrder
  <2>6. flat * (d * (S + m * r)) = d * (flat * (S + m * r))
    BY <1>1, <1>2, <2>2
  <2>7. /\ flat * (S * (P * S)) = S * (flat * P * S)
        /\ d * (S * grown) = S * (grown * d)
    BY <1>1, <1>2, <2>2
  <2>8. flat * P * S \in Int /\ grown * d \in Int
    BY <1>1, <1>2, <2>2
  <2>9. S * (flat * P * S) <= S * (grown * d)
    <3>1. /\ S * (flat * P * S) \in Int /\ S * (grown * d) \in Int
          /\ flat * (d * (S + m * r)) \in Int
      BY <1>1, <1>2, <2>2, <2>8
    <3> QED
      BY <2>3, <2>5, <2>6, <2>7, <3>1
  <2>10. flat * P * S <= grown * d
    BY <1>1, <2>8, <2>9, TimesReflectsOrder
  <2> QED
    BY <1>3, <1>5, <2>8, <2>10
<1> QED
  BY <1>4, <1>5

\* A payment above the rounded interest returns more than half a cent of
\* principal in its first period.
LEMMA ReturnsOverHalf ==
  ASSUME NEW in, in.outstanding \in Nat, in.rate \in Nat, in.payment \in Nat,
         in.payment > MulRateMicro(in.outstanding, in.rate)
  PROVE  2 * KeptReturn(in) > RateMicroScale
<1> DEFINE S == RateMicroScale
           P == in.payment
           i == in.outstanding * in.rate
           q == (2 * i + S) \div (2 * S)
<1>1. S \in Nat \ {0} /\ P \in Nat /\ i \in Nat
  BY ScaleAssumption
<1>2. MulRateMicro(in.outstanding, in.rate) = q
  BY <1>1 DEF MulRateMicro, RoundCents
<1>3. KeptReturn(in) = P * S - i
  BY DEF KeptReturn
<1> HIDE DEF S, P, i
<1>4. q \in Int /\ 2 * i + S < (2 * S) * (q + 1)
  <2>1. 2 * S \in Nat \ {0} /\ 2 * i + S \in Int
    BY <1>1
  <2> QED
    BY <2>1
<1>5. (2 * S) * (q + 1) <= (2 * S) * P
  <2>1. q + 1 <= P
    BY <1>1, <1>2, <1>4 DEF P
  <2>2. 2 * S \in Nat /\ q + 1 \in Int /\ P \in Int
    BY <1>1, <1>4
  <2> HIDE DEF q
  <2> QED
    BY <2>1, <2>2, TimesKeepsOrder
<1>6. (2 * S) * P = 2 * (P * S)
  BY <1>1
<1>7. 2 * i + S < 2 * (P * S)
  <2>1. (2 * S) * (q + 1) \in Int /\ 2 * (P * S) \in Int
    BY <1>1, <1>4
  <2> HIDE DEF q
  <2> QED
    BY <1>1, <1>4, <1>5, <1>6, <2>1
<1>8. P * S \in Int
  BY <1>1
<1> QED
  BY <1>1, <1>3, <1>7, <1>8 DEF S

\* Such a payment amortizes in two periods per cent owed.
LEMMA AmortizesWithinDebt ==
  ASSUME NEW in, in.outstanding \in Nat, in.rate \in Nat, in.payment \in Nat,
         2 * KeptReturn(in) > RateMicroScale,
         NEW n \in Nat, 2 * in.outstanding <= n
  PROVE  Amortizes(in, n)
<1> DEFINE S == RateMicroScale
           B == in.outstanding
           d == KeptReturn(in)
<1>1. S \in Nat \ {0} /\ B \in Nat
  BY ScaleAssumption
<1>2. d \in Int /\ 2 * d > S
  BY <1>1 DEF KeptReturn
<1>3. d > 0
  BY <1>1, <1>2
<1> HIDE DEF S, B, d
<1>4. S * (2 * B) <= S * n
  <2>1. 2 * B <= n /\ 2 * B \in Int
    BY <1>1 DEF B
  <2> QED
    BY <1>1, <2>1, TimesKeepsOrder
<1>5. n * S <= n * (2 * d)
  BY <1>1, <1>2, TimesKeepsOrder
<1>6. B * S <= n * d
  <2>1. S * (2 * B) = 2 * (B * S) /\ n * (2 * d) = 2 * (n * d) /\ S * n = n * S
    BY <1>1, <1>2
  <2>2. B * S \in Int /\ n * d \in Int /\ n * S \in Int
    BY <1>1, <1>2
  <2> QED
    BY <1>4, <1>5, <2>1, <2>2
<1> QED
  BY <1>3, <1>6, AmortizesWithin DEF S, B, d

\* The least number of payments that amortizes.
LeastPeriods(in, m) == Amortizes(in, m) /\ (m > 1 => ~Amortizes(in, m - 1))

LEMMA LeastPeriodsExists ==
  ASSUME NEW in, NEW n \in Nat \ {0}, Amortizes(in, n)
  PROVE  \E m \in 1 .. n : LeastPeriods(in, m)
<1> DEFINE T == {k \in Nat : k > 0 /\ Amortizes(in, k)
                               => \E m \in 1 .. k : LeastPeriods(in, m)}
<1>1. 0 \in T
  OBVIOUS
<1>2. ASSUME NEW k \in Nat, k \in T PROVE k + 1 \in T
  <2>1. SUFFICES ASSUME Amortizes(in, k + 1)
                 PROVE  \E m \in 1 .. k + 1 : LeastPeriods(in, m)
    OBVIOUS
  <2>2. CASE k > 0 /\ Amortizes(in, k)
    <3>1. PICK m \in 1 .. k : LeastPeriods(in, m)
      BY <1>2, <2>2
    <3> QED
      BY <3>1
  <2>3. CASE ~(k > 0 /\ Amortizes(in, k))
    <3>1. (k + 1) - 1 = k /\ k + 1 \in 1 .. k + 1
      OBVIOUS
    <3>2. LeastPeriods(in, k + 1)
      BY <2>1, <2>3, <3>1 DEF LeastPeriods
    <3> QED
      BY <3>1, <3>2
  <2> QED
    BY <2>2, <2>3
<1>3. Nat \subseteq T
  <2> HIDE DEF T
  <2> QED
    BY <1>1, <1>2, NatSetInduction
<1> QED
  BY <1>3

LEMMA ReduceTermPeriodsAreLeast ==
  ASSUME NEW in, NEW limit \in Nat
  PROVE  ReduceTermPeriods(in, limit)
           = {m \in 1 .. limit : \/ LeastPeriods(in, m)
                                 \/ /\ m > 1 /\ LeastPeriods(in, m - 1)
                                    /\ ExactTerm(in, m - 1)}
BY DEF ReduceTermPeriods, LeastPeriods

LEMMA SolvedPeriodsWithinDebt ==
  ASSUME NEW in, in.outstanding \in Nat \ {0}, in.rate \in Nat, in.payment \in Nat,
         2 * KeptReturn(in) > RateMicroScale, NEW limit \in Nat
  PROVE  /\ \A m \in ReduceTermPeriods(in, limit) : m <= 2 * in.outstanding + 1
         /\ 2 * in.outstanding <= limit => ReduceTermPeriods(in, limit) # {}
<1> DEFINE B == in.outstanding
<1>1. ASSUME NEW m \in Nat \ {0}, LeastPeriods(in, m) PROVE m <= 2 * B
  <2>1. SUFFICES ASSUME m > 2 * B PROVE FALSE
    OBVIOUS
  <2>2. m - 1 \in Nat /\ 2 * B <= m - 1 /\ m > 1
    BY <2>1
  <2>3. Amortizes(in, m - 1)
    BY <2>2, AmortizesWithinDebt
  <2> QED
    BY <1>1, <2>2, <2>3 DEF LeastPeriods
<1>2. ASSUME NEW m \in ReduceTermPeriods(in, limit) PROVE m <= 2 * B + 1
  <2>1. /\ m \in 1 .. limit
        /\ LeastPeriods(in, m) \/ (m > 1 /\ LeastPeriods(in, m - 1))
    BY ReduceTermPeriodsAreLeast
  <2>2. CASE LeastPeriods(in, m)
    <3>1. m <= 2 * B /\ B \in Nat
      BY <1>1, <2>1, <2>2
    <3> QED
      BY <2>1, <3>1
  <2>3. CASE m > 1 /\ LeastPeriods(in, m - 1)
    <3>1. m - 1 \in Nat \ {0}
      BY <2>1, <2>3
    <3>2. m - 1 <= 2 * B /\ B \in Nat
      BY <1>1, <2>3, <3>1
    <3> QED
      BY <2>1, <3>2
  <2> QED
    BY <2>1, <2>2, <2>3
<1>3. ASSUME 2 * B <= limit PROVE ReduceTermPeriods(in, limit) # {}
  <2>1. 2 * B \in Nat \ {0}
    OBVIOUS
  <2>2. Amortizes(in, 2 * B)
    BY <2>1, AmortizesWithinDebt
  <2>3. PICK m \in 1 .. 2 * B : LeastPeriods(in, m)
    BY <2>1, <2>2, LeastPeriodsExists
  <2>4. m \in 1 .. limit
    BY <1>3, <2>1
  <2> QED
    BY <2>3, <2>4, ReduceTermPeriodsAreLeast
<1> QED
  BY <1>2, <1>3

\* RecastReduceTerm, for a prepayment on a healthy loan: what the ceiling of the
\* logarithm yields is at most two periods per cent still owed (and one, where
\* the float lies above an integer logarithm), and a search that goes as far as
\* that always finds a term.  So the kept payment cannot be so close to the
\* interest that the schedule allocated for it grows without bound.
THEOREM SolvedTermWithinDebt ==
  ASSUME NEW loan, NEW ledger, Healthy(loan, ledger),
         loan.type = "equal_installment", NEW limit \in Nat, NEW amount \in Int,
         amount > 0, amount <= OutstandingOf(loan, ledger),
         ~ReduceTermRejects(Left(loan, ledger, amount))
  PROVE  LET owed2 == OutstandingOf(loan, ledger) - amount
             terms == RecastReduceTerm(Left(loan, ledger, amount), limit)
         IN  /\ \A term \in terms : term <= PaidPeriodsOf(ledger) + 2 * owed2 + 1
             /\ 2 * owed2 <= limit => terms # {}
<1> DEFINE in    == Left(loan, ledger, amount)
           owed  == OutstandingOf(loan, ledger)
           owed2 == owed - amount
           paid  == PaidPeriodsOf(ledger)
<1>1. /\ owed \in Int /\ paid \in Nat /\ loan.rate \in Nat /\ loan.payment \in Nat
  BY HealthyTypes
<1>2. /\ in.outstanding = owed2 /\ in.paid = paid
      /\ in.rate = loan.rate /\ in.payment = loan.payment
  BY DEF Left, RecastInput
<1>3. owed2 \in Nat /\ owed > 0 /\ owed \in Nat /\ owed2 <= owed
  BY <1>1
<1>4. RecastReduceTerm(in, limit)
        = IF in.outstanding <= 0 THEN {in.paid}
          ELSE {in.paid + m : m \in ReduceTermPeriods(in, limit)}
  BY DEF RecastReduceTerm
<1>5. ~ReduceTermRejects(in)
  OBVIOUS
<1> HIDE DEF in
<1>6. CASE owed2 = 0
  <2>1. RecastReduceTerm(in, limit) = {paid}
    BY <1>2, <1>4, <1>6
  <2> HIDE DEF owed2, paid
  <2>2. paid <= paid + 2 * owed2 + 1
    BY <1>1, <1>6 DEF paid
  <2> QED
    BY <2>1, <2>2 DEF in, owed2, paid
<1>7. CASE owed2 # 0
  <2>1. owed2 \in Nat \ {0} /\ in.outstanding > 0
    BY <1>2, <1>3, <1>7
  <2>2. loan.payment > MulRateMicro(owed2, loan.rate)
    <3>1. CASE loan.rate = 0
      <4>1. loan.payment > 0
        BY <1>1, <1>2, <1>5, <2>1 DEF ReduceTermRejects
      <4>2. MulRateMicro(owed2, 0) = 0
        <5>1. owed2 * 0 = 0 /\ RateMicroScale \in Nat \ {0}
          BY <1>3, ScaleAssumption
        <5> QED
          BY <5>1 DEF MulRateMicro, RoundCents
      <4> QED
        BY <3>1, <4>1, <4>2
    <3>2. CASE loan.rate > 0
      <4>1. loan.payment > MulRateMicro(owed, loan.rate)
        BY <1>3, <3>2 DEF Healthy, Serviced
      <4>2. /\ MulRateMicro(owed2, loan.rate) \in Nat
            /\ MulRateMicro(owed, loan.rate) \in Nat
            /\ MulRateMicro(owed2, loan.rate) <= MulRateMicro(owed, loan.rate)
        BY <1>1, <1>3, InterestType, MulRateMicroMonotone
      <4> QED
        BY <1>1, <4>1, <4>2
    <3> QED
      BY <1>1, <3>1, <3>2
  <2>3. 2 * KeptReturn(in) > RateMicroScale
    BY <1>1, <1>2, <1>3, <2>2, ReturnsOverHalf
  <2>4. /\ \A m \in ReduceTermPeriods(in, limit) : m <= 2 * owed2 + 1
        /\ 2 * owed2 <= limit => ReduceTermPeriods(in, limit) # {}
    BY <1>1, <1>2, <2>1, <2>3, SolvedPeriodsWithinDebt
  <2>5. ReduceTermPeriods(in, limit) \subseteq Nat
    BY DEF ReduceTermPeriods
  <2>6. RecastReduceTerm(in, limit) = {paid + m : m \in ReduceTermPeriods(in, limit)}
    BY <1>2, <1>4, <2>1
  <2> HIDE DEF owed2, paid
  <2>7. \A term \in RecastReduceTerm(in, limit) : term <= paid + 2 * owed2 + 1
    BY <1>1, <2>1, <2>4, <2>5, <2>6 DEF paid
  <2>8. 2 * owed2 <= limit => RecastReduceTerm(in, limit) # {}
    BY <2>4, <2>6
  <2> QED
    BY <2>7, <2>8 DEF in, owed2, paid
<1> QED
  BY <1>6, <1>7
==============================================================================
