--------------------------- MODULE LoanReadsProofs ---------------------------
(***************************************************************************)
(* Proofs about module LoanReads, for every scale, every set of requests   *)
(* and every bound.                                                        *)
(*                                                                         *)
(* Reading changes nothing: every behaviour of LoanReads is one of Loan,   *)
(* and the invariants of LoanProofs hold of it.  What is proved here is    *)
(* what the reads say of each other and of the states that follow.         *)
(***************************************************************************)
EXTENDS LoanReads, LoanProofs

-----------------------------------------------------------------------------
(***************************************************************************)
(* The reads leave the loan alone                                          *)
(***************************************************************************)

LEMMA ReadsStep == [ReadsNext]_readVars => [Next]_vars
BY DEF ReadsNext, Write, ReadSchedule, ReadBalance, ReadLedger, Answer, readVars, vars

\* A loan that is read, and whose Cashflow is assembled from three
\* transactions, is a loan: the reads add no behaviour.
THEOREM ReadsAreTransparent == ReadsSpec => Spec
<1>1. ReadsInit => Init
  BY DEF ReadsInit
<1> QED
  BY <1>1, ReadsStep, PTL DEF ReadsSpec, Spec

THEOREM ReadsInvariance == ReadsSpec => []IInv
BY ReadsAreTransparent, Invariance, PTL

-----------------------------------------------------------------------------
(***************************************************************************)
(* Conditional totals                                                      *)
(***************************************************************************)

\* The amounts at the places counted, and 0 elsewhere.
Masked(amounts, counted) ==
  [i \in 1 .. Len(amounts) |-> IF i \in counted THEN amounts[i] ELSE 0]

LEMMA MaskedType ==
  ASSUME NEW amounts \in Seq(Int), NEW counted
  PROVE  Masked(amounts, counted) \in Seq(Int)
         /\ Len(Masked(amounts, counted)) = Len(amounts)
<1>1. Len(amounts) \in Nat /\ \A i \in 1 .. Len(amounts) : amounts[i] \in Int
  OBVIOUS
<1> QED
  BY <1>1 DEF Masked

\* Of the first n places, more counts those that less counts.
CountsAs(more, less, n) == \A i \in 1 .. n : i \in more <=> i \in less

LEMMA MaskedAppend ==
  ASSUME NEW amounts \in Seq(Int), NEW amount \in Int,
         NEW less, NEW more, CountsAs(more, less, Len(amounts))
  PROVE  Total(Masked(Append(amounts, amount), more))
           = Total(Masked(amounts, less)) + (IF Len(amounts) + 1 \in more THEN amount ELSE 0)
<1> DEFINE longer == Append(amounts, amount)
           last   == IF Len(amounts) + 1 \in more THEN amount ELSE 0
<1>1. /\ Len(amounts) \in Nat /\ Len(longer) = Len(amounts) + 1
      /\ \A i \in 1 .. Len(amounts) : longer[i] = amounts[i]
      /\ longer[Len(amounts) + 1] = amount
  OBVIOUS
<1>2. Masked(amounts, less) \in Seq(Int) /\ Len(Masked(amounts, less)) = Len(amounts)
  BY MaskedType
<1>3. \A i \in 1 .. Len(amounts) :
        Masked(amounts, less)[i] = IF i \in less THEN amounts[i] ELSE 0
  BY DEF Masked
<1> HIDE DEF longer
<1>4. Masked(longer, more) = Append(Masked(amounts, less), last)
  <2>1. Masked(longer, more)
          = [i \in 1 .. Len(amounts) + 1 |-> IF i \in more THEN longer[i] ELSE 0]
    BY <1>1 DEF Masked
  <2> QED
    BY <1>1, <1>2, <1>3, <2>1 DEF CountsAs
<1>5. last \in Int
  OBVIOUS
<1> HIDE DEF last
<1>6. Total(Masked(longer, more)) = Total(Masked(amounts, less)) + last
  BY <1>2, <1>4, <1>5, TotalAppend
<1> QED
  BY <1>6 DEF longer, last

LEMMA MaskedAll ==
  ASSUME NEW amounts \in Seq(Int), NEW counted,
         \A i \in 1 .. Len(amounts) : i \in counted
  PROVE  Masked(amounts, counted) = amounts
BY DEF Masked

\* The principals of a ledger.
PrincipalsOf(rows) == [i \in 1 .. Len(rows) |-> rows[i].principal]

LEMMA PrincipalsType ==
  ASSUME NEW rows \in Seq(PaymentRows)
  PROVE  PrincipalsOf(rows) \in Seq(Int) /\ Len(PrincipalsOf(rows)) = Len(rows)
<1>1. Len(rows) \in Nat /\ \A i \in 1 .. Len(rows) : rows[i].principal \in Int
  BY RowPrincipal
<1> QED
  BY <1>1 DEF PrincipalsOf

LEMMA PrincipalInMasked ==
  ASSUME NEW rows \in Seq(PaymentRows), NEW counted
  PROVE  PrincipalIn(rows, counted) = Total(Masked(PrincipalsOf(rows), counted))
<1>1. Len(PrincipalsOf(rows)) = Len(rows)
  BY PrincipalsType
<1>2. Masked(PrincipalsOf(rows), counted)
        = [i \in 1 .. Len(rows) |-> IF i \in counted THEN rows[i].principal ELSE 0]
  BY <1>1 DEF Masked, PrincipalsOf
<1> QED
  BY <1>2 DEF PrincipalIn

LEMMA PrincipalsAppend ==
  ASSUME NEW rows \in Seq(PaymentRows), NEW row \in PaymentRows
  PROVE  PrincipalsOf(Append(rows, row)) = Append(PrincipalsOf(rows), row.principal)
<1> DEFINE longer == Append(rows, row)
<1>1. Len(rows) \in Nat /\ Len(longer) = Len(rows) + 1
  OBVIOUS
<1>2. /\ \A i \in 1 .. Len(rows) : longer[i] = rows[i]
      /\ longer[Len(rows) + 1] = row
  OBVIOUS
<1>3. PrincipalsOf(rows) \in Seq(Int) /\ Len(PrincipalsOf(rows)) = Len(rows)
  BY PrincipalsType
<1>4. \A i \in 1 .. Len(rows) : PrincipalsOf(rows)[i] = rows[i].principal
  BY DEF PrincipalsOf
<1>5. row.principal \in Int
  BY DEF PaymentRows
<1> HIDE DEF longer
<1>6. PrincipalsOf(longer) = [i \in 1 .. Len(rows) + 1 |-> longer[i].principal]
  BY <1>1 DEF PrincipalsOf
<1>7. PrincipalsOf(longer) = Append(PrincipalsOf(rows), row.principal)
  BY <1>1, <1>2, <1>3, <1>4, <1>5, <1>6
<1> QED
  BY <1>7 DEF longer

-----------------------------------------------------------------------------
(***************************************************************************)
(* Balances of the past                                                    *)
(***************************************************************************)

\* What a payment adds to the ledger.
LEMMA RecordPaymentRow ==
  ASSUME IInv, RecordPayment
  PROVE  /\ HasPlan /\ RemainingSchedule # << >>
         /\ ScheduledRow(RemainingSchedule[1]) \in PaymentRows
         /\ ledger' = Append(ledger, ScheduledRow(RemainingSchedule[1]))
         /\ Outstanding' = Outstanding - RemainingSchedule[1].principal
<1> DEFINE next == RemainingSchedule[1]
<1>1. /\ RemainingSchedule # << >>
      /\ ledger' = Append(ledger, ScheduledRow(next))
      /\ loan' = AfterPayment(loan, ledger, next)
  BY DEF RecordPayment
<1>2. HasPlan
  BY <1>1 DEF RemainingSchedule, RemainingScheduleOf, HasPlan, Unpaid
<1>3. /\ next.number = 1 /\ next.principal \in Nat /\ next.interest \in Nat
      /\ next.payment = next.principal + next.interest
  BY <1>2, NextRow
<1> HIDE DEF next
<1>4. ScheduledRow(next) \in PaymentRows /\ ScheduledRow(next).principal = next.principal
  BY <1>3 DEF ScheduledRow, PaymentRows
<1>5. loan'.principal = loan.principal
  BY <1>1 DEF AfterPayment, IInv, TypeOK, LoanRows
<1>6. Outstanding' = Outstanding - next.principal
  BY <1>1, <1>4, <1>5, LedgerGrows DEF IInv
<1> QED
  BY <1>1, <1>2, <1>4, <1>6 DEF next

Below(rows, limit) == {i \in 1 .. Len(rows) : rows[i].seq < limit}

\* An entry is in the total below limit when it is stamped with a lower number.
LEMMA EntryCounted ==
  ASSUME NEW rows \in Seq(PaymentRows), NEW row \in PaymentRows, NEW limit \in Int
  PROVE  PrincipalIn(Append(rows, row), Below(Append(rows, row), limit))
           = PrincipalIn(rows, Below(rows, limit))
               + (IF row.seq < limit THEN row.principal ELSE 0)
<1> DEFINE longer == Append(rows, row)
<1>1. Len(rows) \in Nat /\ Len(longer) = Len(rows) + 1 /\ longer \in Seq(PaymentRows)
  OBVIOUS
<1>2. /\ \A i \in 1 .. Len(rows) : longer[i] = rows[i]
      /\ longer[Len(rows) + 1] = row
  OBVIOUS
<1>3. PrincipalsOf(longer) = Append(PrincipalsOf(rows), row.principal)
  BY PrincipalsAppend
<1> HIDE DEF longer
<1>4. \A i \in 1 .. Len(rows) : i \in Below(longer, limit) <=> i \in Below(rows, limit)
  BY <1>1, <1>2 DEF Below
<1>5. Len(rows) + 1 \in Below(longer, limit) <=> row.seq < limit
  BY <1>1, <1>2 DEF Below
<1>6. row.principal \in Int
  BY DEF PaymentRows
<1>7. PrincipalsOf(rows) \in Seq(Int) /\ Len(PrincipalsOf(rows)) = Len(rows)
  BY PrincipalsType
<1> DEFINE amounts == PrincipalsOf(rows)
           less    == Below(rows, limit)
           more    == Below(longer, limit)
<1> HIDE DEF amounts, less, more
<1>8. Total(Masked(Append(amounts, row.principal), more))
        = Total(Masked(amounts, less)) + (IF Len(amounts) + 1 \in more THEN row.principal ELSE 0)
  <2> DEFINE amount == row.principal
  <2>1. amounts \in Seq(Int)
    BY <1>7 DEF amounts
  <2>2. CountsAs(more, less, Len(amounts))
    BY <1>4, <1>7 DEF amounts, less, more, CountsAs
  <2>3. amount \in Int
    BY <1>6
  <2> HIDE DEF amount
  <2>4. Total(Masked(Append(amounts, amount), more))
          = Total(Masked(amounts, less)) + (IF Len(amounts) + 1 \in more THEN amount ELSE 0)
    BY <2>1, <2>2, <2>3, MaskedAppend
  <2> QED
    BY <2>4 DEF amount
<1>9. Len(amounts) + 1 \in more <=> row.seq < limit
  BY <1>5, <1>7 DEF amounts, more
<1>10. Total(Masked(PrincipalsOf(longer), more))
         = Total(Masked(amounts, less)) + (IF row.seq < limit THEN row.principal ELSE 0)
  BY <1>3, <1>8, <1>9 DEF amounts
<1> QED
  BY <1>1, <1>10, PrincipalInMasked DEF amounts, less, more, longer

\* What a step that is no payment does to an active loan: the ledger stands,
\* or gains an entry stamped above every paid period.
LEMMA ActiveStep ==
  ASSUME IInv, Next, loan.status = "active", ~RecordPayment
  PROVE  /\ loan'.principal = loan.principal
         /\ \/ ledger' = ledger
            \/ \E row \in PaymentRows :
                 /\ row.seq = PaidPeriods + 1 /\ row.type = "prepayment"
                 /\ ledger' = Append(ledger, row)
<1>1. loan \in LoanRows
  BY DEF IInv, TypeOK
<1>2. CASE CancelLoan
  BY <1>1, <1>2, CancelLoanEffect DEF LoanRows
<1>3. ASSUME NEW rate \in Rates, ChangeRate(rate)
      PROVE  loan'.principal = loan.principal /\ ledger' = ledger
  <2>1. rate \in Int
    BY RequestAssumption
  <2>2. /\ ledger' = ledger
        /\ \E payment \in Nat : loan' = [loan EXCEPT !.rate = rate, !.payment = payment]
    BY <1>3, <2>1, ChangeRateEffect
  <2> QED
    BY <1>1, <2>2 DEF LoanRows
<1>4. ASSUME NEW amount \in Prepayments, NEW strategy \in Strategies, Prepay(amount, strategy)
      PROVE  /\ loan'.principal = loan.principal
             /\ \E row \in PaymentRows :
                  /\ row.seq = PaidPeriods + 1 /\ row.type = "prepayment"
                  /\ ledger' = Append(ledger, row)
  <2>1. /\ Accepting /\ amount > 0
        /\ ledger' = Append(ledger, PrepaymentRow(loan, ledger, amount))
    BY <1>4 DEF Prepay, PrepayReducingTerm, PrepayReducingPayment
  <2>2. amount \in Int
    BY RequestAssumption
  <2>3. PaidPeriods \in Nat /\ loan.term \in Nat /\ PaidPeriods < loan.term
    <3>1. PaidPeriods \in Nat /\ loan.term \in Nat
      BY DerivedTypes DEF IInv
    <3> QED
      BY <2>1, <3>1 DEF Accepting, AcceptingOf, FullyPaidOf, PaidPeriods
  <2>4. NextUnpaidPeriod(PaidPeriods, loan.term) = PaidPeriods + 1
    BY <2>3 DEF NextUnpaidPeriod
  <2>5. /\ PrepaymentRow(loan, ledger, amount) \in PaymentRows
        /\ PrepaymentRow(loan, ledger, amount).seq = PaidPeriods + 1
        /\ PrepaymentRow(loan, ledger, amount).type = "prepayment"
    BY <2>1, <2>2, <2>3, <2>4 DEF PrepaymentRow, PaymentRows, PaidPeriods
  <2>6. loan'.principal = loan.principal
    <3>1. CASE PrepayReducingTerm(amount)
      <4>1. PICK term :
                   loan' = ReducedTerm(loan, RecastInput(loan, ledger, Outstanding - amount,
                                                         loan.rate), term)
        BY <3>1 DEF PrepayReducingTerm
      <4> QED
        BY <1>1, <4>1 DEF ReducedTerm, LoanRows
    <3>2. CASE PrepayReducingPayment(amount)
      <4>1. loan' = ReducedPayment(loan, RecastInput(loan, ledger, Outstanding - amount,
                                                     loan.rate))
        BY <3>2 DEF PrepayReducingPayment
      <4> QED
        BY <1>1, <4>1 DEF ReducedPayment, LoanRows
    <3> QED
      BY <1>4, <3>1, <3>2 DEF Prepay
  <2> QED
    BY <2>1, <2>5, <2>6
<1>5. ~\E principal \in Principals, rate \in Rates, periods \in Terms, type \in LoanTypes :
         CreateLoan(principal, rate, periods, type)
  BY DEF CreateLoan
<1> QED
  BY <1>2, <1>3, <1>4, <1>5 DEF Next

\* The balance as of a period, before and after an entry.
LEMMA BalanceAfterEntry ==
  ASSUME NEW row \in PaymentRows, NEW asOf \in Int,
         ledger \in Seq(PaymentRows), ledger' = Append(ledger, row),
         loan'.principal = loan.principal, loan.principal \in Int
  PROVE  BalanceAsOf(asOf)'
           = BalanceAsOf(asOf) - (IF row.seq < asOf - 1 THEN row.principal ELSE 0)
<1> DEFINE below == PrincipalIn(ledger, Below(ledger, asOf - 1))
           entry == IF row.seq < asOf - 1 THEN row.principal ELSE 0
<1>1. BalanceAsOf(asOf) = loan.principal - below
  BY DEF BalanceAsOf, SumPrincipalPaid, Below
<1>2. BalanceAsOf(asOf)' = loan'.principal - PrincipalIn(ledger', Below(ledger', asOf - 1))
  BY DEF BalanceAsOf, SumPrincipalPaid, Below, PrincipalIn
<1>3. PrincipalIn(ledger', Below(ledger', asOf - 1)) = below + entry
  <2>1. asOf - 1 \in Int
    OBVIOUS
  <2> QED
    BY <2>1, EntryCounted
<1>4. below \in Int
  <2>1. PrincipalsOf(ledger) \in Seq(Int)
    BY PrincipalsType
  <2> QED
    BY <2>1, PrincipalInMasked, MaskedType, TotalType
<1>5. entry \in Int
  BY DEF PaymentRows
<1> HIDE DEF below, entry
<1>6. BalanceAsOf(asOf)' = BalanceAsOf(asOf) - entry
  BY <1>1, <1>2, <1>3, <1>4, <1>5
<1> QED
  BY <1>6 DEF entry

\* What the entry a write appends takes off the balance as of a past period.
LEMMA PastBalanceMoves ==
  ASSUME IInv, Next, loan.status = "active", NEW asOf \in 0 .. PaidPeriods
  PROVE  BalanceAsOf(asOf)'
           = BalanceAsOf(asOf)
               - (IF RecordPayment /\ asOf > 1 THEN RemainingSchedule[1].principal ELSE 0)
<1>1. /\ PaidPeriods \in Nat /\ ledger \in Seq(PaymentRows) /\ loan.principal \in Int
      /\ asOf \in Int
  BY DerivedTypes DEF IInv
<1>2. CASE RecordPayment
  <2> DEFINE row == ScheduledRow(RemainingSchedule[1])
  <2>1. /\ HasPlan /\ row \in PaymentRows /\ ledger' = Append(ledger, row)
    BY <1>2, RecordPaymentRow
  <2>2. row.seq = 0 /\ row.principal = RemainingSchedule[1].principal
    BY <2>1, NextRow DEF ScheduledRow
  <2>3. loan'.principal = loan.principal
    BY <1>2 DEF RecordPayment, AfterPayment, IInv, TypeOK, LoanRows
  <2>4. BalanceAsOf(asOf)'
          = BalanceAsOf(asOf) - (IF row.seq < asOf - 1 THEN row.principal ELSE 0)
    <3> HIDE DEF row
    <3> QED
      BY <1>1, <2>1, <2>3, BalanceAfterEntry
  <2>5. row.seq < asOf - 1 <=> asOf > 1
    BY <1>1, <2>2
  <2> QED
    BY <1>2, <2>2, <2>4, <2>5
<1>3. CASE ~RecordPayment
  <2>1. /\ loan'.principal = loan.principal
        /\ \/ ledger' = ledger
           \/ \E row \in PaymentRows :
                row.seq = PaidPeriods + 1 /\ ledger' = Append(ledger, row)
    BY <1>3, ActiveStep
  <2>2. BalanceAsOf(asOf) \in Int
    <3>1. PrincipalsOf(ledger) \in Seq(Int)
      BY <1>1, PrincipalsType
    <3>2. PrincipalIn(ledger, Below(ledger, asOf - 1)) \in Int
      BY <1>1, <3>1, PrincipalInMasked, MaskedType, TotalType
    <3> QED
      BY <1>1, <3>2 DEF BalanceAsOf, SumPrincipalPaid, Below
  <2>3. BalanceAsOf(asOf)' = BalanceAsOf(asOf)
    <3>1. CASE ledger' = ledger
      BY <2>1, <3>1 DEF BalanceAsOf, SumPrincipalPaid
    <3>2. ASSUME NEW row \in PaymentRows, row.seq = PaidPeriods + 1,
                 ledger' = Append(ledger, row)
          PROVE  BalanceAsOf(asOf)' = BalanceAsOf(asOf)
      <4>1. BalanceAsOf(asOf)'
              = BalanceAsOf(asOf) - (IF row.seq < asOf - 1 THEN row.principal ELSE 0)
        BY <1>1, <2>1, <3>2, BalanceAfterEntry
      <4>2. ~(row.seq < asOf - 1)
        BY <1>1, <3>2
      <4> QED
        BY <2>2, <4>1, <4>2
    <3> QED
      BY <2>1, <3>1, <3>2
  <2> QED
    BY <1>3, <2>2, <2>3
<1> QED
  BY <1>2, <1>3

\* Of all requests on an open loan only a scheduled payment moves the balance as
\* of a period that was already paid, and by exactly the principal it returns:
\* the rows of the ledger are selected by a number that the scheduled ones do not
\* carry and that the prepayments get one above the periods paid.
THEOREM PastBalancesAlwaysMoveByPayments == ReadsSpec => []PastBalancesMoveByPayments
<1>1. ASSUME IInv, [ReadsNext]_readVars
      PROVE  [loan.status = "active" =>
                \A asOf \in 0 .. PaidPeriods :
                  BalanceAsOf(asOf)' =
                    BalanceAsOf(asOf)
                      - (IF RecordPayment /\ asOf > 1 THEN RemainingSchedule[1].principal
                                                      ELSE 0)]_readVars
  <2>1. CASE Next
    BY <1>1, <2>1, PastBalanceMoves
  <2>2. CASE UNCHANGED vars
    <3>1. ledger \in Seq(PaymentRows) /\ loan.principal \in Int /\ PaidPeriods \in Nat
      BY <1>1, DerivedTypes DEF IInv
    <3>2. ~RecordPayment
      <4>1. ASSUME NEW row PROVE ledger # Append(ledger, row)
        BY <3>1
      <4> QED
        BY <2>2, <4>1 DEF RecordPayment, vars
    <3>3. ASSUME NEW asOf \in 0 .. PaidPeriods
          PROVE  BalanceAsOf(asOf)' = BalanceAsOf(asOf) /\ BalanceAsOf(asOf) \in Int
      <4>1. BalanceAsOf(asOf)' = BalanceAsOf(asOf)
        BY <2>2 DEF vars, BalanceAsOf, SumPrincipalPaid
      <4>2. PrincipalsOf(ledger) \in Seq(Int)
        BY <3>1, PrincipalsType
      <4>3. PrincipalIn(ledger, Below(ledger, asOf - 1)) \in Int
        BY <3>1, <4>2, PrincipalInMasked, MaskedType, TotalType
      <4> QED
        BY <3>1, <4>1, <4>3 DEF BalanceAsOf, SumPrincipalPaid, Below
    <3> QED
      BY <3>2, <3>3
  <2> QED
    BY <1>1, <2>1, <2>2, ReadsStep
<1> QED
  BY <1>1, ReadsInvariance, PTL DEF ReadsSpec, PastBalancesMoveByPayments

-----------------------------------------------------------------------------
(***************************************************************************)
(* Cashflow                                                                *)
(***************************************************************************)

LEMMA TotalOfNaturals ==
  ASSUME NEW amounts \in Seq(Nat)
  PROVE  Total(amounts) \in Nat
<1> DEFINE N == Len(amounts)
           partial(k) == Fold(0, Adding(amounts), k)
           S == {k \in Nat : k <= N => partial(k) \in Nat}
<1>1. N \in Nat /\ \A i \in 1 .. N : amounts[i] \in Nat
  OBVIOUS
<1>2. Adding(amounts) \in Steps(N)
  BY <1>1 DEF Steps, Adding
<1>3. Total(amounts) = partial(N)
  BY DEF Total, Adding
<1> HIDE DEF N
<1>4. partial(0) = 0 /\ \A k \in 1 .. N : partial(k) = Adding(amounts)[k][partial(k - 1)]
  BY <1>1, <1>2, FoldBase, FoldStep
<1>5. \A k \in 1 .. N : Adding(amounts)[k] = [sum \in Int |-> sum + amounts[k]]
  BY DEF Adding, N
<1> HIDE DEF partial
<1>6. 0 \in S
  BY <1>4
<1>7. ASSUME NEW k \in Nat, k \in S PROVE k + 1 \in S
  <2>1. SUFFICES ASSUME k + 1 <= N PROVE partial(k + 1) \in Nat
    OBVIOUS
  <2>2. k + 1 \in 1 .. N /\ (k + 1) - 1 = k /\ partial(k) \in Nat
    BY <1>1, <1>7, <2>1
  <2>3. partial(k + 1) = partial(k) + amounts[k + 1]
    <3>1. partial(k + 1) = Adding(amounts)[k + 1][partial(k)]
      BY <1>4, <2>2
    <3>2. Adding(amounts)[k + 1] = [sum \in Int |-> sum + amounts[k + 1]]
      BY <1>5, <2>2
    <3> QED
      BY <2>2, <3>1, <3>2
  <2> QED
    BY <1>1, <2>2, <2>3
<1>8. Nat \subseteq S
  <2> HIDE DEF S
  <2> QED
    BY <1>6, <1>7, NatSetInduction
<1> QED
  BY <1>1, <1>3, <1>8

LEMMA LastPlaceExists ==
  ASSUME NEW n \in Nat, NEW places \in SUBSET (1 .. n), places # {}
  PROVE  Max(places) \in places
<1> DEFINE S == {k \in Nat : \A P \in SUBSET (1 .. k) :
                               P # {} => \E x \in P : \A y \in P : x >= y}
<1>1. 0 \in S
  <2>1. 1 .. 0 = {}
    OBVIOUS
  <2> QED
    BY <2>1
<1>2. ASSUME NEW k \in Nat, k \in S PROVE k + 1 \in S
  <2>1. SUFFICES ASSUME NEW P \in SUBSET (1 .. k + 1), P # {}
                 PROVE  \E x \in P : \A y \in P : x >= y
    OBVIOUS
  <2>2. CASE k + 1 \in P
    BY <2>2
  <2>3. CASE k + 1 \notin P
    <3>1. P \in SUBSET (1 .. k)
      BY <2>3
    <3> QED
      BY <1>2, <2>1, <3>1
  <2> QED
    BY <2>2, <2>3
<1>3. Nat \subseteq S
  <2> HIDE DEF S
  <2> QED
    BY <1>1, <1>2, NatSetInduction
<1>4. \E x \in places : \A y \in places : x >= y
  BY <1>3
<1> QED
  BY <1>4 DEF Max

LEMMA PaidPrincipalType ==
  ASSUME TypeOK, NEW n
  PROVE  PaidPrincipal(n) \in Nat
<1> DEFINE stamped == {i \in Scheduled(ledger) : ledger[i].seq = n}
<1>1. ledger \in Seq(PaymentRows) /\ Len(ledger) \in Nat
  BY DEF TypeOK
<1>2. stamped \in SUBSET (1 .. Len(ledger))
  BY DEF Scheduled
<1>3. PaidPrincipal(n) = IF stamped = {} THEN 0 ELSE ledger[Max(stamped)].principal
  BY DEF PaidPrincipal
<1> HIDE DEF stamped
<1>4. CASE stamped # {}
  <2>1. Max(stamped) \in 1 .. Len(ledger)
    BY <1>1, <1>2, <1>4, LastPlaceExists
  <2>2. ledger[Max(stamped)] \in PaymentRows
    BY <1>1, <2>1
  <2> QED
    BY <1>3, <1>4, <2>2 DEF PaymentRows
<1> QED
  BY <1>3, <1>4

\* The total of Schedule never falls short of what is outstanding.
LEMMA ScheduleCollects ==
  ASSUME IInv
  PROVE  ScheduleTotalPrincipal \in Int /\ ScheduleTotalPrincipal >= Outstanding
<1>1. /\ Outstanding \in Int /\ PaidPeriods \in Nat /\ loan.term \in Nat
      /\ loan.payment \in Nat
  BY DerivedTypes DEF IInv
<1>2. SumPrincipal(RemainingSchedule) \in Int /\ SumPrincipal(RemainingSchedule) >= Outstanding
  <2>1. CASE HasPlan
    <3>1. Unpaid \in ScheduleInputs /\ Unpaid.outstanding = Outstanding /\ Outstanding > 0
      BY <2>1, UnpaidInput
    <3>2. Unpaid.outstanding # 0
      BY <1>1, <3>1
    <3>3. SumPrincipal(Build(Unpaid)) = Outstanding
      BY <3>1, BuildCloses
    <3>4. SumPrincipal(BuildFixedPayment(Unpaid, loan.payment)) = Outstanding
      BY <1>1, <3>1, <3>2, BuildFixedPaymentCloses
    <3> QED
      BY <1>1, <2>1, <3>3, <3>4 DEF RemainingSchedule, RemainingScheduleOf, HasPlan, Unpaid
  <2>2. CASE ~HasPlan
    <3>1. RemainingSchedule = << >>
      BY <2>2 DEF RemainingSchedule, RemainingScheduleOf, HasPlan, Unpaid
    <3>2. SumPrincipal(<< >>) = 0
      BY PrincipalOfEmpty DEF SumPrincipal, PrincipalOf
    <3>3. Outstanding <= 0
      BY <1>1, <2>2 DEF HasPlan, HasPlanOf, Outstanding, PaidPeriods, IInv,
                              PeriodLeft
    <3> QED
      BY <1>1, <3>1, <3>2, <3>3
  <2> QED
    BY <2>1, <2>2
<1> DEFINE paid == [n \in 1 .. PaidPeriods |-> PaidPrincipal(n)]
<1>3. \A n \in 1 .. PaidPeriods : PaidPrincipal(n) \in Nat
  BY PaidPrincipalType DEF IInv
<1>4. paid \in Seq(Nat)
  BY <1>1, <1>3
<1>5. ScheduleTotalPrincipal = Total(paid) + SumPrincipal(RemainingSchedule)
  BY DEF ScheduleTotalPrincipal
<1> HIDE DEF paid
<1>6. Total(paid) \in Nat
  BY <1>4, TotalOfNaturals
<1> QED
  BY <1>1, <1>2, <1>5, <1>6

\* No operation raises what is outstanding, once the loan exists.
LEMMA DebtNeverGrows ==
  ASSUME IInv, [Next]_vars, loan.status # "none"
  PROVE  /\ loan'.status # "none" /\ loan'.principal = loan.principal
         /\ Outstanding' \in Int /\ Outstanding' <= Outstanding
<1>1. loan \in LoanRows /\ Outstanding \in Int
  BY DerivedTypes DEF IInv, TypeOK
<1>2. CASE UNCHANGED vars
  BY <1>1, <1>2 DEF vars, Outstanding, OutstandingOf
<1>3. CASE CancelLoan
  BY <1>1, <1>3, CancelLoanEffect DEF LoanRows
<1>4. CASE RecordPayment
  <2>1. Collects /\ (loan' = loan \/ loan' = [loan EXCEPT !.status = "closed"])
    BY <1>4, RecordPaymentEffect
  <2> QED
    BY <1>1, <2>1, loan.status # "none" DEF LoanRows, Collects, Collected, Outstanding
<1>5. ASSUME NEW rate \in Rates, ChangeRate(rate)
      PROVE  /\ loan'.status # "none" /\ loan'.principal = loan.principal
             /\ Outstanding' = Outstanding
  <2>1. rate \in Int
    BY RequestAssumption
  <2>2. /\ Outstanding' = Outstanding
        /\ \E payment \in Nat : loan' = [loan EXCEPT !.rate = rate, !.payment = payment]
    BY <1>5, <2>1, ChangeRateEffect
  <2> QED
    BY <1>1, <2>2 DEF LoanRows
<1>6. ASSUME NEW amount \in Prepayments, NEW strategy \in Strategies, Prepay(amount, strategy)
      PROVE  /\ loan'.status # "none" /\ loan'.principal = loan.principal
             /\ Outstanding' \in Int /\ Outstanding' <= Outstanding
  <2>1. amount \in Int
    BY RequestAssumption
  <2>2. CASE PrepayReducingTerm(amount)
    <3>1. Collects /\ \E term \in Nat :
             \/ loan' = [loan EXCEPT !.term = term, !.payment = 0]
             \/ loan' = [loan EXCEPT !.term = term]
      BY <2>1, <2>2, ReduceTermEffect
    <3> QED
      BY <1>1, <3>1 DEF LoanRows, Collects, Collected, Outstanding
  <2>3. CASE PrepayReducingPayment(amount)
    <3>1. Collects /\ \/ \E term \in Nat : loan' = [loan EXCEPT !.term = term, !.payment = 0]
                      \/ \E payment \in Nat : loan' = [loan EXCEPT !.payment = payment]
      BY <2>1, <2>3, ReducePaymentEffect
    <3> QED
      BY <1>1, <3>1 DEF LoanRows, Collects, Collected, Outstanding
  <2> QED
    BY <1>6, <2>2, <2>3 DEF Prepay
<1>7. ~\E principal \in Principals, rate \in Rates, periods \in Terms, type \in LoanTypes :
         CreateLoan(principal, rate, periods, type)
  BY DEF CreateLoan
<1> QED
  BY <1>1, <1>2, <1>3, <1>4, <1>5, <1>6, <1>7 DEF Next

Booked(breakdown, type) == IF type \in DOMAIN breakdown THEN breakdown[type] ELSE 0

LEMMA PrincipalInAll ==
  ASSUME NEW rows \in Seq(PaymentRows), NEW counted,
         \A i \in 1 .. Len(rows) : i \in counted
  PROVE  PrincipalIn(rows, counted) = PrincipalOf(rows)
<1>1. PrincipalsOf(rows) \in Seq(Int) /\ Len(PrincipalsOf(rows)) = Len(rows)
  BY PrincipalsType
<1>2. Masked(PrincipalsOf(rows), counted) = PrincipalsOf(rows)
  BY <1>1, MaskedAll
<1> QED
  BY <1>2, PrincipalInMasked DEF PrincipalOf, PrincipalsOf

\* Prepayments being booked as scheduled, the breakdown has one entry, or none,
\* and it contains the whole ledger.
LEMMA BreakdownIsWhole ==
  ASSUME TypeOK
  PROVE  /\ LedgerBreakdown \in UNION {[types -> Int] : types \in SUBSET {"scheduled"}}
         /\ Booked(LedgerBreakdown, "scheduled") + Booked(LedgerBreakdown, "prepayment")
              = PrincipalOf(ledger)
<1> DEFINE types    == {BookedAs(ledger[i].type) : i \in 1 .. Len(ledger)}
           of(type) == {i \in 1 .. Len(ledger) : BookedAs(ledger[i].type) = type}
<1>1. ledger \in Seq(PaymentRows) /\ Len(ledger) \in Nat
  BY DEF TypeOK
<1>2. \A i \in 1 .. Len(ledger) : BookedAs(ledger[i].type) = "scheduled"
  <2>1. \A i \in 1 .. Len(ledger) : ledger[i] \in PaymentRows
    BY <1>1
  <2> QED
    BY <2>1 DEF BookedAs, PaymentRows
<1>3. types \subseteq {"scheduled"} /\ (types = {} <=> Len(ledger) = 0)
  BY <1>1, <1>2
<1>4. PrincipalOf(ledger) \in Int
  BY <1>1, PrincipalOfType
<1>5. PrincipalIn(ledger, of("scheduled")) = PrincipalOf(ledger)
  BY <1>1, <1>2, PrincipalInAll
<1>6. LedgerBreakdown = [type \in types |-> PrincipalIn(ledger, of(type))]
  BY DEF LedgerBreakdown
<1> HIDE DEF types, of
<1>7. CASE Len(ledger) = 0
  <2>1. PrincipalOf(ledger) = 0
    BY <1>1, <1>7, PrincipalOfEmpty
  <2>2. LedgerBreakdown \in [{} -> Int] /\ DOMAIN LedgerBreakdown = {}
    BY <1>3, <1>6, <1>7
  <2>3. LedgerBreakdown \in UNION {[names -> Int] : names \in SUBSET {"scheduled"}}
    <3>1. {} \in SUBSET {"scheduled"}
      OBVIOUS
    <3> QED
      BY <2>2, <3>1, Zenon
  <2>4. /\ Booked(LedgerBreakdown, "scheduled") = 0
        /\ Booked(LedgerBreakdown, "prepayment") = 0
    BY <2>2 DEF Booked
  <2> QED
    BY <2>1, <2>3, <2>4
<1>8. CASE Len(ledger) # 0
  <2>1. types = {"scheduled"}
    BY <1>3, <1>8
  <2>2. LedgerBreakdown = [type \in {"scheduled"} |-> PrincipalOf(ledger)]
    BY <1>5, <1>6, <2>1
  <2>3. LedgerBreakdown \in UNION {[names -> Int] : names \in SUBSET {"scheduled"}}
    <3>1. LedgerBreakdown \in [{"scheduled"} -> Int]
      BY <1>4, <2>2
    <3>2. {"scheduled"} \in SUBSET {"scheduled"}
      OBVIOUS
    <3> QED
      BY <3>1, <3>2, Zenon
  <2>4. /\ Booked(LedgerBreakdown, "scheduled") = PrincipalOf(ledger)
        /\ Booked(LedgerBreakdown, "prepayment") = 0
    BY <2>2 DEF Booked
  <2> QED
    BY <1>4, <2>3, <2>4
<1> QED
  BY <1>7, <1>8

Breakdowns == {<< >>} \cup UNION {[types -> Int] : types \in SUBSET {"scheduled"}}

Requests == [step : {"idle", "schedule", "balance", "answered"},
             future : Int, balance : Int, ledger : Breakdowns, remaining : Int]

\* What each step of Cashflow has read, seen from the states that follow.
CashflowInv ==
  /\ cashflow \in Requests
  /\ cashflow.step # "idle" => loan.status # "none"
  /\ cashflow.step = "schedule" => cashflow.future >= Outstanding
  /\ cashflow.step \in {"balance", "answered"} => cashflow.future >= cashflow.balance
  /\ cashflow.step = "balance" => cashflow.balance >= Outstanding
  /\ cashflow.step = "answered" =>
       /\ cashflow.remaining >= 2 * Outstanding
       /\ cashflow.balance >= loan.principal - (Booked(cashflow.ledger, "scheduled")
                                                + Booked(cashflow.ledger, "prepayment"))

LEMMA CashflowStep ==
  ASSUME IInv, CashflowInv, [ReadsNext]_readVars
  PROVE  CashflowInv'
<1>1. Outstanding \in Int /\ loan.principal \in Nat /\ ledger \in Seq(PaymentRows)
  BY DerivedTypes DEF IInv
<1>2. cashflow \in Requests
  BY DEF CashflowInv
<1>3. CASE [Next]_vars /\ UNCHANGED cashflow
  <2>1. CASE loan.status = "none"
    <3>1. cashflow.step = "idle"
      BY <2>1 DEF CashflowInv
    <3> QED
      BY <1>2, <1>3, <3>1 DEF CashflowInv, Requests
  <2>2. CASE loan.status # "none"
    <3>1. /\ loan'.status # "none" /\ loan'.principal = loan.principal
          /\ Outstanding' \in Int /\ Outstanding' <= Outstanding
      BY <1>3, <2>2, DebtNeverGrows
    <3>2. cashflow' = cashflow
      BY <1>3
    <3>3. cashflow.step = "schedule" => cashflow.future >= Outstanding'
      BY <1>1, <1>2, <3>1 DEF CashflowInv, Requests
    <3>4. cashflow.step = "balance" => cashflow.balance >= Outstanding'
      BY <1>1, <1>2, <3>1 DEF CashflowInv, Requests
    <3>5. cashflow.step = "answered" => cashflow.remaining >= 2 * Outstanding'
      BY <1>1, <1>2, <3>1 DEF CashflowInv, Requests
    <3> QED
      BY <1>2, <3>1, <3>2, <3>3, <3>4, <3>5 DEF CashflowInv
  <2> QED
    BY <2>1, <2>2
<1>4. CASE ReadSchedule
  <2>1. /\ cashflow' = [cashflow EXCEPT !.step = "schedule",
                                        !.future = ScheduleTotalPrincipal]
        /\ loan.status # "none" /\ loan' = loan /\ ledger' = ledger
    BY <1>4 DEF ReadSchedule
  <2>2. ScheduleTotalPrincipal \in Int /\ ScheduleTotalPrincipal >= Outstanding
    BY ScheduleCollects
  <2>3. Outstanding' = Outstanding
    BY <2>1 DEF Outstanding, OutstandingOf
  <2> QED
    BY <1>2, <2>1, <2>2, <2>3 DEF CashflowInv, Requests
<1>5. CASE ReadBalance
  <2>1. /\ cashflow.step = "schedule"
        /\ cashflow' = [cashflow EXCEPT !.step = "balance", !.balance = Outstanding]
        /\ loan' = loan /\ ledger' = ledger
    BY <1>5 DEF ReadBalance, CurrentBalance, Outstanding, OutstandingOf
  <2>2. Outstanding' = Outstanding
    BY <2>1 DEF Outstanding, OutstandingOf
  <2>3. /\ cashflow'.step = "balance" /\ cashflow'.balance = Outstanding
        /\ cashflow'.future = cashflow.future
        /\ cashflow' \in Requests
    BY <1>1, <1>2, <2>1 DEF Requests
  <2>4. cashflow.future >= Outstanding /\ loan.status # "none"
    BY <2>1 DEF CashflowInv
  <2> QED
    BY <1>1, <2>1, <2>2, <2>3, <2>4 DEF CashflowInv
<1>6. CASE ReadLedger
  <2>1. /\ cashflow.step = "balance"
        /\ cashflow' = [cashflow EXCEPT !.step = "answered", !.ledger = LedgerBreakdown,
                                        !.remaining = cashflow.future + cashflow.balance]
        /\ loan' = loan /\ ledger' = ledger
    BY <1>6 DEF ReadLedger
  <2>2. /\ LedgerBreakdown \in Breakdowns
        /\ Booked(LedgerBreakdown, "scheduled") + Booked(LedgerBreakdown, "prepayment")
             = PrincipalOf(ledger)
    BY BreakdownIsWhole DEF IInv, Breakdowns
  <2>3. cashflow.balance >= loan.principal - PrincipalOf(ledger)
    BY <2>1 DEF CashflowInv, Outstanding, OutstandingOf
  <2>4. /\ cashflow'.step = "answered" /\ cashflow'.ledger = LedgerBreakdown
        /\ cashflow'.balance = cashflow.balance /\ cashflow'.future = cashflow.future
        /\ cashflow'.remaining = cashflow.future + cashflow.balance
        /\ cashflow' \in Requests
    <3> DEFINE sum == cashflow.future + cashflow.balance
               booked == LedgerBreakdown
    <3>1. sum \in Int /\ booked \in Breakdowns
      BY <1>2, <2>2 DEF Requests
    <3>2. cashflow' = [cashflow EXCEPT !.step = "answered", !.ledger = booked,
                                       !.remaining = sum]
      BY <2>1
    <3> HIDE DEF sum, booked
    <3>3. /\ cashflow'.step = "answered" /\ cashflow'.ledger = booked
          /\ cashflow'.balance = cashflow.balance /\ cashflow'.future = cashflow.future
          /\ cashflow'.remaining = sum
          /\ cashflow' \in Requests
      BY <1>2, <3>1, <3>2 DEF Requests
    <3> QED
      BY <3>3 DEF sum, booked
  <2>5. /\ cashflow.future >= cashflow.balance /\ cashflow.balance >= Outstanding
        /\ loan.status # "none"
    BY <2>1 DEF CashflowInv
  <2>6. cashflow'.remaining >= 2 * Outstanding /\ Outstanding' = Outstanding
    BY <1>1, <1>2, <2>1, <2>4, <2>5 DEF Requests, Outstanding, OutstandingOf
  <2> QED
    BY <2>1, <2>2, <2>3, <2>4, <2>5, <2>6 DEF CashflowInv
<1>7. CASE Answer
  <2>1. cashflow' = NoCashflow
    BY <1>7 DEF Answer
  <2> QED
    BY <2>1 DEF CashflowInv, NoCashflow, Breakdowns, Requests
<1> QED
  BY <1>3, <1>4, <1>5, <1>6, <1>7 DEF ReadsNext, Write, readVars, vars

THEOREM CashflowInvariance == ReadsSpec => []CashflowInv
<1>1. ReadsInit => CashflowInv
  BY DEF ReadsInit, CashflowInv, NoCashflow, Breakdowns, Requests
<1>2. IInv /\ CashflowInv /\ [ReadsNext]_readVars => CashflowInv'
  BY CashflowStep
<1> QED
  BY <1>1, <1>2, ReadsInvariance, PTL DEF ReadsSpec

\* A Cashflow answer errs in one direction only, whatever was committed between
\* its three transactions: the total of the schedule is at least the balance,
\* the balance is at least what the ledger leaves of the principal, and the sum
\* answered as the remaining principal at least twice what is still owed.
THEOREM CashflowAlwaysErrsForward == ReadsSpec => []CashflowErrsForward
<1>1. CashflowInv => CashflowErrsForward
  BY DEF CashflowInv, CashflowErrsForward, BookedUnder, Booked
<1> QED
  BY <1>1, CashflowInvariance, PTL

-----------------------------------------------------------------------------
(***************************************************************************)
(* Projections                                                             *)
(***************************************************************************)

\* rest is what is left of in, planned by due, after its first period.
RestOf(rest, in, due) ==
  /\ rest.periods = in.periods - 1
  /\ rest.outstanding = in.outstanding - due[1][in.outstanding]
  /\ rest.rate = in.rate

\* The later plan makes due in each period what the earlier one made due in the
\* period after it.
Follows(later, due, n) == \A i \in 1 .. n : later[i] = due[i + 1]

LEMMA BalanceShifts ==
  ASSUME NEW in \in ScheduleInputs, NEW rest \in ScheduleInputs,
         NEW due \in Steps(in.periods), NEW later \in Steps(rest.periods),
         RestOf(rest, in, due), Follows(later, due, rest.periods)
  PROVE  \A k \in 0 .. rest.periods : Balance(rest, later, k) = Balance(in, due, k + 1)
<1> DEFINE n       == rest.periods
           left(k) == Balance(in, due, k)
           then(k) == Balance(rest, later, k)
           S       == {k \in Nat : k <= n => then(k) = left(k + 1)}
<1>1. n \in Nat \ {0} /\ in.periods = n + 1 /\ in.outstanding \in Int
  BY DEF ScheduleInputs, RestOf
<1>2. /\ left(0) = in.outstanding
      /\ \A k \in 1 .. n + 1 : left(k) = left(k - 1) - due[k][left(k - 1)]
  BY <1>1, BalanceRule
<1>3. /\ then(0) = rest.outstanding
      /\ \A k \in 1 .. n : then(k) = then(k - 1) - later[k][then(k - 1)]
  BY BalanceRule
<1>4. rest.outstanding = in.outstanding - due[1][in.outstanding]
      /\ \A i \in 1 .. n : later[i] = due[i + 1]
  BY DEF RestOf, Follows
<1> HIDE DEF n, left, then
<1>5. 0 \in S
  <2>1. 1 \in 1 .. n + 1 /\ 1 - 1 = 0
    BY <1>1
  <2>2. left(1) = in.outstanding - due[1][in.outstanding]
    BY <1>2, <2>1
  <2> QED
    BY <1>3, <1>4, <2>2
<1>6. ASSUME NEW k \in Nat, k \in S PROVE k + 1 \in S
  <2>1. SUFFICES ASSUME k + 1 <= n PROVE then(k + 1) = left((k + 1) + 1)
    OBVIOUS
  <2>2. k + 1 \in 1 .. n /\ k + 2 \in 1 .. n + 1 /\ (k + 1) - 1 = k /\ (k + 2) - 1 = k + 1
        /\ (k + 1) + 1 = k + 2
    BY <1>1, <2>1
  <2>3. then(k) = left(k + 1)
    BY <1>1, <1>6, <2>1
  <2>4. then(k + 1) = then(k) - later[k + 1][then(k)]
    BY <1>3, <2>2
  <2>5. left(k + 2) = left(k + 1) - due[k + 2][left(k + 1)]
    BY <1>2, <2>2
  <2>6. later[k + 1] = due[k + 2]
    BY <1>4, <2>2
  <2> QED
    BY <2>2, <2>3, <2>4, <2>5, <2>6
<1>7. Nat \subseteq S
  <2> HIDE DEF S
  <2> QED
    BY <1>5, <1>6, NatSetInduction
<1>8. \A k \in 0 .. n : then(k) = left(k + 1)
  BY <1>1, <1>7
<1> QED
  BY <1>8 DEF n, left, then

\* Row i of the later plan says what row j of the earlier one said.
SameAmounts(row, other) ==
  row.principal = other.principal /\ row.interest = other.interest /\ row.balance = other.balance

LEMMA RowsShift ==
  ASSUME NEW in \in ScheduleInputs, NEW rest \in ScheduleInputs,
         NEW due \in Steps(in.periods), NEW later \in Steps(rest.periods),
         RestOf(rest, in, due), Follows(later, due, rest.periods)
  PROVE  \A i \in 1 .. rest.periods :
           SameAmounts(Amortize(rest, later)[i], Amortize(in, due)[i + 1])
<1> SUFFICES ASSUME NEW i \in 1 .. rest.periods
             PROVE  SameAmounts(Amortize(rest, later)[i], Amortize(in, due)[i + 1])
  OBVIOUS
<1>1. rest.periods \in Nat /\ in.periods = rest.periods + 1 /\ rest.rate = in.rate
  BY DEF ScheduleInputs, RestOf
<1>2. /\ i \in 1 .. rest.periods /\ i + 1 \in 1 .. in.periods /\ (i + 1) - 1 = i
      /\ i - 1 \in 0 .. rest.periods /\ i \in 0 .. rest.periods /\ (i - 1) + 1 = i
  BY <1>1
<1>3. /\ Balance(rest, later, i - 1) = Balance(in, due, i)
      /\ Balance(rest, later, i) = Balance(in, due, i + 1)
  BY <1>2, BalanceShifts
<1>4. later[i] = due[i + 1]
  BY DEF Follows
<1>5. /\ Amortize(rest, later)[i].principal = later[i][Balance(rest, later, i - 1)]
      /\ Amortize(rest, later)[i].interest = MulRateMicro(Balance(rest, later, i - 1), rest.rate)
      /\ Amortize(rest, later)[i].balance = Balance(rest, later, i)
  BY AmortizeRows
<1>6. /\ Amortize(in, due)[i + 1].principal = due[i + 1][Balance(in, due, i)]
      /\ Amortize(in, due)[i + 1].interest = MulRateMicro(Balance(in, due, i), in.rate)
      /\ Amortize(in, due)[i + 1].balance = Balance(in, due, i + 1)
  BY <1>2, AmortizeRows
<1> QED
  BY <1>1, <1>3, <1>4, <1>5, <1>6 DEF SameAmounts

\* The three kinds of plans follow themselves.
LEMMA FixedPaymentFollows ==
  ASSUME NEW in \in ScheduleInputs, NEW rest \in ScheduleInputs, NEW payment,
         rest.periods = in.periods - 1, rest.rate = in.rate
  PROVE  Follows(FixedPaymentDue(rest, payment), FixedPaymentDue(in, payment), rest.periods)
<1>1. rest.periods \in Nat /\ in.periods = rest.periods + 1
  BY DEF ScheduleInputs
<1>2. ASSUME NEW i \in 1 .. rest.periods
      PROVE  FixedPaymentDue(rest, payment)[i] = FixedPaymentDue(in, payment)[i + 1]
  <2>1. i + 1 \in 1 .. in.periods /\ (i + 1 = in.periods <=> i = rest.periods)
    BY <1>1
  <2>2. FixedPaymentDue(rest, payment)[i]
          = [b \in Int |-> IF i = rest.periods THEN b ELSE payment - MulRateMicro(b, rest.rate)]
    BY DEF FixedPaymentDue
  <2>3. FixedPaymentDue(in, payment)[i + 1]
          = [b \in Int |-> IF i + 1 = in.periods THEN b ELSE payment - MulRateMicro(b, in.rate)]
    BY <2>1 DEF FixedPaymentDue
  <2> QED
    BY <2>1, <2>2, <2>3
<1> QED
  BY <1>2 DEF Follows

LEMMA InterestOnlyFollows ==
  ASSUME NEW in \in ScheduleInputs, NEW rest \in ScheduleInputs,
         rest.periods = in.periods - 1
  PROVE  Follows(InterestOnlyDue(rest), InterestOnlyDue(in), rest.periods)
<1>1. rest.periods \in Nat /\ in.periods = rest.periods + 1
  BY DEF ScheduleInputs
<1>2. ASSUME NEW i \in 1 .. rest.periods
      PROVE  InterestOnlyDue(rest)[i] = InterestOnlyDue(in)[i + 1]
  <2>1. i + 1 \in 1 .. in.periods /\ (i + 1 = in.periods <=> i = rest.periods)
    BY <1>1
  <2>2. InterestOnlyDue(rest)[i] = [b \in Int |-> IF i = rest.periods THEN b ELSE 0]
    BY DEF InterestOnlyDue
  <2>3. InterestOnlyDue(in)[i + 1] = [b \in Int |-> IF i + 1 = in.periods THEN b ELSE 0]
    BY <2>1 DEF InterestOnlyDue
  <2> QED
    BY <2>1, <2>2, <2>3
<1> QED
  BY <1>2 DEF Follows

LEMMA QuotientUnique ==
  ASSUME NEW n \in Nat \ {0}, NEW a \in Nat, NEW q \in Nat, NEW r \in Nat,
         a = n * q + r, r < n
  PROVE  a \div n = q /\ a % n = r
<1>1. /\ a \div n \in Nat /\ a % n \in Nat /\ a % n < n
      /\ a = n * (a \div n) + (a % n)
  BY QuotientRemainder
<1> DEFINE p == a \div n
           s == a % n
<1>2. p \in Nat /\ s \in Nat /\ s < n /\ n * p + s = n * q + r
  BY <1>1
<1> HIDE DEF p, s
<1>3. n * p \in Int /\ n * q \in Int
  BY <1>2
<1>4. ~(p < q)
  <2>1. SUFFICES ASSUME p < q PROVE FALSE
    OBVIOUS
  <2>2. n * (p + 1) <= n * q
    BY <1>2, <2>1
  <2>3. n * (p + 1) = n * p + n
    BY <1>2
  <2> QED
    BY <1>2, <1>3, <2>2, <2>3
<1>5. ~(q < p)
  <2>1. SUFFICES ASSUME q < p PROVE FALSE
    OBVIOUS
  <2>2. n * (q + 1) <= n * p
    BY <1>2, <2>1
  <2>3. n * (q + 1) = n * q + n
    BY <1>2
  <2> QED
    BY <1>2, <1>3, <2>2, <2>3
<1>6. p = q /\ s = r
  <2>1. p = q
    BY <1>2, <1>4, <1>5
  <2> QED
    BY <1>2, <1>3, <2>1
<1> QED
  BY <1>6 DEF p, s

LEMMA EqualPrincipalFollows ==
  ASSUME NEW in \in ScheduleInputs, NEW rest \in ScheduleInputs,
         RestOf(rest, in, EqualPrincipalDue(in))
  PROVE  Follows(EqualPrincipalDue(rest), EqualPrincipalDue(in), rest.periods)
<1> DEFINE n    == rest.periods
           base == in.outstanding \div in.periods
           rem  == in.outstanding % in.periods
           left == IF rem = 0 THEN 0 ELSE rem - 1
<1>1. /\ n \in Nat \ {0} /\ in.periods = n + 1
      /\ in.outstanding \in Nat /\ rest.outstanding \in Nat
  BY DEF ScheduleInputs, RestOf
<1>2. /\ base \in Nat /\ rem \in Nat /\ rem < n + 1
      /\ in.outstanding = (n + 1) * base + rem
  BY <1>1, EqualPrincipalSplit
<1>3. EqualPrincipalDue(in)
        = [i \in 1 .. n + 1 |-> [b \in Int |-> IF i <= rem THEN base + 1 ELSE base]]
  BY <1>1 DEF EqualPrincipalDue
<1>4. rest.outstanding = in.outstanding - EqualPrincipalDue(in)[1][in.outstanding]
  BY DEF RestOf
<1> HIDE DEF n, base, rem
<1>5. 1 \in 1 .. n + 1 /\ in.outstanding \in Int
  BY <1>1
<1>6. rest.outstanding = in.outstanding - (IF 1 <= rem THEN base + 1 ELSE base)
  BY <1>3, <1>4, <1>5
<1>7. (n + 1) * base = n * base + base /\ n * base \in Int
  BY <1>1, <1>2
<1>8. left \in Nat /\ left < n /\ rest.outstanding = n * base + left
  BY <1>1, <1>2, <1>6, <1>7
<1> HIDE DEF left
<1>9. rest.outstanding \div n = base /\ rest.outstanding % n = left
  BY <1>1, <1>2, <1>8, QuotientUnique
<1>10. EqualPrincipalDue(rest)
         = [i \in 1 .. n |-> [b \in Int |-> IF i <= left THEN base + 1 ELSE base]]
  BY <1>9 DEF EqualPrincipalDue, n
<1>11. ASSUME NEW i \in 1 .. n
       PROVE  EqualPrincipalDue(rest)[i] = EqualPrincipalDue(in)[i + 1]
  <2>1. i + 1 \in 1 .. n + 1 /\ (i <= left <=> i + 1 <= rem)
    BY <1>1, <1>2 DEF left
  <2>2. EqualPrincipalDue(rest)[i] = [b \in Int |-> IF i <= left THEN base + 1 ELSE base]
    BY <1>10
  <2>3. EqualPrincipalDue(in)[i + 1] = [b \in Int |-> IF i + 1 <= rem THEN base + 1 ELSE base]
    BY <1>3, <2>1
  <2> QED
    BY <2>1, <2>2, <2>3
<1> QED
  BY <1>11 DEF Follows, n

\* A plan of Build at payment 0 is of a kind that pays no interest or a fixed
\* share of the principal.
LEMMA NoPaymentPlan ==
  ASSUME NEW in \in ScheduleInputs, in.type = "equal_installment" => in.rate = 0
  PROVE  DueOf(in) = IF in.type = "interest_only" THEN InterestOnlyDue(in)
                     ELSE EqualPrincipalDue(in)
<1>1. in.type \in LoanTypes
  BY DEF ScheduleInputs
<1> QED
  BY <1>1 DEF LoanTypes, DueOf, EqualInstallmentDue

\* Recording a payment that leaves the loan active leaves the rest of its plan.
LEMMA PlanShifts ==
  ASSUME IInv, RecordPayment, loan'.status = "active"
  PROVE  /\ RemainingSchedule \in Seq(PlanRows) /\ RemainingSchedule' \in Seq(PlanRows)
         /\ Len(RemainingSchedule) = Len(RemainingSchedule') + 1
         /\ \A i \in 1 .. Len(RemainingSchedule') :
              SameAmounts(RemainingSchedule'[i], RemainingSchedule[i + 1])
<1> DEFINE in   == Unpaid
           owed == Outstanding - RemainingSchedule[1].principal
           rest == [outstanding |-> owed, rate |-> loan.rate,
                    periods |-> loan.term - (PaidPeriods + 1), type |-> loan.type]
<1>1. HasPlan /\ Outstanding' = owed
  BY RecordPaymentRow
<1>2. loan \in LoanRows
  BY DEF IInv, TypeOK
<1>3. /\ loan' = loan /\ PaidPeriods' = PaidPeriods + 1
      /\ PaidPeriods + 1 < loan.term /\ Outstanding' > 0 /\ Outstanding' \in Int
  BY <1>2, RecordPaymentEffect DEF LoanRows, Collects, Collected, Outstanding
<1>4. /\ in \in ScheduleInputs
      /\ in.outstanding = Outstanding /\ in.rate = loan.rate
      /\ in.periods = loan.term - PaidPeriods /\ in.type = loan.type
      /\ Outstanding > 0
  BY <1>1, UnpaidInput
<1>5. /\ PaidPeriods \in Nat /\ loan.term \in Nat /\ loan.payment \in Nat /\ loan.rate \in Nat
      /\ Outstanding \in Int
  BY DerivedTypes DEF IInv
<1>6. Unpaid' = rest /\ HasPlan'
  BY <1>1, <1>3, <1>5 DEF Unpaid, HasPlan, HasPlanOf, UnpaidOf, Outstanding,
                            PaidPeriods
<1>7. rest \in ScheduleInputs /\ rest.outstanding > 0
  <2>1. owed \in Nat /\ owed > 0
    BY <1>1, <1>3
  <2>2. loan.term - (PaidPeriods + 1) \in Nat \ {0}
    BY <1>3, <1>5
  <2>3. in.type \in LoanTypes
    BY <1>4 DEF ScheduleInputs
  <2> HIDE DEF owed
  <2> QED
    BY <1>4, <1>5, <2>1, <2>2, <2>3 DEF ScheduleInputs
<1>8. rest.periods = in.periods - 1 /\ rest.rate = in.rate /\ rest.type = in.type
  BY <1>4, <1>5
<1>9. /\ RemainingSchedule = IF loan.payment > 0 THEN BuildFixedPayment(in, loan.payment)
                             ELSE Build(in)
      /\ RemainingSchedule' = IF loan.payment > 0 THEN BuildFixedPayment(rest, loan.payment)
                              ELSE Build(rest)
  BY <1>1, <1>3, <1>6 DEF RemainingSchedule, RemainingScheduleOf, HasPlan, Unpaid
<1>10. rest.outstanding = in.outstanding - RemainingSchedule[1].principal
  BY <1>4
<1> HIDE DEF in, rest
<1>11. ASSUME NEW due \in Steps(in.periods), NEW later \in Steps(rest.periods),
              RemainingSchedule = Amortize(in, due), RemainingSchedule' = Amortize(rest, later),
              RestOf(rest, in, due) => Follows(later, due, rest.periods)
       PROVE  /\ RemainingSchedule \in Seq(PlanRows) /\ RemainingSchedule' \in Seq(PlanRows)
              /\ Len(RemainingSchedule) = Len(RemainingSchedule') + 1
              /\ \A i \in 1 .. Len(RemainingSchedule') :
                   SameAmounts(RemainingSchedule'[i], RemainingSchedule[i + 1])
  <2>1. RemainingSchedule[1].principal = due[1][in.outstanding]
    BY <1>4, <1>11, AmortizeFirstRow DEF FirstRow
  <2>2. RestOf(rest, in, due)
    BY <1>8, <1>10, <2>1 DEF RestOf
  <2>3. /\ RemainingSchedule \in Seq(PlanRows) /\ Len(RemainingSchedule) = in.periods
        /\ RemainingSchedule' \in Seq(PlanRows) /\ Len(RemainingSchedule') = rest.periods
    BY <1>4, <1>7, <1>11, AmortizeRows
  <2>4. \A i \in 1 .. rest.periods :
          SameAmounts(RemainingSchedule'[i], RemainingSchedule[i + 1])
    BY <1>4, <1>7, <1>11, <2>2, RowsShift
  <2>5. in.periods = rest.periods + 1
    BY <1>4, <1>5, <1>8
  <2> QED
    BY <2>3, <2>4, <2>5
<1>12. CASE loan.payment > 0
  <2>1. /\ RemainingSchedule = Amortize(in, FixedPaymentDue(in, loan.payment))
        /\ RemainingSchedule' = Amortize(rest, FixedPaymentDue(rest, loan.payment))
    <3>1. in.outstanding # 0 /\ rest.outstanding # 0
      BY <1>4, <1>5, <1>7 DEF ScheduleInputs
    <3> QED
      BY <1>9, <1>12, <3>1 DEF BuildFixedPayment
  <2>2. /\ FixedPaymentDue(in, loan.payment) \in Steps(in.periods)
        /\ FixedPaymentDue(rest, loan.payment) \in Steps(rest.periods)
    BY <1>4, <1>5, <1>7, FixedPaymentDueType
  <2>3. Follows(FixedPaymentDue(rest, loan.payment), FixedPaymentDue(in, loan.payment),
                rest.periods)
    BY <1>4, <1>7, <1>8, FixedPaymentFollows
  <2> QED
    BY <1>11, <2>1, <2>2, <2>3
<1>13. CASE ~(loan.payment > 0)
  <2>1. RemainingSchedule = Amortize(in, DueOf(in))
        /\ RemainingSchedule' = Amortize(rest, DueOf(rest))
    BY <1>9, <1>13 DEF Build, DueOf
  <2>2. in.type = "equal_installment" => in.rate = 0
    <3>1. SUFFICES ASSUME loan.type = "equal_installment", loan.rate # 0 PROVE FALSE
      BY <1>4
    <3>2. loan.payment > MulRateMicro(Outstanding, loan.rate)
      BY <1>4, <1>5, <3>1 DEF IInv, PaymentServicesDebt
    <3>3. MulRateMicro(Outstanding, loan.rate) \in Nat
      <4>1. Outstanding \in Nat
        BY <1>4, <1>5
      <4> QED
        BY <1>5, <4>1, InterestType
    <3> QED
      BY <1>5, <1>13, <3>2, <3>3
  <2>3. /\ DueOf(in) = IF in.type = "interest_only" THEN InterestOnlyDue(in)
                       ELSE EqualPrincipalDue(in)
        /\ DueOf(rest) = IF in.type = "interest_only" THEN InterestOnlyDue(rest)
                         ELSE EqualPrincipalDue(rest)
    BY <1>4, <1>7, <1>8, <2>2, NoPaymentPlan
  <2>4. DueOf(in) \in Steps(in.periods) /\ DueOf(rest) \in Steps(rest.periods)
    BY <1>4, <1>7, DueOfType
  <2>5. RestOf(rest, in, DueOf(in)) => Follows(DueOf(rest), DueOf(in), rest.periods)
    BY <1>4, <1>7, <1>8, <2>3, InterestOnlyFollows, EqualPrincipalFollows
  <2> QED
    BY <1>11, <2>1, <2>4, <2>5
<1> QED
  BY <1>12, <1>13

LEMMA AmountsShift ==
  ASSUME NEW rows \in Seq(PlanRows), NEW later \in Seq(PlanRows), NEW n \in Nat,
         Len(later) = n, Len(rows) = n + 1,
         \A i \in 1 .. n : SameAmounts(later[i], rows[i + 1])
  PROVE  Amounts(later) = Tail(Amounts(rows))
<1> DEFINE of(row) == <<row.principal, row.interest, row.balance>>
<1>1. Amounts(later) = [i \in 1 .. n |-> of(later[i])]
  BY DEF Amounts
<1>2. Amounts(rows) = [i \in 1 .. n + 1 |-> of(rows[i])]
  BY DEF Amounts
<1>3. \A i \in 1 .. n : of(later[i]) = of(rows[i + 1])
  BY DEF SameAmounts
<1> HIDE DEF of
<1>4. Tail([i \in 1 .. n + 1 |-> of(rows[i])]) = [i \in 1 .. n |-> of(rows[i + 1])]
  OBVIOUS
<1> QED
  BY <1>1, <1>2, <1>3, <1>4

LEMMA ProjectionShifts ==
  ASSUME IInv, RecordPayment, loan'.status = "active", NEW limit \in 1 .. loan.term
  PROVE  Amounts(Projection(limit))' = Tail(Amounts(Projection(limit + 1)))
<1> DEFINE rows  == RemainingSchedule
           later == RemainingSchedule'
           n     == Len(later)
<1>1. /\ rows \in Seq(PlanRows) /\ later \in Seq(PlanRows)
      /\ Len(rows) = n + 1
      /\ \A i \in 1 .. n : SameAmounts(later[i], rows[i + 1])
  BY PlanShifts
<1>2. limit \in Nat /\ limit > 0
  BY DerivedTypes DEF IInv
<1>3. Amounts(Projection(limit))'
        = Amounts(IF limit > 0 /\ limit < n THEN SubSeq(later, 1, limit) ELSE later)
  BY DEF Amounts, Projection
<1>4. Projection(limit + 1)
        = IF limit + 1 > 0 /\ limit + 1 < Len(rows) THEN SubSeq(rows, 1, limit + 1) ELSE rows
  BY DEF Projection
<1> HIDE DEF rows, later
<1>5. n \in Nat
  BY <1>1
<1>6. CASE limit < n
  <2> DEFINE some == SubSeq(later, 1, limit)
             more == SubSeq(rows, 1, limit + 1)
  <2>1. /\ some \in Seq(PlanRows) /\ Len(some) = limit
        /\ \A i \in 1 .. limit : some[i] = later[i]
    BY <1>1, <1>2, <1>5, <1>6
  <2>2. /\ more \in Seq(PlanRows) /\ Len(more) = limit + 1
        /\ \A i \in 1 .. limit + 1 : more[i] = rows[i]
    BY <1>1, <1>2, <1>5, <1>6
  <2>3. Amounts(Projection(limit))' = Amounts(some) /\ Projection(limit + 1) = more
    <3>1. Amounts(Projection(limit))' = Amounts(some)
      BY <1>2, <1>3, <1>6
    <3>2. limit + 1 > 0 /\ limit + 1 < Len(rows)
      BY <1>1, <1>2, <1>5, <1>6
    <3> QED
      BY <1>4, <3>1, <3>2
  <2> HIDE DEF some, more
  <2>4. \A i \in 1 .. limit : SameAmounts(some[i], more[i + 1])
    <3>1. \A i \in 1 .. limit : i \in 1 .. n /\ i + 1 \in 1 .. limit + 1
      BY <1>2, <1>5, <1>6
    <3> QED
      BY <1>1, <2>1, <2>2, <3>1
  <2> QED
    BY <1>2, <2>1, <2>2, <2>3, <2>4, AmountsShift
<1>7. CASE ~(limit < n)
  <2>1. Amounts(Projection(limit))' = Amounts(later) /\ Projection(limit + 1) = rows
    BY <1>1, <1>2, <1>3, <1>4, <1>5, <1>7
  <2> QED
    BY <1>1, <1>5, <2>1, AmountsShift
<1> QED
  BY <1>6, <1>7

\* A projection is what will be paid: the plan rebuilt after a payment is the
\* rest of the plan before it, to the cent, whatever recasts came before.
THEOREM ProjectionsAlwaysOutlivePayment == ReadsSpec => ProjectionOutlivesPayment
<1>1. ASSUME IInv, [ReadsNext]_readVars
      PROVE  [RecordPayment /\ loan'.status = "active" =>
                \A limit \in 1 .. loan.term :
                  Amounts(Projection(limit))' = Tail(Amounts(Projection(limit + 1)))]_readVars
  BY <1>1, ProjectionShifts
<1> QED
  BY <1>1, ReadsInvariance, PTL DEF ReadsSpec, ProjectionOutlivesPayment

-----------------------------------------------------------------------------
(***************************************************************************)
(* Payoff                                                                  *)
(***************************************************************************)

\* A total over the first m places is the total of the first m amounts.
LEMMA MaskedPrefix ==
  ASSUME NEW amounts \in Seq(Int), NEW m \in 0 .. Len(amounts), NEW counted,
         CountsAs(counted, 1 .. m, Len(amounts))
  PROVE  Total(Masked(amounts, counted)) = Total([i \in 1 .. m |-> amounts[i]])
<1> DEFINE N      == Len(amounts)
           masked == Masked(amounts, counted)
           prefix == [i \in 1 .. m |-> amounts[i]]
           sum(k) == Fold(0, Adding(masked), k)
           S      == {k \in Nat : m + k <= N => sum(m + k) = sum(m)}
<1>1. /\ N \in Nat /\ m \in Nat /\ m <= N
      /\ \A i \in 1 .. N : amounts[i] \in Int
  OBVIOUS
<1>2. prefix \in Seq(Int) /\ Len(prefix) = m
  <2>1. \A i \in 1 .. m : amounts[i] \in Int
    BY <1>1
  <2> QED
    BY <1>1, <2>1
<1>3. masked \in Seq(Int) /\ Len(masked) = N
  BY MaskedType
<1>4. \A i \in 1 .. N : masked[i] = IF i <= m THEN amounts[i] ELSE 0
  <2>1. \A i \in 1 .. N : i \in counted <=> i <= m
    BY <1>1 DEF CountsAs
  <2> QED
    BY <2>1 DEF Masked
<1>5. \A i \in 1 .. m : prefix[i] = amounts[i]
  OBVIOUS
<1> HIDE DEF N, masked, prefix
<1>6. Adding(masked) \in Steps(N) /\ Adding(prefix) \in Steps(m)
  BY <1>1, <1>2, <1>3 DEF Adding, Steps
<1>7. /\ \A i \in 1 .. N : Adding(masked)[i] = [s \in Int |-> s + masked[i]]
      /\ \A i \in 1 .. m : Adding(prefix)[i] = [s \in Int |-> s + prefix[i]]
  BY <1>2, <1>3 DEF Adding
<1>8. \A i \in 1 .. m : Adding(masked)[i] = Adding(prefix)[i]
  <2> SUFFICES ASSUME NEW i \in 1 .. m PROVE Adding(masked)[i] = Adding(prefix)[i]
    OBVIOUS
  <2>1. i \in 1 .. N /\ i <= m
    BY <1>1
  <2>2. masked[i] = prefix[i]
    BY <1>4, <1>5, <2>1
  <2> QED
    BY <1>7, <2>1, <2>2
<1>9. sum(m) = Fold(0, Adding(prefix), m)
  BY <1>1, <1>6, <1>8, FoldCongruence
<1>10. \A k \in 0 .. N : sum(k) \in Int
  BY <1>1, <1>6, FoldType
<1>11. \A k \in 1 .. N : sum(k) = Adding(masked)[k][sum(k - 1)]
  BY <1>1, <1>6, FoldStep
<1>12. Total(masked) = sum(N) /\ Total(prefix) = Fold(0, Adding(prefix), m)
  BY <1>2, <1>3 DEF Total, Adding
<1> HIDE DEF sum
<1>13. 0 \in S
  BY <1>1
<1>14. ASSUME NEW k \in Nat, k \in S PROVE k + 1 \in S
  <2> DEFINE j == m + k + 1
  <2>1. SUFFICES ASSUME j <= N PROVE sum(j) = sum(m)
    <3>1. m + (k + 1) = j
      BY <1>1
    <3> QED
      BY <3>1
  <2>2. j \in 1 .. N /\ j - 1 = m + k /\ m + k \in 0 .. N /\ ~(j <= m) /\ m + k <= N
    BY <1>1, <2>1
  <2>3. sum(m + k) = sum(m) /\ sum(m + k) \in Int
    BY <1>10, <1>14, <2>2
  <2> HIDE DEF j
  <2>4. sum(j) = Adding(masked)[j][sum(m + k)]
    BY <1>11, <2>2
  <2>5. Adding(masked)[j] = [s \in Int |-> s + masked[j]] /\ masked[j] = 0
    BY <1>4, <1>7, <2>2
  <2> QED
    BY <2>3, <2>4, <2>5
<1>15. Nat \subseteq S
  <2> HIDE DEF S
  <2> QED
    BY <1>13, <1>14, NatSetInduction
<1>16. sum(N) = sum(m)
  <2> DEFINE k == N - m
  <2>1. k \in Nat /\ m + k = N /\ m + k <= N
    BY <1>1
  <2>2. k \in S
    <3> HIDE DEF S, k
    <3> QED
      BY <1>15, <2>1
  <2>3. sum(m + k) = sum(m)
    <3> HIDE DEF k
    <3> QED
      BY <2>1, <2>2
  <2> HIDE DEF k
  <2> QED
    BY <2>1, <2>3
<1> QED
  BY <1>9, <1>12, <1>16 DEF masked, prefix

\* The interests of a ledger or of a plan.
InterestsOf(rows) == [i \in 1 .. Len(rows) |-> rows[i].interest]

LEMMA InterestInMasked ==
  ASSUME NEW rows, Len(rows) \in Nat, NEW counted
  PROVE  InterestIn(rows, counted) = Total(Masked(InterestsOf(rows), counted))
<1>1. Len(InterestsOf(rows)) = Len(rows)
  BY DEF InterestsOf
<1>2. Masked(InterestsOf(rows), counted)
        = [i \in 1 .. Len(rows) |-> IF i \in counted THEN rows[i].interest ELSE 0]
  BY <1>1 DEF Masked, InterestsOf
<1> QED
  BY <1>2 DEF InterestIn

LEMMA NothingAtNoRate ==
  ASSUME NEW balance \in Int
  PROVE  MulRateMicro(balance, 0) = 0
<1>1. balance * 0 = 0 /\ 2 * 0 = 0
  OBVIOUS
<1>2. RateMicroScale \in Nat \ {0}
  BY ScaleAssumption
<1> DEFINE S == RateMicroScale
<1>3. (2 * 0 + S) \div (2 * S) = 0
  <2>1. S \in Nat \ {0}
    BY <1>2
  <2> HIDE DEF S
  <2>2. 2 * S \in Nat \ {0} /\ 2 * 0 + S = (2 * S) * 0 + S /\ S < 2 * S
    BY <2>1
  <2> QED
    BY <2>1, <2>2, QuotientUnique
<1> QED
  BY <1>1, <1>3 DEF MulRateMicro, RoundCents

Plain == loan.status = "active" /\ loan.type = "equal_installment" /\ NeverRecast

\* The principal each period of the first day's plan returns, at a rate.
FullDue == FixedPaymentDue(FullSchedule, loan.payment)

\* A loan that was never recast has the terms of the first day.
FirstTerms ==
  /\ ~BuildRejects(FullSchedule)
  /\ loan.principal > 0
  /\ loan.payment = PaymentAmount(loan.principal, loan.rate, loan.term)

\* Its ledger holds the first rows of the first day's plan, whose balance is
\* the outstanding principal.  (At rate 0 the first day's plan splits the
\* principal evenly and the rebuilt one does not; but there is no interest.)
OnPlan ==
  /\ PaidPeriods = Len(ledger) /\ PaidPeriods < loan.term /\ Outstanding > 0
  /\ \A j \in 1 .. Len(ledger) :
       ledger[j].seq = 0 /\ ledger[j].interest = Build(FullSchedule)[j].interest
  /\ loan.rate # 0 => Outstanding = Balance(FullSchedule, FullDue, PaidPeriods)

PlainInv == Plain => FirstTerms /\ OnPlan

LEMMA FullRows ==
  ASSUME IInv, loan.type = "equal_installment", FirstTerms
  PROVE  /\ FullSchedule \in ScheduleInputs
         /\ FullSchedule.periods = loan.term /\ FullSchedule.rate = loan.rate
         /\ FullSchedule.outstanding = loan.principal
         /\ FullDue \in Steps(loan.term)
         /\ Build(FullSchedule) \in Seq(PlanRows) /\ Len(Build(FullSchedule)) = loan.term
         /\ \A i \in 1 .. loan.term :
              /\ Build(FullSchedule)[i].number = i
              /\ Build(FullSchedule)[i].interest \in Int
              /\ Build(FullSchedule)[i].interest
                   = IF loan.rate = 0 THEN 0
                     ELSE MulRateMicro(Balance(FullSchedule, FullDue, i - 1), loan.rate)
<1> DEFINE full == FullSchedule
<1>1. /\ loan.term \in Nat /\ loan.rate \in Nat /\ loan.payment \in Nat
      /\ loan.principal \in Nat
  BY DerivedTypes DEF IInv
<1>2. /\ full.periods = loan.term /\ full.rate = loan.rate
      /\ full.outstanding = loan.principal /\ full.type = "equal_installment"
  BY DEF FullSchedule, FullScheduleOf
<1>3. full.periods > 0
  BY <1>1, <1>2 DEF FirstTerms, BuildRejects
<1>4. full \in ScheduleInputs
  BY <1>1, <1>2, <1>3 DEF FullSchedule, FullScheduleOf, ScheduleInputs, LoanTypes
<1> HIDE DEF full
<1>5. FullDue \in Steps(loan.term) /\ FullDue = FixedPaymentDue(full, loan.payment)
  BY <1>1, <1>2, <1>4, FixedPaymentDueType DEF FullDue, full
<1>6. Build(full) = Amortize(full, DueOf(full)) /\ DueOf(full) \in Steps(full.periods)
  BY <1>4, DueOfType DEF Build, DueOf
<1>7. /\ Build(full) \in Seq(PlanRows) /\ Len(Build(full)) = loan.term
      /\ \A i \in 1 .. loan.term :
           /\ Build(full)[i].number = i
           /\ Build(full)[i].interest = MulRateMicro(Balance(full, DueOf(full), i - 1), loan.rate)
  BY <1>2, <1>4, <1>6, AmortizeRows
<1>8. \A i \in 1 .. loan.term : Build(full)[i].interest \in Int
  <2>1. \A i \in 1 .. loan.term : Build(full)[i] \in PlanRows
    BY <1>7
  <2> QED
    BY <2>1 DEF PlanRows
<1>9. loan.rate # 0 => DueOf(full) = FullDue
  BY <1>1, <1>2, <1>5 DEF FirstTerms, DueOf, EqualInstallmentDue
<1>10. ASSUME NEW i \in 1 .. loan.term, loan.rate = 0
       PROVE  Build(full)[i].interest = 0
  <2>1. i - 1 \in 0 .. full.periods
    BY <1>1, <1>2
  <2>2. Balance(full, DueOf(full), i - 1) \in Int
    BY <1>4, <1>6, <2>1, BalanceRule
  <2> QED
    BY <1>7, <1>10, <2>2, NothingAtNoRate
<1> QED
  BY <1>2, <1>4, <1>5, <1>7, <1>8, <1>9, <1>10 DEF full

\* The row of the first day's plan that comes next charges the interest of
\* what is owed now.
LEMMA NextInterest ==
  ASSUME IInv, PlainInv, Plain
  PROVE  Build(FullSchedule)[PaidPeriods + 1].interest = MulRateMicro(Outstanding, loan.rate)
<1>1. /\ PaidPeriods \in Nat /\ loan.term \in Nat /\ Outstanding \in Int
      /\ PaidPeriods < loan.term
  BY DerivedTypes DEF IInv, PlainInv, OnPlan
<1>2. PaidPeriods + 1 \in 1 .. loan.term /\ (PaidPeriods + 1) - 1 = PaidPeriods
  BY <1>1
<1>3. Build(FullSchedule)[PaidPeriods + 1].interest
        = IF loan.rate = 0 THEN 0
          ELSE MulRateMicro(Balance(FullSchedule, FullDue, PaidPeriods), loan.rate)
  BY <1>2, FullRows DEF PlainInv, Plain
<1> QED
  BY <1>1, <1>3, NothingAtNoRate DEF PlainInv, OnPlan

\* A payment of a loan on plan.
LEMMA PaymentKeepsPlan ==
  ASSUME IInv, PlainInv, Plain, RecordPayment, loan'.status = "active"
  PROVE  OnPlan'
<1> DEFINE next == RemainingSchedule[1]
           row  == ScheduledRow(next)
<1>1. loan \in LoanRows /\ ledger \in Seq(PaymentRows) /\ Len(ledger) \in Nat
  BY DEF IInv, TypeOK
<1>2. /\ loan' = loan /\ PaidPeriods' = PaidPeriods + 1
      /\ PaidPeriods + 1 < loan.term /\ Outstanding' > 0
  BY <1>1, RecordPaymentEffect DEF LoanRows
<1>3. /\ HasPlan /\ row \in PaymentRows
      /\ ledger' = Append(ledger, row)
      /\ Outstanding' = Outstanding - next.principal
  BY RecordPaymentRow
<1>4. /\ next.number = 1
      /\ next.interest = MulRateMicro(Outstanding, loan.rate)
  BY <1>3, NextRow
<1>5. row.seq = 0 /\ row.interest = next.interest
  BY <1>4 DEF ScheduledRow
<1>6. FirstTerms /\ OnPlan /\ loan.type = "equal_installment"
  BY DEF PlainInv, Plain
<1>7. FullSchedule' = FullSchedule /\ Build(FullSchedule)' = Build(FullSchedule)
      /\ FullDue' = FullDue
  BY <1>2 DEF FullSchedule, FullScheduleOf, FullDue
<1>8. /\ Unpaid \in ScheduleInputs
      /\ Unpaid.outstanding = Outstanding /\ Unpaid.rate = loan.rate
      /\ Unpaid.periods = loan.term - PaidPeriods
      /\ Outstanding > 0
  BY <1>3, UnpaidInput
<1>9. /\ PaidPeriods \in Nat /\ loan.term \in Nat /\ loan.rate \in Nat
      /\ loan.payment \in Nat /\ Outstanding \in Int
  BY DerivedTypes DEF IInv
<1> HIDE DEF next, row
<1>10. ASSUME loan.rate # 0
       PROVE  Outstanding' = Balance(FullSchedule, FullDue, PaidPeriods + 1)
  <2>1. loan.payment > 0
    <3>1. loan.payment > MulRateMicro(Outstanding, loan.rate)
      BY <1>6, <1>8, <1>9, <1>10 DEF IInv, PaymentServicesDebt
    <3>2. Outstanding \in Nat
      BY <1>8, <1>9
    <3>3. MulRateMicro(Outstanding, loan.rate) \in Nat
      BY <1>9, <3>2, InterestType
    <3> QED
      BY <1>9, <3>1, <3>3
  <2>2. RemainingSchedule = BuildFixedPayment(Unpaid, loan.payment)
    BY <1>3, <2>1 DEF RemainingSchedule, RemainingScheduleOf, HasPlan, Unpaid
  <2>3. next.principal = loan.payment - MulRateMicro(Outstanding, loan.rate)
    <3>1. Unpaid.outstanding # 0 /\ Unpaid.periods # 1
      BY <1>2, <1>8, <1>9
    <3> QED
      BY <1>8, <1>9, <2>2, <3>1, FixedPaymentFirstRow DEF FirstRow, next
  <2>4. Outstanding = Balance(FullSchedule, FullDue, PaidPeriods)
    BY <1>6, <1>10 DEF OnPlan
  <2>5. /\ FullSchedule \in ScheduleInputs /\ FullSchedule.periods = loan.term
        /\ FullSchedule.rate = loan.rate /\ FullDue \in Steps(loan.term)
    BY <1>6, FullRows
  <2>6. PaidPeriods + 1 \in 1 .. loan.term /\ (PaidPeriods + 1) - 1 = PaidPeriods
        /\ PaidPeriods + 1 # loan.term
    BY <1>2, <1>9
  <2>7. Balance(FullSchedule, FullDue, PaidPeriods + 1)
          = Outstanding - FullDue[PaidPeriods + 1][Outstanding]
    BY <2>4, <2>5, <2>6, BalanceRule
  <2>8. FullDue[PaidPeriods + 1][Outstanding]
          = loan.payment - MulRateMicro(Outstanding, loan.rate)
    BY <1>9, <2>5, <2>6 DEF FullDue, FixedPaymentDue
  <2> QED
    BY <1>3, <2>3, <2>7, <2>8
<1>11. /\ Len(ledger') = Len(ledger) + 1 /\ PaidPeriods = Len(ledger)
       /\ \A j \in 1 .. Len(ledger) : ledger'[j] = ledger[j]
       /\ ledger'[Len(ledger) + 1] = row
  BY <1>1, <1>3, <1>6 DEF OnPlan
<1>12. ASSUME NEW j \in 1 .. Len(ledger')
       PROVE  ledger'[j].seq = 0 /\ ledger'[j].interest = Build(FullSchedule)[j].interest
  <2>1. j \in 1 .. Len(ledger) \/ j = Len(ledger) + 1
    BY <1>1, <1>11
  <2>2. CASE j \in 1 .. Len(ledger)
    BY <1>6, <1>11, <2>2 DEF OnPlan
  <2>3. CASE j = Len(ledger) + 1
    <3>1. ledger'[j] = row /\ j = PaidPeriods + 1
      BY <1>11, <2>3
    <3>2. Build(FullSchedule)[PaidPeriods + 1].interest = MulRateMicro(Outstanding, loan.rate)
      BY NextInterest
    <3> QED
      BY <1>4, <1>5, <3>1, <3>2
  <2> QED
    BY <2>1, <2>2, <2>3
<1>13. PaidPeriods' = Len(ledger') /\ PaidPeriods' < loan.term
  BY <1>2, <1>11
<1> QED
  BY <1>2, <1>7, <1>10, <1>12, <1>13 DEF OnPlan

LEMMA NeverRecastBefore ==
  ASSUME Write, NeverRecast', loan.status # "none", TypeOK,
         \/ ledger' = ledger
         \/ \E row \in PaymentRows : ledger' = Append(ledger, row)
  PROVE  /\ NeverRecast
         /\ loan'.rate = loan.rate /\ loan'.payment = loan.payment /\ loan'.term = loan.term
<1>1. ~(\/ recast
        \/ /\ loan.status # "none"
           /\ \E field \in {"rate", "payment", "term"} : loan'[field] # loan[field])
  BY DEF Write, NeverRecast
<1>2. /\ ~recast
      /\ loan'.rate = loan.rate /\ loan'.payment = loan.payment /\ loan'.term = loan.term
  BY <1>1
<1>3. \A i \in 1 .. Len(ledger) : ledger[i].type = "scheduled"
  <2>1. \A i \in 1 .. Len(ledger') : ledger'[i].type = "scheduled"
    BY DEF NeverRecast
  <2>2. ledger \in Seq(PaymentRows) /\ Len(ledger) \in Nat
    BY DEF TypeOK
  <2>3. ASSUME NEW row \in PaymentRows, ledger' = Append(ledger, row)
        PROVE  \A i \in 1 .. Len(ledger) : ledger[i].type = "scheduled"
    <3>1. Len(ledger') = Len(ledger) + 1 /\ \A i \in 1 .. Len(ledger) : ledger'[i] = ledger[i]
      BY <2>2, <2>3
    <3> QED
      BY <2>1, <2>2, <3>1
  <2> QED
    BY <2>1, <2>3
<1> QED
  BY <1>2, <1>3 DEF NeverRecast

LEMMA CreatedOnPlan ==
  ASSUME IInv, NEW principal \in Int, NEW rate \in Int, NEW periods \in Int,
         NEW type \in LoanTypes, CreateLoan(principal, rate, periods, type)
  PROVE  Plain' => FirstTerms' /\ OnPlan'
<1>1. /\ loan.status = "none" /\ ledger' = << >>
      /\ Outstanding' \in Nat \ {0} /\ PaidPeriods' = 0 /\ loan'.term > 0
      /\ loan' \in LoanRows
  BY CreateLoanEffect
<1>2. /\ principal > 0
      /\ ~BuildRejects([outstanding |-> principal, rate |-> rate,
                        periods |-> periods, type |-> type])
      /\ loan' = NewLoan(principal, rate, periods, type)
  BY DEF CreateLoan, GoodTerms
<1>3. /\ loan'.principal = principal /\ loan'.rate = rate /\ loan'.term = periods
      /\ loan'.type = type /\ loan'.payment = PaymentAmount(principal, rate, periods)
  BY <1>2 DEF NewLoan
<1>4. FullSchedule' = [outstanding |-> principal, rate |-> rate,
                       periods |-> periods, type |-> type]
  BY <1>3 DEF FullSchedule, FullScheduleOf
<1>5. FirstTerms'
  BY <1>2, <1>3, <1>4 DEF FirstTerms
<1>6. Outstanding' = principal
  <2>1. Outstanding' = loan'.principal - PrincipalOf(<< >>)
    BY <1>1 DEF Outstanding, OutstandingOf
  <2> QED
    BY <1>3, <2>1, PrincipalOfEmpty
<1>7. ASSUME Plain', loan'.rate # 0
      PROVE  Outstanding' = Balance(FullSchedule, FullDue, PaidPeriods)'
  <2> DEFINE full == FullSchedule'
             due  == FullDue'
  <2>1. full \in ScheduleInputs
    <3>1. principal \in Nat /\ rate \in Nat /\ periods \in Nat \ {0}
      BY <1>1, <1>3 DEF LoanRows
    <3> QED
      BY <1>4, <3>1 DEF ScheduleInputs
  <2>2. loan'.payment \in Int
    BY <1>1 DEF LoanRows
  <2>3. due = FixedPaymentDue(full, loan'.payment)
    BY DEF FullDue
  <2> HIDE DEF full, due
  <2>4. due \in Steps(full.periods)
    BY <2>1, <2>2, <2>3, FixedPaymentDueType
  <2>5. Balance(full, due, 0) = full.outstanding
    BY <2>1, <2>4, BalanceRule
  <2>6. Balance(FullSchedule, FullDue, PaidPeriods)' = Balance(full, due, 0)
    BY <1>1 DEF full, due
  <2>7. full.outstanding = principal
    BY <1>4 DEF full
  <2> QED
    BY <1>6, <2>5, <2>6, <2>7
<1>8. Len(ledger') = 0 /\ 1 .. 0 = {}
  BY <1>1
<1> QED
  BY <1>1, <1>5, <1>7, <1>8 DEF OnPlan

LEMMA PlainStep ==
  ASSUME IInv, PlainInv, [ReadsNext]_readVars
  PROVE  PlainInv'
<1> SUFFICES ASSUME Plain' PROVE FirstTerms' /\ OnPlan'
  BY DEF PlainInv
<1>1. TypeOK /\ loan \in LoanRows
  BY DEF IInv, TypeOK
<1>2. ASSUME loan' = loan, ledger' = ledger, NeverRecast
      PROVE  FirstTerms' /\ OnPlan'
  <2>1. Plain
    BY <1>2 DEF Plain
  <2>2. FirstTerms /\ OnPlan
    BY <2>1 DEF PlainInv
  <2> QED
    BY <1>2, <2>2 DEF FirstTerms, OnPlan, FullSchedule, FullScheduleOf, FullDue,
                         PaidPeriods, Outstanding, OutstandingOf, PaidPeriodsOf
<1>3. CASE UNCHANGED <<loan, ledger, recast>>
  <2>1. NeverRecast
    BY <1>3 DEF Plain, NeverRecast
  <2> QED
    BY <1>2, <1>3, <2>1
<1>4. CASE Write
  <2>1. Next
    BY <1>4 DEF Write
  <2>2. CASE loan.status = "none"
    <3>1. PICK principal \in Principals, rate \in Rates, periods \in Terms,
               type \in LoanTypes : CreateLoan(principal, rate, periods, type)
      BY <2>1, <2>2
      DEF Next, CancelLoan, RecordPayment, Prepay, PrepayReducingTerm,
          PrepayReducingPayment, ChangeRate, Accepting, AcceptingOf
    <3>2. principal \in Int /\ rate \in Int /\ periods \in Int
      BY RequestAssumption
    <3> QED
      BY <3>1, <3>2, CreatedOnPlan
  <2>3. CASE loan.status = "active" /\ RecordPayment
    <3>1. PICK row \in PaymentRows : ledger' = Append(ledger, row)
      BY <2>3, RecordPaymentRow
    <3>2. NeverRecast
      BY <1>1, <1>4, <2>3, <3>1, NeverRecastBefore DEF Plain
    <3>3. loan' = loan /\ loan'.status = "active"
      BY <1>1, <2>3, RecordPaymentEffect DEF Plain, LoanRows
    <3>4. Plain
      BY <2>3, <3>2, <3>3 DEF Plain
    <3>5. FirstTerms'
      BY <3>3, <3>4 DEF PlainInv, FirstTerms, FullSchedule, FullScheduleOf
    <3> QED
      BY <2>3, <3>3, <3>4, <3>5, PaymentKeepsPlan
  <2>4. CASE loan.status = "active" /\ ~RecordPayment
    <3>1. \/ ledger' = ledger
          \/ \E row \in PaymentRows :
               row.type = "prepayment" /\ ledger' = Append(ledger, row)
      BY <2>1, <2>4, ActiveStep
    <3>2. ledger' = ledger
      <4>1. SUFFICES ASSUME NEW row \in PaymentRows, row.type = "prepayment",
                            ledger' = Append(ledger, row)
                     PROVE  FALSE
        BY <3>1
      <4>2. ledger'[Len(ledger) + 1] = row /\ Len(ledger) + 1 \in 1 .. Len(ledger')
        BY <1>1, <4>1 DEF TypeOK
      <4> QED
        BY <4>1, <4>2 DEF Plain, NeverRecast
    <3>3. /\ NeverRecast
          /\ loan'.rate = loan.rate /\ loan'.payment = loan.payment /\ loan'.term = loan.term
      BY <1>1, <1>4, <2>4, <3>2, NeverRecastBefore DEF Plain
    <3>4. loan' = loan
      <4>1. ~CancelLoan
        BY CancelLoanEffect DEF Plain
      <4>2. PICK rate \in Rates : ChangeRate(rate)
        <5>1. ~\E amount \in Prepayments, strategy \in Strategies : Prepay(amount, strategy)
          <6>1. SUFFICES ASSUME NEW amount, NEW strategy, Prepay(amount, strategy)
                         PROVE  FALSE
            OBVIOUS
          <6>2. ledger' = Append(ledger, PrepaymentRow(loan, ledger, amount))
            BY <6>1 DEF Prepay, PrepayReducingTerm, PrepayReducingPayment
          <6>3. Len(ledger') = Len(ledger) + 1 /\ Len(ledger) \in Nat
            BY <1>1, <6>2 DEF TypeOK
          <6> QED
            BY <3>2, <6>3
        <5> QED
          BY <2>1, <2>4, <4>1, <5>1 DEF Next, CreateLoan
      <4>3. rate \in Int
        BY RequestAssumption
      <4>4. \E payment \in Nat : loan' = [loan EXCEPT !.rate = rate, !.payment = payment]
        BY <4>2, <4>3, ChangeRateEffect
      <4> QED
        BY <1>1, <3>3, <4>4 DEF LoanRows
    <3> QED
      BY <1>2, <3>2, <3>3, <3>4
  <2>5. loan.status \in {"none", "active"}
    <3>1. CASE CancelLoan
      BY <3>1 DEF CancelLoan
    <3>2. CASE ~CancelLoan
      BY <2>1, <3>2
      DEF Next, RecordPayment, Prepay, PrepayReducingTerm, PrepayReducingPayment,
          ChangeRate, CreateLoan, Accepting, AcceptingOf
    <3> QED
      BY <3>1, <3>2
  <2> QED
    BY <2>2, <2>3, <2>4, <2>5
<1> QED
  BY <1>3, <1>4 DEF ReadsNext, ReadSchedule, ReadBalance, ReadLedger, Answer, readVars

THEOREM PlainInvariance == ReadsSpec => []PlainInv
<1>1. ReadsInit => PlainInv
  BY DEF ReadsInit, Init, NoLoan, PlainInv, Plain
<1>2. IInv /\ PlainInv /\ [ReadsNext]_readVars => PlainInv'
  BY PlainStep
<1> QED
  BY <1>1, <1>2, ReadsInvariance, PTL DEF ReadsSpec

\* The interest of the first day's plan through the next period is the interest
\* paid and that of what is owed now.
LEMMA AccruedIsPaidAndNext ==
  ASSUME IInv, PlainInv, Plain
  PROVE  /\ NextPeriod = PaidPeriods + 1
         /\ SumInterestPaid(NextPeriod) \in Int
         /\ AccruedInterest(Build(FullSchedule), NextPeriod)
              = SumInterestPaid(NextPeriod) + MulRateMicro(Outstanding, loan.rate)
<1> DEFINE rows   == Build(FullSchedule)
           asOf   == NextPeriod
           n      == Len(ledger)
           charge == MulRateMicro(Outstanding, loan.rate)
           paid   == InterestsOf(ledger)
           listed == InterestsOf(rows)
           due    == {i \in 1 .. Len(rows) : rows[i].number <= asOf}
           booked == {i \in 1 .. Len(ledger) : ledger[i].seq <= asOf}
<1>1. FirstTerms /\ OnPlan /\ loan.type = "equal_installment"
  BY DEF PlainInv, Plain
<1>2. /\ ledger \in Seq(PaymentRows) /\ PaidPeriods \in Nat /\ loan.term \in Nat
      /\ Outstanding \in Int /\ loan.rate \in Nat
  BY DerivedTypes DEF IInv
<1>3. n = PaidPeriods /\ n < loan.term /\ n \in Nat
  BY <1>1, <1>2 DEF OnPlan
<1>4. NextPeriod = n + 1
  BY <1>2, <1>3 DEF NextPeriod, NextUnpaidPeriod
<1>5. /\ rows \in Seq(PlanRows) /\ Len(rows) = loan.term
      /\ \A i \in 1 .. loan.term : rows[i].number = i /\ rows[i].interest \in Int
  BY <1>1, FullRows
<1>6. charge \in Int /\ rows[n + 1].interest = charge
  BY <1>2, <1>3, MulRateMicroType, NextInterest
<1>7. \A j \in 1 .. n :
        ledger[j].seq = 0 /\ ledger[j].interest = rows[j].interest
  BY <1>1 DEF OnPlan
<1>8. AccruedInterest(rows, asOf) = Total(Masked(listed, due))
  BY <1>2, <1>5, InterestInMasked DEF AccruedInterest
<1>9. SumInterestPaid(asOf) = Total(Masked(paid, booked))
  BY <1>3, InterestInMasked DEF SumInterestPaid
<1>10. paid = [i \in 1 .. n |-> ledger[i].interest]
       /\ listed = [i \in 1 .. Len(rows) |-> rows[i].interest]
  BY DEF InterestsOf
<1>11. due = {i \in 1 .. Len(rows) : rows[i].number <= asOf}
       /\ booked = {i \in 1 .. n : ledger[i].seq <= asOf}
  OBVIOUS
<1>12. asOf = n + 1
  BY <1>4
<1> HIDE DEF rows, asOf, n, charge, paid, listed, due, booked
<1>13. listed \in Seq(Int) /\ Len(listed) = loan.term
       /\ \A i \in 1 .. loan.term : listed[i] = rows[i].interest
  <2>1. \A i \in 1 .. loan.term : rows[i].interest \in Int
    BY <1>5
  <2>2. listed = [i \in 1 .. loan.term |-> rows[i].interest]
    BY <1>5, <1>10
  <2> QED
    BY <1>2, <2>1, <2>2
<1>14. paid \in Seq(Int) /\ Len(paid) = n /\ \A i \in 1 .. n : paid[i] = rows[i].interest
  <2>1. \A i \in 1 .. n : i \in 1 .. loan.term
    BY <1>2, <1>3
  <2>2. \A i \in 1 .. n : ledger[i].interest = rows[i].interest /\ rows[i].interest \in Int
    BY <1>5, <1>7, <2>1
  <2> QED
    BY <1>3, <1>10, <2>2
<1>15. Total(Masked(paid, booked)) = Total(paid)
  <2>1. \A i \in 1 .. Len(paid) : i \in booked
    BY <1>3, <1>7, <1>11, <1>12, <1>14
  <2>2. Masked(paid, booked) = paid
    BY <1>14, <2>1, MaskedAll
  <2> QED
    BY <2>2
<1>16. Total(Masked(listed, due)) = Total([i \in 1 .. n + 1 |-> listed[i]])
  <2>1. \A i \in 1 .. loan.term : i \in due <=> i \in 1 .. n + 1
    BY <1>2, <1>3, <1>5, <1>11, <1>12
  <2>2. CountsAs(due, 1 .. n + 1, Len(listed))
    BY <1>13, <2>1 DEF CountsAs
  <2>3. n + 1 \in 0 .. Len(listed)
    BY <1>2, <1>3, <1>13
  <2> QED
    BY <1>13, <2>2, <2>3, MaskedPrefix
<1>17. [i \in 1 .. n + 1 |-> listed[i]] = Append(paid, charge)
  <2> DEFINE longer == Append(paid, charge)
  <2>1. \A i \in 1 .. n : listed[i] = paid[i]
    <3>1. \A i \in 1 .. n : i \in 1 .. loan.term
      BY <1>2, <1>3
    <3> QED
      BY <1>13, <1>14, <3>1
  <2>2. listed[n + 1] = charge
    BY <1>2, <1>3, <1>6, <1>13
  <2>3. /\ longer = [i \in 1 .. n + 1 |-> longer[i]]
        /\ \A i \in 1 .. n : longer[i] = paid[i]
        /\ longer[n + 1] = charge
    <3>1. longer \in Seq(Int) /\ Len(longer) = n + 1
      BY <1>6, <1>14
    <3>2. (\A i \in 1 .. n : longer[i] = paid[i]) /\ longer[n + 1] = charge
      BY <1>3, <1>6, <1>14
    <3> HIDE DEF longer
    <3>3. longer = [i \in 1 .. n + 1 |-> longer[i]]
      BY <3>1
    <3> QED
      BY <3>2, <3>3
  <2> HIDE DEF longer
  <2>4. \A i \in 1 .. n + 1 : listed[i] = longer[i]
    BY <1>3, <2>1, <2>2, <2>3
  <2>5. longer = [i \in 1 .. n + 1 |-> listed[i]]
    BY <2>3, <2>4
  <2> QED
    BY <2>5 DEF longer
<1>18. Total(Append(paid, charge)) = Total(paid) + charge /\ Total(paid) \in Int
  BY <1>6, <1>14, TotalAppend, TotalType
<1>19. AccruedInterest(rows, asOf) = SumInterestPaid(asOf) + charge
       /\ SumInterestPaid(asOf) \in Int
  BY <1>8, <1>9, <1>15, <1>16, <1>17, <1>18
<1> QED
  BY <1>3, <1>4, <1>19 DEF rows, asOf, charge

LEMMA PlainPayoff ==
  ASSUME IInv, PlainInv, Plain
  PROVE  Payoff(NextPeriod)
           = Summary.nextPayment + (Summary.outstanding - Summary.nextPrincipal)
<1> DEFINE next   == RemainingSchedule[1]
           charge == MulRateMicro(Outstanding, loan.rate)
           before == SumInterestPaid(NextPeriod)
<1>1. /\ before \in Int
      /\ AccruedInterest(Build(FullSchedule), NextPeriod) = before + charge
  BY AccruedIsPaidAndNext
<1>2. Outstanding \in Int /\ charge \in Int /\ PaidPeriods \in Nat /\ loan.term \in Nat
  BY DerivedTypes, MulRateMicroType DEF IInv
<1>3. HasPlan
  BY <1>2 DEF PlainInv, OnPlan, HasPlan, HasPlanOf, Outstanding, PaidPeriods
<1>4. /\ RemainingSchedule # << >>
      /\ next.principal \in Nat /\ next.interest = charge
      /\ next.payment = next.principal + next.interest
  BY <1>3, NextRow
<1>5. Payoff(NextPeriod)
        = Outstanding + AccruedInterest(Build(FullSchedule), NextPeriod) - before
  BY DEF Payoff
<1>6. /\ Summary.outstanding = Outstanding /\ Summary.nextPayment = next.payment
      /\ Summary.nextPrincipal = next.principal
  BY <1>4 DEF Summary
<1> HIDE DEF next, charge, before
<1> QED
  BY <1>1, <1>2, <1>4, <1>5, <1>6

\* For an equal_installment loan that was never recast, Payoff, which goes back
\* to the plan of the first day, and Summary, which rebuilds the plan from the
\* ledger, agree to the cent at every point of the loan's life.
THEOREM PayoffAlwaysNextPaymentAndRest == ReadsSpec => []PayoffIsNextPaymentAndRest
<1>1. ASSUME IInv, PlainInv PROVE PayoffIsNextPaymentAndRest
  <2> SUFFICES ASSUME Plain
               PROVE  /\ ~BuildRejects(FullSchedule)
                      /\ Payoff(NextPeriod)
                           = Summary.nextPayment + (Summary.outstanding - Summary.nextPrincipal)
    BY DEF PayoffIsNextPaymentAndRest, Plain
  <2> QED
    BY <1>1, PlainPayoff DEF PlainInv, FirstTerms
<1> QED
  BY <1>1, ReadsInvariance, PlainInvariance, PTL
==============================================================================
