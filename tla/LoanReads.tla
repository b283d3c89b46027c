------------------------------ MODULE LoanReads ------------------------------
(***************************************************************************)
(* The read operations of internal/loan over the state of Loan, and the    *)
(* one reader that is not atomic: Cashflow, which assembles its answer     *)
(* from three transactions while payments, prepayments and refinancings    *)
(* commit between them.                                                    *)
(*                                                                         *)
(* Every read recomputes what it answers from the row and the ledger; none *)
(* writes.  A read of one transaction is therefore an operator over the    *)
(* current state, and only Cashflow has a state of its own.                *)
(***************************************************************************)
EXTENDS Loan, FiniteSetsExt

VARIABLES cashflow,  \* the Cashflow request being served
          recast     \* history: the row was recast since it was created

readVars == <<loan, ledger, cashflow, recast>>

-----------------------------------------------------------------------------
(* Reading schedules and ledgers. *)

\* The principal, and the interest, of the rows at the places counted.
PrincipalIn(rows, counted) ==
  Total([i \in 1 .. Len(rows) |-> IF i \in counted THEN rows[i].principal ELSE 0])

InterestIn(rows, counted) ==
  Total([i \in 1 .. Len(rows) |-> IF i \in counted THEN rows[i].interest ELSE 0])

\* Mutant: the period asked for is not counted.
AccruedInterest_Exclusive(rows, asOf) ==
  InterestIn(rows, {i \in 1 .. Len(rows) : rows[i].number < asOf})

AccruedInterest(rows, asOf) ==
  InterestIn(rows, {i \in 1 .. Len(rows) : rows[i].number <= asOf})

SumPrincipalPaid(limit) ==
  PrincipalIn(ledger, {i \in 1 .. Len(ledger) : ledger[i].seq < limit})

SumInterestPaid(asOf) ==
  InterestIn(ledger, {i \in 1 .. Len(ledger) : ledger[i].seq <= asOf})

-----------------------------------------------------------------------------
(* The reads of one transaction. *)

\* Balance with as_of >= 0, and without.
BalanceAsOf(asOf) == loan.principal - SumPrincipalPaid(asOf - 1)

CurrentBalance == loan.principal - PrincipalOf(ledger)

FullSchedule == FullScheduleOf(loan)

NextPeriod == NextUnpaidPeriod(PaidPeriods, loan.term)

Payoff(asOf) ==
  Outstanding + AccruedInterest(Build(FullSchedule), asOf) - SumInterestPaid(asOf)

\* The part of the summary about the next payment; what was paid are the sums
\* of the ledger.
Summary ==
  LET next == IF RemainingSchedule = << >>
              THEN [payment |-> 0, principal |-> 0]
              ELSE RemainingSchedule[1]
  IN  [outstanding   |-> Outstanding,
       nextPayment   |-> next.payment,
       nextPrincipal |-> next.principal]

\* The rest of the plan, or its first limit rows.
Projection(limit) ==
  IF limit > 0 /\ limit < Len(RemainingSchedule)
  THEN SubSeq(RemainingSchedule, 1, limit)
  ELSE RemainingSchedule

\* The principal of a paid period in the full schedule: of the last scheduled
\* payment stamped with its number, 0 when no payment is.
PaidPrincipal(n) ==
  LET stamped == {i \in Scheduled(ledger) : ledger[i].seq = n}
  IN  IF stamped = {} THEN 0 ELSE ledger[Max(stamped)].principal

\* total_principal_cents of the full schedule: the paid periods, which are
\* looked up by seq, and the remaining plan.
ScheduleTotalPrincipal ==
  Total([n \in 1 .. PaidPeriods |-> PaidPrincipal(n)]) + SumPrincipal(RemainingSchedule)

\* Prepayments are booked together with the scheduled payments.
BookedAs(type) == IF type = "prepayment" THEN "scheduled" ELSE type

\* Mutant: prepayments are left out instead.
LedgerBreakdown_ScheduledOnly ==
  [type \in {ledger[i].type : i \in Scheduled(ledger)} |->
     PrincipalIn(ledger, {i \in Scheduled(ledger) : ledger[i].type = type})]

\* The principal booked under each type; interest, amount and count are
\* accumulated in the same way.
LedgerBreakdown ==
  [type \in {BookedAs(ledger[i].type) : i \in 1 .. Len(ledger)} |->
     PrincipalIn(ledger, {i \in 1 .. Len(ledger) : BookedAs(ledger[i].type) = type})]

-----------------------------------------------------------------------------
(* Cashflow: Schedule, then Balance, then LedgerBreakdown. *)

NoCashflow == [step |-> "idle", future |-> 0, balance |-> 0, ledger |-> << >>,
               remaining |-> 0]

ReadsInit == Init /\ cashflow = NoCashflow /\ recast = FALSE

\* The first transaction; an unknown loan or one whose plan cannot be rebuilt
\* ends the request.
ReadSchedule ==
  /\ cashflow.step = "idle"
  /\ loan.status # "none" /\ ~LoadFails
  /\ cashflow' = [cashflow EXCEPT !.step = "schedule", !.future = ScheduleTotalPrincipal]
  /\ UNCHANGED <<loan, ledger, recast>>

ReadBalance ==
  /\ cashflow.step = "schedule"
  /\ cashflow' = [cashflow EXCEPT !.step = "balance", !.balance = CurrentBalance]
  /\ UNCHANGED <<loan, ledger, recast>>

\* The last transaction completes the answer: remaining_principal_cents adds up
\* what the first two read.
ReadLedger ==
  /\ cashflow.step = "balance"
  /\ cashflow' = [cashflow EXCEPT !.step      = "answered",
                                  !.ledger    = LedgerBreakdown,
                                  !.remaining = cashflow.future + cashflow.balance]
  /\ UNCHANGED <<loan, ledger, recast>>

\* The answer is sent, and the next request may come.
Answer ==
  /\ cashflow.step = "answered"
  /\ cashflow' = NoCashflow
  /\ UNCHANGED <<loan, ledger, recast>>

Write ==
  /\ Next
  /\ recast' = \/ recast
               \/ /\ loan.status # "none"
                  /\ \E field \in {"rate", "payment", "term"} : loan'[field] # loan[field]
  /\ UNCHANGED cashflow

ReadsNext ==
  \/ Write
  \/ ReadSchedule
  \/ ReadBalance
  \/ ReadLedger
  \/ Answer

ReadsSpec == ReadsInit /\ [][ReadsNext]_readVars

-----------------------------------------------------------------------------
(* What holds. *)

BookedUnder(type) == IF type \in DOMAIN cashflow.ledger THEN cashflow.ledger[type] ELSE 0

\* The three parts of a Cashflow answer may stem from three different states,
\* but they err in one direction: what the future schedule still collects is
\* at least the balance, and the ledger has returned at least what the balance
\* says was returned.  No payment is counted in the balance and missing in
\* the ledger the client reconciles it with.  The sum answered as the remaining
\* principal therefore counts what is still owed at least twice.
CashflowErrsForward ==
  cashflow.step = "answered" =>
    /\ cashflow.future >= cashflow.balance
    /\ cashflow.remaining >= 2 * Outstanding
    /\ cashflow.balance
         >= loan.principal - (BookedUnder("scheduled") + BookedUnder("prepayment"))

NeverRecast == ~recast /\ \A i \in 1 .. Len(ledger) : ledger[i].type = "scheduled"

\* Payoff goes back to the plan of the first day, Summary to the plan rebuilt
\* from the ledger.  For an equal_installment loan that was never recast the
\* two agree: closing it now costs the next payment and the balance it leaves.
PayoffIsNextPaymentAndRest ==
  loan.status = "active" /\ loan.type = "equal_installment" /\ NeverRecast
    => /\ ~BuildRejects(FullSchedule)
       /\ Payoff(NextPeriod)
            = Summary.nextPayment + (Summary.outstanding - Summary.nextPrincipal)

Amounts(rows) ==
  [i \in 1 .. Len(rows) |-> <<rows[i].principal, rows[i].interest, rows[i].balance>>]

\* A projection is what will be paid: recording the next payment leaves the
\* rest of every projection as it was, for every type of loan and after any
\* recasts, although the plan is rebuilt from a smaller balance and fewer periods.
ProjectionOutlivesPayment ==
  [][RecordPayment /\ loan'.status = "active" =>
       \A limit \in 1 .. loan.term :
         Amounts(Projection(limit))' = Tail(Amounts(Projection(limit + 1)))]_readVars

\* Of all requests on an open loan only a scheduled payment changes a balance as
\* of a period that was already paid: stamped 0, it lowers every one from the
\* second on by the principal it returns.  The number a prepayment is stamped
\* with stays above every period paid so far.
PastBalancesMoveByPayments ==
  [][loan.status = "active" =>
       \A asOf \in 0 .. PaidPeriods :
         BalanceAsOf(asOf)' =
           BalanceAsOf(asOf)
             - (IF RecordPayment /\ asOf > 1 THEN RemainingSchedule[1].principal
                                             ELSE 0)]_readVars

-----------------------------------------------------------------------------
(* What comments and tests of the code say, and the code does not do.      *)

\* service_test.go:257: "outstanding(as_of) = principal - sum(principal paid
\* with seq <= as_of)".
AsOfBalanceFromLedger ==
  \A asOf \in 0 .. loan.term :
    BalanceAsOf(asOf) = loan.principal - SumPrincipalPaid(asOf + 1)
=============================================================================
