----------------------------- MODULE Operations -----------------------------
(***************************************************************************)
(* The operations of the service over a whole database: what a request is  *)
(* refused with, which statements it executes, and what they leave.  The   *)
(* plan of a loan and the rows written for it are those of module          *)
(* LoanState, applied to the rows of the loan in the database.             *)
(***************************************************************************)
EXTENDS LoanState, FiniteSetsExt

CONSTANT MaxRemaining   \* bound: the longest term a recast searches

-----------------------------------------------------------------------------
(* The database. *)

\* A table is the sequence of its rows in insertion order; the random id of a
\* row is its place.  owner is the borrower of a loan and the loan of a payment.
Tables == {"borrowers", "loans", "payments"}

\* A file before its first Open: no table has a row, the counter of the meta
\* table (next) does not exist.
NewFile == [next |-> 0, borrowers |-> << >>, loans |-> << >>, payments |-> << >>]

\* The tables have the columns of the schema.
IsTable(rows) ==
  /\ rows \in Seq(Range(rows))
  /\ \A i \in 1 .. Len(rows) :
       DOMAIN rows[i] = {"row", "owner", "stamp"} /\ rows[i].stamp \in Nat

IsDatabase(d) ==
  /\ DOMAIN d = Tables \cup {"next"}
  /\ d.next \in Nat
  /\ \A t \in Tables : IsTable(d[t])

Exists(d, table, id) == id \in 1 .. Len(d[table])

LoanRow(d, l) == IF Exists(d, "loans", l) THEN d.loans[l].row ELSE NoLoan

\* The payment rows of a loan, in the order of the table.
LedgerOf(d, l) ==
  LET among[n \in 0 .. Len(d.payments)] ==
        IF n = 0 THEN << >>
        ELSE IF d.payments[n].owner = l THEN Append(among[n - 1], d.payments[n].row)
        ELSE among[n - 1]
  IN  among[Len(d.payments)]

\* Mutant: every Open writes the counter.
Opened_Reseeds(d) == [d EXCEPT !.next = 1]

\* Open applies the schema, which seeds the counter unless it exists.
Opened(d) == IF d.next = 0 THEN [d EXCEPT !.next = 1] ELSE d

-----------------------------------------------------------------------------
(* Requests, by the handler that serves them. *)

NoRequest == [kind |-> "none"]

\* The reads, by what they name.  accrued-interest is served as schedule is;
\* cashflow is schedule, balance and list_payments one after another (module
\* LoanReads).  What selects or limits the rows of a list is left out.
PortfolioReads == {"stats", "recompute", "borrowers", "loans", "payments"}

BorrowerReads == {"get_borrower", "borrower_loans"}

LoanReads == {"get_loan", "list_payments", "schedule", "summary", "projection"}

\* asOf is -1 in a query without as_of, and below in one that does not parse.
RequestForms ==
       [kind : {"borrower"} \cup PortfolioReads]
  \cup [kind : BorrowerReads, borrower : Nat]
  \cup [kind : LoanReads, loan : Nat]
  \cup [kind : {"balance", "payoff"}, loan : Nat, asOf : Int]
  \cup [kind : {"get_payment"}, loan : Nat, payment : Nat]
  \cup [kind : {"create"}, borrower : Nat, principal : Int, rate : Int,
        periods : Int, type : LoanTypes]
  \cup [kind : {"cancel"}, loan : Nat]
  \cup [kind : {"pay"}, loan : Nat, amount : Int]
  \cup [kind : {"prepay"}, loan : Nat, amount : Int,
        strategy : {"reduce_term", "reduce_payment"}]
  \cup [kind : {"rate"}, loan : Nat, rate : Int]

IsRead(req) ==
  req.kind \in PortfolioReads \cup BorrowerReads \cup LoanReads
                 \cup {"balance", "payoff", "get_payment"}

\* Refused with 400 before any transaction begins.
Malformed(req) ==
  \/ /\ req.kind = "create"
     /\ ~GoodTerms(req.principal, req.rate, req.periods, req.type)
  \/ req.kind \in {"pay", "prepay"} /\ req.amount <= 0
  \/ req.kind = "rate" /\ req.rate < 0
  \/ req.kind \in {"balance", "payoff"} /\ req.asOf < -1

RecastOf(d, req) ==
  LET loan   == LoanRow(d, req.loan)
      ledger == LedgerOf(d, req.loan)
      owed   == OutstandingOf(loan, ledger)
  IN  IF req.kind = "rate"
      THEN RecastInput(loan, ledger, owed, req.rate)
      ELSE RecastInput(loan, ledger, owed - req.amount, loan.rate)

-----------------------------------------------------------------------------
(* What a transaction answers: the status code of its first failing check. *)

Accepted == 200

Lookup(d, table, id) == IF Exists(d, table, id) THEN Accepted ELSE 404

\* A payment is looked up together with its loan.
PaymentLookup(d, l, p) ==
  IF /\ Exists(d, "loans", l)
     /\ Exists(d, "payments", p) /\ d.payments[p].owner = l
  THEN Accepted ELSE 404

\* loadState.
LoadRefusal(d, l) ==
  IF ~Exists(d, "loans", l) THEN 404
  ELSE IF LoadFailsOf(LoanRow(d, l), LedgerOf(d, l)) THEN 500
  ELSE Accepted

\* The plan of the first day is built after loadState; its error is not wrapped.
PayoffRefusal(d, l) ==
  IF LoadRefusal(d, l) # Accepted THEN LoadRefusal(d, l)
  ELSE IF BuildRejects(FullScheduleOf(LoanRow(d, l))) THEN 500
  ELSE Accepted

\* loadState, then the checks RecordPayment, Prepay and ChangeRate share.
OpenRefusal(d, l) ==
  IF LoadRefusal(d, l) # Accepted THEN LoadRefusal(d, l)
  ELSE IF \/ LoanRow(d, l).status # "active"
          \/ FullyPaidOf(LoanRow(d, l), LedgerOf(d, l)) THEN 409
  ELSE Accepted

PayRefusal(d, req) ==
  LET plan == RemainingScheduleOf(LoanRow(d, req.loan), LedgerOf(d, req.loan))
  IN  IF plan = << >> THEN 409
      ELSE IF req.amount # plan[1].payment THEN 422
      ELSE Accepted

\* The errors of a recast are not wrapped: they are answered with 500.
PrepayRefusal(d, req) ==
  LET loan == LoanRow(d, req.loan)
      in   == RecastOf(d, req)
  IN  IF req.amount > OutstandingOf(loan, LedgerOf(d, req.loan)) THEN 422
      ELSE IF req.strategy = "reduce_term"
      THEN IF loan.type # "equal_installment" THEN 400
           ELSE IF ReduceTermRejects(in) THEN 500 ELSE Accepted
      ELSE IF ReducePaymentRejects(in) THEN 500 ELSE Accepted

RateRefusal(d, req) ==
  LET in == RecastOf(d, req)
  IN  IF Recasts(in) /\ RateChangeRejects(in) THEN 400 ELSE Accepted

\* Mutant: the ledger is not consulted.
CancelRefusal_Unchecked(d, req) ==
  IF ~Exists(d, "loans", req.loan) THEN 404
  ELSE IF LoanRow(d, req.loan).status # "active" THEN 409
  ELSE Accepted

CancelRefusal(d, req) ==
  IF ~Exists(d, "loans", req.loan) THEN 404
  ELSE IF \/ LoanRow(d, req.loan).status # "active"
          \/ LedgerOf(d, req.loan) # << >> THEN 409
  ELSE Accepted

Refusal(d, req) ==
  CASE req.kind \in {"create"} \cup BorrowerReads -> Lookup(d, "borrowers", req.borrower)
    [] req.kind \in {"get_loan", "list_payments", "balance"} -> Lookup(d, "loans", req.loan)
    [] req.kind = "get_payment" -> PaymentLookup(d, req.loan, req.payment)
    [] req.kind \in {"schedule", "summary", "projection"} -> LoadRefusal(d, req.loan)
    [] req.kind = "payoff" -> PayoffRefusal(d, req.loan)
    [] req.kind = "cancel" -> CancelRefusal(d, req)
    [] req.kind \in {"pay", "prepay", "rate"} ->
         IF OpenRefusal(d, req.loan) # Accepted THEN OpenRefusal(d, req.loan)
         ELSE IF req.kind = "pay" THEN PayRefusal(d, req)
         ELSE IF req.kind = "prepay" THEN PrepayRefusal(d, req)
         ELSE RateRefusal(d, req)
    [] req.kind = "recompute" ->
         IF \E l \in 1 .. Len(d.loans) : LoadFailsOf(LoanRow(d, l), LedgerOf(d, l))
         THEN 500 ELSE Accepted
    [] OTHER -> Accepted

-----------------------------------------------------------------------------
(* What an accepted request writes: at most one stamped row and at most    *)
(* one updated loan.                                                       *)

NoEffect == [table |-> "none", owner |-> 0, row |-> NoLoan, loan |-> 0, after |-> NoLoan]

Insert(table, owner, row) ==
  [table |-> table, owner |-> owner, row |-> row, loan |-> 0, after |-> NoLoan]

Update(effect, l, after) ==
  [table |-> effect.table, owner |-> effect.owner, row |-> effect.row,
   loan |-> l, after |-> after]

PayEffect(d, req) ==
  LET loan   == LoanRow(d, req.loan)
      ledger == LedgerOf(d, req.loan)
      next   == RemainingScheduleOf(loan, ledger)[1]
      after  == AfterPayment(loan, ledger, next)
      row    == Insert("payments", req.loan, ScheduledRow(next))
  IN  IF after = loan THEN row ELSE Update(row, req.loan, after)

PrepayEffects(d, req) ==
  LET l    == req.loan
      loan == LoanRow(d, l)
      in   == RecastOf(d, req)
      row  == Insert("payments", l, PrepaymentRow(loan, LedgerOf(d, l), req.amount))
  IN  IF req.strategy = "reduce_term"
      THEN {Update(row, l, ReducedTerm(loan, in, term)) :
              term \in RecastReduceTerm(in, MaxRemaining)}
      ELSE {Update(row, l, ReducedPayment(loan, in))}

\* A set: the term a recast solves for is not always unique.
Effects(d, req) ==
  CASE req.kind = "borrower" -> {Insert("borrowers", 0, NoLoan)}
    [] req.kind = "create" ->
         {Insert("loans", req.borrower,
                 NewLoan(req.principal, req.rate, req.periods, req.type))}
    [] req.kind = "cancel" ->
         {Update(NoEffect, req.loan, [LoanRow(d, req.loan) EXCEPT !.status = "canceled"])}
    [] req.kind = "pay" -> {PayEffect(d, req)}
    [] req.kind = "prepay" -> PrepayEffects(d, req)
    [] req.kind = "rate" ->
         {Update(NoEffect, req.loan, Refinanced(LoanRow(d, req.loan), RecastOf(d, req)))}
    [] OTHER -> {NoEffect}

-----------------------------------------------------------------------------
(* The statements. *)

\* NextSeq bumps the counter and consumes the value it had.
Bumped(d) == [d EXCEPT !.next = @ + 1]

Inserted(d, effect, seq) ==
  [d EXCEPT ![effect.table] =
     Append(@, [row |-> effect.row, owner |-> effect.owner, stamp |-> seq])]

\* Mutant: the statement has lost its WHERE clause.
Updated_EveryLoan(d, effect) ==
  IF effect.loan = 0 THEN d
  ELSE [d EXCEPT !.loans = [l \in DOMAIN @ |-> [@[l] EXCEPT !.row = effect.after]]]

Updated(d, effect) ==
  IF effect.loan = 0 THEN d ELSE [d EXCEPT !.loans[effect.loan].row = effect.after]

\* The database after all statements of an operation.
Outcome(d, effect) ==
  Updated(IF effect.table = "none" THEN d ELSE Inserted(Bumped(d), effect, d.next), effect)

\* The databases a request may leave: none when it is refused or only reads.
Outcomes(d, req) ==
  IF Malformed(req) \/ Refusal(d, req) # Accepted THEN {}
  ELSE {Outcome(d, effect) : effect \in Effects(d, req) \ {NoEffect}}

-----------------------------------------------------------------------------
(* The reads, one element for each statement they execute: what is answered *)
(* is computed from these, in memory.                                       *)

Sum(f) == MapThenSumSet(LAMBDA i : f[i], DOMAIN f)

ActiveLoans(d) == {l \in 1 .. Len(d.loans) : d.loans[l].row.status = "active"}

LoansByStatus(d) ==
  [status \in {d.loans[l].row.status : l \in 1 .. Len(d.loans)} |->
     Cardinality({l \in 1 .. Len(d.loans) : d.loans[l].row.status = status})]

PrincipalOut(d) ==
  Sum([l \in ActiveLoans(d) |-> d.loans[l].row.principal])
    - Sum([p \in {q \in 1 .. Len(d.payments) : d.payments[q].owner \in ActiveLoans(d)} |->
             d.payments[p].row.principal])

InterestPaid(d) ==
  Sum([p \in {q \in 1 .. Len(d.payments) : d.payments[q].row.type = "scheduled"} |->
         d.payments[p].row.interest])

Stats(d) ==
  <<LoansByStatus(d), PrincipalOut(d), InterestPaid(d), Len(d.borrowers), Len(d.payments)>>

\* Whether each loan, in the order of the list, drifts.
Recompute(d) == [l \in 1 .. Len(d.loans) |-> DriftsOf(LoanRow(d, l), LedgerOf(d, l))]

\* Rows by their places: all rows of an owner, or at most one.
OwnedBy(d, table, owner) == {i \in 1 .. Len(d[table]) : d[table][i].owner = owner}

Found(d, table, id) == IF Exists(d, table, id) THEN {id} ELSE {}

\* The queries of loadState, of each loan it is called for.
LoadQueries(d, l) == <<LoanRow(d, l), LedgerOf(d, l), PaidPeriodsOf(LedgerOf(d, l))>>

\* Balance reads the ledger, which it does not use, and its sum as of a period:
\* of the payments below the one before, or of all.
BalanceQueries(d, l, asOf) ==
  LET ledger  == LedgerOf(d, l)
      counted == {i \in 1 .. Len(ledger) : asOf < 0 \/ ledger[i].seq < asOf - 1}
  IN  <<LoanRow(d, l), ledger,
        Total([i \in 1 .. Len(ledger) |->
                 IF i \in counted THEN ledger[i].principal ELSE 0])>>

Readings(d, req) ==
  CASE req.kind = "stats"          -> Stats(d)
    [] req.kind = "recompute"      -> Recompute(d)
    [] req.kind \in {"borrowers", "loans", "payments"} -> <<d[req.kind]>>
    [] req.kind = "get_borrower"   -> <<Found(d, "borrowers", req.borrower)>>
    [] req.kind = "borrower_loans" -> <<Found(d, "borrowers", req.borrower),
                                        OwnedBy(d, "loans", req.borrower)>>
    [] req.kind = "get_loan"       -> <<LoanRow(d, req.loan)>>
    [] req.kind = "list_payments"  -> <<LoanRow(d, req.loan), LedgerOf(d, req.loan)>>
    [] req.kind = "get_payment"    -> <<LoanRow(d, req.loan),
                                        Found(d, "payments", req.payment)
                                          \cap OwnedBy(d, "payments", req.loan)>>
    [] req.kind = "balance"        -> BalanceQueries(d, req.loan, req.asOf)
    [] OTHER                       -> LoadQueries(d, req.loan)
=============================================================================
