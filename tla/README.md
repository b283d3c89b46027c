# loanamort: a TLA+ verification of the loan engine

The program is a small service that keeps loans: it amortizes them, records
scheduled payments, recasts them after prepayments and rate changes, and rebuilds
everything it reports from an append-only ledger in SQLite. This directory holds
its specification in TLA+, the TLC runs that model-check it and the proofs TLAPS
checks about it. Source lines below are relative to `src/internal/`.

## 1. Inventory

| component | state | operations | interacts with |
| --- | --- | --- | --- |
| money and rates (`domain/`) | none | `RoundCents`, `MulRateMicro`, rate conversions, `ValidateLoanTerms` | called by all |
| amortization math (`amort/`) | none | `PaymentAmount`, `Build`, `BuildFixedPayment`, `RecastReduceTerm`, `RecastReducePayment`, `RecastRateChange`, `ValidateSchedule`, sums | called by the loan service |
| loan operations (`loan/service.go`, `derived.go`) | one row per loan, one ledger per loan | `CreateLoan`, `CancelLoan`, `RecordPayment`, `Prepay`, `ChangeRate`, all through `loadState` | amortization math, store |
| loan reads (`loan/service.go`, `ledger.go`, `cashflow.go`) | none | `Schedule`, `Balance`, `Payoff`, `Summary`, `Projection`, `LedgerBreakdown`, `Cashflow` | `loadState`, store |
| portfolio (`loan/service.go`) | all loans | `Stats`, `Recompute`, lists | `loadState`, store |
| borrowers (`borrower/`) | one row per borrower | create, look up | store; `CreateLoan` requires one |
| transactions and store (`store/`) | tables `borrowers`, `loans`, `payments`, `meta` | `Open`, `BeginTx`, `NextSeq`, inserts, `UpdateLoan`, queries | SQLite, one connection |
| HTTP API (`httpapi/`) | the requests being served | one handler per operation, errors to status codes | the service |
| process (`main.go`) | up, draining, down | start, graceful shutdown with a deadline | store, HTTP server |
| self check (`selfcheck/`) | none | scripted acceptance run | everything, as a client |

Hard behaviour, and what makes each component correct:

* The program stores no derived value except `CurrentPayment`. After any mix of
  payments, prepayments and refinancings the plan rebuilt from (rate, term,
  payment, ledger) must exist, must collect exactly what is owed and must lead to
  a settled loan. This is a property of *sequences* of legal requests; the unit
  tests look at one recast at a time.
* Rounding: a cent is lost or gained in every period, the last period absorbs it.
  The plans must close to the cent for every principal, rate and term.
* A loan is closed by the payment that settles it, and by nothing else; a closed
  or canceled loan does not change.
* Handlers run concurrently, on one SQLite connection with immediate
  transactions. That makes an operation atomic only if every way out of a
  transaction (a refusal, a failed statement, a failed COMMIT, a canceled context)
  rolls back *and* gives the connection back; a request that composes several
  transactions (`Cashflow` is one) is not atomic at all.
* The sequence counter and the rows it stamps are written by different
  statements, and every `Open` seeds the counter: they must stay in step through
  rollbacks, crashes, restarts and, with `synchronous=NORMAL`, power failures.
* There is no idempotency key: a client that lost an answer and asks again repeats
  the operation. No row may come of a request that failed, and a client may not
  be told of a row that is not there.

`PROJECT.json` lists each hazard at its line with the property that covers it.

## 2. Modules

| module | models |
| --- | --- |
| `Amort` | the pure operators of `amort/` and the money primitives of `domain/` |
| `AmortCalls` | the calls the service makes into `amort/`, one at a time, with reference definitions for their results |
| `LoanState` | one loan as a value: what the service derives from its row and ledger, the rows its operations write, what holds of every stored loan (`Healthy`) |
| `Loan` | one loan over time: its row, its ledger, the five operations that write them |
| `LoanContract` | the abstract specification: what a loan promises its owner |
| `LoanReads` | the read operations over `Loan`, and `Cashflow` as a reader that interleaves with the writers |
| `Operations` | every request of the mux over a whole database, reads included: with which status it is refused, which statements it executes, what they leave |
| `Portfolio` | the abstract specification: what the service promises about the database |
| `Service` | handlers, transactions on the only connection, clients that hang up, faults, the process and the machine |
| `AmortProofs` | proofs about `Amort` |
| `AmortCallsProofs` | proofs about `AmortCalls`: plans close, present value, rounding drift, solved terms, shapes |
| `LoanStateProofs` | proofs about `LoanState`: what each operation does to a loan, that all keep it healthy, what a recast refuses, how long a term it solves for |
| `LoanProofs` | proofs about `Loan`: the inductive invariant, its consequences, the refinement |
| `LoanReadsProofs` | proofs about `LoanReads`: it implements `Loan`; `Cashflow`, payoff, projections, as-of balances |
| `ServiceProofs` | proofs about `Service`: dense stamps, stored answers, accounted rows, snapshot reads, the refinement of `Portfolio` |
| `ServiceLoansProofs` | proofs about the loans in the database of `Service`: coherence, the refinement of `Loan` by each, when a request, read or write, is answered with 500 |
| `MCAmort`, `MCLoan`, `MCLoanReads`, `MCService` | the instances for TLC |

**Amort.** Money is an integer number of cents, a rate an integer over
`RateMicroScale`. Each loop of `schedule.go` and `balance.go` is a `Fold`, a
recursive *function*, so that the prover can unfold it for every number of
periods; the builders differ only in the principal they make due in period `i`
when `b` is owed (`due[i][b]`). A Go function that can fail is two operators,
`XRejects(in)` and `X(in)`. float64 is modelled by the exact rational and the
rounding the code applies to it. The only place where a float decides an integer
through a ceiling, `RecastReduceTerm`, is a *set* of terms: the least sufficient
one and, where the logarithm is an integer, its successor.

**LoanState.** A loan is a pair of values: `loan`, the row (`store.go:25`), and
`ledger`, its payment rows in commit order. `OutstandingOf`, `PaidPeriodsOf`,
`RemainingScheduleOf`, `LoadFailsOf` are the derived state `loadState` recomputes;
`GoodTerms`, `NewLoan`, `ScheduledRow`, `AfterPayment`, `RecastInput`,
`PrepaymentRow`, `ReducedTerm`, `ReducedPayment`, `Refinanced` are what the
operations check and write. `Loan` applies them to its two variables, `Operations`
to every loan of a database.

**Loan.** One action per operation:

| action | code | notes |
| --- | --- | --- |
| `CreateLoan` | `service.go:139-196` | validates and builds the plan, stores the annuity payment for every type |
| `CancelLoan` | `service.go:228-253` | does not call `loadState` |
| `RecordPayment` | `service.go:524-578` | amount must equal the first row of the plan and be positive |
| `PrepayReducingTerm`, `PrepayReducingPayment` | `service.go:590-677` | the two strategies, with `RecastReduceTerm`, `RecastReducePayment` |
| `ChangeRate` | `service.go:687-729` | plans with `RecastRateChange`, stores its first payment |

In `Loan` an operation is one atomic action. That this is sound, although each
executes several statements among concurrent handlers and faults, is what `Service`
shows (`EveryLoanKeepsItsSpec`: every commit is a step of `Loan`). A refused request
changes nothing and is the action being disabled. Left out of the row: identifiers,
the borrower, `created_seq`, and the display fields (`annual_rate_percent`,
`original_*`).

**LoanReads.** A read of one transaction changes nothing and is an operator over
the state of `Loan`: `BalanceAsOf` and `CurrentBalance` (`Balance`), `Payoff`,
`Summary`, `Projection`, `ScheduleTotalPrincipal` (the total of `Schedule`, with
paid periods looked up by `seq`), `LedgerBreakdown`. `Cashflow` calls three of
them in three transactions: it is the variable `cashflow` and the actions
`ReadSchedule`, `ReadBalance`, `ReadLedger`, with any write of `Loan` between them
(`Write`), and `Answer`, which sends it. `remaining` is the sum `cashflow.go:27` answers
as the remaining principal. `recast` is a history variable that no action reads; it
says whether a prepayment or refinancing ever changed the row.

**Operations.** A database is the counter of the `meta` table and three sequences
of rows `[row, owner, stamp]`; the random id of a row is its place. The checks and
effects of a request are the operators of `LoanState` on the row (`LoanRow(d, l)`)
and the ledger (`LedgerOf(d, l)`) of the loan it names. `Refusal(d, req)` is the
status of the first failing check, in the order of the code (404 unknown, 500
where an error is not wrapped, 409 wrong state, 422 wrong amount, 400 wrong
kind); `Malformed` are the checks before any transaction. `Effects(d, req)` is
what an accepted request has decided to write: at most one stamped row, at most
one updated loan; a set, because a solved term is not always unique. `Bumped`,
`Inserted` and `Updated` are the statements `NextSeq`, the inserts and
`UpdateLoan`, and `Outcome` all of them. A read is the sequence of what its queries
return (`Readings`), with one element for each query: `LoadQueries` those of
`loadState`, `BalanceQueries` those of `Balance`, `Stats`, `Recompute`, and the rows of
the lookups and lists, by their places. `RequestForms` holds every request of
`api.go:37-67`, but that `accrued-interest` is served as `schedule` is and `cashflow`
is `schedule`, `balance` and `list_payments` one after another (`LoanReads`).

**Portfolio** (abstract). `log` is the sequence of committed states of the
database, `synced` how many of them no failure can take away. A step serves one
request on the last state (`Serve`), applies the schema (`Open`), makes commits
durable (`Harden`) or loses a suffix that is not (`Lose`).

**Service** (detailed). `handler[h]` is one HTTP handler: where it is (`pc`), the
request, whether its client is `gone`, the database as its transaction sees it
(`tx`), the effect decided on, the stamp consumed, what its queries returned and
the status it answers with. `conn` is the holder of the pooled connection.

| action | code |
| --- | --- |
| `Receive` | a handler of `httpapi/api.go` decodes and validates |
| `Begin` | `BeginTx`, `store.go:27-53`: waits for the only connection, immediate |
| `Refuse` | the function passed to `inTx` returns an error: rollback, `service.go:952-955` |
| `Decide` | `loadState` and all checks pass; the rows to write are computed in memory |
| `Read` | the next query of a read, e.g. of `Stats` (`service.go:797-830`) or `loadState` (`:275-298`) |
| `StampRow`, `InsertRow`, `UpdateLoan` | `NextSeq` (`store.go:55-78`), the insert, `UpdateLoan` (`:214-223`) |
| `Commit` | `service.go:956` |
| `Fail` | BEGIN, a statement or COMMIT fails, or the context is canceled |
| `HangUp` | the client closes the connection; `r.Context()` is canceled |
| `Reply` | `writeJSON` or `writeError`, `helpers.go:30-61` |
| `Checkpoint`, `Crash`, `PowerFailure` | the WAL with `synchronous=NORMAL` (`store.go:21-32`) |
| `Stop`, `Exit`, `Expire`, `Start` | `main.go:49-77`: SIGTERM, a drained shutdown, the 5 s deadline, `Open` |

A crash of the process loses nothing that was committed (the operating system has
it); a power failure loses any number of the commits since the last checkpoint,
the latest first; closing the store checkpoints. A client that got no answer may
repeat its request: `Receive` takes any request any number of times. `lost`,
`acked` and `unsure` are history variables that no action reads.

## 3. Runs

| run | constants | shows |
| --- | --- | --- |
| `amort` | scale 10; 1..40 cents; rates 0, 1, 3 (0, 10, 30 %); 1..5 periods; 9 payments | plans close; the payment is the present value within half a cent; the tail absorbs at most a compounded cent per period; the solved term is the right one; the plans have the documented shape |
| `loan` | scale 4; 9 or 12 cents; rates 0 and 25 %; 1 or 4 periods; prepayments 2 and 9; `MaxRemaining` 8 | the invariants of `Loan`, that no prepayment stores a term out of proportion to the debt, the refinement of `LoanContract`, and `PayingSettles` under `FairSpec`, over 45 705 states |
| `loan_reads` | 9 cents, 3 periods, `MaxRemaining` 6 | a `Cashflow` answer errs in one direction only, whatever commits between its reads; the payoff of a plain loan is the next payment and what it leaves; a projection survives the payments it plans; only scheduled payments move an as-of balance of the past; over 137 203 states |
| `service` | scale 4; 2 handlers; a new file and one with two loans (one prepaid in full, one not yet paid); 7 requests; `MaxCommits` 2; `MaxOutages` 1 | stamps are dense in every committed state; rows, answers and requests balance; what was answered is stored; `Stats` answers from one state; every committed state is coherent; 500 only for faults and in the known cases; the service implements `Portfolio`; every commit is a step of `Loan` for at most one loan; a waiting request gets its turn; over 236 112 states |

The scale is small on purpose. On a dozen cents at 25 % every plan rounds in most
of its rows, has a remainder, overshoots or leaves a tail, as loans of millions
do at 10^6; a small state space therefore meets all the rounding cases the
operations distinguish. Four periods are enough for two prepayments, a refinancing
and payments before, between and after them; one period is the boundary. The
theorems below hold for every scale, so the runs are not what carries the claim
for 10^6.

Bounds: `MaxRemaining` is the longest remaining term a recast is searched for; a
prepayment whose solved term is longer is not taken. In the code nothing limits that
term, but `SolvedTermWithinDebt` does: from two periods per cent owed on the bound
leaves nothing out, and on the debts of the runs the solved terms stay below it. The
ledger needs no bound: a payment uses up a period and a prepayment at least a cent.
`CHECK_DEADLOCK FALSE` is set for the loan runs because a closed or canceled loan has
nothing left to do, and for `service` because its bounds end a run.

In `service` two handlers are enough for one to wait, or to be about to answer, while
another writes; a third would only wait longer. The requests are, for the second
loan of the second file (5 cents at 100 % over 2 periods): the payment that is
accepted, which is of a wrong amount after another write, one that is malformed, a
prepayment that writes a row *and* the loan, one whose remainder `reduce_payment` fails
on (500), and which is too large once the other was made, a cancellation that writes
only the loan, and `Stats`; and the payoff of the first loan, which a full `reduce_term`
prepayment has left no period (500). On the new file all but `Stats` and the malformed
one meet an unknown loan. The other requests are covered by the theorems, which hold
for every subset of `RequestForms`. No write request arrives once `MaxCommits` usable states are in the log,
but those that are being served go on: up to two commits beyond the first, with any
interleaving of their statements, faults, hang-ups and one stop, crash or power
failure with the restart after it. The proofs of the safety properties need neither
bound.

Fairness: `FairSpec` is `WF_vars(RecordPayment)`. The service only answers
requests, so this is an assumption about the *borrower*, who keeps paying the
planned payment while it is accepted. Nothing is assumed about prepayments and
refinancings.

In `service`, `FairSpec` assumes three things. Every handler that has the
connection comes to the end of its transaction and its answer
(`[]<>(pc in {"idle", "waiting"})`): no statement of the code loops or waits for
another request. A handler whose context was canceled notices it (`WF`). And a
handler that waits again and again for a free connection gets it some day (`SF` on
`Begin`): `database/sql` hands a released connection to a waiter chosen at random,
so weak fairness would be too little and a queue too much. Nothing is assumed of
clients, faults, the operator or checkpoints; that the connection *is* given back
on each way out is what the property checks, not an assumption.

`PayingSettles` excludes interest_only loans and loans prepaid in
full: the first can reach planned payments of 0, which are refused, and the run
`loan_prepaid` shows the second stay active.

### Disagreements between the code and its comments and tests

Each is a run with `expect: violation`; `PROJECT.json` quotes the line.

| run | what the code does |
| --- | --- |
| `amort_fixed_payment` | `BuildFixedPayment` accepts a payment below the first interest (a repository test says it must not) |
| `loan_as_of` | the balance as of period `n` counts the payments with `seq < n - 1` instead of `seq <= n` |
| `loan_seq` | every scheduled payment is stored with `Seq` 0, and every prepayment after period `k` with `k + 1` |
| `loan_prepaid` | a loan prepaid in full stays active for ever |
| `loan_interest_only` | an interest_only loan is collected in installments |
| `loan_drift` | an over-collecting last payment leaves a negative outstanding principal, which `Recompute` reports as drift |
| `loan_reduce_payment` | reduce_payment plans over the whole term |
| `loan_rate_change` | a refinancing plans over one period too many |

On the number of a prepayment two comments of the repository contradict each other:
`loan/store.go:45` says `k` (the half of the line `loan_seq` quotes that its run does not
reach), `service.go:617` says the next unpaid period, which is what
the code stores. `PastBalancesMoveByPayments` states what that leads to, not what
`loan/store.go:45` promises: with `k + 1` no prepayment counts as of a period already
paid, and with scheduled payments stored as 0 each of those counts from the second
period on, whenever it was made.

Smaller ones, met while modelling and not kept as runs: once a full reduce_term
prepayment before any payment has stored term 0, GET payoff of the loan, which stays
active, fails in `Build` and is answered with 500, although `service.go:387` promises an
amount (`ServerErrorsAreKnown` names the case, and the `service` run meets it);
`buildScheduleResponse` looks paid periods up by number (`service.go:918`), under which,
all being stored with 0, it finds none and shows rows of zeros, against
`service.go:313`; `Build` returns negative rows for a cent at a high rate over several
periods, although its comment (`schedule.go:68`) excludes them (the level payment is
rounded up, the tail row pays back); the plan rebuilt for an active loan is never given to
`ValidateSchedule`, and can fail it in the same way; reduce_term can lengthen the
term by a period when the stored payment had been rounded down; an interest_only
loan refinanced to rate 0 has planned payments of 0, which `RecordPayment`
refuses; `ChangeRate` stores the first payment of the new plan, the highest one of an
equal_principal plan, as the payment of all periods, so that the rebuilt plan can
settle the loan early and then show rows with ever lower balances below zero until
the tail;
`Cashflow` answers `remaining_principal_cents` with the sum of the total
of the full schedule and the current balance, two figures that each contain what
is still owed (`cashflow.go:27`; `CashflowErrsForward` says that the sum is never less
than twice that); `handleAccruedInterest` sums rows by their absolute
number in the full schedule; `RateMicroToAnnualPercent` (`domain.go:90`)
multiplies by 1000 where the inverse conversion divides by 100, which shows in the
answer of `ChangeRate` only: `UpdateLoan` (`store.go:217`) does not store the
percentage, and every later read shows that of the first day; the errors of
`internal/amort` are not wrapped and are answered with 500, which a legal request can
reach in four ways: a prepayment with `reduce_payment` that leaves so little that the
level payment rounds to no more than the interest (of the second loan of the run,
4 of its 5 cents); one with `reduce_term` of a loan without interest whose payment had
rounded to 0; the payoff of a loan without periods (see above); and the payoff of
a loan whose principal, at the rate and term it has by now, makes such a level payment.
`ServerErrorsAreKnown` says that, statements that fail aside, no request of
`RequestForms` is answered with 500 in any other case.

## 4. Proofs

The proofs of `AmortProofs` and `LoanStateProofs` hold for every
`RateMicroScale > 0`, those of `AmortCallsProofs` for every set of positive amounts,
payments and terms and of rates >= 0, those of `LoanProofs` and `LoanReadsProofs`
for every set of integer requests and any `MaxRemaining`, those of `ServiceProofs`
and `ServiceLoansProofs` for finitely many handlers, any requests and bounds, and
the stored files that an earlier process can have left (`StoredAssumption`: the
tables have their columns, the stamps are dense and the loans coherent).
`EveryFileMayBeStored` shows that this assumption is the right one: a file without
rows meets it and so does every state the service ever commits, so that a run may
start from whatever another left. `ValuesAssumption` only says that the amounts,
rates and terms clients send are among those `Loan` is instantiated with.

**AmortProofs.** The lemma `FoldRule` unfolds a loop: a fold starts at its first value
and turns the value before step `n` into the value after it. From it: `TotalAppend`,
`PowRule` and `PowMonotone`; `MulRateMicroMonotone` (less debt, no more interest);
`PaymentAmountCoversInterest` (the rounded annuity payment is never below the
rounded first interest: rounding is monotone and `(1+r)^n / ((1+r)^n - 1) >= 1`);
`PlanConservesPrincipal` (rows and final balance add up to what was outstanding);
`BuildCloses` and `BuildFixedPaymentCloses` (the final balance is zero).

**LoanStateProofs.** No variable occurs here: the facts are about values, so that
they apply to the one loan of `Loan` and to each of a database. The invariants the
`loan` run checks are not inductive on their own. `DebtHasAPeriod` and
`LoadStateNeverFails` need to know that the stored payment services the debt; that
needs the ledger to be typed, and the type of the ledger (no negative principal)
needs the payment to cover the interest. `Healthy(loan, ledger)` is the conjunction
that closes this circle, `HealthyLoads` that `loadState` succeeds for a healthy
loan. An *effect lemma* per operation (`PaymentEffect`, `ReducedTermEffect` ...)
says what it does to the outstanding principal, the paid periods and the row, and
`PaidIsHealthy`, `ReducedTermIsHealthy` ... that it keeps the loan healthy.

`HealthyPlanNeverGrows` looks at the whole plan: as long as the payment covers the
interest of what is owed no later period can owe or cost more, whichever due
function made the plan (`NeverGrows`, by induction over its periods), so that the
float products of `domain.go:73` stay below the principal lent times the rate.

Two theorems say what the recasts do at the edge of rounding. `PaymentRejected`:
reduce_payment refuses what is left only where the exact level payment exceeds the
interest by less than a cent, `P r < (1+r)^n - 1`, in integers and for every scale.
`SolvedTermWithinDebt`: the term reduce_term solves for a kept payment, which is a
logarithm that has no bound in the code, is at most two periods per cent still owed,
and one. A payment above the rounded interest is more than half a cent above the exact one
(`ReturnsOverHalf`), compound growth outgrows simple growth
(`CompoundOutgrowsSimple`), and so the principal of the first period, returned in
each, is a bound for the whole (`AmortizesWithin`).

**LoanProofs.** `IInv` is `Healthy(loan, ledger)` written as a conjunction of the
invariants' names (`IInvIsHealthy`):

    TypeOK /\ Untouched /\ Typed /\ NotOverCollected /\ TerminalMeansSettled
           /\ PeriodLeft /\ PaymentServicesDebt

Each action is one of the relations of `LoanStateProofs` (`OperationRelations`), so
the step of the invariant, and that of the contract, are its lemmas. Proved:
`TypeOK`, `DebtHasAPeriod`, `LoadStateNeverFails`, `TerminalMeansSettled`,
`PaymentServicesDebt`, `PlanCollectsDebt`, `NextPaymentIsPayable`,
`ReduceTermNeverRefused`, `PlanNeverGrowsDebt`, `SolvedTermIsBounded` and
`Spec => KeepsContract` (the refinement). `ReduceTermNeverRefused` also bounds the float in `recast.go:58`: for
an equal_installment loan with a payment the denominator is never near zero.

**AmortCallsProofs.** The invariant `Returned` says that the state holds a call's
input and what the call returned for it; the five properties follow from it, for
every number of periods. The argument is about the rounding error. Write `S` for
the scale, `P` for the principal, `p` for the payment and `r` for the rate: after `k`
periods the balance `b` differs from that of the exact annuity by no more than half
a cent per period, compounded:

    |2 S^k b - 2 P (S+r)^k + 2 p D_k| <= D_k        (BalanceNearAnnuity)

where `D_k` is the sum of the growth factors of the periods so far. It is a
geometric sum, which `AnnuityClosed` evaluates and which turns the closed
formula of `schedule.go:51` into the present value (`PaymentNearAnnuity`, dividing by
`r`). The last payment is what these two leave (`TailAbsorbsRounding`), and the same
inequalities decide when a kept payment amortizes in `m` periods
(`ReducedTermFitsPayment`). The shapes follow from `MulRateMicro` being monotone and,
without interest, from how the remainder is split.

**LoanReadsProofs.** Reads add no behaviour: `ReadsSpec => Spec`
(`ReadsAreTransparent`), so that `IInv` of `LoanProofs` holds beside them.
`CashflowInv` states what each step of `Cashflow` has read as seen from the states
that follow: the future it read is at least the outstanding principal now, because
debt never grows (`DebtNeverGrows`), and the balance at least what the ledger
leaves. `ProjectionOutlivesPayment` rests on each of the three kinds of due
function following itself after one period (`FixedPaymentFollows`,
`EqualPrincipalFollows`, `InterestOnlyFollows`; `RowsShift`, `PlanShifts`).
`PayoffIsNextPaymentAndRest` needs `PlainInv == Plain => FirstTerms /\ OnPlan`: the
ledger of a loan that was never recast holds the first rows of the first day's
plan. `PastBalancesMoveByPayments` has two halves: the number a prepayment is stamped
with is above every period counted (`LaterEntryNotCounted`), and a scheduled payment,
stamped 0, is counted in all of them from the second period on.

**ServiceProofs.** The inductive invariant is

    IInv == LogOK /\ HandlersOK /\ ConnOK /\ ProcessOK /\ AckedOK

`LogOK`: every committed state has dense stamps. `ConnOK`: only the holder of the
connection is in a transaction; therefore (`HandlersOK`) its transaction began on
the state that is still the latest, and has written what its effect writes up to
the statement it is at. `ProcessOK`: a process that is down has no handlers.
`AckedOK`: unless commits were lost, the stamps that clients have were given to
rows, from which `AnswersAreStored` follows by density. On top of `IInv`, `RowsOK`
counts rows against requests and `SnapshotsOK` says what a read has gathered so
far is a prefix of what its one state answers. The refinement maps a commit to
`Serve`, `Start` to `Open`, and everything else to a stutter.

**ServiceLoansProofs.** The loans of the database. The ledger of a loan is a
recursive selection from the table of all payments (`LedgerOf`); `SameLedger`,
`LongerLedger` and `NoLedger` say what an insert does to it, `OutcomeLoans` what
the statements of a request do to the rows. From these: a request is one of the
operations of `LoanStateProofs` on the loan it names, whatever it finds there, and
leaves every other loan as it was (`RequestSteps`, `OutcomeStepsOne`). Hence

* `LoansAlwaysCoherent`: in every committed state, however it came about, all
  payments belong to loans there are and every loan is healthy. This is
  `RequestKeepsCoherent` carried along the steps of `Portfolio` that
  `ServiceServesAtomically` provides; with `HealthyLoads` no stored loan can fail
  `Recompute` for the portfolio.
* `EveryLoanAlwaysKeepsItsSpec`: each loan refines `Loan`, so that the theorems of
  `LoanProofs` are about every row of the database. The instance has a parameter
  (`LoanAt(l)`): its theorems cannot be cited, but its definitions can be expanded,
  and the lemmas `Same...` show layer by layer that `LoanAt(l)!X` of the operators
  without variables is `X`.
* `ServerErrorsAlwaysKnown`: a handler that decides has its request as it arrived
  (`GoneForgets` adds to `IInv` what a canceled one forgets) and reads a coherent state;
  `loadState` then succeeds, so that what is left are the recasts of `Prepay` and the
  first-day plan of `Payoff`. `PaymentRejected`, `TermRejected` and
  `RejectedReturnsUnderACent` say what it means that they are refused. The case of a
  stored payment of 0 is why `Healthy` also says that such a loan owes less than half
  a cent a period.

**Only model-checked**: `PayingSettles` and `EveryRequestGetsItsTurn` (liveness and
`ENABLED` are beyond the prover), and all disagreements above. Every safety property
and action property of the passing runs is a theorem. No module uses a `RECURSIVE`
operator, so that the prover keeps its SMT backend.

## 5. Not modelled

* float64 itself (exact rationals instead) and the width of int64. The float
  product of `domain.go:73` is exact below 2^53 only; `PlanNeverGrowsDebt` bounds it
  by the principal lent times the rate, but rows below zero (of a plan that
  over-collects) and the sums over a ledger are not bounded.
* Of the reads, the rows of `Schedule` other than its total principal, and the filters,
  limits and sort orders of the lists.
* The display conversions of `domain.go:76-96` between percentages, rates and
  amounts: single float expressions whose results no computation reads, apart from
  the rate of a request, which the models take as already converted.
* HTTP decoding, query parameters, the admin token and the bodies of answers; flags
  and logging of the process. They keep no state.
* The self check (`selfcheck/`): a scripted client, one behaviour of `Service`.

## 6. Plan

1. *(done)* `Amort`, `AmortCalls`, `Loan`, `LoanContract` and their proofs.
2. *(done)* `LoanReads`, that it implements `Loan`, and its theorems.
3. *(done)* `Operations`, `Portfolio` and `Service`: concurrent handlers over
   transactions as sequences of statements, faults, lost answers and retries,
   crashes and power failures; that `Service` implements `Portfolio`.
4. *(done)* The reads of `Operations`: all of them, query by query.
5. *(done)* `LoanState` and its proofs, and from them, for every loan of the
   database: coherence, `EveryLoanKeepsItsSpec`, when a request is answered with 500;
   the length of a solved term.
6. Left: how far a closing payment can over-collect (for an equal_installment loan
   only by rounding, compounded); bounds on the sums of a ledger against the width of
   int64; the rate conversions of `domain.go:76-96`; the self check.
