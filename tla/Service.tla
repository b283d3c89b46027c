------------------------------- MODULE Service -------------------------------
(***************************************************************************)
(* The running service: concurrent HTTP handlers, each serving one request *)
(* in one transaction, statement by statement, on the only connection to   *)
(* the database; clients that hang up; statements that fail; a process     *)
(* that is stopped, crashes and is restarted; and power failures, which    *)
(* take away commits no checkpoint had synced (synchronous=NORMAL).        *)
(*                                                                         *)
(* A client that got no answer may send its request again: any request may *)
(* arrive any number of times.                                             *)
(***************************************************************************)
EXTENDS Portfolio

CONSTANTS Handlers,    \* the requests being served at the same time
          NoHandler,   \* not a handler: nobody holds the connection
          MaxCommits,  \* bound: no write request arrives after so many usable states
          MaxOutages,  \* bound: on stops, crashes and power failures
          Principals, Rates, Terms, Prepayments   \* the values in requests (module Loan)

VARIABLES conn,     \* the handler whose transaction has the connection
          handler,  \* what each handler is doing
          process,  \* "up", "draining" after SIGTERM, or "down"
          outages,  \* stops, crashes and power failures so far
          lost,     \* history: a power failure took commits away
          acked,    \* history: the stamps of the rows clients were answered with
          unsure    \* history: how many rows were committed and never answered

vars == <<log, synced, conn, handler, process, outages, lost, acked, unsure>>

\* The rows of all tables together carry the stamps 1, 2, ... up to the counter,
\* each once, and each table in the order of its rows.
Dense(d) ==
  /\ \A t \in Tables : \A i \in 1 .. Len(d[t]) : d[t][i].stamp \in 1 .. d.next - 1
  /\ \A s \in 1 .. d.next - 1 : \E t \in Tables : \E i \in 1 .. Len(d[t]) : d[t][i].stamp = s
  /\ \A t, u \in Tables : \A i \in 1 .. Len(d[t]), j \in 1 .. Len(d[u]) :
       d[t][i].stamp = d[u][j].stamp => t = u /\ i = j
  /\ \A t \in Tables : \A i, j \in 1 .. Len(d[t]) : i < j => d[t][i].stamp < d[t][j].stamp

ASSUME HandlerAssumption == NoHandler \notin Handlers /\ IsFiniteSet(Handlers)

\* Every payment is one of a loan there is, and every loan is one the service
\* can load and recast.
Coherent(d) ==
  /\ \A p \in 1 .. Len(d.payments) : Exists(d, "loans", d.payments[p].owner)
  /\ \A l \in 1 .. Len(d.loans) :
       /\ LoanRow(d, l).status # "none"
       /\ Healthy(LoanRow(d, l), LedgerOf(d, l))

\* A file a process finds was left by an earlier one.
ASSUME StoredAssumption == \A d \in Stored : IsDatabase(d) /\ Dense(d) /\ Coherent(d)

\* What clients ask for is what the borrower of module Loan may ask for.
ASSUME ValuesAssumption ==
  /\ MaxRemaining \in Nat
  /\ \A req \in Requests :
       /\ req.kind = "create" =>
            req.principal \in Principals /\ req.rate \in Rates /\ req.periods \in Terms
       /\ req.kind = "prepay" => req.amount \in Prepayments
       /\ req.kind = "rate" => req.rate \in Rates

world == <<synced, process, outages, lost, acked, unsure>>

Idle == [pc     |-> "idle",
         req    |-> NoRequest,
         since  |-> 0,         \* for a read: the states committed when it arrived
         gone   |-> FALSE,     \* the client hung up: the context is canceled
         tx     |-> NewFile,   \* the database as the transaction sees it
         effect |-> NoEffect,  \* what it decided to write
         seq    |-> 0,         \* the stamp it consumed
         read   |-> << >>,     \* what its reads returned
         code   |-> 0]         \* the status it answers with

InTransaction ==
  {"deciding", "reading", "stamping", "inserting", "updating", "committing"}

\* The handler is at a statement of its transaction, and its context stands.
Runs(h, pc) == handler[h].pc = pc /\ ~handler[h].gone

Goes(h, next) == handler' = [handler EXCEPT ![h] = next]

\* The transaction is over.  Of the request only what the answer shows is left:
\* the status, the stamp of an inserted row, and what a read returned.
Answers(h, code) ==
  Goes(h, IF code = Accepted /\ IsRead(handler[h].req)
          THEN [handler[h] EXCEPT !.pc = "answering", !.tx = NewFile, !.code = code]
          ELSE [Idle EXCEPT !.pc = "answering", !.gone = handler[h].gone, !.code = code,
                            !.seq = IF code = Accepted THEN handler[h].seq ELSE 0])

-----------------------------------------------------------------------------
(* Serving a request. *)

\* Decoding and the checks made before the transaction belong to the arrival.
Receive(h, req) ==
  /\ process = "up"
  /\ handler[h].pc = "idle"
  /\ IsRead(req) \/ Cardinality({n \in 1 .. Len(log) : log[n].next > 0}) < MaxCommits
  /\ Goes(h, [Idle EXCEPT !.pc    = IF Malformed(req) THEN "answering" ELSE "waiting",
                          !.code  = IF Malformed(req) THEN 400 ELSE 0,
                          !.req   = req,
                          !.since = IF IsRead(req) THEN Len(log) ELSE 0])
  /\ UNCHANGED <<log, conn, world>>

\* Mutant: the pool has a connection for every handler.
Begin_Unserialized(h) ==
  /\ Runs(h, "waiting")
  /\ conn' = h
  /\ Goes(h, [handler[h] EXCEPT !.pc = "deciding", !.tx = Committed])
  /\ UNCHANGED <<log, world>>

\* BeginTx waits for the connection; the transaction is immediate.
Begin(h) ==
  /\ Runs(h, "waiting")
  /\ conn = NoHandler
  /\ conn' = h
  /\ Goes(h, [handler[h] EXCEPT !.pc = "deciding", !.tx = Committed])
  /\ UNCHANGED <<log, world>>

\* Where an accepted request goes first, with the effect it decided on.
FirstStatement(req, effect) ==
  IF IsRead(req) THEN "reading"
  ELSE IF effect.table # "none" THEN "stamping" ELSE "updating"

\* Mutant: a refused request returns without a rollback.
Refuse_NoRollback(h) ==
  /\ Runs(h, "deciding")
  /\ Refusal(handler[h].tx, handler[h].req) # Accepted
  /\ Answers(h, Refusal(handler[h].tx, handler[h].req))
  /\ UNCHANGED <<log, conn, world>>

\* The function of the transaction returns an error: inTx rolls back.
Refuse(h) ==
  /\ Runs(h, "deciding")
  /\ Refusal(handler[h].tx, handler[h].req) # Accepted
  /\ conn' = NoHandler
  /\ Answers(h, Refusal(handler[h].tx, handler[h].req))
  /\ UNCHANGED <<log, world>>

\* The queries of loadState and the checks after them; what is to be written
\* is decided in memory before the first statement that writes.
Decide(h) ==
  /\ Runs(h, "deciding")
  /\ Refusal(handler[h].tx, handler[h].req) = Accepted
  /\ \E effect \in Effects(handler[h].tx, handler[h].req) :
       Goes(h, [handler[h] EXCEPT !.pc     = FirstStatement(handler[h].req, effect),
                                  !.effect = effect])
  /\ UNCHANGED <<log, conn, world>>

\* Mutant: the queries run on the pool, each in a transaction of its own.
Read_OnPool(h) ==
  /\ Runs(h, "reading")
  /\ LET n    == Len(handler[h].read) + 1
         rows == Readings(Committed, handler[h].req)
     IN  IF n <= Len(rows)
         THEN Goes(h, [handler[h] EXCEPT !.read = Append(@, rows[n])])
         ELSE Goes(h, [handler[h] EXCEPT !.pc = "committing"])
  /\ conn' = NoHandler
  /\ UNCHANGED <<log, world>>

\* The next query of a read.
Read(h) ==
  /\ Runs(h, "reading")
  /\ LET n    == Len(handler[h].read) + 1
         rows == Readings(handler[h].tx, handler[h].req)
     IN  IF n <= Len(rows)
         THEN Goes(h, [handler[h] EXCEPT !.read = Append(@, rows[n])])
         ELSE Goes(h, [handler[h] EXCEPT !.pc = "committing"])
  /\ UNCHANGED <<log, conn, world>>

StampRow(h) ==
  /\ Runs(h, "stamping")
  /\ Goes(h, [handler[h] EXCEPT !.pc  = "inserting",
                                !.tx  = Bumped(@),
                                !.seq = handler[h].tx.next])
  /\ UNCHANGED <<log, conn, world>>

InsertRow(h) ==
  /\ Runs(h, "inserting")
  /\ Goes(h, [handler[h] EXCEPT
                !.pc = IF handler[h].effect.loan # 0 THEN "updating" ELSE "committing",
                !.tx = Inserted(@, handler[h].effect, handler[h].seq)])
  /\ UNCHANGED <<log, conn, world>>

UpdateLoan(h) ==
  /\ Runs(h, "updating")
  /\ Goes(h, [handler[h] EXCEPT !.pc = "committing", !.tx = Updated(@, handler[h].effect)])
  /\ UNCHANGED <<log, conn, world>>

Commit(h) ==
  /\ Runs(h, "committing")
  /\ log' = IF handler[h].effect = NoEffect THEN log ELSE Append(log, handler[h].tx)
  /\ conn' = NoHandler
  /\ Answers(h, Accepted)
  /\ UNCHANGED world

Released(h) == conn' = IF conn = h THEN NoHandler ELSE conn

\* Mutant: the writes of the failed transaction stay.
Fail_NoRollback(h) ==
  /\ handler[h].pc \in InTransaction
  /\ Released(h)
  /\ log' = Append(log, handler[h].tx)
  /\ Answers(h, 500)
  /\ UNCHANGED world

\* Mutant: the error of Commit is dropped.
Fail_CommitIgnored(h) ==
  /\ handler[h].pc \in {"waiting"} \cup InTransaction
  /\ Released(h)
  /\ Answers(h, IF handler[h].pc = "committing" THEN Accepted ELSE 500)
  /\ UNCHANGED <<log, world>>

\* BEGIN, a statement or COMMIT fails, on its own or because the context was
\* canceled: nothing of the transaction remains.
Fail(h) ==
  /\ handler[h].pc \in {"waiting"} \cup InTransaction
  /\ Released(h)
  /\ Answers(h, 500)
  /\ UNCHANGED <<log, world>>

\* The client closes its connection; database/sql runs no statement of the
\* request any more, and only an answer already there is left to be written.
HangUp(h) ==
  /\ handler[h].pc # "idle"
  /\ ~handler[h].gone
  /\ Goes(h, IF handler[h].pc = "answering" THEN [handler[h] EXCEPT !.gone = TRUE]
             ELSE [Idle EXCEPT !.pc = handler[h].pc, !.gone = TRUE])
  /\ UNCHANGED <<log, conn, world>>

\* The request inserted a row and committed.
Wrote(h) == handler[h].pc = "answering" /\ handler[h].seq # 0

Reply(h) ==
  /\ handler[h].pc = "answering"
  /\ Goes(h, Idle)
  /\ acked'  = IF Wrote(h) /\ ~handler[h].gone THEN acked \cup {handler[h].seq} ELSE acked
  /\ unsure' = IF Wrote(h) /\ handler[h].gone THEN unsure + 1 ELSE unsure
  /\ UNCHANGED <<log, synced, conn, process, outages, lost>>

-----------------------------------------------------------------------------
(* The process and the machine. *)

\* SQLite syncs the write-ahead log when it checkpoints.
Checkpoint ==
  /\ process # "down"
  /\ synced < Len(log)
  /\ synced' = Len(log)
  /\ UNCHANGED <<log, conn, handler, process, outages, lost, acked, unsure>>

\* The process is gone, with all its handlers; answers are lost.
Dies ==
  /\ process' = "down"
  /\ conn' = NoHandler
  /\ handler' = [h \in Handlers |-> Idle]
  /\ unsure' = unsure + Cardinality({h \in Handlers : Wrote(h)})
  /\ UNCHANGED acked

\* What was committed is in the files, synced or not.
Crash ==
  /\ process # "down"
  /\ outages < MaxOutages
  /\ Dies
  /\ outages' = outages + 1
  /\ UNCHANGED <<log, synced, lost>>

\* Mutant: a checkpoint does not sync.
PowerFailure_LosesCheckpoint ==
  /\ outages < MaxOutages
  /\ Dies
  /\ \E n \in 1 .. Len(log) : log' = SubSeq(log, 1, n) /\ lost' = (lost \/ n < Len(log))
  /\ outages' = outages + 1
  /\ UNCHANGED synced

\* Any number of the commits since the last checkpoint is lost, the latest first.
PowerFailure ==
  /\ outages < MaxOutages
  /\ Dies
  /\ \E n \in synced .. Len(log) : log' = SubSeq(log, 1, n) /\ lost' = (lost \/ n < Len(log))
  /\ outages' = outages + 1
  /\ UNCHANGED synced

\* SIGTERM: Shutdown accepts no more requests and waits for the handlers.
Stop ==
  /\ process = "up"
  /\ outages < MaxOutages
  /\ process' = "draining"
  /\ outages' = outages + 1
  /\ UNCHANGED <<log, synced, conn, handler, lost, acked, unsure>>

\* All handlers are done: the store is closed, which checkpoints.
Exit ==
  /\ process = "draining"
  /\ \A h \in Handlers : handler[h].pc = "idle"
  /\ process' = "down"
  /\ synced' = Len(log)
  /\ UNCHANGED <<log, conn, handler, outages, lost, acked, unsure>>

\* Shutdown gives up after 5 seconds, and main returns.
Expire ==
  /\ process = "draining"
  /\ \E h \in Handlers : handler[h].pc # "idle"
  /\ Dies
  /\ UNCHANGED <<log, synced, outages, lost>>

\* Open applies the schema to the file it finds.
Start ==
  /\ process = "down"
  /\ process' = "up"
  /\ log' = IF Opened(Committed) = Committed THEN log ELSE Append(log, Opened(Committed))
  /\ UNCHANGED <<synced, conn, handler, outages, lost, acked, unsure>>

-----------------------------------------------------------------------------
Init ==
  /\ FirstFile
  /\ conn = NoHandler
  /\ handler = [h \in Handlers |-> Idle]
  /\ process = "down"
  /\ outages = 0
  /\ lost = FALSE
  /\ acked = {}
  /\ unsure = 0

Next ==
  \/ \E h \in Handlers :
       \/ \E req \in Requests : Receive(h, req)
       \/ Begin(h)
       \/ Refuse(h) \/ Decide(h) \/ Read(h)
       \/ StampRow(h) \/ InsertRow(h) \/ UpdateLoan(h) \/ Commit(h)
       \/ Reply(h)
       \/ Fail(h)
       \/ HangUp(h)
  \/ Checkpoint \/ Crash \/ PowerFailure \/ Stop \/ Exit \/ Expire \/ Start

Spec == Init /\ [][Next]_vars

\* A transaction and an answer end, and a canceled context is noticed.
\* A free connection is given to a waiter chosen at random, so that one who
\* keeps waiting is chosen some day: strong fairness.  Nothing is assumed of
\* clients, faults, the operator or checkpoints.
Fairness ==
  \A h \in Handlers :
    /\ []<>(handler[h].pc \in {"idle", "waiting"})
    /\ WF_vars(handler[h].gone /\ Fail(h))
    /\ SF_vars(Begin(h))

FairSpec == Spec /\ Fairness

-----------------------------------------------------------------------------
(* What holds. *)

TypeOK ==
  /\ Len(log) > 0 /\ synced \in 1 .. Len(log)
  /\ conn \in Handlers \cup {NoHandler}
  /\ process \in {"up", "draining", "down"}
  /\ \A h \in Handlers :
       /\ handler[h].pc \in {"idle", "waiting", "answering"} \cup InTransaction
       /\ handler[h].code \in {0, 200, 400, 404, 409, 422, 500}
       /\ handler[h].effect.table \in Tables \cup {"none"}

\* store.go:50: the stamp "reflects insertion order even under a later
\* rollback".  In every committed state the stamps are dense: no rollback,
\* restart or power failure skips or repeats one.
StampsAreDense == \A n \in 1 .. Len(log) : Dense(log[n])

Rows(d) == Len(d.borrowers) + Len(d.loans) + Len(d.payments)

\* Every row beyond those of the file the first process found was written for
\* one request: it was answered, is about to be, or its client cannot know.  No
\* request that failed, was refused or hung up before its commit left a row,
\* none left two, and no two answers show the same stamp.
RowsAreAccountedFor ==
  ~lost => Rows(Committed) = Rows(log[1]) + Cardinality(acked) + unsure
                               + Cardinality({h \in Handlers : Wrote(h)})

\* A row a client was answered with is in the database, through every crash,
\* shutdown and restart, unless a power failure took commits away.
AnswersAreStored ==
  ~lost => \A s \in acked : \E t \in Tables : \E i \in 1 .. Len(Committed[t]) :
             Committed[t][i].stamp = s

\* The answer of a read, put together from several queries, is that of one
\* committed state, and not of one older than the request.
ReadsAreSnapshots ==
  \A h \in Handlers :
    /\ handler[h].pc = "answering" /\ handler[h].code = Accepted /\ IsRead(handler[h].req)
    => \E n \in handler[h].since .. Len(log) :
         handler[h].read = Readings(log[n], handler[h].req)

\* Every committed state is coherent: no request writes a payment for a loan
\* there is not, or leaves any loan with a row the next request fails on.
LoansAreCoherent == \A n \in 1 .. Len(log) : Coherent(log[n])

\* The level payment of n periods, before it is rounded, exceeds the interest of
\* the first by less than a cent: P.r < (1+r)^n - 1.
ReturnsUnderACent(outstanding, rate, n) ==
  outstanding * rate * Pow(RateMicroScale, n)
    < RateMicroScale * (Pow(RateMicroScale + rate, n) - Pow(RateMicroScale, n))

\* Why a prepayment may fail in the recast of what it leaves: reduce_payment plans
\* a payment that rounds to no more than the interest, reduce_term finds a payment
\* that had rounded to 0, of less than half a cent a period.
PrepayFails(left, strategy) ==
  IF strategy = "reduce_payment"
  THEN /\ left.type = "equal_installment" /\ left.rate > 0
       /\ ReturnsUnderACent(left.outstanding, left.rate, left.term)
  ELSE left.rate = 0 /\ left.payment = 0 /\ 2 * left.outstanding < left.term

\* Why a payoff may fail in the plan of the first day: reduce_term has left the loan
\* no period, which owes nothing any more, or the rate and term it was given since
\* make a payment of the principal lent that rounds to no more than the interest.
PayoffFails(loan, ledger) ==
  LET in == FullScheduleOf(loan)
  IN  \/ in.periods = 0 /\ OutstandingOf(loan, ledger) <= 0
      \/ /\ in.type = "equal_installment" /\ in.rate > 0
         /\ ReturnsUnderACent(in.outstanding, in.rate, in.periods)

\* Short of a failed statement a request, read or write, is answered with 500 only
\* where an error of internal/amort reaches the handler as it is: two cases of a
\* prepayment and two of a payoff.
ServerErrorsAreKnown ==
  \A h \in Handlers :
    LET req == handler[h].req
        d   == handler[h].tx
    IN  handler[h].pc = "deciding" /\ Refusal(d, req) = 500 =>
          \/ req.kind = "prepay" /\ PrepayFails(RecastOf(d, req), req.strategy)
          \/ req.kind = "payoff"
             /\ PayoffFails(LoanRow(d, req.loan), LedgerOf(d, req.loan))

LoanAt(l) == INSTANCE Loan WITH loan   <- LoanRow(Committed, l),
                                ledger <- LedgerOf(Committed, l)

\* Each loan in the database lives the life of module Loan: a commit is a step
\* of at most one loan, and of no other, whatever the other tables and loans hold.
EveryLoanKeepsItsSpec ==
  [][Len(log') > Len(log) =>
       \E one \in 0 .. Len(Committed'.loans) :
         \A l \in 1 .. Len(Committed'.loans) :
           \/ l = one /\ LoanAt(l)!Next
           \/ UNCHANGED <<LoanRow(Committed, l), LedgerOf(Committed, l)>>]_log

\* A request is never left waiting for the connection: its turn comes, its
\* client hangs up, or the process goes.
EveryRequestGetsItsTurn ==
  \A h \in Handlers : handler[h].pc = "waiting" ~> handler[h].pc \in {"answering", "idle"}
==============================================================================
