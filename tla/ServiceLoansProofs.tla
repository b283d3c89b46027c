-------------------------- MODULE ServiceLoansProofs --------------------------
(***************************************************************************)
(* Proofs about the loans of module Service, for any file the first        *)
(* process finds, any number of handlers, any requests and any bounds.     *)
(*                                                                         *)
(* The lemmas of LoanStateProofs speak of one row and one ledger.  Here    *)
(* they are applied to every loan of the database: what a request writes   *)
(* is an operation on the loan it names and nothing to any other, so every *)
(* committed state is coherent, every loan lives the life of module Loan,  *)
(* and a request that reaches its transaction is answered with 500 in four *)
(* cases only.                                                             *)
(***************************************************************************)
EXTENDS ServiceProofs, LoanStateProofs

-----------------------------------------------------------------------------
(***************************************************************************)
(* The ledger of a loan in the table of all payments                       *)
(***************************************************************************)

\* The recursive function inside LedgerOf.
IsLedger(f, payments, l, n) ==
  f = [i \in 0 .. n |->
         IF i = 0 THEN << >>
         ELSE IF payments[i].owner = l THEN Append(f[i - 1], payments[i].row)
         ELSE f[i - 1]]

\* The payments of the loan l among the first n.
Among(payments, l, n) == (CHOOSE f : IsLedger(f, payments, l, n))[n]

LEMMA LedgerIsAmong ==
  ASSUME NEW d, NEW l
  PROVE  LedgerOf(d, l) = Among(d.payments, l, Len(d.payments))
BY DEF LedgerOf, Among, IsLedger

LEMMA LedgerStarts ==
  ASSUME NEW f, NEW payments, NEW l, NEW n \in Nat, IsLedger(f, payments, l, n)
  PROVE  f[0] = << >>
BY DEF IsLedger

LEMMA LedgerExists ==
  ASSUME NEW payments, NEW l, NEW n \in Nat
  PROVE  \E f : IsLedger(f, payments, l, n)
<1> DEFINE S == {k \in Nat : \E f : IsLedger(f, payments, l, k)}
<1>1. 0 \in S
  <2> DEFINE f == [i \in 0 .. 0 |-> << >>]
  <2>1. IsLedger(f, payments, l, 0)
    BY DEF IsLedger
  <2> QED
    BY <2>1
<1>2. ASSUME NEW k \in Nat, k \in S PROVE k + 1 \in S
  <2>1. PICK g : IsLedger(g, payments, l, k)
    BY <1>2
  <2> DEFINE more(before) == IF payments[k + 1].owner = l
                             THEN Append(before, payments[k + 1].row) ELSE before
             f == [i \in 0 .. k + 1 |-> IF i = k + 1 THEN more(g[k]) ELSE g[i]]
  <2>2. \A i \in 0 .. k : g[i] = IF i = 0 THEN << >>
                                 ELSE IF payments[i].owner = l
                                 THEN Append(g[i - 1], payments[i].row) ELSE g[i - 1]
    BY <2>1 DEF IsLedger
  <2>3. /\ \A i \in 0 .. k : f[i] = g[i]
        /\ f[k + 1] = more(f[k])
        /\ f = [i \in 0 .. k + 1 |-> f[i]]
    OBVIOUS
  <2> HIDE DEF f
  <2>4. \A i \in 0 .. k + 1 : f[i] = IF i = 0 THEN << >>
                                     ELSE IF payments[i].owner = l
                                     THEN Append(f[i - 1], payments[i].row) ELSE f[i - 1]
    <3>1. ASSUME NEW i \in 1 .. k
          PROVE  f[i] = IF payments[i].owner = l
                        THEN Append(f[i - 1], payments[i].row) ELSE f[i - 1]
      <4>1. i \in 0 .. k /\ i - 1 \in 0 .. k /\ i # 0
        OBVIOUS
      <4> QED
        BY <2>2, <2>3, <4>1
    <3>2. f[0] = << >>
      BY <2>1, <2>3, LedgerStarts
    <3>3. \A i \in 0 .. k + 1 : i = 0 \/ i \in 1 .. k \/ i = k + 1
      OBVIOUS
    <3> QED
      BY <2>3, <3>1, <3>2, <3>3
  <2>5. IsLedger(f, payments, l, k + 1)
    BY <2>3, <2>4 DEF IsLedger
  <2> QED
    BY <2>5
<1>3. Nat \subseteq S
  <2> HIDE DEF S
  <2> QED
    BY <1>1, <1>2, NatSetInduction
<1> QED
  BY <1>3

\* Tables that begin with the same payments have the same ledgers there.
SameUpTo(p, q, n) == \A i \in 1 .. n : p[i] = q[i]

LEMMA LedgersAgree ==
  ASSUME NEW p, NEW q, NEW l, NEW n1 \in Nat, NEW n2 \in Nat, NEW m \in Nat,
         m <= n1, m <= n2, SameUpTo(p, q, m),
         NEW f, IsLedger(f, p, l, n1), NEW g, IsLedger(g, q, l, n2)
  PROVE  f[m] = g[m]
<1> DEFINE S == {k \in Nat : k <= m => f[k] = g[k]}
<1>1. /\ \A i \in 0 .. n1 : f[i] = IF i = 0 THEN << >>
                                   ELSE IF p[i].owner = l THEN Append(f[i - 1], p[i].row)
                                   ELSE f[i - 1]
      /\ \A i \in 0 .. n2 : g[i] = IF i = 0 THEN << >>
                                   ELSE IF q[i].owner = l THEN Append(g[i - 1], q[i].row)
                                   ELSE g[i - 1]
  BY DEF IsLedger
<1>2. 0 \in S
  BY LedgerStarts
<1>3. ASSUME NEW k \in Nat, k \in S PROVE k + 1 \in S
  <2>1. SUFFICES ASSUME k + 1 <= m PROVE f[k + 1] = g[k + 1]
    OBVIOUS
  <2>2. /\ k + 1 \in 0 .. n1 /\ k + 1 \in 0 .. n2 /\ k + 1 \in 1 .. m
        /\ k + 1 # 0 /\ (k + 1) - 1 = k
    BY <2>1
  <2>3. /\ f[k + 1] = IF p[k + 1].owner = l THEN Append(f[k], p[k + 1].row) ELSE f[k]
        /\ g[k + 1] = IF q[k + 1].owner = l THEN Append(g[k], q[k + 1].row) ELSE g[k]
    BY <1>1, <2>2
  <2>4. f[k] = g[k] /\ p[k + 1] = q[k + 1]
    BY <1>3, <2>1, <2>2 DEF SameUpTo
  <2> QED
    BY <2>3, <2>4
<1>4. Nat \subseteq S
  <2> HIDE DEF S
  <2> QED
    BY <1>2, <1>3, NatSetInduction
<1> QED
  BY <1>4

LEMMA AmongIsLedger ==
  ASSUME NEW payments, NEW l, NEW n \in Nat
  PROVE  IsLedger(CHOOSE f : IsLedger(f, payments, l, n), payments, l, n)
BY LedgerExists

LEMMA AmongSamePayments ==
  ASSUME NEW p, NEW q, NEW l, NEW n \in Nat, SameUpTo(p, q, n)
  PROVE  Among(p, l, n) = Among(q, l, n)
<1> DEFINE f == CHOOSE f : IsLedger(f, p, l, n)
           g == CHOOSE g : IsLedger(g, q, l, n)
<1>1. IsLedger(f, p, l, n) /\ IsLedger(g, q, l, n)
  BY AmongIsLedger
<1> HIDE DEF f, g
<1>2. f[n] = g[n]
  BY <1>1, LedgersAgree
<1> QED
  BY <1>2 DEF Among, f, g

LEMMA AmongOneMore ==
  ASSUME NEW payments, NEW l, NEW n \in Nat
  PROVE  Among(payments, l, n + 1)
           = IF payments[n + 1].owner = l
             THEN Append(Among(payments, l, n), payments[n + 1].row)
             ELSE Among(payments, l, n)
<1> DEFINE f == CHOOSE f : IsLedger(f, payments, l, n)
           g == CHOOSE g : IsLedger(g, payments, l, n + 1)
<1>1. IsLedger(f, payments, l, n) /\ IsLedger(g, payments, l, n + 1)
  BY AmongIsLedger
<1>d. Among(payments, l, n) = f[n] /\ Among(payments, l, n + 1) = g[n + 1]
  BY DEF Among
<1> HIDE DEF f, g
<1>2. g[n] = f[n]
  <2>1. n <= n + 1 /\ n <= n /\ n + 1 \in Nat /\ SameUpTo(payments, payments, n)
    BY DEF SameUpTo
  <2> QED
    BY <1>1, <2>1, LedgersAgree
<1>3. g[n + 1] = IF payments[n + 1].owner = l
                 THEN Append(g[n], payments[n + 1].row) ELSE g[n]
  <2>1. n + 1 \in 0 .. n + 1 /\ n + 1 # 0 /\ (n + 1) - 1 = n
    OBVIOUS
  <2> QED
    BY <1>1, <2>1 DEF IsLedger
<1> QED
  BY <1>d, <1>2, <1>3

LEMMA AmongNone ==
  ASSUME NEW payments, NEW l, NEW n \in Nat, \A i \in 1 .. n : payments[i].owner # l
  PROVE  Among(payments, l, n) = << >>
<1> DEFINE S == {k \in Nat : k <= n => Among(payments, l, k) = << >>}
<1>1. 0 \in S
  <2>1. IsLedger(CHOOSE f : IsLedger(f, payments, l, 0), payments, l, 0)
    BY AmongIsLedger
  <2>2. Among(payments, l, 0) = << >>
    <3> DEFINE f == CHOOSE f : IsLedger(f, payments, l, 0)
    <3>1. Among(payments, l, 0) = f[0]
      BY DEF Among
    <3> HIDE DEF f
    <3>2. IsLedger(f, payments, l, 0)
      BY <2>1 DEF f
    <3>3. f[0] = << >>
      BY <3>2 DEF IsLedger
    <3> QED
      BY <3>1, <3>3
  <2> QED
    BY <2>2
<1>2. ASSUME NEW k \in Nat, k \in S PROVE k + 1 \in S
  <2>1. SUFFICES ASSUME k + 1 <= n PROVE Among(payments, l, k + 1) = << >>
    OBVIOUS
  <2>2. Among(payments, l, k) = << >> /\ payments[k + 1].owner # l
    BY <1>2, <2>1
  <2> QED
    BY <2>2, AmongOneMore
<1>3. Nat \subseteq S
  <2> HIDE DEF S
  <2> QED
    BY <1>1, <1>2, NatSetInduction
<1> QED
  BY <1>3

\* A table that did not change, and one with a payment more.
LEMMA SameLedger ==
  ASSUME NEW d, NEW e, IsDatabase(d), e.payments = d.payments, NEW l
  PROVE  LedgerOf(e, l) = LedgerOf(d, l)
BY LedgerIsAmong

LEMMA LongerLedger ==
  ASSUME NEW d, NEW e, IsDatabase(d), NEW r, DOMAIN r = Columns, r.stamp \in Nat,
         e.payments = Append(d.payments, r), NEW l
  PROVE  LedgerOf(e, l) = IF r.owner = l THEN Append(LedgerOf(d, l), r.row)
                          ELSE LedgerOf(d, l)
<1> DEFINE n == Len(d.payments)
<1>1. IsTable(d.payments)
  BY DEF IsDatabase, Tables
<1>2. n \in Nat
  BY <1>1, TableLength
<1>3. /\ Len(e.payments) = n + 1
      /\ SameUpTo(e.payments, d.payments, n)
      /\ e.payments[n + 1] = r
  BY <1>1, AppendedTable DEF SameUpTo
<1>4. /\ LedgerOf(d, l) = Among(d.payments, l, n)
      /\ LedgerOf(e, l) = Among(e.payments, l, n + 1)
  BY <1>3, LedgerIsAmong
<1> HIDE DEF n
<1>5. Among(e.payments, l, n) = Among(d.payments, l, n)
  BY <1>2, <1>3, AmongSamePayments
<1>6. Among(e.payments, l, n + 1)
        = IF e.payments[n + 1].owner = l
          THEN Append(Among(e.payments, l, n), e.payments[n + 1].row)
          ELSE Among(e.payments, l, n)
  BY <1>2, AmongOneMore
<1> QED
  BY <1>3, <1>4, <1>5, <1>6

LEMMA NoLedger ==
  ASSUME NEW d, IsDatabase(d), NEW l,
         \A p \in 1 .. Len(d.payments) : d.payments[p].owner # l
  PROVE  LedgerOf(d, l) = << >>
<1>1. Len(d.payments) \in Nat
  BY TableLength DEF IsDatabase, Tables
<1> QED
  BY <1>1, LedgerIsAmong, AmongNone

-----------------------------------------------------------------------------
(***************************************************************************)
(* What the statements of an operation leave of each loan                  *)
(***************************************************************************)

PaymentsOwned(d) ==
  \A p \in 1 .. Len(d.payments) : Exists(d, "loans", d.payments[p].owner)

LEMMA UpdatedLoans ==
  ASSUME NEW d, IsDatabase(d), NEW effect,
         effect.loan = 0 \/ Exists(d, "loans", effect.loan)
  PROVE  LET e == Updated(d, effect)
         IN  /\ Len(e.loans) = Len(d.loans) /\ e.payments = d.payments
             /\ \A l : LoanRow(e, l) = IF l = effect.loan /\ l # 0 THEN effect.after
                                       ELSE LoanRow(d, l)
             /\ \A l : LedgerOf(e, l) = LedgerOf(d, l)
<1> DEFINE e == Updated(d, effect)
<1>1. CASE effect.loan = 0
  BY <1>1 DEF Updated
<1>2. CASE effect.loan # 0
  <2> DEFINE new == Overwritten(d.loans, effect.loan, effect.after)
  <2>1. IsTable(d.loans) /\ Len(d.loans) \in Nat /\ DOMAIN d.loans = 1 .. Len(d.loans)
    BY TableLength DEF IsDatabase, Tables
  <2>2. Len(new) = Len(d.loans)
    BY <2>1, OverwrittenTable
  <2>3. e.payments = d.payments /\ e.loans = new
    BY <1>2 DEF Updated, Overwritten, IsDatabase, Tables
  <2>4. effect.loan \in 1 .. Len(d.loans)
    BY <1>2 DEF Exists
  <2>5. /\ \A l \in 1 .. Len(d.loans) : l # effect.loan => new[l] = d.loans[l]
        /\ new[effect.loan].row = effect.after
    <3>1. DOMAIN d.loans[effect.loan] = Columns
      BY <2>1, <2>4 DEF IsTable, Columns
    <3>2. new[effect.loan] = [d.loans[effect.loan] EXCEPT !.row = effect.after]
      BY <2>1, <2>4 DEF Overwritten
    <3> QED
      BY <2>1, <3>1, <3>2 DEF Overwritten, Columns
  <2>6. ASSUME NEW l
        PROVE  LoanRow(e, l) = IF l = effect.loan /\ l # 0 THEN effect.after
                               ELSE LoanRow(d, l)
    <3> HIDE DEF e, new
    <3>1. CASE l = effect.loan
      BY <1>2, <2>2, <2>3, <2>4, <2>5, <3>1 DEF LoanRow, Exists
    <3>2. CASE l # effect.loan
      BY <2>2, <2>3, <2>5, <3>2 DEF LoanRow, Exists
    <3> QED
      BY <3>1, <3>2
  <2>7. \A l : LedgerOf(e, l) = LedgerOf(d, l)
    BY <2>3, SameLedger
  <2> QED
    BY <2>2, <2>3, <2>6, <2>7
<1> QED
  BY <1>1, <1>2

LEMMA InsertedLoans ==
  ASSUME NEW d, IsDatabase(d), NEW effect, effect.table \in Tables,
         PaymentsOwned(d), effect.table = "payments" => Exists(d, "loans", effect.owner)
  PROVE  LET e == Inserted(Bumped(d), effect, d.next)
         IN  /\ Len(e.loans)
                  = IF effect.table = "loans" THEN Len(d.loans) + 1 ELSE Len(d.loans)
             /\ PaymentsOwned(e)
             /\ \A l : LoanRow(e, l) = IF effect.table = "loans" /\ l = Len(d.loans) + 1
                                       THEN effect.row ELSE LoanRow(d, l)
             /\ \A l : LedgerOf(e, l) = IF effect.table = "payments" /\ l = effect.owner
                                        THEN Append(LedgerOf(d, l), effect.row)
                                        ELSE LedgerOf(d, l)
<1> DEFINE e == Inserted(Bumped(d), effect, d.next)
           r == [row |-> effect.row, owner |-> effect.owner, stamp |-> d.next]
<1>1. /\ e[effect.table] = Append(d[effect.table], r)
      /\ \A t \in Tables \ {effect.table} : e[t] = d[t]
  BY InsertedTables
<1>2. /\ IsTable(d.loans) /\ IsTable(d.payments)
      /\ Len(d.loans) \in Nat /\ Len(d.payments) \in Nat
  BY TableLength DEF IsDatabase, Tables
<1>3. DOMAIN r = Columns /\ r.stamp \in Nat /\ r.row = effect.row /\ r.owner = effect.owner
  BY DEF IsDatabase, Columns
<1> HIDE DEF e, r
<1>4. CASE effect.table = "borrowers"
  <2>1. e.loans = d.loans /\ e.payments = d.payments
    BY <1>1, <1>4 DEF Tables
  <2>2. \A l : LedgerOf(e, l) = LedgerOf(d, l)
    BY <2>1, SameLedger
  <2> QED
    BY <1>2, <1>4, <2>1, <2>2 DEF LoanRow, Exists, PaymentsOwned, e
<1>5. CASE effect.table = "loans"
  <2>1. e.loans = Append(d.loans, r) /\ e.payments = d.payments
    BY <1>1, <1>5 DEF Tables
  <2>2. /\ Len(e.loans) = Len(d.loans) + 1
        /\ \A l \in 1 .. Len(d.loans) : e.loans[l] = d.loans[l]
        /\ e.loans[Len(d.loans) + 1] = r
    BY <1>2, <1>3, <2>1, AppendedTable
  <2>3. \A l : LedgerOf(e, l) = LedgerOf(d, l)
    BY <2>1, SameLedger
  <2>4. PaymentsOwned(e)
    BY <1>2, <2>1, <2>2 DEF PaymentsOwned, Exists
  <2>5. ASSUME NEW l
        PROVE  LoanRow(e, l) = IF l = Len(d.loans) + 1 THEN effect.row ELSE LoanRow(d, l)
    <3>1. l \in 1 .. Len(e.loans) <=> l \in 1 .. Len(d.loans) \/ l = Len(d.loans) + 1
      BY <1>2, <2>2
    <3>2. l \in 1 .. Len(d.loans) => l # Len(d.loans) + 1
      BY <1>2
    <3> QED
      BY <1>3, <2>2, <3>1, <3>2 DEF LoanRow, Exists
  <2> QED
    BY <1>5, <2>2, <2>3, <2>4, <2>5 DEF e
<1>6. CASE effect.table = "payments"
  <2>1. e.loans = d.loans /\ e.payments = Append(d.payments, r)
    BY <1>1, <1>6 DEF Tables
  <2>2. /\ Len(e.payments) = Len(d.payments) + 1
        /\ \A p \in 1 .. Len(d.payments) : e.payments[p] = d.payments[p]
        /\ e.payments[Len(d.payments) + 1] = r
    BY <1>2, <1>3, <2>1, AppendedTable
  <2>3. PaymentsOwned(e)
    <3>1. ASSUME NEW p \in 1 .. Len(e.payments)
          PROVE  p \in 1 .. Len(d.payments) \/ p = Len(d.payments) + 1
      BY <1>2, <2>2
    <3> QED
      BY <1>3, <1>6, <2>1, <2>2, <3>1 DEF PaymentsOwned, Exists
  <2>4. ASSUME NEW l
        PROVE  LedgerOf(e, l) = IF l = effect.owner
                                THEN Append(LedgerOf(d, l), effect.row) ELSE LedgerOf(d, l)
    <3>1. LedgerOf(e, l) = IF r.owner = l THEN Append(LedgerOf(d, l), r.row)
                           ELSE LedgerOf(d, l)
      BY <1>3, <2>1, LongerLedger
    <3> QED
      BY <1>3, <3>1
  <2> QED
    BY <1>2, <1>6, <2>1, <2>3, <2>4 DEF LoanRow, Exists, e
<1> QED
  BY <1>4, <1>5, <1>6 DEF Tables

\* Both, as Outcome composes them.
Targeted(d, effect) ==
  /\ effect.table \in Tables \cup {"none"}
  /\ effect.table = "payments" => Exists(d, "loans", effect.owner)
  /\ effect.loan = 0 \/ Exists(d, "loans", effect.loan)

RowAfter(d, effect, l) ==
  IF l = effect.loan /\ l # 0 THEN effect.after
  ELSE IF effect.table = "loans" /\ l = Len(d.loans) + 1 THEN effect.row
  ELSE LoanRow(d, l)

LedgerAfter(d, effect, l) ==
  IF effect.table = "payments" /\ l = effect.owner THEN Append(LedgerOf(d, l), effect.row)
  ELSE LedgerOf(d, l)

LEMMA OutcomeLoans ==
  ASSUME NEW d, IsDatabase(d), PaymentsOwned(d), NEW effect, Targeted(d, effect)
  PROVE  LET e == Outcome(d, effect)
         IN  /\ Len(e.loans)
                  = IF effect.table = "loans" THEN Len(d.loans) + 1 ELSE Len(d.loans)
             /\ PaymentsOwned(e)
             /\ \A l : LoanRow(e, l) = RowAfter(d, effect, l)
             /\ \A l : LedgerOf(e, l) = LedgerAfter(d, effect, l)
<1> DEFINE b == IF effect.table = "none" THEN d ELSE Inserted(Bumped(d), effect, d.next)
           e == Outcome(d, effect)
<1>1. e = Updated(b, effect)
  BY DEF Outcome
<1>2. /\ IsDatabase(b)
      /\ Len(b.loans) = IF effect.table = "loans" THEN Len(d.loans) + 1 ELSE Len(d.loans)
      /\ PaymentsOwned(b)
      /\ \A l : LoanRow(b, l) = IF effect.table = "loans" /\ l = Len(d.loans) + 1
                                THEN effect.row ELSE LoanRow(d, l)
      /\ \A l : LedgerOf(b, l) = LedgerAfter(d, effect, l)
  <2>1. CASE effect.table = "none"
    <3>1. Len(d.loans) \in Nat
      BY TableLength DEF IsDatabase, Tables
    <3> QED
      BY <2>1, <3>1 DEF LedgerAfter
  <2>2. CASE effect.table \in Tables
    <3>1. effect.table # "none"
      BY <2>2 DEF Tables
    <3>2. IsDatabase(Inserted(Bumped(d), effect, d.next))
      BY <2>2, InsertedTables
    <3>3. effect.table = "payments" => Exists(d, "loans", effect.owner)
      BY DEF Targeted
    <3> QED
      BY <2>2, <3>1, <3>2, <3>3, InsertedLoans DEF LedgerAfter
  <2> QED
    BY <2>1, <2>2 DEF Targeted
<1> HIDE DEF b, e
<1>3. effect.loan = 0 \/ Exists(b, "loans", effect.loan)
  <2>1. Len(d.loans) \in Nat
    BY TableLength DEF IsDatabase, Tables
  <2>2. Len(b.loans) = Len(d.loans) \/ Len(b.loans) = Len(d.loans) + 1
    <3>1. Len(b.loans) = IF effect.table = "loans" THEN Len(d.loans) + 1 ELSE Len(d.loans)
      BY <1>2
    <3> QED
      BY <2>1, <3>1
  <2>3. 1 .. Len(d.loans) \subseteq 1 .. Len(b.loans)
    BY <2>1, <2>2
  <2> QED
    BY <2>3 DEF Targeted, Exists
<1>4. /\ Len(e.loans) = Len(b.loans) /\ e.payments = b.payments
      /\ \A l : LoanRow(e, l) = IF l = effect.loan /\ l # 0 THEN effect.after
                                ELSE LoanRow(b, l)
      /\ \A l : LedgerOf(e, l) = LedgerOf(b, l)
  BY <1>1, <1>2, <1>3, UpdatedLoans
<1>5. PaymentsOwned(e)
  BY <1>2, <1>4 DEF PaymentsOwned, Exists
<1>6. \A l : LoanRow(e, l) = RowAfter(d, effect, l)
  BY <1>2, <1>4 DEF RowAfter
<1> QED
  BY <1>2, <1>4, <1>5, <1>6 DEF e

-----------------------------------------------------------------------------
(***************************************************************************)
(* What an accepted request does to the loan it names                      *)
(***************************************************************************)

LEMMA RequestTypes ==
  ASSUME NEW req \in RequestForms
  PROVE  /\ req.kind = "create" =>
              /\ req.principal \in Int /\ req.rate \in Int /\ req.periods \in Int
              /\ req.type \in LoanTypes
         /\ req.kind \in {"pay", "prepay"} => req.amount \in Int
         /\ req.kind = "prepay" => req.strategy \in {"reduce_term", "reduce_payment"}
         /\ req.kind = "rate" => req.rate \in Int
BY DEF RequestForms, PortfolioReads, BorrowerReads, LoanReads

\* The step of a loan a request asks for.
Asks(req, loan, ledger, loan2, ledger2) ==
  \/ /\ req.kind = "create"
     /\ Creates(loan, ledger, loan2, ledger2,
                req.principal, req.rate, req.periods, req.type)
  \/ req.kind = "cancel" /\ Cancels(loan, ledger, loan2, ledger2)
  \/ req.kind = "pay" /\ Pays(loan, ledger, loan2, ledger2)
  \/ /\ req.kind = "prepay" /\ req.strategy = "reduce_term"
     /\ ReducesTerm(loan, ledger, loan2, ledger2, req.amount, MaxRemaining)
  \/ /\ req.kind = "prepay" /\ req.strategy = "reduce_payment"
     /\ ReducesPayment(loan, ledger, loan2, ledger2, req.amount)
  \/ req.kind = "rate" /\ Refinances(loan, ledger, loan2, ledger2, req.rate)

LEMMA AskedKeepsHealthy ==
  ASSUME NEW req \in RequestForms, MaxRemaining \in Nat,
         NEW loan, NEW ledger, NEW loan2, NEW ledger2,
         Healthy(loan, ledger), Asks(req, loan, ledger, loan2, ledger2)
  PROVE  Healthy(loan2, ledger2)
<1>1. CASE req.kind = "create"
  <2>1. Creates(loan, ledger, loan2, ledger2,
                req.principal, req.rate, req.periods, req.type)
    BY <1>1 DEF Asks
  <2>2. /\ req.principal \in Int /\ req.rate \in Int /\ req.periods \in Int
        /\ req.type \in LoanTypes
    BY <1>1, RequestTypes
  <2> QED
    BY <2>1, <2>2, NewLoanIsHealthy
<1>2. CASE req.kind = "cancel"
  BY <1>2, CanceledIsHealthy DEF Asks
<1>3. CASE req.kind = "pay"
  BY <1>3, PaidIsHealthy DEF Asks
<1>4. CASE req.kind = "prepay"
  <2>1. req.amount \in Int
    BY <1>4, RequestTypes
  <2>2. CASE ReducesTerm(loan, ledger, loan2, ledger2, req.amount, MaxRemaining)
    BY <2>1, <2>2, ReducedTermIsHealthy
  <2>3. CASE ReducesPayment(loan, ledger, loan2, ledger2, req.amount)
    BY <2>1, <2>3, ReducedPaymentIsHealthy
  <2> QED
    BY <1>4, <2>2, <2>3 DEF Asks
<1>5. CASE req.kind = "rate"
  <2>1. req.rate \in Int /\ Refinances(loan, ledger, loan2, ledger2, req.rate)
    BY <1>5, RequestTypes DEF Asks
  <2> QED
    BY <2>1, RefinancedIsHealthy
<1> QED
  BY <1>1, <1>2, <1>3, <1>4, <1>5 DEF Asks

LEMMA AskedLeavesALoan ==
  ASSUME NEW req \in RequestForms, MaxRemaining \in Nat,
         NEW loan, NEW ledger, NEW loan2, NEW ledger2,
         Healthy(loan, ledger), Asks(req, loan, ledger, loan2, ledger2)
  PROVE  loan2.status # "none"
<1>t. loan \in LoanRows
  BY DEF Healthy
<1>1. CASE req.kind = "create"
  <2>1. Creates(loan, ledger, loan2, ledger2,
                req.principal, req.rate, req.periods, req.type)
    BY <1>1 DEF Asks
  <2> QED
    BY <2>1 DEF Creates, NewLoan
<1>2. CASE req.kind = "cancel"
  BY <1>2, CanceledEffect DEF Asks
<1>3. CASE req.kind = "pay"
  <2>1. Pays(loan, ledger, loan2, ledger2)
    BY <1>3 DEF Asks
  <2>2. /\ loan.status = "active"
        /\ loan2 = loan \/ loan2 = [loan EXCEPT !.status = "closed"]
    BY <2>1, PaymentEffect
  <2> QED
    BY <1>t, <2>2 DEF LoanRows
<1>4. CASE req.kind = "prepay"
  <2>1. PICK in, term :
          /\ AcceptingOf(loan, ledger)
          /\ loan2 = ReducedTerm(loan, in, term) \/ loan2 = ReducedPayment(loan, in)
    BY <1>4 DEF Asks, ReducesTerm, ReducesPayment, Prepays
  <2> QED
    BY <1>t, <2>1 DEF AcceptingOf, ReducedTerm, ReducedPayment, LoanRows
<1>5. CASE req.kind = "rate"
  <2>1. PICK in : AcceptingOf(loan, ledger) /\ loan2 = Refinanced(loan, in)
    BY <1>5 DEF Asks, Refinances
  <2> QED
    BY <1>t, <2>1 DEF AcceptingOf, Refinanced, LoanRows
<1> QED
  BY <1>1, <1>2, <1>3, <1>4, <1>5 DEF Asks

\* One loan takes the step a request asks for, and no other changes; or none does.
StepsOne(d, e, req, l) ==
  /\ Asks(req, LoanRow(d, l), LedgerOf(d, l), LoanRow(e, l), LedgerOf(e, l))
  /\ \A k : k # l => LoanRow(e, k) = LoanRow(d, k) /\ LedgerOf(e, k) = LedgerOf(d, k)
  /\ Len(e.loans) = IF req.kind = "create" THEN Len(d.loans) + 1 ELSE Len(d.loans)
  /\ IF req.kind = "create" THEN l = Len(d.loans) + 1 ELSE Exists(d, "loans", l)

StepsNone(d, e) ==
  /\ \A k : LoanRow(e, k) = LoanRow(d, k) /\ LedgerOf(e, k) = LedgerOf(d, k)
  /\ Len(e.loans) = Len(d.loans)

LEMMA OutcomeStepsOne ==
  ASSUME NEW d, IsDatabase(d), PaymentsOwned(d), NEW effect, Targeted(d, effect),
         NEW req, NEW l, effect.loan = 0 \/ effect.loan = l,
         effect.table = "payments" => effect.owner = l,
         effect.table = "loans" <=> req.kind = "create",
         IF req.kind = "create" THEN l = Len(d.loans) + 1 ELSE Exists(d, "loans", l),
         Asks(req, LoanRow(d, l), LedgerOf(d, l), RowAfter(d, effect, l),
              LedgerAfter(d, effect, l))
  PROVE  PaymentsOwned(Outcome(d, effect)) /\ StepsOne(d, Outcome(d, effect), req, l)
<1> DEFINE e == Outcome(d, effect)
<1>1. /\ Len(e.loans) = IF effect.table = "loans" THEN Len(d.loans) + 1 ELSE Len(d.loans)
      /\ PaymentsOwned(e)
      /\ \A k : LoanRow(e, k) = RowAfter(d, effect, k)
      /\ \A k : LedgerOf(e, k) = LedgerAfter(d, effect, k)
  BY OutcomeLoans
<1> HIDE DEF e
<1>2. Asks(req, LoanRow(d, l), LedgerOf(d, l), LoanRow(e, l), LedgerOf(e, l))
  BY <1>1
<1>3. ASSUME NEW k, k # l
      PROVE  LoanRow(e, k) = LoanRow(d, k) /\ LedgerOf(e, k) = LedgerOf(d, k)
  <2>1. LoanRow(e, k) = RowAfter(d, effect, k) /\ LedgerOf(e, k) = LedgerAfter(d, effect, k)
    BY <1>1
  <2>2. LedgerAfter(d, effect, k) = LedgerOf(d, k)
    BY <1>3 DEF LedgerAfter
  <2>3. RowAfter(d, effect, k) = LoanRow(d, k)
    BY <1>3 DEF RowAfter
  <2> QED
    BY <2>1, <2>2, <2>3
<1>4. Len(e.loans) = IF req.kind = "create" THEN Len(d.loans) + 1 ELSE Len(d.loans)
  BY <1>1
<1> QED
  BY <1>1, <1>2, <1>3, <1>4 DEF StepsOne, e

\* Which loans a request that was accepted may count on.
LEMMA CoherentLoan ==
  ASSUME NEW d, Coherent(d), NEW l, Exists(d, "loans", l)
  PROVE  /\ Healthy(LoanRow(d, l), LedgerOf(d, l))
         /\ LoanRow(d, l).status # "none"
BY DEF Coherent, Exists

LEMMA NewLoansPlace ==
  ASSUME NEW d, IsDatabase(d), PaymentsOwned(d)
  PROVE  LET l == Len(d.loans) + 1
         IN  /\ ~Exists(d, "loans", l) /\ l # 0
             /\ LoanRow(d, l) = NoLoan /\ LedgerOf(d, l) = << >>
<1> DEFINE l == Len(d.loans) + 1
<1>1. Len(d.loans) \in Nat
  BY TableLength DEF IsDatabase, Tables
<1>2. l \notin 1 .. Len(d.loans) /\ l # 0
  BY <1>1
<1> HIDE DEF l
<1>3. ~Exists(d, "loans", l)
  BY <1>2 DEF Exists
<1>4. \A p \in 1 .. Len(d.payments) : d.payments[p].owner # l
  BY <1>3 DEF PaymentsOwned
<1>5. LedgerOf(d, l) = << >>
  BY <1>4, NoLedger
<1> QED
  BY <1>2, <1>3, <1>5 DEF LoanRow, l

LEMMA AcceptedLoad ==
  ASSUME NEW d, NEW req, req.kind \in {"pay", "prepay", "rate"},
         Refusal(d, req) = Accepted
  PROVE  /\ Exists(d, "loans", req.loan)
         /\ AcceptingOf(LoanRow(d, req.loan), LedgerOf(d, req.loan))
         /\ req.kind = "pay" => PayRefusal(d, req) = Accepted
         /\ req.kind = "prepay" => PrepayRefusal(d, req) = Accepted
         /\ req.kind = "rate" => RateRefusal(d, req) = Accepted
<1>1. OpenRefusal(d, req.loan) = Accepted
  BY DEF Refusal
<1>2. LoadRefusal(d, req.loan) = Accepted
  BY <1>1 DEF OpenRefusal
<1> QED
  BY <1>1, <1>2 DEF Refusal, OpenRefusal, LoadRefusal, AcceptingOf, Accepted

LEMMA CreateSteps ==
  ASSUME NEW d, IsDatabase(d), Coherent(d), PaymentsOwned(d),
         NEW req \in RequestForms, req.kind = "create", ~Malformed(req),
         NEW effect \in Effects(d, req)
  PROVE  /\ PaymentsOwned(Outcome(d, effect))
         /\ StepsOne(d, Outcome(d, effect), req, Len(d.loans) + 1)
<1> DEFINE l == Len(d.loans) + 1
           new == NewLoan(req.principal, req.rate, req.periods, req.type)
<1>1. /\ effect = Insert("loans", req.borrower, new)
  BY DEF Effects
<1>2. effect.table = "loans" /\ effect.loan = 0 /\ effect.row = new
  BY <1>1 DEF Insert
<1>3. ~Exists(d, "loans", l) /\ l # 0 /\ LoanRow(d, l) = NoLoan /\ LedgerOf(d, l) = << >>
  BY NewLoansPlace
<1> HIDE DEF l, new
<1>4. GoodTerms(req.principal, req.rate, req.periods, req.type)
  BY DEF Malformed
<1>5. RowAfter(d, effect, l) = new /\ LedgerAfter(d, effect, l) = LedgerOf(d, l)
  BY <1>2, <1>3 DEF RowAfter, LedgerAfter, l
<1>6. Asks(req, LoanRow(d, l), LedgerOf(d, l), RowAfter(d, effect, l),
           LedgerAfter(d, effect, l))
  BY <1>3, <1>4, <1>5 DEF Asks, Creates, NoLoan, new
<1>7. Targeted(d, effect)
  BY <1>2 DEF Targeted, Tables
<1> QED
  BY <1>2, <1>6, <1>7, OutcomeStepsOne DEF l

LEMMA CancelSteps ==
  ASSUME NEW d, IsDatabase(d), Coherent(d), PaymentsOwned(d),
         NEW req \in RequestForms, req.kind = "cancel", Refusal(d, req) = Accepted,
         NEW effect \in Effects(d, req)
  PROVE  /\ PaymentsOwned(Outcome(d, effect))
         /\ StepsOne(d, Outcome(d, effect), req, req.loan)
<1> DEFINE l == req.loan
           after == [LoanRow(d, l) EXCEPT !.status = "canceled"]
<1>1. effect = Update(NoEffect, l, after)
  BY DEF Effects
<1>2. effect.table = "none" /\ effect.loan = l /\ effect.after = after
  BY <1>1 DEF Update, NoEffect
<1>3. CancelRefusal(d, req) = Accepted
  BY DEF Refusal
<1>4. /\ Exists(d, "loans", l) /\ LoanRow(d, l).status = "active"
      /\ LedgerOf(d, l) = << >>
  BY <1>3 DEF CancelRefusal, Accepted
<1>5. l # 0
  BY <1>4 DEF Exists
<1> HIDE DEF l, after
<1>6. RowAfter(d, effect, l) = after /\ LedgerAfter(d, effect, l) = LedgerOf(d, l)
  BY <1>2, <1>5 DEF RowAfter, LedgerAfter
<1>7. Asks(req, LoanRow(d, l), LedgerOf(d, l), RowAfter(d, effect, l),
           LedgerAfter(d, effect, l))
  BY <1>4, <1>6 DEF Asks, Cancels, after
<1>8. Targeted(d, effect)
  BY <1>2, <1>4 DEF Targeted
<1>9. effect.table # "loans" /\ effect.table # "payments" /\ req.kind # "create"
  BY <1>2
<1> QED
  BY <1>2, <1>4, <1>7, <1>8, <1>9, OutcomeStepsOne DEF l

LEMMA RateSteps ==
  ASSUME NEW d, IsDatabase(d), Coherent(d), PaymentsOwned(d),
         NEW req \in RequestForms, req.kind = "rate", ~Malformed(req),
         Refusal(d, req) = Accepted, NEW effect \in Effects(d, req)
  PROVE  /\ PaymentsOwned(Outcome(d, effect))
         /\ StepsOne(d, Outcome(d, effect), req, req.loan)
<1> DEFINE l == req.loan
           after == Refinanced(LoanRow(d, l), RecastOf(d, req))
<1>1. effect = Update(NoEffect, l, after)
  BY DEF Effects
<1>2. effect.table = "none" /\ effect.loan = l /\ effect.after = after
  BY <1>1 DEF Update, NoEffect
<1>3. /\ Exists(d, "loans", l) /\ AcceptingOf(LoanRow(d, l), LedgerOf(d, l))
      /\ RateRefusal(d, req) = Accepted
  BY AcceptedLoad
<1>4. Recasts(RecastOf(d, req)) => ~RateChangeRejects(RecastOf(d, req))
  BY <1>3 DEF RateRefusal, Accepted
<1>5. RecastOf(d, req) = RecastInput(LoanRow(d, l), LedgerOf(d, l),
                                     OutstandingOf(LoanRow(d, l), LedgerOf(d, l)), req.rate)
  BY DEF RecastOf
<1>r. req.rate >= 0
  BY RequestTypes DEF Malformed
<1>6. l # 0
  BY <1>3 DEF Exists
<1> HIDE DEF l, after
<1>7. RowAfter(d, effect, l) = after /\ LedgerAfter(d, effect, l) = LedgerOf(d, l)
  BY <1>2, <1>6 DEF RowAfter, LedgerAfter
<1>8. Refinances(LoanRow(d, l), LedgerOf(d, l), after, LedgerOf(d, l), req.rate)
  BY <1>3, <1>4, <1>5, <1>r DEF Refinances, after, l
<1>9. Asks(req, LoanRow(d, l), LedgerOf(d, l), RowAfter(d, effect, l),
           LedgerAfter(d, effect, l))
  BY <1>7, <1>8 DEF Asks
<1>10. Targeted(d, effect)
  BY <1>2, <1>3 DEF Targeted
<1>11. effect.table # "loans" /\ effect.table # "payments" /\ req.kind # "create"
  BY <1>2
<1> QED
  BY <1>2, <1>3, <1>9, <1>10, <1>11, OutcomeStepsOne DEF l

LEMMA PaySteps ==
  ASSUME NEW d, IsDatabase(d), Coherent(d), PaymentsOwned(d),
         NEW req \in RequestForms, req.kind = "pay", ~Malformed(req),
         Refusal(d, req) = Accepted, NEW effect \in Effects(d, req)
  PROVE  /\ PaymentsOwned(Outcome(d, effect))
         /\ StepsOne(d, Outcome(d, effect), req, req.loan)
<1> DEFINE l == req.loan
           loan == LoanRow(d, l)
           ledger == LedgerOf(d, l)
           next == RemainingScheduleOf(loan, ledger)[1]
           after == AfterPayment(loan, ledger, next)
           row == ScheduledRow(next)
<1>1. effect = IF after = loan THEN Insert("payments", l, row)
               ELSE Update(Insert("payments", l, row), l, after)
  BY DEF Effects, PayEffect
<1>2. /\ effect.table = "payments" /\ effect.owner = l /\ effect.row = row
      /\ \/ effect.loan = 0 /\ after = loan
         \/ effect.loan = l /\ effect.after = after
  <2> HIDE DEF after, loan, row
  <2> QED
    BY <1>1 DEF Insert, Update
<1>3. /\ Exists(d, "loans", l) /\ AcceptingOf(loan, ledger)
      /\ PayRefusal(d, req) = Accepted
  BY AcceptedLoad
<1>4. RemainingScheduleOf(loan, ledger) # << >> /\ req.amount = next.payment
  BY <1>3 DEF PayRefusal, Accepted
<1>5. next.payment > 0
  BY <1>4, RequestTypes DEF Malformed
<1>6. l # 0
  BY <1>3 DEF Exists
<1>7. Pays(loan, ledger, after, Append(ledger, row))
  BY <1>3, <1>4, <1>5 DEF Pays
<1> HIDE DEF l, loan, ledger, next, after, row
<1>8. /\ RowAfter(d, effect, l) = after
      /\ LedgerAfter(d, effect, l) = Append(ledger, row)
  BY <1>2, <1>6 DEF RowAfter, LedgerAfter, loan, ledger
<1>9. Asks(req, LoanRow(d, l), LedgerOf(d, l), RowAfter(d, effect, l),
           LedgerAfter(d, effect, l))
  BY <1>7, <1>8 DEF Asks, loan, ledger
<1>10. Targeted(d, effect)
  BY <1>2, <1>3 DEF Targeted, Tables
<1>11. effect.table # "loans" /\ req.kind # "create"
  BY <1>2
<1> QED
  BY <1>2, <1>3, <1>9, <1>10, <1>11, OutcomeStepsOne DEF l

LEMMA PrepaySteps ==
  ASSUME NEW d, IsDatabase(d), Coherent(d), PaymentsOwned(d),
         NEW req \in RequestForms, req.kind = "prepay", ~Malformed(req),
         Refusal(d, req) = Accepted, NEW effect \in Effects(d, req)
  PROVE  /\ PaymentsOwned(Outcome(d, effect))
         /\ StepsOne(d, Outcome(d, effect), req, req.loan)
<1> DEFINE l == req.loan
           loan == LoanRow(d, l)
           ledger == LedgerOf(d, l)
           in == RecastOf(d, req)
           row == PrepaymentRow(loan, ledger, req.amount)
<1>1. PICK after :
        /\ effect = Update(Insert("payments", l, row), l, after)
        /\ \/ /\ req.strategy = "reduce_term"
              /\ \E term \in RecastReduceTerm(in, MaxRemaining) :
                   after = ReducedTerm(loan, in, term)
           \/ req.strategy = "reduce_payment" /\ after = ReducedPayment(loan, in)
  <2>1. effect \in PrepayEffects(d, req)
    BY DEF Effects
  <2>2. req.strategy = "reduce_term" \/ req.strategy = "reduce_payment"
    BY RequestTypes
  <2> QED
    BY <2>1, <2>2 DEF PrepayEffects
<1>2. /\ effect.table = "payments" /\ effect.owner = l /\ effect.row = row
      /\ effect.loan = l /\ effect.after = after
  BY <1>1 DEF Insert, Update
<1>3. /\ Exists(d, "loans", l) /\ AcceptingOf(loan, ledger)
      /\ PrepayRefusal(d, req) = Accepted
  BY AcceptedLoad
<1>4. in = Left(loan, ledger, req.amount)
  BY DEF RecastOf, Left
<1>5. /\ req.amount \in Int /\ req.amount > 0
      /\ ~(req.amount > OutstandingOf(loan, ledger))
  BY <1>3, RequestTypes DEF Malformed, PrepayRefusal, Accepted
<1>6. OutstandingOf(loan, ledger) \in Int
  BY <1>3, CoherentLoan, HealthyTypes
<1>7. Prepays(loan, ledger, Append(ledger, row), req.amount)
  <2>1. req.amount <= OutstandingOf(loan, ledger)
    BY <1>5, <1>6
  <2> QED
    BY <1>3, <1>5, <2>1 DEF Prepays
<1>8. \/ /\ req.strategy = "reduce_term"
         /\ loan.type = "equal_installment" /\ ~ReduceTermRejects(in)
      \/ req.strategy = "reduce_payment" /\ ~ReducePaymentRejects(in)
  BY <1>1, <1>3 DEF PrepayRefusal, Accepted
<1>9. \/ /\ req.strategy = "reduce_term"
         /\ ReducesTerm(loan, ledger, after, Append(ledger, row), req.amount, MaxRemaining)
      \/ /\ req.strategy = "reduce_payment"
         /\ ReducesPayment(loan, ledger, after, Append(ledger, row), req.amount)
  <2> HIDE DEF in, row, loan, ledger
  <2> QED
    BY <1>1, <1>4, <1>7, <1>8 DEF ReducesTerm, ReducesPayment
<1>10. l # 0
  BY <1>3 DEF Exists
<1> HIDE DEF l, loan, ledger, in, row
<1>11. /\ RowAfter(d, effect, l) = after
       /\ LedgerAfter(d, effect, l) = Append(ledger, row)
  BY <1>2, <1>10 DEF RowAfter, LedgerAfter, loan, ledger
<1>12. Asks(req, LoanRow(d, l), LedgerOf(d, l), RowAfter(d, effect, l),
            LedgerAfter(d, effect, l))
  BY <1>9, <1>11 DEF Asks, loan, ledger
<1>13. Targeted(d, effect)
  BY <1>2, <1>3 DEF Targeted, Tables
<1>14. effect.table # "loans" /\ req.kind # "create"
  BY <1>2
<1> QED
  BY <1>2, <1>3, <1>12, <1>13, <1>14, OutcomeStepsOne DEF l

LEMMA BorrowerStepsNone ==
  ASSUME NEW d, IsDatabase(d), PaymentsOwned(d),
         NEW req, req.kind = "borrower", NEW effect \in Effects(d, req)
  PROVE  PaymentsOwned(Outcome(d, effect)) /\ StepsNone(d, Outcome(d, effect))
<1>1. effect = Insert("borrowers", 0, NoLoan)
  BY DEF Effects
<1>2. effect.table = "borrowers" /\ effect.loan = 0
  BY <1>1 DEF Insert
<1>3. Targeted(d, effect)
  BY <1>2 DEF Targeted, Tables
<1>4. \A k : RowAfter(d, effect, k) = LoanRow(d, k)
             /\ LedgerAfter(d, effect, k) = LedgerOf(d, k)
  BY <1>2 DEF RowAfter, LedgerAfter
<1>5. effect.table # "loans"
  BY <1>2
<1> QED
  BY <1>3, <1>4, <1>5, OutcomeLoans DEF StepsNone

\* The step of a request, whatever it asks for.
LEMMA RequestSteps ==
  ASSUME NEW d, IsDatabase(d), Coherent(d),
         NEW req \in RequestForms, ~Malformed(req), Refusal(d, req) = Accepted,
         NEW effect \in Effects(d, req), effect # NoEffect
  PROVE  /\ PaymentsOwned(Outcome(d, effect))
         /\ \/ StepsNone(d, Outcome(d, effect))
            \/ \E l : StepsOne(d, Outcome(d, effect), req, l)
<1>1. PaymentsOwned(d)
  BY DEF Coherent, PaymentsOwned
<1>2. req.kind \in {"borrower", "create", "cancel", "pay", "prepay", "rate"}
  BY ReadsWriteNothing, ReadKinds DEF WriteKinds
<1>3. CASE req.kind = "borrower"
  BY <1>1, <1>3, BorrowerStepsNone
<1>4. CASE req.kind = "create"
  BY <1>1, <1>4, CreateSteps
<1>5. CASE req.kind = "cancel"
  BY <1>1, <1>5, CancelSteps
<1>6. CASE req.kind = "pay"
  BY <1>1, <1>6, PaySteps
<1>7. CASE req.kind = "prepay"
  BY <1>1, <1>7, PrepaySteps
<1>8. CASE req.kind = "rate"
  BY <1>1, <1>8, RateSteps
<1> QED
  BY <1>2, <1>3, <1>4, <1>5, <1>6, <1>7, <1>8

\* NoLoan is in order, so that the step of a create starts from a healthy loan.
LEMMA NoLoanIsHealthy == Healthy(NoLoan, << >>)
<1>1. OutstandingOf(NoLoan, << >>) = 0
  BY PrincipalOfEmpty DEF OutstandingOf, NoLoan
<1> QED
  BY <1>1 DEF Healthy, NoLoan, LoanRows

\* An accepted request leaves a coherent database.
LEMMA RequestKeepsCoherent ==
  ASSUME NEW d, IsDatabase(d), Coherent(d), MaxRemaining \in Nat,
         NEW req \in RequestForms, ~Malformed(req), Refusal(d, req) = Accepted,
         NEW effect \in Effects(d, req), effect # NoEffect
  PROVE  Coherent(Outcome(d, effect))
<1> DEFINE e == Outcome(d, effect)
<1>1. PaymentsOwned(e) /\ (StepsNone(d, e) \/ \E l : StepsOne(d, e, req, l))
  BY RequestSteps
<1> HIDE DEF e
<1>2. ASSUME NEW k \in 1 .. Len(e.loans)
      PROVE  LoanRow(e, k).status # "none" /\ Healthy(LoanRow(e, k), LedgerOf(e, k))
  <2>1. CASE StepsNone(d, e)
    <3>1. Exists(d, "loans", k)
      BY <2>1 DEF StepsNone, Exists
    <3> QED
      BY <2>1, <3>1, CoherentLoan DEF StepsNone
  <2>2. ASSUME NEW l, StepsOne(d, e, req, l), k # l
        PROVE  LoanRow(e, k).status # "none" /\ Healthy(LoanRow(e, k), LedgerOf(e, k))
    <3>1. LoanRow(e, k) = LoanRow(d, k) /\ LedgerOf(e, k) = LedgerOf(d, k)
      BY <2>2 DEF StepsOne
    <3>2. Exists(d, "loans", k)
      <4>1. Len(d.loans) \in Nat
        BY TableLength DEF IsDatabase, Tables
      <4>2. CASE req.kind = "create"
        <5>1. Len(e.loans) = Len(d.loans) + 1 /\ l = Len(d.loans) + 1
          BY <2>2, <4>2 DEF StepsOne
        <5>2. k \in 1 .. Len(d.loans)
          BY <2>2, <4>1, <5>1
        <5> QED
          BY <5>2 DEF Exists
      <4>3. CASE req.kind # "create"
        BY <2>2, <4>3 DEF StepsOne, Exists
      <4> QED
        BY <4>2, <4>3
    <3> QED
      BY <3>1, <3>2, CoherentLoan
  <2>3. ASSUME NEW l, StepsOne(d, e, req, l), k = l
        PROVE  LoanRow(e, k).status # "none" /\ Healthy(LoanRow(e, k), LedgerOf(e, k))
    <3>1. Asks(req, LoanRow(d, l), LedgerOf(d, l), LoanRow(e, l), LedgerOf(e, l))
      BY <2>3 DEF StepsOne
    <3>2. Healthy(LoanRow(d, l), LedgerOf(d, l))
      <4>1. CASE req.kind = "create"
        <5>1. l = Len(d.loans) + 1
          BY <2>3, <4>1 DEF StepsOne
        <5>2. PaymentsOwned(d)
          BY DEF Coherent, PaymentsOwned
        <5>3. LoanRow(d, l) = NoLoan /\ LedgerOf(d, l) = << >>
          BY <5>1, <5>2, NewLoansPlace
        <5> QED
          BY <5>3, NoLoanIsHealthy
      <4>2. CASE req.kind # "create"
        BY <2>3, <4>2, CoherentLoan DEF StepsOne
      <4> QED
        BY <4>1, <4>2
    <3> QED
      BY <2>3, <3>1, <3>2, AskedKeepsHealthy, AskedLeavesALoan
  <2> QED
    BY <1>1, <2>1, <2>2, <2>3
<1>3. Coherent(e)
  BY <1>1, <1>2 DEF Coherent, PaymentsOwned
<1> QED
  BY <1>3 DEF e

LEMMA OpenedKeepsCoherent ==
  ASSUME NEW d, IsDatabase(d), Coherent(d)
  PROVE  Coherent(Opened(d))
<1> DEFINE e == Opened(d)
<1>1. e.loans = d.loans /\ e.payments = d.payments
  BY DEF Opened, IsDatabase, Tables
<1> HIDE DEF e
<1>2. \A l : LedgerOf(e, l) = LedgerOf(d, l)
  BY <1>1, SameLedger
<1>3. \A l : LoanRow(e, l) = LoanRow(d, l)
  BY <1>1 DEF LoanRow, Exists
<1>4. Coherent(e)
  BY <1>1, <1>2, <1>3 DEF Coherent, Exists
<1> QED
  BY <1>4 DEF e

-----------------------------------------------------------------------------
(***************************************************************************)
(* The operators of LoanState inside the instance LoanAt(l) of module Loan *)
(* are the operators themselves, layer by layer.                           *)
(***************************************************************************)

LEMMA SameTypes ==
  ASSUME NEW l
  PROVE  LoanAt(l)!LoanTypes = LoanTypes /\ LoanAt(l)!NoLoan = NoLoan
BY DEF LoanAt!LoanTypes, LoanTypes, LoanAt!NoLoan, NoLoan

LEMMA SameRoundCents ==
  ASSUME NEW l, NEW num, NEW den
  PROVE  LoanAt(l)!RoundCents(num, den) = RoundCents(num, den)
BY DEF LoanAt!RoundCents, RoundCents

LEMMA SameMulRateMicro ==
  ASSUME NEW l, NEW balance, NEW rate
  PROVE  LoanAt(l)!MulRateMicro(balance, rate) = MulRateMicro(balance, rate)
BY SameRoundCents DEF LoanAt!MulRateMicro, MulRateMicro

LEMMA SameFold ==
  ASSUME NEW l, NEW first, NEW step, NEW n
  PROVE  LoanAt(l)!Fold(first, step, n) = Fold(first, step, n)
BY DEF LoanAt!Fold, Fold

LEMMA SamePow ==
  ASSUME NEW l, NEW base, NEW n
  PROVE  LoanAt(l)!Pow(base, n) = Pow(base, n)
BY SameFold DEF LoanAt!Pow, Pow

LEMMA SamePaymentAmount ==
  ASSUME NEW l, NEW outstanding, NEW rate, NEW n
  PROVE  LoanAt(l)!PaymentAmount(outstanding, rate, n) = PaymentAmount(outstanding, rate, n)
BY SamePow, SameRoundCents DEF LoanAt!PaymentAmount, PaymentAmount

LEMMA SameBalance ==
  ASSUME NEW l, NEW in, NEW due, NEW n
  PROVE  LoanAt(l)!Balance(in, due, n) = Balance(in, due, n)
BY SameFold DEF LoanAt!Balance, Balance

LEMMA SameRow ==
  ASSUME NEW l, NEW number, NEW before, NEW principal, NEW rate
  PROVE  LoanAt(l)!Row(number, before, principal, rate)
           = Row(number, before, principal, rate)
BY SameMulRateMicro DEF LoanAt!Row, Row

LEMMA SameAmortize ==
  ASSUME NEW l, NEW in, NEW due
  PROVE  LoanAt(l)!Amortize(in, due) = Amortize(in, due)
BY SameBalance, SameRow DEF LoanAt!Amortize, Amortize

LEMMA SameFixedPayment ==
  ASSUME NEW l, NEW in, NEW payment
  PROVE  /\ LoanAt(l)!FixedPaymentDue(in, payment) = FixedPaymentDue(in, payment)
         /\ LoanAt(l)!FixedPaymentRejects(in, payment) <=> FixedPaymentRejects(in, payment)
BY SameMulRateMicro DEF LoanAt!FixedPaymentDue, FixedPaymentDue,
                        LoanAt!FixedPaymentRejects, FixedPaymentRejects

LEMMA SameBuildFixedPayment ==
  ASSUME NEW l, NEW in, NEW payment
  PROVE  LoanAt(l)!BuildFixedPayment(in, payment) = BuildFixedPayment(in, payment)
BY SameFixedPayment, SameAmortize DEF LoanAt!BuildFixedPayment, BuildFixedPayment

LEMMA SameDue ==
  ASSUME NEW l, NEW in
  PROVE  /\ LoanAt(l)!InterestOnlyDue(in) = InterestOnlyDue(in)
         /\ LoanAt(l)!EqualPrincipalDue(in) = EqualPrincipalDue(in)
BY DEF LoanAt!InterestOnlyDue, InterestOnlyDue, LoanAt!EqualPrincipalDue, EqualPrincipalDue

LEMMA SameEqualInstallmentDue ==
  ASSUME NEW l, NEW in
  PROVE  LoanAt(l)!EqualInstallmentDue(in) = EqualInstallmentDue(in)
BY SameDue, SameFixedPayment, SamePaymentAmount
DEF LoanAt!EqualInstallmentDue, EqualInstallmentDue

LEMMA SameBuild ==
  ASSUME NEW l, NEW in
  PROVE  LoanAt(l)!Build(in) = Build(in)
BY SameDue, SameEqualInstallmentDue, SameAmortize DEF LoanAt!Build, Build

LEMMA SameBuildRejects ==
  ASSUME NEW l, NEW in
  PROVE  LoanAt(l)!BuildRejects(in) <=> BuildRejects(in)
BY SameTypes, SamePaymentAmount, SameMulRateMicro
DEF LoanAt!BuildRejects, BuildRejects, LoanAt!NegativelyAmortizes, NegativelyAmortizes

LEMMA SameTotal ==
  ASSUME NEW l, NEW amounts
  PROVE  LoanAt(l)!Total(amounts) = Total(amounts)
BY SameFold DEF LoanAt!Total, Total

LEMMA SameSums ==
  ASSUME NEW l, NEW rows
  PROVE  /\ LoanAt(l)!SumPrincipal(rows) = SumPrincipal(rows)
         /\ LoanAt(l)!PrincipalOf(rows) = PrincipalOf(rows)
         /\ LoanAt(l)!FinalBalance(rows) = FinalBalance(rows)
BY SameTotal DEF LoanAt!SumPrincipal, SumPrincipal, LoanAt!PrincipalOf, PrincipalOf,
                 LoanAt!FinalBalance, FinalBalance

LEMMA SameValidSchedule ==
  ASSUME NEW l, NEW rows, NEW principal
  PROVE  LoanAt(l)!ValidSchedule(rows, principal) <=> ValidSchedule(rows, principal)
BY SameSums DEF LoanAt!ValidSchedule, ValidSchedule

LEMMA SamePaidPeriods ==
  ASSUME NEW l, NEW rows
  PROVE  LoanAt(l)!PaidPeriodsOf(rows) = PaidPeriodsOf(rows)
<1>1. ASSUME NEW S PROVE LoanAt(l)!Cardinality(S) = Cardinality(S)
  BY DEF LoanAt!Cardinality, Cardinality
<1>2. LoanAt(l)!Scheduled(rows) = Scheduled(rows)
  BY DEF LoanAt!Scheduled, Scheduled
<1> QED
  BY <1>1, <1>2 DEF LoanAt!PaidPeriodsOf, PaidPeriodsOf

LEMMA SameOutstanding ==
  ASSUME NEW l, NEW loan, NEW ledger
  PROVE  LoanAt(l)!OutstandingOf(loan, ledger) = OutstandingOf(loan, ledger)
BY SameSums DEF LoanAt!OutstandingOf, OutstandingOf

LEMMA SameUnpaid ==
  ASSUME NEW l, NEW loan, NEW ledger
  PROVE  /\ LoanAt(l)!UnpaidOf(loan, ledger) = UnpaidOf(loan, ledger)
         /\ LoanAt(l)!HasPlanOf(loan, ledger) <=> HasPlanOf(loan, ledger)
         /\ LoanAt(l)!FullyPaidOf(loan, ledger) <=> FullyPaidOf(loan, ledger)
BY SameOutstanding, SamePaidPeriods
DEF LoanAt!UnpaidOf, UnpaidOf, LoanAt!HasPlanOf, HasPlanOf, LoanAt!FullyPaidOf, FullyPaidOf

LEMMA SameAccepting ==
  ASSUME NEW l, NEW loan, NEW ledger
  PROVE  LoanAt(l)!AcceptingOf(loan, ledger) <=> AcceptingOf(loan, ledger)
BY SameUnpaid, SameFixedPayment, SameBuildRejects
DEF LoanAt!AcceptingOf, AcceptingOf, LoanAt!LoadFailsOf, LoadFailsOf

LEMMA SameRemainingSchedule ==
  ASSUME NEW l, NEW loan, NEW ledger
  PROVE  LoanAt(l)!RemainingScheduleOf(loan, ledger) = RemainingScheduleOf(loan, ledger)
BY SameUnpaid, SameBuild, SameBuildFixedPayment
DEF LoanAt!RemainingScheduleOf, RemainingScheduleOf

LEMMA SameTerms ==
  ASSUME NEW l, NEW principal, NEW rate, NEW periods, NEW type
  PROVE  /\ LoanAt(l)!GoodTerms(principal, rate, periods, type)
              <=> GoodTerms(principal, rate, periods, type)
         /\ LoanAt(l)!NewLoan(principal, rate, periods, type)
              = NewLoan(principal, rate, periods, type)
BY SameBuild, SameBuildRejects, SameValidSchedule, SamePaymentAmount
DEF LoanAt!GoodTerms, GoodTerms, LoanAt!NewLoan, NewLoan

LEMMA SamePayment ==
  ASSUME NEW l, NEW loan, NEW ledger, NEW next
  PROVE  /\ LoanAt(l)!ScheduledRow(next) = ScheduledRow(next)
         /\ LoanAt(l)!AfterPayment(loan, ledger, next) = AfterPayment(loan, ledger, next)
BY SameOutstanding, SamePaidPeriods
DEF LoanAt!ScheduledRow, ScheduledRow, LoanAt!AfterPayment, AfterPayment

LEMMA SameRecastInput ==
  ASSUME NEW l, NEW loan, NEW ledger, NEW outstanding, NEW rate
  PROVE  LoanAt(l)!RecastInput(loan, ledger, outstanding, rate)
           = RecastInput(loan, ledger, outstanding, rate)
BY SamePaidPeriods DEF LoanAt!RecastInput, RecastInput

LEMMA SamePrepaymentRow ==
  ASSUME NEW l, NEW loan, NEW ledger, NEW amount
  PROVE  LoanAt(l)!PrepaymentRow(loan, ledger, amount) = PrepaymentRow(loan, ledger, amount)
BY SamePaidPeriods
DEF LoanAt!PrepaymentRow, PrepaymentRow, LoanAt!NextUnpaidPeriod, NextUnpaidPeriod

LEMMA SameRejections ==
  ASSUME NEW l, NEW in
  PROVE  /\ LoanAt(l)!ReduceTermRejects(in) <=> ReduceTermRejects(in)
         /\ LoanAt(l)!ReducePaymentRejects(in) <=> ReducePaymentRejects(in)
         /\ LoanAt(l)!RateChangeRejects(in) <=> RateChangeRejects(in)
         /\ LoanAt(l)!Recasts(in) <=> Recasts(in)
BY SameBuildRejects
DEF LoanAt!ReduceTermRejects, ReduceTermRejects, LoanAt!ReducePaymentRejects,
    ReducePaymentRejects, LoanAt!RateChangeRejects, RateChangeRejects,
    LoanAt!RateChangePeriods, RateChangePeriods, LoanAt!Remaining, Remaining,
    LoanAt!Recasts, Recasts

LEMMA SameTermsLeft ==
  ASSUME NEW l, NEW in, NEW limit
  PROVE  LoanAt(l)!RecastReduceTerm(in, limit) = RecastReduceTerm(in, limit)
<1>1. LoanAt(l)!ReduceTermPeriods(in, limit) = ReduceTermPeriods(in, limit)
  BY SamePow DEF LoanAt!ReduceTermPeriods, ReduceTermPeriods, LoanAt!Amortizes, Amortizes,
                 LoanAt!ExactTerm, ExactTerm
<1> QED
  BY <1>1 DEF LoanAt!RecastReduceTerm, RecastReduceTerm

LEMMA SameRecasts ==
  ASSUME NEW l, NEW in
  PROVE  /\ LoanAt(l)!RecastReducePayment(in) = RecastReducePayment(in)
         /\ LoanAt(l)!RecastRateChange(in) = RecastRateChange(in)
BY SameBuild
DEF LoanAt!RecastReducePayment, RecastReducePayment, LoanAt!RecastRateChange,
    RecastRateChange, LoanAt!RateChangePeriods, RateChangePeriods, LoanAt!Remaining,
    Remaining

LEMMA SameRecastLoans ==
  ASSUME NEW l, NEW loan, NEW in
  PROVE  /\ LoanAt(l)!ReducedPayment(loan, in) = ReducedPayment(loan, in)
         /\ LoanAt(l)!Refinanced(loan, in) = Refinanced(loan, in)
BY SameRecasts, SameRejections, SamePaymentAmount
DEF LoanAt!ReducedPayment, ReducedPayment, LoanAt!Refinanced, Refinanced

LEMMA SameReducedTerm ==
  ASSUME NEW l, NEW loan, NEW in, NEW term
  PROVE  LoanAt(l)!ReducedTerm(loan, in, term) = ReducedTerm(loan, in, term)
BY DEF LoanAt!ReducedTerm, ReducedTerm

\* The row and the ledger of the loan l in the latest committed state.
Mine(l) == LoanRow(Committed, l)
Paid(l) == LedgerOf(Committed, l)

LEMMA TakesCreate ==
  ASSUME NEW l, NEW principal, NEW rate, NEW periods, NEW type,
         Creates(Mine(l), Paid(l), Mine(l)', Paid(l)', principal, rate, periods, type)
  PROVE  LoanAt(l)!CreateLoan(principal, rate, periods, type)
BY SameTerms DEF LoanAt!CreateLoan, Creates, Mine, Paid

LEMMA TakesCancel ==
  ASSUME NEW l, Cancels(Mine(l), Paid(l), Mine(l)', Paid(l)')
  PROVE  LoanAt(l)!CancelLoan
BY DEF LoanAt!CancelLoan, Cancels, Mine, Paid

LEMMA TakesPay ==
  ASSUME NEW l, Pays(Mine(l), Paid(l), Mine(l)', Paid(l)')
  PROVE  LoanAt(l)!RecordPayment
BY SameAccepting, SameRemainingSchedule, SamePayment
DEF LoanAt!RecordPayment, LoanAt!Accepting, LoanAt!RemainingSchedule, Pays, Mine, Paid

LEMMA TakesReduceTerm ==
  ASSUME NEW l, NEW amount,
         ReducesTerm(Mine(l), Paid(l), Mine(l)', Paid(l)', amount, MaxRemaining)
  PROVE  LoanAt(l)!PrepayReducingTerm(amount)
BY SameAccepting, SameOutstanding, SameRecastInput, SameRejections, SamePrepaymentRow,
   SameTermsLeft, SameReducedTerm
DEF LoanAt!PrepayReducingTerm, LoanAt!Accepting, LoanAt!Outstanding, ReducesTerm, Prepays,
    Left, Mine, Paid

LEMMA TakesReducePayment ==
  ASSUME NEW l, NEW amount, ReducesPayment(Mine(l), Paid(l), Mine(l)', Paid(l)', amount)
  PROVE  LoanAt(l)!PrepayReducingPayment(amount)
BY SameAccepting, SameOutstanding, SameRecastInput, SameRejections, SamePrepaymentRow,
   SameRecastLoans
DEF LoanAt!PrepayReducingPayment, LoanAt!Accepting, LoanAt!Outstanding, ReducesPayment,
    Prepays, Left, Mine, Paid

LEMMA TakesRate ==
  ASSUME NEW l, NEW rate, Refinances(Mine(l), Paid(l), Mine(l)', Paid(l)', rate)
  PROVE  LoanAt(l)!ChangeRate(rate)
BY SameAccepting, SameOutstanding, SameRecastInput, SameRejections, SameRecastLoans
DEF LoanAt!ChangeRate, LoanAt!Accepting, LoanAt!Outstanding, Refinances, Mine, Paid

LEMMA AskedLoanSteps ==
  ASSUME NEW req \in Requests, NEW l, Asks(req, Mine(l), Paid(l), Mine(l)', Paid(l)')
  PROVE  LoanAt(l)!Next
<1>1. CASE req.kind = "create"
  <2>1. /\ req.principal \in Principals /\ req.rate \in Rates /\ req.periods \in Terms
        /\ req.type \in LoanAt(l)!LoanTypes
    BY <1>1, ValuesAssumption, RequestAssumption, RequestTypes, SameTypes
  <2>2. LoanAt(l)!CreateLoan(req.principal, req.rate, req.periods, req.type)
    BY <1>1, TakesCreate DEF Asks
  <2> QED
    BY <2>1, <2>2 DEF LoanAt!Next
<1>2. CASE req.kind = "cancel"
  BY <1>2, TakesCancel DEF Asks, LoanAt!Next
<1>3. CASE req.kind = "pay"
  BY <1>3, TakesPay DEF Asks, LoanAt!Next
<1>4. CASE req.kind = "prepay"
  <2>1. req.amount \in Prepayments
    BY <1>4, ValuesAssumption
  <2>2. CASE req.strategy = "reduce_term"
    <3>1. LoanAt(l)!PrepayReducingTerm(req.amount)
      BY <1>4, <2>2, TakesReduceTerm DEF Asks
    <3>2. LoanAt(l)!Prepay(req.amount, "reduce_term")
      BY <3>1 DEF LoanAt!Prepay
    <3> QED
      BY <2>1, <3>2 DEF LoanAt!Next, LoanAt!Strategies
  <2>3. CASE req.strategy = "reduce_payment"
    <3>1. LoanAt(l)!PrepayReducingPayment(req.amount)
      BY <1>4, <2>3, TakesReducePayment DEF Asks
    <3>2. LoanAt(l)!Prepay(req.amount, "reduce_payment")
      BY <3>1 DEF LoanAt!Prepay
    <3> QED
      BY <2>1, <3>2 DEF LoanAt!Next, LoanAt!Strategies
  <2> QED
    BY <1>4, <2>2, <2>3 DEF Asks
<1>5. CASE req.kind = "rate"
  <2>1. req.rate \in Rates
    BY <1>5, ValuesAssumption
  <2>2. LoanAt(l)!ChangeRate(req.rate)
    BY <1>5, TakesRate DEF Asks
  <2> QED
    BY <2>1, <2>2 DEF LoanAt!Next
<1> QED
  BY <1>1, <1>2, <1>3, <1>4, <1>5 DEF Asks

-----------------------------------------------------------------------------
(***************************************************************************)
(* What holds of every behaviour                                           *)
(***************************************************************************)

LEMMA FirstFileIsCoherent == Init => LoansAreCoherent
<1> SUFFICES ASSUME Init
             PROVE  LoansAreCoherent
  OBVIOUS
<1>1. PICK d \in Stored : log = <<d>>
  BY DEF Init, FirstFile
<1>2. Coherent(d) /\ Len(log) = 1 /\ log[1] = d
  BY <1>1, StoredAssumption
<1> QED
  BY <1>2 DEF LoansAreCoherent

LEMMA CommittedIsCoherent ==
  ASSUME LogOK, LoansAreCoherent
  PROVE  IsDatabase(Committed) /\ Coherent(Committed)
<1>1. Len(log) \in 1 .. Len(log)
  BY LenProperties DEF LogOK
<1> QED
  BY <1>1, CommittedIsDatabase DEF LoansAreCoherent, Committed

LEMMA CoherentLogGrows ==
  ASSUME LogOK, LoansAreCoherent, NEW d, Coherent(d), log' = Append(log, d)
  PROVE  LoansAreCoherent'
<1>1. log \in Seq(Range(log) \cup {d}) /\ Len(log) \in Nat
  BY SeqMonotonic, LenProperties DEF LogOK
<1>2. /\ Len(log') = Len(log) + 1
      /\ \A n \in 1 .. Len(log) : log'[n] = log[n]
      /\ log'[Len(log) + 1] = d
  BY <1>1
<1> QED
  BY <1>1, <1>2 DEF LoansAreCoherent

\* What an accepted request leaves.
LEMMA ServedOutcome ==
  ASSUME NEW req \in Requests, Serve(req)
  PROVE  /\ ~Malformed(req) /\ Refusal(Committed, req) = Accepted /\ req \in RequestForms
         /\ \E effect \in Effects(Committed, req) :
              effect # NoEffect /\ log' = Append(log, Outcome(Committed, effect))
<1>1. PICK d \in Outcomes(Committed, req) : log' = Append(log, d)
  BY DEF Serve
<1>2. ~Malformed(req) /\ Refusal(Committed, req) = Accepted
  BY <1>1 DEF Outcomes
<1>3. PICK effect \in Effects(Committed, req) \ {NoEffect} : d = Outcome(Committed, effect)
  BY <1>1, <1>2 DEF Outcomes
<1> QED
  BY <1>1, <1>2, <1>3, RequestAssumption

LEMMA EvolveKeepsCoherent ==
  ASSUME LogOK, LoansAreCoherent, [Evolve]_portfolioVars
  PROVE  LoansAreCoherent'
<1>1. IsDatabase(Committed) /\ Coherent(Committed)
  BY CommittedIsCoherent
<1>2. CASE Harden \/ UNCHANGED portfolioVars
  BY <1>2 DEF Harden, portfolioVars, LoansAreCoherent
<1>3. CASE Lose
  <2>1. PICK n \in synced .. Len(log) : log' = SubSeq(log, 1, n)
    BY <1>3 DEF Lose
  <2>2. Len(log) \in Nat /\ n \in 1 .. Len(log)
    BY LenProperties DEF LogOK
  <2>3. \A i \in 1 .. n : log[i] \in Range(log)
    BY <2>2, LenProperties DEF LogOK, Range
  <2>4. Len(log') = n /\ \A i \in 1 .. n : log'[i] = log[i]
    BY <2>1, <2>2, <2>3, SubSeqProperties
  <2> QED
    BY <2>2, <2>4 DEF LoansAreCoherent
<1>4. CASE Open
  <2>1. Coherent(Opened(Committed))
    BY <1>1, OpenedKeepsCoherent
  <2> QED
    BY <1>4, <2>1, CoherentLogGrows DEF Open
<1>5. ASSUME NEW req \in Requests, Serve(req)
      PROVE  LoansAreCoherent'
  <2>1. PICK effect \in Effects(Committed, req) :
          effect # NoEffect /\ log' = Append(log, Outcome(Committed, effect))
    BY <1>5, ServedOutcome
  <2>2. /\ ~Malformed(req) /\ Refusal(Committed, req) = Accepted /\ req \in RequestForms
        /\ MaxRemaining \in Nat
    BY <1>5, ServedOutcome, ValuesAssumption
  <2>3. Coherent(Outcome(Committed, effect))
    BY <1>1, <2>1, <2>2, RequestKeepsCoherent
  <2> QED
    BY <2>1, <2>3, CoherentLogGrows
<1> QED
  BY <1>2, <1>3, <1>4, <1>5 DEF Evolve

\* No sequence of requests, faults and restarts leaves a payment without its loan,
\* or a loan that owes principal its plan cannot be rebuilt for: loadState never
\* fails, and one loan never fails Recompute for the whole portfolio.
THEOREM LoansAlwaysCoherent == Spec => []LoansAreCoherent
<1>1. IInv /\ LoansAreCoherent /\ [Next]_vars => LoansAreCoherent'
  BY StepEvolves, EvolveKeepsCoherent DEF IInv
<1> QED
  BY <1>1, FirstFileIsCoherent, InvariantHolds, PTL DEF Spec

\* Before any process ran the file has no rows.
LEMMA NewFileMayBeStored == IsDatabase(NewFile) /\ Dense(NewFile) /\ Coherent(NewFile)
<1>1. << >> \in Seq({}) /\ Len(<< >>) = 0
  OBVIOUS
<1>2. IsTable(<< >>)
  BY <1>1, SeqOfItsRange DEF IsTable
<1>3. /\ DOMAIN NewFile = Tables \cup {"next"} /\ NewFile.next = 0
      /\ \A t \in Tables : NewFile[t] = << >>
      /\ NewFile.payments = << >> /\ NewFile.loans = << >>
  BY DEF NewFile, Tables
<1> QED
  BY <1>1, <1>2, <1>3 DEF IsDatabase, Dense, Coherent

\* StoredAssumption asks of the first file no more than what every process leaves:
\* a committed state, of this run or cut short by a power failure, may be the file
\* the next run of the service starts from, as may a file without rows.
THEOREM EveryFileMayBeStored ==
  /\ IsDatabase(NewFile) /\ Dense(NewFile) /\ Coherent(NewFile)
  /\ Spec => [](\A n \in 1 .. Len(log) :
                  IsDatabase(log[n]) /\ Dense(log[n]) /\ Coherent(log[n]))
<1>1. IInv /\ LoansAreCoherent
        => \A n \in 1 .. Len(log) : IsDatabase(log[n]) /\ Dense(log[n]) /\ Coherent(log[n])
  BY DEF IInv, LogOK, LoansAreCoherent
<1>2. Spec => [](\A n \in 1 .. Len(log) :
                   IsDatabase(log[n]) /\ Dense(log[n]) /\ Coherent(log[n]))
  BY <1>1, LoansAlwaysCoherent, InvariantHolds, PTL
<1> QED
  BY <1>2, NewFileMayBeStored

-----------------------------------------------------------------------------
(* Each loan lives the life of module Loan. *)

Stands(l) == UNCHANGED <<LoanRow(Committed, l), LedgerOf(Committed, l)>>

\* What a commit that names one loan does to the loan l.
LoanStep(one, l) == (l = one /\ LoanAt(l)!Next) \/ Stands(l)

LEMMA OpenStepsNoLoan ==
  ASSUME LogOK, Open, NEW l
  PROVE  Stands(l)
<1>1. /\ log' = Append(log, Opened(Committed)) /\ UNCHANGED synced
      /\ IsDatabase(Committed) /\ Dense(Committed)
  BY CommittedIsDatabase DEF Open
<1>2. Committed' = Opened(Committed)
  BY <1>1, GrownLog, OpenedIsDense
<1>3. /\ Opened(Committed).loans = Committed.loans
      /\ Opened(Committed).payments = Committed.payments
  BY <1>1 DEF Opened, IsDatabase, Tables
<1>4. LedgerOf(Opened(Committed), l) = LedgerOf(Committed, l)
  BY <1>1, <1>3, SameLedger
<1>5. LoanRow(Opened(Committed), l) = LoanRow(Committed, l)
  BY <1>3 DEF LoanRow, Exists
<1> QED
  BY <1>2, <1>4, <1>5 DEF Stands

LEMMA ServeStepsOneLoan ==
  ASSUME LogOK, Committed.next > 0, LoansAreCoherent,
         NEW req \in Requests, Serve(req)
  PROVE  \E one : \A l : LoanStep(one, l)
<1>1. IsDatabase(Committed) /\ Dense(Committed) /\ Coherent(Committed)
  BY CommittedIsDatabase, CommittedIsCoherent
<1>2. PICK effect \in Effects(Committed, req) :
        effect # NoEffect /\ log' = Append(log, Outcome(Committed, effect))
  BY ServedOutcome
<1>3. ~Malformed(req) /\ Refusal(Committed, req) = Accepted /\ req \in RequestForms
  BY ServedOutcome
<1> DEFINE e == Outcome(Committed, effect)
<1>4. IsDatabase(e) /\ Dense(e)
  BY <1>1, EffectTables, OutcomeIsDense
<1>5. Committed' = e
  BY <1>2, <1>4, GrownLog DEF Serve
<1>6. StepsNone(Committed, e) \/ \E k : StepsOne(Committed, e, req, k)
  BY <1>1, <1>2, <1>3, RequestSteps
<1> HIDE DEF e
<1>7. CASE StepsNone(Committed, e)
  BY <1>5, <1>7 DEF StepsNone, LoanStep, Stands
<1>8. ASSUME NEW k, StepsOne(Committed, e, req, k)
      PROVE  \A l : LoanStep(k, l)
  <2> SUFFICES ASSUME NEW l PROVE LoanStep(k, l)
    OBVIOUS
  <2>1. CASE k = l
    <3>1. Asks(req, Mine(l), Paid(l), Mine(l)', Paid(l)')
      BY <1>5, <1>8, <2>1 DEF StepsOne, Mine, Paid
    <3> QED
      BY <2>1, <3>1, AskedLoanSteps DEF LoanStep
  <2>2. CASE k # l
    BY <1>5, <1>8, <2>2 DEF StepsOne, LoanStep, Stands
  <2> QED
    BY <2>1, <2>2
<1> QED
  BY <1>6, <1>7, <1>8

LEMMA EvolveStepsLoans ==
  ASSUME LogOK, LoansAreCoherent, [Evolve]_portfolioVars, Len(log') > Len(log)
  PROVE  \E one : \A l : LoanStep(one, l)
<1>1. Len(log) \in Nat
  BY LenProperties DEF LogOK
<1>2. ~Harden /\ log' # log
  BY <1>1 DEF Harden
<1>3. ~Lose
  <2> SUFFICES ASSUME Lose
               PROVE  FALSE
    OBVIOUS
  <2>1. PICK n \in synced .. Len(log) : log' = SubSeq(log, 1, n)
    BY DEF Lose
  <2>2. n \in 1 .. Len(log)
    BY <1>1 DEF LogOK
  <2>3. \A i \in 1 .. n : log[i] \in Range(log)
    BY <1>1, <2>2, LenProperties DEF LogOK, Range
  <2>4. Len(log') = n
    BY <1>1, <2>1, <2>2, <2>3, SubSeqProperties
  <2> QED
    BY <1>1, <2>2, <2>4
<1>4. CASE Open
  BY <1>4, OpenStepsNoLoan DEF LoanStep
<1>5. ASSUME NEW req \in Requests, Serve(req)
      PROVE  \E one : \A l : LoanStep(one, l)
  <2>1. Committed.next > 0
    <3>1. IsDatabase(Committed) /\ Dense(Committed)
      BY CommittedIsDatabase
    <3>2. Opened(Committed).next > 0
      BY <3>1, OpenedIsDense
    <3> QED
      BY <1>5, <3>2 DEF Serve
  <2> QED
    BY <1>5, <2>1, ServeStepsOneLoan
<1> QED
  BY <1>2, <1>3, <1>4, <1>5 DEF Evolve, portfolioVars

\* The loan a commit names, or 0 when it names none of those there are.
LEMMA CommitNamesOneLoan ==
  ASSUME LogOK, LogOK', LoansAreCoherent, [Evolve]_portfolioVars, Len(log') > Len(log)
  PROVE  \E one \in 0 .. Len(Committed'.loans) :
           \A l \in 1 .. Len(Committed'.loans) : LoanStep(one, l)
<1> DEFINE last == Len(Committed'.loans)
<1>1. PICK one : \A l : LoanStep(one, l)
  BY EvolveStepsLoans
<1> HIDE DEF last
<1>2. CASE one \in 0 .. last
  BY <1>1, <1>2 DEF last
<1>3. CASE one \notin 0 .. last
  <2>1. ASSUME NEW l \in 1 .. last PROVE LoanStep(0, l)
    <3>1. LoanStep(one, l)
      BY <1>1
    <3>2. l # one
      BY <1>3
    <3> QED
      BY <3>1, <3>2 DEF LoanStep
  <2>2. last \in Nat => 0 \in 0 .. last
    OBVIOUS
  <2>3. last \in Nat
    <3>1. IsDatabase(Committed')
      BY LenProperties DEF LogOK, Committed
    <3> QED
      BY <3>1, TableLength DEF IsDatabase, Tables, last
  <2> QED
    BY <2>1, <2>2, <2>3 DEF last
<1> QED
  BY <1>2, <1>3

\* Every commit of the service is, for the one loan it names, an operation of
\* module Loan on its row and its ledger, and leaves every other loan as it was:
\* each loan of the database refines the specification of one loan, and no two
\* of them move together.
THEOREM EveryLoanAlwaysKeepsItsSpec == Spec => EveryLoanKeepsItsSpec
<1>1. IInv /\ LoansAreCoherent /\ [Next]_vars
        => [Len(log') > Len(log) =>
              \E one \in 0 .. Len(Committed'.loans) :
                \A l \in 1 .. Len(Committed'.loans) :
                  \/ l = one /\ LoanAt(l)!Next
                  \/ UNCHANGED <<LoanRow(Committed, l), LedgerOf(Committed, l)>>]_log
  BY StepEvolves, NextInvariant, CommitNamesOneLoan DEF IInv, LoanStep, Stands
<1> QED
  BY <1>1, LoansAlwaysCoherent, InvariantHolds, PTL DEF Spec, EveryLoanKeepsItsSpec

-----------------------------------------------------------------------------
(***************************************************************************)
(* What a request that reached its transaction is answered with            *)
(***************************************************************************)

LEMMA CoherentLoads ==
  ASSUME NEW d, Coherent(d), NEW l
  PROVE  LoadRefusal(d, l) # 500 /\ (Exists(d, "loans", l)
           => ~LoadFailsOf(LoanRow(d, l), LedgerOf(d, l)))
<1>1. Exists(d, "loans", l) => ~LoadFailsOf(LoanRow(d, l), LedgerOf(d, l))
  BY CoherentLoan, HealthyLoads
<1> QED
  BY <1>1 DEF LoadRefusal, Accepted

\* A prepayment that fails does so in one of two cases.
LEMMA FailedPrepayment ==
  ASSUME NEW d, Coherent(d), NEW req \in RequestForms, ~Malformed(req),
         req.kind = "prepay", Refusal(d, req) = 500
  PROVE  PrepayFails(RecastOf(d, req), req.strategy)
<1>1. LoadRefusal(d, req.loan) = Accepted /\ OpenRefusal(d, req.loan) = Accepted
  <2>1. LoadRefusal(d, req.loan) # 500
    BY CoherentLoads
  <2>2. OpenRefusal(d, req.loan) # 500
    BY <2>1 DEF OpenRefusal, Accepted
  <2>3. OpenRefusal(d, req.loan) = Accepted
    BY <2>2 DEF Refusal
  <2> QED
    BY <2>3 DEF OpenRefusal
<1>2. PrepayRefusal(d, req) = 500
  BY <1>1 DEF Refusal
<1> DEFINE loan   == LoanRow(d, req.loan)
           ledger == LedgerOf(d, req.loan)
           left   == RecastOf(d, req)
<1>3. Exists(d, "loans", req.loan) /\ AcceptingOf(loan, ledger)
  BY <1>1 DEF OpenRefusal, LoadRefusal, AcceptingOf, Accepted
<1>4. Healthy(loan, ledger)
  BY <1>3, CoherentLoan
<1>5. left = Left(loan, ledger, req.amount)
  BY DEF RecastOf, Left
<1>6. req.amount \in Int /\ req.amount > 0
  BY RequestTypes DEF Malformed
<1>7. /\ ~(req.amount > OutstandingOf(loan, ledger))
      /\ IF req.strategy = "reduce_term"
         THEN loan.type = "equal_installment" /\ ReduceTermRejects(left)
         ELSE ReducePaymentRejects(left)
  BY <1>2 DEF PrepayRefusal, Accepted
<1>8. req.amount <= OutstandingOf(loan, ledger)
  BY <1>4, <1>6, <1>7, HealthyTypes
<1>9. /\ left.rate = loan.rate /\ left.payment = loan.payment /\ left.term = loan.term
      /\ left.outstanding = OutstandingOf(loan, ledger) - req.amount
  BY <1>5 DEF Left, RecastInput
<1> HIDE DEF loan, ledger, left
<1>10. CASE req.strategy = "reduce_term"
  <2>1. /\ loan.rate = 0 /\ loan.payment = 0
        /\ 2 * (OutstandingOf(loan, ledger) - req.amount) < loan.term
    BY <1>4, <1>5, <1>6, <1>7, <1>8, <1>10, TermRejected
  <2> QED
    BY <1>9, <1>10, <2>1 DEF PrepayFails, left
<1>11. CASE req.strategy = "reduce_payment"
  <2>1. /\ left.type = "equal_installment" /\ left.rate > 0
        /\ left.outstanding * left.rate * Pow(RateMicroScale, left.term)
             < RateMicroScale
                 * (Pow(RateMicroScale + left.rate, left.term)
                      - Pow(RateMicroScale, left.term))
    BY <1>3, <1>4, <1>5, <1>6, <1>7, <1>8, <1>11, PaymentRejected
  <2> QED
    BY <1>11, <2>1 DEF PrepayFails, ReturnsUnderACent, left
<1> QED
  BY <1>10, <1>11, RequestTypes

\* A payoff that fails does so in one of two cases.
LEMMA FailedPayoff ==
  ASSUME NEW d, Coherent(d), NEW l, PayoffRefusal(d, l) = 500
  PROVE  PayoffFails(LoanRow(d, l), LedgerOf(d, l))
<1> DEFINE loan   == LoanRow(d, l)
           ledger == LedgerOf(d, l)
           in     == FullScheduleOf(loan)
<1>1. LoadRefusal(d, l) = Accepted /\ BuildRejects(in)
  <2>1. LoadRefusal(d, l) # 500
    BY CoherentLoads
  <2> QED
    BY <2>1 DEF PayoffRefusal, Accepted
<1>2. Exists(d, "loans", l)
  BY <1>1 DEF LoadRefusal, Accepted
<1>3. Healthy(loan, ledger) /\ loan.status # "none"
  BY <1>2, CoherentLoan
<1> HIDE DEF loan, ledger
<1>4. /\ loan.principal \in Nat /\ loan.rate \in Nat /\ loan.term \in Nat
      /\ loan.type \in LoanTypes
      /\ OutstandingOf(loan, ledger) \in Int /\ PaidPeriodsOf(ledger) \in Nat
  <2>1. loan \in LoanRows /\ loan.type \in LoanTypes
    BY <1>3 DEF Healthy
  <2> QED
    BY <1>3, <2>1, HealthyTypes DEF LoanRows
<1>5. /\ in.outstanding = loan.principal /\ in.rate = loan.rate
      /\ in.periods = loan.term /\ in.type = loan.type
  BY DEF FullScheduleOf
<1>6. CASE loan.term = 0
  <2>1. ~(PaidPeriodsOf(ledger) < loan.term)
    BY <1>4, <1>6
  <2>2. ~(OutstandingOf(loan, ledger) > 0)
    BY <1>3, <2>1 DEF Healthy
  <2>3. OutstandingOf(loan, ledger) <= 0
    BY <1>4, <2>2
  <2> QED
    BY <1>5, <1>6, <2>3 DEF PayoffFails, loan, ledger
<1>7. CASE loan.term # 0
  <2>1. in \in ScheduleInputs
    BY <1>4, <1>7 DEF FullScheduleOf, ScheduleInputs
  <2> HIDE DEF in
  <2>2. NegativelyAmortizes(in)
    BY <1>1, <1>4, <1>5, <1>7 DEF BuildRejects
  <2>3. in.type = "equal_installment" /\ in.rate > 0
    BY <1>4, <1>5, <2>2 DEF NegativelyAmortizes
  <2>4. ReturnsUnderACent(in.outstanding, in.rate, in.periods)
    BY <2>1, <2>2, RejectedReturnsUnderACent DEF ReturnsUnderACent
  <2> QED
    BY <2>3, <2>4 DEF PayoffFails, in, loan, ledger
<1> QED
  BY <1>6, <1>7

\* Of a coherent database, these are the only requests that fail.
LEMMA FailedRequest ==
  ASSUME NEW d, Coherent(d), NEW req \in RequestForms, ~Malformed(req),
         Refusal(d, req) = 500
  PROVE  \/ req.kind = "prepay" /\ PrepayFails(RecastOf(d, req), req.strategy)
         \/ req.kind = "payoff"
            /\ PayoffFails(LoanRow(d, req.loan), LedgerOf(d, req.loan))
<1>1. CASE req.kind \in {"create", "get_payment", "get_loan", "list_payments", "balance"}
                           \cup BorrowerReads
  BY <1>1 DEF Refusal, Lookup, PaymentLookup, BorrowerReads, Accepted
<1>2. CASE req.kind \in {"schedule", "summary", "projection"}
  BY <1>2, CoherentLoads DEF Refusal, BorrowerReads
<1>3. CASE req.kind = "cancel"
  BY <1>3 DEF Refusal, CancelRefusal, BorrowerReads, Accepted
<1>4. CASE req.kind \in {"pay", "rate"}
  <2>1. OpenRefusal(d, req.loan) # 500
    BY CoherentLoads DEF OpenRefusal, Accepted
  <2> QED
    BY <1>4, <2>1 DEF Refusal, PayRefusal, RateRefusal, BorrowerReads, Accepted
<1>5. CASE req.kind = "recompute"
  <2>1. \A l \in 1 .. Len(d.loans) : ~LoadFailsOf(LoanRow(d, l), LedgerOf(d, l))
    BY CoherentLoads DEF Exists
  <2> QED
    BY <1>5, <2>1 DEF Refusal, BorrowerReads, Accepted
<1>6. CASE req.kind \in {"borrower", "stats", "borrowers", "loans", "payments"}
  BY <1>6 DEF Refusal, BorrowerReads, Accepted
<1>7. CASE req.kind = "prepay"
  BY <1>7, FailedPrepayment
<1>8. CASE req.kind = "payoff"
  <2>1. PayoffRefusal(d, req.loan) = 500
    BY <1>8 DEF Refusal, BorrowerReads
  <2> QED
    BY <1>8, <2>1, FailedPayoff
<1>9. IsRead(req) \/ req.kind \in WriteKinds
  BY ReadKinds
<1> QED
  BY <1>1, <1>2, <1>3, <1>4, <1>5, <1>6, <1>7, <1>8, <1>9
  DEF IsRead, WriteKinds, PortfolioReads, LoanReads

\* Of a request whose client hung up the handler knows nothing any more.
GoneForgets ==
  \A h \in Handlers :
    handler[h].gone /\ handler[h].pc # "answering" => handler[h].req = NoRequest

LEMMA ForgetsByMove ==
  ASSUME IInv, GoneForgets
  PROVE  \A h \in Handlers : \A r :
           Goes(h, r) /\ (r.gone /\ r.pc # "answering" => r.req = NoRequest) => GoneForgets'
BY DEF IInv, HandlersOK, Goes, GoneForgets

\* Only the handler h moves, and its client has not hung up.
LEMMA ForgetsByStatement ==
  ASSUME GoneForgets, NEW h \in Handlers, ~handler'[h].gone,
         \A o \in Handlers \ {h} : handler'[o] = handler[o]
  PROVE  GoneForgets'
BY DEF GoneForgets

LEMMA ForgetsByAnswer ==
  ASSUME IInv, GoneForgets, NEW h \in Handlers, NEW code \in Codes, Answers(h, code)
  PROVE  GoneForgets'
BY AnswerMoves, ForgetsByMove

LEMMA NextForgets == IInv /\ GoneForgets /\ [Next]_vars => GoneForgets'
<1> SUFFICES ASSUME IInv, GoneForgets, [Next]_vars
             PROVE  GoneForgets'
  OBVIOUS
<1>i. Idle.gone = FALSE /\ DOMAIN Idle = Fields
  BY IdleSound DEF Idle, Sound
<1>s. DOMAIN handler = Handlers /\ \A h \in Handlers : Sound(handler[h])
  BY DEF IInv, HandlersOK
<1>1. ASSUME NEW h \in Handlers, NEW req \in Requests, Receive(h, req)
      PROVE  GoneForgets'
  <2>1. ~handler'[h].gone /\ \A o \in Handlers \ {h} : handler'[o] = handler[o]
    BY <1>1, <1>s DEF Receive, Goes, Idle
  <2> QED
    BY <2>1, ForgetsByStatement
<1>2. ASSUME NEW h \in Handlers, Begin(h)
      PROVE  GoneForgets'
  <2>1. ~handler'[h].gone /\ \A o \in Handlers \ {h} : handler'[o] = handler[o]
    BY <1>2, <1>s DEF Begin, Runs, Goes, Sound, Fields
  <2> QED
    BY <2>1, ForgetsByStatement
<1>3. ASSUME NEW h \in Handlers, Decide(h)
      PROVE  GoneForgets'
  <2>1. ~handler'[h].gone /\ \A o \in Handlers \ {h} : handler'[o] = handler[o]
    BY <1>3, <1>s DEF Decide, Runs, Goes, Sound, Fields
  <2> QED
    BY <2>1, ForgetsByStatement
<1>4. ASSUME NEW h \in Handlers, Read(h)
      PROVE  GoneForgets'
  <2>1. ~handler'[h].gone /\ \A o \in Handlers \ {h} : handler'[o] = handler[o]
    BY <1>4, <1>s DEF Read, Runs, Goes, Sound, Fields
  <2> QED
    BY <2>1, ForgetsByStatement
<1>5. ASSUME NEW h \in Handlers, StampRow(h)
      PROVE  GoneForgets'
  <2>1. ~handler'[h].gone /\ \A o \in Handlers \ {h} : handler'[o] = handler[o]
    BY <1>5, <1>s DEF StampRow, Runs, Goes, Sound, Fields
  <2> QED
    BY <2>1, ForgetsByStatement
<1>6. ASSUME NEW h \in Handlers, InsertRow(h)
      PROVE  GoneForgets'
  <2>1. ~handler'[h].gone /\ \A o \in Handlers \ {h} : handler'[o] = handler[o]
    BY <1>6, <1>s DEF InsertRow, Runs, Goes, Sound, Fields
  <2> QED
    BY <2>1, ForgetsByStatement
<1>7. ASSUME NEW h \in Handlers, UpdateLoan(h)
      PROVE  GoneForgets'
  <2>1. ~handler'[h].gone /\ \A o \in Handlers \ {h} : handler'[o] = handler[o]
    BY <1>7, <1>s DEF UpdateLoan, Runs, Goes, Sound, Fields
  <2> QED
    BY <2>1, ForgetsByStatement
<1>8. ASSUME NEW h \in Handlers, Refuse(h) \/ Commit(h) \/ Fail(h)
      PROVE  GoneForgets'
  <2>1. /\ Refusal(handler[h].tx, handler[h].req) \in Codes
        /\ Accepted \in Codes /\ 500 \in Codes
    BY RefusalCodes DEF Codes, Accepted
  <2> QED
    BY <1>8, <2>1, ForgetsByAnswer DEF Refuse, Commit, Fail
<1>9. ASSUME NEW h \in Handlers, HangUp(h)
      PROVE  GoneForgets'
  <2>1. /\ handler'[h].pc # "answering" => handler'[h].req = NoRequest
        /\ \A o \in Handlers \ {h} : handler'[o] = handler[o]
    BY <1>9, <1>s DEF HangUp, Goes, Idle, Sound, Fields
  <2> QED
    BY <2>1 DEF GoneForgets
<1>10. ASSUME NEW h \in Handlers, Reply(h)
       PROVE  GoneForgets'
  BY <1>10, <1>i, ForgetsByMove DEF Reply
<1>11. CASE Crash \/ PowerFailure \/ Expire
  <2>1. handler' = [h \in Handlers |-> Idle]
    BY <1>11 DEF Crash, PowerFailure, Expire, Dies
  <2> QED
    BY <2>1, <1>i DEF GoneForgets
<1>12. CASE Checkpoint \/ Stop \/ Exit \/ Start \/ UNCHANGED vars
  BY <1>12 DEF Checkpoint, Stop, Exit, Start, vars, GoneForgets
<1> QED
  BY <1>1, <1>2, <1>3, <1>4, <1>5, <1>6, <1>7, <1>8, <1>9, <1>10, <1>11, <1>12 DEF Next

LEMMA DecidingIsKnown ==
  ASSUME IInv, LoansAreCoherent, GoneForgets
  PROVE  ServerErrorsAreKnown
<1> SUFFICES ASSUME NEW h \in Handlers, handler[h].pc = "deciding",
                    Refusal(handler[h].tx, handler[h].req) = 500
             PROVE  LET req == handler[h].req
                        d   == handler[h].tx
                    IN  \/ req.kind = "prepay" /\ PrepayFails(RecastOf(d, req), req.strategy)
                        \/ req.kind = "payoff"
                           /\ PayoffFails(LoanRow(d, req.loan), LedgerOf(d, req.loan))
  BY DEF ServerErrorsAreKnown
<1>1. Sound(handler[h]) /\ Serving(handler[h], Committed)
  BY DEF IInv, HandlersOK
<1>2. ~handler[h].gone
  <2>1. Refusal(handler[h].tx, NoRequest) = Accepted
    BY DEF Refusal, NoRequest, BorrowerReads
  <2> QED
    BY <2>1 DEF GoneForgets, Accepted
<1>3. handler[h].tx = Committed /\ handler[h].req \in Requests /\ ~Malformed(handler[h].req)
  BY <1>1, <1>2 DEF Serving, InTransaction
<1>4. Coherent(Committed) /\ handler[h].req \in RequestForms
  BY <1>3, CommittedIsCoherent, RequestAssumption DEF IInv
<1> QED
  BY <1>3, <1>4, FailedRequest

\* Whatever the history of the database and whatever fails around it, a request
\* that reaches its transaction, whether it reads or writes, is answered with 500
\* only for a statement that failed, for a prepayment too small for the recast in
\* one of two ways, or for a payoff whose plan of the first day cannot be built,
\* in one of two ways: no error but those of internal/amort reaches a handler
\* as it is, and no other request meets one.
THEOREM ServerErrorsAlwaysKnown == Spec => []ServerErrorsAreKnown
<1>1. Init => GoneForgets
  <2>1. Init => \A h \in Handlers : handler[h] = Idle
    BY DEF Init
  <2> QED
    BY <2>1 DEF GoneForgets, Idle
<1> QED
  BY <1>1, NextForgets, DecidingIsKnown, LoansAlwaysCoherent, InvariantHolds, PTL DEF Spec

=============================================================================
