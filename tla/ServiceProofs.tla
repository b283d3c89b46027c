---------------------------- MODULE ServiceProofs ----------------------------
(***************************************************************************)
(* Proofs about module Service, for any number of handlers, any requests   *)
(* and any bounds.                                                         *)
(*                                                                         *)
(* One inductive invariant, IInv, says what the transaction that holds the *)
(* connection may rely on: the state it began on is still the latest       *)
(* committed one, and what it has written so far is what the effect it     *)
(* decided on writes.  Dense stamps, stored answers and the refinement of  *)
(* Portfolio follow from it.                                               *)
(***************************************************************************)
EXTENDS Service, SequenceTheorems, FiniteSetTheorems, TLAPS

-----------------------------------------------------------------------------
(***************************************************************************)
(* Tables and databases                                                    *)
(***************************************************************************)

Columns == {"row", "owner", "stamp"}

LEMMA SeqOfItsRange ==
  ASSUME NEW S, NEW s \in Seq(S)
  PROVE  s \in Seq(Range(s))
<1>1. Len(s) \in Nat /\ s \in [1 .. Len(s) -> S]
  BY LenProperties
<1>2. s \in [1 .. Len(s) -> Range(s)]
  BY <1>1 DEF Range
<1> QED
  BY <1>1, <1>2

LEMMA TableLength ==
  ASSUME NEW rows, IsTable(rows)
  PROVE  Len(rows) \in Nat /\ DOMAIN rows = 1 .. Len(rows)
  BY LenProperties DEF IsTable

\* A row appended to a table.
LEMMA AppendedTable ==
  ASSUME NEW rows, IsTable(rows), NEW r, DOMAIN r = Columns, r.stamp \in Nat
  PROVE  /\ IsTable(Append(rows, r))
         /\ Len(Append(rows, r)) = Len(rows) + 1
         /\ \A i \in 1 .. Len(rows) : Append(rows, r)[i] = rows[i]
         /\ Append(rows, r)[Len(rows) + 1] = r
<1> DEFINE S == Range(rows) \cup {r}
<1>1. rows \in Seq(S)
  BY SeqMonotonic DEF IsTable
<1>2. /\ Append(rows, r) \in Seq(S)
      /\ Len(Append(rows, r)) = Len(rows) + 1
      /\ \A i \in 1 .. Len(rows) : Append(rows, r)[i] = rows[i]
      /\ Append(rows, r)[Len(rows) + 1] = r
  BY <1>1
<1>3. Append(rows, r) \in Seq(Range(Append(rows, r)))
  BY <1>2, SeqOfItsRange
<1> QED
  BY <1>2, <1>3, TableLength DEF IsTable, Columns

\* A row of a table overwritten, its stamp kept.
Overwritten(rows, l, v) == [rows EXCEPT ![l].row = v]

LEMMA OverwrittenTable ==
  ASSUME NEW rows, IsTable(rows), NEW l, NEW v
  PROVE  /\ IsTable(Overwritten(rows, l, v))
         /\ Len(Overwritten(rows, l, v)) = Len(rows)
         /\ \A i \in 1 .. Len(rows) : Overwritten(rows, l, v)[i].stamp = rows[i].stamp
<1> DEFINE new == Overwritten(rows, l, v)
           S == {new[i] : i \in 1 .. Len(rows)}
<1>1. Len(rows) \in Nat /\ DOMAIN rows = 1 .. Len(rows)
  BY TableLength
<1>2. new \in [1 .. Len(rows) -> S]
  BY <1>1 DEF Overwritten
<1>3. ASSUME NEW i \in 1 .. Len(rows)
      PROVE  /\ DOMAIN new[i] = Columns
             /\ new[i].stamp = rows[i].stamp /\ rows[i].stamp \in Nat
  BY <1>1 DEF IsTable, Columns, Overwritten
<1> SUFFICES /\ IsTable(new) /\ Len(new) = Len(rows)
             /\ \A i \in 1 .. Len(rows) : new[i].stamp = rows[i].stamp
  OBVIOUS
<1> HIDE DEF new, S
<1>4. new \in Seq(S) /\ Len(new) = Len(rows)
  BY <1>1, <1>2
<1>5. new \in Seq(Range(new))
  BY <1>4, SeqOfItsRange
<1> QED
  BY <1>1, <1>3, <1>4, <1>5 DEF IsTable, Columns

\* A database whose stamps are those of another is dense if the other is.
SameStamps(d, e) ==
  /\ IsDatabase(e)
  /\ e.next = d.next
  /\ \A t \in Tables : /\ Len(e[t]) = Len(d[t])
                       /\ \A i \in 1 .. Len(d[t]) : e[t][i].stamp = d[t][i].stamp

LEMMA DenseBySameStamps ==
  ASSUME NEW d, Dense(d), NEW e, SameStamps(d, e)
  PROVE  Dense(e)
<1>1. \A t \in Tables : \A i \in 1 .. Len(e[t]) : e[t][i].stamp \in 1 .. e.next - 1
  BY DEF Dense, SameStamps
<1>2. \A s \in 1 .. e.next - 1 : \E t \in Tables : \E i \in 1 .. Len(e[t]) : e[t][i].stamp = s
  BY DEF Dense, SameStamps
<1>3. \A t, u \in Tables : \A i \in 1 .. Len(e[t]), j \in 1 .. Len(e[u]) :
        e[t][i].stamp = e[u][j].stamp => t = u /\ i = j
  BY DEF Dense, SameStamps
<1>4. \A t \in Tables : \A i, j \in 1 .. Len(e[t]) : i < j => e[t][i].stamp < e[t][j].stamp
  BY DEF Dense, SameStamps
<1> QED
  BY <1>1, <1>2, <1>3, <1>4 DEF Dense

LEMMA UpdatedKeepsStamps ==
  ASSUME NEW d, IsDatabase(d), NEW effect
  PROVE  SameStamps(d, Updated(d, effect))
<1>1. CASE effect.loan = 0
  BY <1>1 DEF SameStamps, Updated
<1>2. CASE effect.loan # 0
  <2> DEFINE new == Overwritten(d.loans, effect.loan, effect.after)
             e == Updated(d, effect)
  <2>1. e = [d EXCEPT !.loans = new]
    BY <1>2 DEF Updated, Overwritten
  <2>2. /\ DOMAIN e = Tables \cup {"next"}
        /\ e.next = d.next /\ e.borrowers = d.borrowers /\ e.payments = d.payments
        /\ e.loans = new
    BY <2>1 DEF IsDatabase, Tables
  <2>3. /\ IsTable(new) /\ Len(new) = Len(d.loans)
        /\ \A i \in 1 .. Len(d.loans) : new[i].stamp = d.loans[i].stamp
    <3>1. IsTable(d.loans)
      BY DEF IsDatabase, Tables
    <3> QED
      BY <3>1, OverwrittenTable
  <2> QED
    BY <2>2, <2>3 DEF SameStamps, IsDatabase, Tables
<1> QED
  BY <1>1, <1>2

LEMMA InsertedTables ==
  ASSUME NEW d, IsDatabase(d), NEW effect, effect.table \in Tables
  PROVE  /\ IsDatabase(Inserted(Bumped(d), effect, d.next))
         /\ Inserted(Bumped(d), effect, d.next).next = d.next + 1
         /\ Inserted(Bumped(d), effect, d.next)[effect.table] =
              Append(d[effect.table],
                     [row |-> effect.row, owner |-> effect.owner, stamp |-> d.next])
         /\ \A t \in Tables \ {effect.table} :
              Inserted(Bumped(d), effect, d.next)[t] = d[t]
<1> DEFINE b == Bumped(d)
           e == Inserted(b, effect, d.next)
           r == [row |-> effect.row, owner |-> effect.owner, stamp |-> d.next]
<1>1. DOMAIN b = Tables \cup {"next"} /\ b.next = d.next + 1 /\ \A t \in Tables : b[t] = d[t]
  BY DEF Bumped, IsDatabase, Tables
<1>2. /\ DOMAIN e = Tables \cup {"next"} /\ e.next = d.next + 1
      /\ e[effect.table] = Append(d[effect.table], r)
      /\ \A t \in Tables \ {effect.table} : e[t] = d[t]
  BY <1>1 DEF Inserted, Tables
<1>3. IsTable(Append(d[effect.table], r))
  BY AppendedTable DEF IsDatabase, Columns
<1>4. d.next + 1 \in Nat
  BY DEF IsDatabase
<1> HIDE DEF e, b, r
<1>5. IsDatabase(e)
  BY <1>2, <1>3, <1>4 DEF IsDatabase
<1> QED
  BY <1>2, <1>5 DEF e, b, r

LEMMA DenseByInsertion ==
  ASSUME NEW d, IsDatabase(d), Dense(d), d.next > 0, NEW effect, effect.table \in Tables
  PROVE  Dense(Inserted(Bumped(d), effect, d.next))
<1> DEFINE e == Inserted(Bumped(d), effect, d.next)
           r == [row |-> effect.row, owner |-> effect.owner, stamp |-> d.next]
           T == effect.table
<1>1. /\ e.next = d.next + 1 /\ d.next \in Nat
      /\ e[T] = Append(d[T], r)
      /\ \A t \in Tables \ {T} : e[t] = d[t]
  BY InsertedTables DEF IsDatabase
<1>2. /\ \A t \in Tables : Len(d[t]) \in Nat
      /\ Len(e[T]) = Len(d[T]) + 1
      /\ \A i \in 1 .. Len(d[T]) : e[T][i] = d[T][i]
      /\ e[T][Len(d[T]) + 1] = r
  BY <1>1, AppendedTable, TableLength DEF IsDatabase, Columns
<1> SUFFICES Dense(e)
  OBVIOUS
<1>r. r.stamp = d.next
  OBVIOUS
<1> HIDE DEF e, r, T
<1>3. ASSUME NEW t \in Tables, NEW i \in 1 .. Len(e[t])
      PROVE  \/ i \in 1 .. Len(d[t]) /\ e[t][i] = d[t][i]
             \/ t = T /\ i = Len(d[T]) + 1 /\ e[t][i].stamp = d.next
  <2>1. CASE t = T
    BY <2>1, <1>2, <1>r
  <2>2. CASE t # T
    BY <2>2, <1>1
  <2> QED
    BY <2>1, <2>2
<1>4. ASSUME NEW t \in Tables, NEW i \in 1 .. Len(d[t])
      PROVE  i \in 1 .. Len(e[t]) /\ e[t][i] = d[t][i] /\ d[t][i].stamp \in 1 .. d.next - 1
  <2>1. d[t][i].stamp \in 1 .. d.next - 1
    BY DEF Dense
  <2>2. CASE t = T
    BY <2>1, <2>2, <1>2
  <2>3. CASE t # T
    BY <2>1, <2>3, <1>1
  <2> QED
    BY <2>2, <2>3
<1>5. ASSUME NEW t \in Tables, NEW i \in 1 .. Len(e[t])
      PROVE  e[t][i].stamp \in 1 .. e.next - 1
  <2>1. \/ e[t][i].stamp \in 1 .. d.next - 1
        \/ e[t][i].stamp = d.next
    BY <1>3, <1>4
  <2> QED
    BY <2>1, <1>1
<1>6. ASSUME NEW s \in 1 .. e.next - 1
      PROVE  \E t \in Tables : \E i \in 1 .. Len(e[t]) : e[t][i].stamp = s
  <2>1. CASE s = d.next
    <3>1. T \in Tables /\ Len(d[T]) + 1 \in 1 .. Len(e[T]) /\ e[T][Len(d[T]) + 1].stamp = s
      BY <2>1, <1>2, <1>r DEF T
    <3> QED
      BY <3>1
  <2>2. CASE s \in 1 .. d.next - 1
    <3>1. PICK t \in Tables : \E i \in 1 .. Len(d[t]) : d[t][i].stamp = s
      BY <2>2 DEF Dense
    <3> QED
      BY <3>1, <1>4
  <2> QED
    BY <2>1, <2>2, <1>1
<1>7. ASSUME NEW t \in Tables, NEW u \in Tables, NEW i \in 1 .. Len(e[t]),
             NEW j \in 1 .. Len(e[u]), e[t][i].stamp = e[u][j].stamp
      PROVE  t = u /\ i = j
  <2>1. CASE i \in 1 .. Len(d[t]) /\ j \in 1 .. Len(d[u])
    <3>1. d[t][i].stamp = d[u][j].stamp
      BY <2>1, <1>4, <1>7
    <3> QED
      BY <2>1, <3>1 DEF Dense
  <2>2. CASE i \notin 1 .. Len(d[t]) /\ j \notin 1 .. Len(d[u])
    BY <2>2, <1>3
  <2>3. CASE i \in 1 .. Len(d[t]) /\ j \notin 1 .. Len(d[u])
    <3>1. e[t][i].stamp \in 1 .. d.next - 1 /\ e[u][j].stamp = d.next
      BY <2>3, <1>3, <1>4
    <3> QED
      BY <3>1, <1>1, <1>7
  <2>4. CASE i \notin 1 .. Len(d[t]) /\ j \in 1 .. Len(d[u])
    <3>1. e[u][j].stamp \in 1 .. d.next - 1 /\ e[t][i].stamp = d.next
      BY <2>4, <1>3, <1>4
    <3> QED
      BY <3>1, <1>1, <1>7
  <2> QED
    BY <2>1, <2>2, <2>3, <2>4
<1>8. ASSUME NEW t \in Tables, NEW i \in 1 .. Len(e[t]), NEW j \in 1 .. Len(e[t]), i < j
      PROVE  e[t][i].stamp < e[t][j].stamp
  <2>1. CASE i \in 1 .. Len(d[t]) /\ j \in 1 .. Len(d[t])
    <3>1. d[t][i].stamp < d[t][j].stamp
      BY <2>1, <1>8 DEF Dense
    <3> QED
      BY <2>1, <3>1, <1>4
  <2>2. CASE i \in 1 .. Len(d[t]) /\ j \notin 1 .. Len(d[t])
    <3>1. e[t][i].stamp \in 1 .. d.next - 1 /\ e[t][j].stamp = d.next
      BY <2>2, <1>3, <1>4
    <3> QED
      BY <3>1, <1>1
  <2>3. CASE i \notin 1 .. Len(d[t])
    <3>1. t = T /\ i = Len(d[T]) + 1 /\ Len(d[T]) \in Nat /\ j \in 1 .. Len(d[T]) + 1
      BY <2>3, <1>2, <1>3
    <3> QED
      BY <3>1, <1>8
  <2> QED
    BY <2>1, <2>2, <2>3
<1> QED
  BY <1>5, <1>6, <1>7, <1>8 DEF Dense

\* What an operation leaves of a well formed database is well formed.
LEMMA OutcomeIsDense ==
  ASSUME NEW d, IsDatabase(d), Dense(d), d.next > 0,
         NEW effect, effect.table \in Tables \cup {"none"}
  PROVE  /\ IsDatabase(Outcome(d, effect)) /\ Dense(Outcome(d, effect))
         /\ Outcome(d, effect).next =
              IF effect.table = "none" THEN d.next ELSE d.next + 1
<1> DEFINE e == IF effect.table = "none" THEN d ELSE Inserted(Bumped(d), effect, d.next)
<1>1. IsDatabase(e) /\ Dense(e) /\ e.next = IF effect.table = "none" THEN d.next ELSE d.next + 1
  BY InsertedTables, DenseByInsertion
<1>2. SameStamps(e, Updated(e, effect))
  BY <1>1, UpdatedKeepsStamps
<1>3. Dense(Updated(e, effect))
  BY <1>1, <1>2, DenseBySameStamps
<1> QED
  BY <1>1, <1>2, <1>3 DEF Outcome, SameStamps

LEMMA OpenedIsDense ==
  ASSUME NEW d, IsDatabase(d), Dense(d)
  PROVE  /\ IsDatabase(Opened(d)) /\ Dense(Opened(d)) /\ Opened(d).next > 0
         /\ Opened(Opened(d)) = Opened(d)
         /\ d.next > 0 => Opened(d) = d
<1>1. CASE d.next = 0
  <2> DEFINE e == Opened(d)
  <2>1. /\ DOMAIN e = DOMAIN d /\ e.next = 1
        /\ \A t \in Tables : e[t] = d[t]
    BY <1>1 DEF Opened, IsDatabase, Tables
  <2>2. IsDatabase(e)
    BY <2>1 DEF IsDatabase
  <2>3. \A t \in Tables : Len(e[t]) \in Nat /\ ~ \E i \in 1 .. Len(e[t]) : TRUE
    BY <2>1, <1>1, TableLength DEF Dense, IsDatabase
  <2>4. Dense(e)
    BY <2>1, <2>3 DEF Dense
  <2> QED
    BY <2>1, <2>2, <2>4, <1>1 DEF Opened
<1>2. CASE d.next # 0
  BY <1>2 DEF Opened, IsDatabase
<1> QED
  BY <1>1, <1>2
-----------------------------------------------------------------------------
(***************************************************************************)
(* Requests                                                                *)
(***************************************************************************)

\* An operation inserts into one of the tables, or into none.
LEMMA EffectTables ==
  ASSUME NEW d, NEW req, NEW effect \in Effects(d, req)
  PROVE  effect.table \in Tables \cup {"none"}
<1>1. ASSUME NEW table, NEW owner, NEW row, NEW l, NEW v
      PROVE  /\ Insert(table, owner, row).table = table
             /\ Update(Insert(table, owner, row), l, v).table = table
             /\ Update(NoEffect, l, v).table = "none"
             /\ NoEffect.table = "none"
  BY DEF Insert, Update, NoEffect
<1>2. CASE req.kind \in {"borrower", "create"}
  BY <1>1, <1>2 DEF Effects, Tables
<1>3. CASE req.kind \in {"cancel", "rate"}
  BY <1>1, <1>3 DEF Effects
<1>4. CASE req.kind = "pay"
  BY <1>1, <1>4 DEF Effects, Tables, PayEffect
<1>5. CASE req.kind = "prepay"
  BY <1>1, <1>5 DEF Effects, Tables, PrepayEffects
<1>6. CASE req.kind \notin {"borrower", "create", "cancel", "pay", "prepay", "rate"}
  BY <1>1, <1>6 DEF Effects
<1> QED
  BY <1>2, <1>3, <1>4, <1>5, <1>6

WriteKinds == {"borrower", "create", "cancel", "pay", "prepay", "rate"}

LEMMA ReadKinds ==
  /\ \A req : IsRead(req) => req.kind \notin WriteKinds
  /\ \A req \in RequestForms : IsRead(req) \/ req.kind \in WriteKinds
  /\ ~IsRead(NoRequest)
<1>1. /\ \A req : IsRead(req) => req.kind \notin WriteKinds
      /\ ~IsRead(NoRequest)
  BY DEF IsRead, PortfolioReads, BorrowerReads, LoanReads, WriteKinds, NoRequest
<1>2. ASSUME NEW req \in RequestForms PROVE IsRead(req) \/ req.kind \in WriteKinds
  BY DEF IsRead, PortfolioReads, BorrowerReads, LoanReads, WriteKinds, RequestForms
<1> QED
  BY <1>1, <1>2

LEMMA ReadsWriteNothing ==
  ASSUME NEW d, NEW req, IsRead(req), NEW effect \in Effects(d, req)
  PROVE  effect = NoEffect
  BY ReadKinds DEF Effects, WriteKinds

Codes == {0, 200, 400, 404, 409, 422, 500}

LEMMA RefusalCodes ==
  ASSUME NEW d, NEW req
  PROVE  Refusal(d, req) \in Codes
<1>1. /\ \A table, id : Lookup(d, table, id) \in Codes
      /\ \A l, p : PaymentLookup(d, l, p) \in Codes
      /\ \A l : LoadRefusal(d, l) \in Codes /\ OpenRefusal(d, l) \in Codes
      /\ \A l : PayoffRefusal(d, l) \in Codes
  BY DEF Codes, Lookup, PaymentLookup, LoadRefusal, OpenRefusal, PayoffRefusal, Accepted
<1>2. /\ PayRefusal(d, req) \in Codes /\ PrepayRefusal(d, req) \in Codes
      /\ RateRefusal(d, req) \in Codes /\ CancelRefusal(d, req) \in Codes
  BY DEF Codes, PayRefusal, PrepayRefusal, RateRefusal, CancelRefusal, Accepted
<1>3. Accepted \in Codes /\ 500 \in Codes
  BY DEF Codes, Accepted
<1> QED
  BY <1>1, <1>2, <1>3 DEF Refusal

-----------------------------------------------------------------------------
(***************************************************************************)
(* The inductive invariant                                                 *)
(***************************************************************************)

Fields == {"pc", "req", "since", "gone", "tx", "effect", "seq", "read", "code"}

Sound(r) ==
  /\ DOMAIN r = Fields
  /\ r.pc \in {"idle", "waiting", "answering"} \cup InTransaction
  /\ r.gone \in BOOLEAN
  /\ r.seq \in Nat
  /\ r.code \in Codes
  /\ r.effect.table \in Tables \cup {"none"}

\* What a handler whose context stands has done, d being the committed state.
Serving(r, d) ==
  /\ r.pc \in {"waiting"} \cup InTransaction /\ ~r.gone
       => r.req \in Requests /\ ~Malformed(r.req)
  /\ r.pc \in {"waiting", "deciding"} /\ ~r.gone => r.effect = NoEffect /\ r.seq = 0
  /\ r.pc = "deciding" /\ ~r.gone => r.tx = d
  /\ r.pc \in InTransaction \ {"deciding"} /\ ~r.gone
       => Refusal(d, r.req) = Accepted /\ r.effect \in Effects(d, r.req)
  /\ r.pc = "reading" /\ ~r.gone => r.effect = NoEffect /\ r.seq = 0
  /\ r.pc = "stamping" /\ ~r.gone => r.effect.table \in Tables /\ r.tx = d /\ r.seq = 0
  /\ r.pc = "inserting" /\ ~r.gone
       => r.effect.table \in Tables /\ r.tx = Bumped(d) /\ r.seq = d.next
  /\ r.pc = "updating" /\ ~r.gone
       => r.tx = IF r.effect.table = "none" THEN d ELSE Inserted(Bumped(d), r.effect, d.next)
  /\ r.pc \in {"updating", "committing"} /\ ~r.gone
       => r.seq = IF r.effect.table = "none" THEN 0 ELSE d.next
  /\ r.pc = "committing" /\ ~r.gone
       => r.effect = NoEffect \/ r.tx = Outcome(d, r.effect)

LogOK ==
  /\ log \in Seq(Range(log)) /\ Len(log) > 0
  /\ \A n \in 1 .. Len(log) : IsDatabase(log[n]) /\ Dense(log[n])
  /\ synced \in 1 .. Len(log)

HandlersOK ==
  /\ DOMAIN handler = Handlers
  /\ \A h \in Handlers : Sound(handler[h]) /\ Serving(handler[h], Committed)

\* Only one transaction runs.
ConnOK ==
  /\ conn \in Handlers \cup {NoHandler}
  /\ \A h \in Handlers : handler[h].pc \in InTransaction => conn = h

ProcessOK ==
  /\ process \in {"up", "draining", "down"}
  /\ process = "down" => \A h \in Handlers : handler[h].pc = "idle"
  /\ process # "down" => Committed.next > 0

\* The stamps clients have, or will have, were given to rows.
AckedOK ==
  ~lost => /\ acked \subseteq 1 .. Committed.next - 1
           /\ \A h \in Handlers : Wrote(h) => handler[h].seq \in 1 .. Committed.next - 1

IInv == LogOK /\ HandlersOK /\ ConnOK /\ ProcessOK /\ AckedOK

LEMMA IdleSound ==
  Sound(Idle) /\ Idle.pc = "idle" /\ Idle.seq = 0 /\ Idle.effect = NoEffect
  BY DEF Sound, Fields, Idle, InTransaction, NoEffect, Codes

LEMMA RestServes ==
  ASSUME NEW r, r.pc \in {"idle", "answering"}, NEW d
  PROVE  Serving(r, d)
  BY DEF Serving, InTransaction

LEMMA CommittedIsDatabase ==
  ASSUME LogOK
  PROVE  IsDatabase(Committed) /\ Dense(Committed) /\ Len(log) \in Nat
  BY LenProperties DEF LogOK, Committed

\* The log grown by one database.
LEMMA GrownLog ==
  ASSUME LogOK, UNCHANGED synced
  PROVE  \A d : IsDatabase(d) /\ Dense(d) /\ log' = Append(log, d) => LogOK' /\ Committed' = d
<1> SUFFICES ASSUME NEW d, IsDatabase(d), Dense(d), log' = Append(log, d)
             PROVE  LogOK' /\ Committed' = d
  OBVIOUS
<1> DEFINE S == Range(log) \cup {d}
<1>1. log \in Seq(S) /\ Len(log) \in Nat
  BY SeqMonotonic, LenProperties DEF LogOK
<1>2. /\ log' \in Seq(S) /\ Len(log') = Len(log) + 1
      /\ \A n \in 1 .. Len(log) : log'[n] = log[n]
      /\ log'[Len(log) + 1] = d
  BY <1>1
<1>3. log' \in Seq(Range(log'))
  BY <1>2, SeqOfItsRange
<1>4. \A n \in 1 .. Len(log') : IsDatabase(log'[n]) /\ Dense(log'[n])
  BY <1>1, <1>2 DEF LogOK
<1> QED
  BY <1>1, <1>2, <1>3, <1>4 DEF LogOK, Committed

\* The log cut to a nonempty prefix that keeps what is durable.
LEMMA CutLog ==
  ASSUME LogOK, UNCHANGED synced
  PROVE  \A n \in synced .. Len(log) : log' = SubSeq(log, 1, n) => LogOK'
<1> SUFFICES ASSUME NEW n \in synced .. Len(log), log' = SubSeq(log, 1, n)
             PROVE  LogOK'
  OBVIOUS
<1>1. Len(log) \in Nat /\ n \in 1 .. Len(log) /\ synced \in 1 .. n
  BY LenProperties DEF LogOK
<1>2. \A i \in 1 .. n : log[i] \in Range(log)
  BY <1>1, LenProperties DEF LogOK, Range
<1>3. /\ log' \in Seq(Range(log)) /\ Len(log') = n
      /\ \A i \in 1 .. n : log'[i] = log[i]
  BY <1>1, <1>2, SubSeqProperties
<1>4. log' \in Seq(Range(log'))
  BY <1>3, SeqOfItsRange
<1> QED
  BY <1>1, <1>3, <1>4 DEF LogOK
-----------------------------------------------------------------------------
(***************************************************************************)
(* The steps                                                               *)
(***************************************************************************)

LEMMA InitInvariant == Init => IInv
<1> SUFFICES ASSUME Init
             PROVE  IInv
  OBVIOUS
<1>1. PICK d \in Stored : log = <<d>>
  BY DEF Init, FirstFile
<1>2. /\ log \in Seq({d}) /\ Len(log) = 1 /\ log[1] = d
      /\ IsDatabase(d) /\ Dense(d)
  BY <1>1, StoredAssumption
<1>3. LogOK
  BY <1>2, SeqOfItsRange DEF LogOK, Init, FirstFile
<1>4. DOMAIN handler = Handlers /\ \A h \in Handlers : handler[h] = Idle
  BY DEF Init
<1>5. HandlersOK
  BY <1>4, IdleSound, RestServes DEF HandlersOK
<1>6. ConnOK
  BY <1>4, IdleSound DEF ConnOK, Init, InTransaction
<1>7. ProcessOK
  BY <1>4, IdleSound DEF ProcessOK, Init
<1>8. AckedOK
  BY <1>4, IdleSound DEF AckedOK, Init, Wrote
<1> QED
  BY <1>3, <1>5, <1>6, <1>7, <1>8 DEF IInv

\* A step of one handler that commits nothing.
LEMMA HandlerMoves ==
  ASSUME IInv, UNCHANGED <<log, world>>, process # "down",
         conn' \in Handlers \cup {NoHandler}
  PROVE  \A h \in Handlers : \A r :
           /\ Goes(h, r) /\ Sound(r) /\ Serving(r, Committed)
           /\ r.pc \in InTransaction => conn' = h
           /\ conn' = conn \/ conn \in {h, NoHandler}
           /\ r.pc = "answering" /\ r.seq # 0 => Wrote(h) /\ r.seq = handler[h].seq
           => IInv'
<1> SUFFICES ASSUME NEW h \in Handlers, NEW r,
                    Goes(h, r), Sound(r), Serving(r, Committed),
                    r.pc \in InTransaction => conn' = h,
                    conn' = conn \/ conn \in {h, NoHandler},
                    r.pc = "answering" /\ r.seq # 0 => Wrote(h) /\ r.seq = handler[h].seq
             PROVE  IInv'
  OBVIOUS
<1>1. /\ log' = log /\ Committed' = Committed /\ synced' = synced
      /\ process' = process /\ lost' = lost /\ acked' = acked
  BY DEF world, Committed
<1>2. /\ DOMAIN handler' = Handlers /\ handler'[h] = r
      /\ \A o \in Handlers \ {h} : handler'[o] = handler[o]
  BY DEF Goes, IInv, HandlersOK
<1>3. LogOK'
  BY <1>1 DEF IInv, LogOK
<1>4. HandlersOK'
  BY <1>1, <1>2 DEF IInv, HandlersOK
<1>5. ConnOK'
  BY <1>2, HandlerAssumption DEF IInv, ConnOK
<1>6. ProcessOK'
  BY <1>1, <1>2 DEF IInv, ProcessOK
<1>7. AckedOK'
  BY <1>1, <1>2 DEF IInv, AckedOK, Wrote
<1> QED
  BY <1>3, <1>4, <1>5, <1>6, <1>7 DEF IInv

\* A handler that is doing something runs in a live process.
LEMMA BusyIsUp ==
  ASSUME IInv, NEW h \in Handlers, handler[h].pc # "idle"
  PROVE  process # "down"
  BY DEF IInv, ProcessOK

LEMMA ReceiveStep ==
  ASSUME IInv, NEW h \in Handlers, NEW req \in Requests, Receive(h, req)
  PROVE  IInv'
<1> DEFINE r == [Idle EXCEPT !.pc    = IF Malformed(req) THEN "answering" ELSE "waiting",
                             !.code  = IF Malformed(req) THEN 400 ELSE 0,
                             !.req   = req,
                             !.since = IF IsRead(req) THEN Len(log) ELSE 0]
<1>1. /\ DOMAIN r = Fields
      /\ r.pc = IF Malformed(req) THEN "answering" ELSE "waiting"
      /\ r.code = IF Malformed(req) THEN 400 ELSE 0
      /\ r.req = req /\ r.gone = FALSE /\ r.seq = 0 /\ r.effect = NoEffect
  BY DEF Idle, Fields
<1>2. Goes(h, r) /\ UNCHANGED <<log, conn, world>> /\ process # "down"
  BY DEF Receive
<1> HIDE DEF r
<1>3. Sound(r)
  <2>1. NoEffect.table = "none"
    BY DEF NoEffect
  <2>2. r.code \in Codes /\ r.seq \in Nat
    BY <1>1 DEF Codes
  <2>3. r.pc \in {"idle", "waiting", "answering"} /\ r.gone \in BOOLEAN
    BY <1>1
  <2> QED
    BY <1>1, <2>1, <2>2, <2>3 DEF Sound
<1>4. Serving(r, Committed)
  BY <1>1 DEF Serving, InTransaction
<1>5. r.pc \notin InTransaction
  BY <1>1 DEF InTransaction
<1> QED
  BY <1>1, <1>2, <1>3, <1>4, <1>5, HandlerMoves DEF IInv, ConnOK

LEMMA BeginStep ==
  ASSUME IInv, NEW h \in Handlers, Begin(h)
  PROVE  IInv'
<1> DEFINE r == [handler[h] EXCEPT !.pc = "deciding", !.tx = Committed]
<1>1. /\ Sound(handler[h]) /\ Serving(handler[h], Committed)
      /\ handler[h].pc = "waiting" /\ handler[h].gone = FALSE
  BY DEF IInv, HandlersOK, Begin, Runs, Sound
<1>2. /\ DOMAIN r = Fields /\ r.pc = "deciding" /\ r.tx = Committed
      /\ r.req = handler[h].req /\ r.gone = FALSE /\ r.seq = handler[h].seq
      /\ r.effect = handler[h].effect /\ r.code = handler[h].code
  BY <1>1 DEF Sound, Fields
<1>3. Goes(h, r) /\ UNCHANGED <<log, world>> /\ conn = NoHandler /\ conn' = h
  BY DEF Begin
<1> HIDE DEF r
<1>4. Sound(r)
  BY <1>1, <1>2 DEF Sound, InTransaction
<1>5. Serving(r, Committed)
  BY <1>1, <1>2 DEF Serving, InTransaction
<1> QED
  BY <1>1, <1>2, <1>3, <1>4, <1>5, HandlerMoves, BusyIsUp
\* The end of a transaction leaves the stamp of what was committed.
LEMMA AnswerMoves ==
  ASSUME IInv, NEW h \in Handlers, NEW code \in Codes, Answers(h, code)
  PROVE  \E r : /\ Goes(h, r) /\ Sound(r) /\ r.pc = "answering"
                /\ r.seq = IF code = Accepted THEN handler[h].seq ELSE 0
<1>1. Sound(handler[h])
  BY DEF IInv, HandlersOK
<1>2. CASE code = Accepted /\ IsRead(handler[h].req)
  <2> DEFINE r == [handler[h] EXCEPT !.pc = "answering", !.tx = NewFile, !.code = code]
  <2>1. /\ DOMAIN r = Fields /\ r.pc = "answering" /\ r.code = code
        /\ r.gone = handler[h].gone /\ r.seq = handler[h].seq
        /\ r.effect = handler[h].effect
    BY <1>1 DEF Sound, Fields
  <2>2. Goes(h, r)
    BY <1>2 DEF Answers
  <2> HIDE DEF r
  <2>3. Sound(r)
    BY <1>1, <2>1 DEF Sound
  <2> QED
    BY <1>2, <2>1, <2>2, <2>3
<1>3. CASE ~(code = Accepted /\ IsRead(handler[h].req))
  <2> DEFINE seq == IF code = Accepted THEN handler[h].seq ELSE 0
             r == [Idle EXCEPT !.pc = "answering", !.gone = handler[h].gone,
                               !.code = code, !.seq = seq]
  <2>1. Goes(h, r)
    BY <1>3 DEF Answers
  <2>2. seq \in Nat
    BY <1>1 DEF Sound
  <2> HIDE DEF seq
  <2>3. /\ DOMAIN r = Fields /\ r.pc = "answering" /\ r.code = code
        /\ r.gone = handler[h].gone /\ r.seq = seq /\ r.effect = NoEffect
    BY DEF Idle, Fields
  <2>4. NoEffect.table = "none"
    BY DEF NoEffect
  <2> HIDE DEF r
  <2>5. Sound(r)
    BY <1>1, <2>2, <2>3, <2>4 DEF Sound
  <2> QED
    BY <2>1, <2>3, <2>5 DEF seq
<1> QED
  BY <1>2, <1>3

\* A transaction that is rolled back, and a BEGIN that fails.
LEMMA RollbackStep ==
  ASSUME IInv, NEW h \in Handlers, handler[h].pc \in {"waiting"} \cup InTransaction,
         NEW code \in Codes \ {Accepted}, Answers(h, code),
         conn' = IF conn = h THEN NoHandler ELSE conn, UNCHANGED <<log, world>>
  PROVE  IInv'
<1>1. PICK r : Goes(h, r) /\ Sound(r) /\ r.pc = "answering" /\ r.seq = 0
  BY AnswerMoves
<1>2. Serving(r, Committed) /\ r.pc \notin InTransaction
  BY <1>1, RestServes DEF InTransaction
<1>3. process # "down"
  BY BusyIsUp DEF InTransaction
<1>4. conn' \in Handlers \cup {NoHandler} /\ (conn' = conn \/ conn = h)
  BY DEF IInv, ConnOK
<1> QED
  BY <1>1, <1>2, <1>3, <1>4, HandlerMoves

LEMMA RefuseStep ==
  ASSUME IInv, NEW h \in Handlers, Refuse(h)
  PROVE  IInv'
<1> DEFINE code == Refusal(handler[h].tx, handler[h].req)
<1>1. /\ handler[h].pc \in InTransaction /\ code # Accepted
      /\ Answers(h, code) /\ conn' = NoHandler /\ UNCHANGED <<log, world>>
  BY DEF Refuse, Runs, InTransaction
<1>2. code \in Codes \ {Accepted}
  BY <1>1, RefusalCodes
<1>3. conn = h
  BY <1>1 DEF IInv, ConnOK
<1> HIDE DEF code
<1> QED
  BY <1>1, <1>2, <1>3, RollbackStep

LEMMA FailStep ==
  ASSUME IInv, NEW h \in Handlers, Fail(h)
  PROVE  IInv'
<1>1. 500 \in Codes \ {Accepted}
  BY DEF Codes, Accepted
<1> QED
  BY <1>1, RollbackStep DEF Fail, Released

\* A statement of the transaction, at which the context stands.
LEMMA AtStatement ==
  ASSUME IInv, NEW h \in Handlers, NEW pc \in InTransaction, Runs(h, pc)
  PROVE  /\ Sound(handler[h]) /\ Serving(handler[h], Committed)
         /\ handler[h].pc = pc /\ handler[h].gone = FALSE
         /\ conn = h /\ process # "down" /\ Committed.next > 0
<1>1. handler[h].pc = pc /\ ~handler[h].gone
  BY DEF Runs
<1>2. Sound(handler[h]) /\ Serving(handler[h], Committed)
  BY DEF IInv, HandlersOK
<1>3. conn = h
  BY <1>1 DEF IInv, ConnOK
<1>4. process # "down"
  BY <1>1, BusyIsUp DEF InTransaction
<1>5. Committed.next > 0
  BY <1>4 DEF IInv, ProcessOK
<1> QED
  BY <1>1, <1>2, <1>3, <1>4, <1>5 DEF Sound

\* The next statement of the transaction.
LEMMA StatementStep ==
  ASSUME IInv, NEW h \in Handlers, NEW pc \in InTransaction, Runs(h, pc),
         UNCHANGED <<log, conn, world>>
  PROVE  \A r : /\ Goes(h, r) /\ r.pc \in InTransaction /\ Sound(r) /\ Serving(r, Committed)
                => IInv'
<1>1. conn = h /\ process # "down"
  BY AtStatement
<1>2. "answering" \notin InTransaction
  BY DEF InTransaction
<1> QED
  BY <1>1, <1>2, HandlerMoves

LEMMA DecideStep ==
  ASSUME IInv, NEW h \in Handlers, Decide(h)
  PROVE  IInv'
<1>1. "deciding" \in InTransaction /\ Runs(h, "deciding")
  BY DEF Decide, InTransaction
<1>2. /\ Sound(handler[h]) /\ Serving(handler[h], Committed)
      /\ handler[h].pc = "deciding" /\ handler[h].gone = FALSE
  BY <1>1, AtStatement
<1>3. /\ handler[h].tx = Committed /\ handler[h].seq = 0
      /\ handler[h].req \in Requests /\ ~Malformed(handler[h].req)
  BY <1>1, <1>2 DEF Serving
<1>4. PICK effect \in Effects(Committed, handler[h].req) :
        Goes(h, [handler[h] EXCEPT !.pc     = FirstStatement(handler[h].req, effect),
                                   !.effect = effect])
  BY <1>3 DEF Decide
<1> DEFINE pc == FirstStatement(handler[h].req, effect)
           r == [handler[h] EXCEPT !.pc = pc, !.effect = effect]
<1>5. /\ DOMAIN r = Fields /\ r.pc = pc /\ r.effect = effect
      /\ r.req = handler[h].req /\ r.gone = FALSE /\ r.seq = 0
      /\ r.tx = Committed /\ r.code = handler[h].code
  BY <1>2, <1>3 DEF Sound, Fields
<1>6. /\ pc \in {"reading", "stamping", "updating"}
      /\ pc = "reading" => effect = NoEffect
      /\ pc = "stamping" => effect.table \in Tables
      /\ pc = "updating" => effect.table = "none"
  BY EffectTables, ReadsWriteNothing DEF FirstStatement
<1>7. Goes(h, r) /\ effect.table \in Tables \cup {"none"}
      /\ Refusal(Committed, handler[h].req) = Accepted /\ UNCHANGED <<log, conn, world>>
  BY <1>3, <1>4, EffectTables DEF Decide
<1> HIDE DEF pc, r
<1>8. Sound(r) /\ r.pc \in InTransaction
  <2>1. r.pc \in InTransaction
    BY <1>5, <1>6 DEF InTransaction
  <2>2. r.code \in Codes /\ r.effect.table \in Tables \cup {"none"}
    BY <1>2, <1>5, <1>7 DEF Sound
  <2>3. r.gone \in BOOLEAN
    BY <1>5
  <2>4. r.seq \in Nat
    BY <1>5
  <2> QED
    BY <1>5, <2>1, <2>2, <2>3, <2>4 DEF Sound
<1>9. Serving(r, Committed)
  <2>1. CASE pc = "reading"
    <3>1. NoEffect.table = "none"
      BY DEF NoEffect
    <3> QED
      BY <2>1, <3>1, <1>3, <1>5, <1>6, <1>7 DEF Serving
  <2>2. CASE pc = "stamping"
    BY <2>2, <1>3, <1>5, <1>6, <1>7 DEF Serving
  <2>3. CASE pc = "updating"
    BY <2>3, <1>3, <1>5, <1>6, <1>7 DEF Serving
  <2> QED
    BY <2>1, <2>2, <2>3, <1>6
<1> QED
  BY <1>1, <1>7, <1>8, <1>9, StatementStep
LEMMA ReadStep ==
  ASSUME IInv, NEW h \in Handlers, Read(h)
  PROVE  IInv'
<1>1. "reading" \in InTransaction /\ Runs(h, "reading") /\ UNCHANGED <<log, conn, world>>
  BY DEF Read, InTransaction
<1>2. /\ Sound(handler[h]) /\ Serving(handler[h], Committed)
      /\ handler[h].pc = "reading" /\ handler[h].gone = FALSE
  BY <1>1, AtStatement
<1>3. PICK v : \/ Goes(h, [handler[h] EXCEPT !.read = v])
               \/ Goes(h, [handler[h] EXCEPT !.pc = "committing"])
  <2> DEFINE rows == Readings(handler[h].tx, handler[h].req)
             n    == Len(handler[h].read) + 1
  <2>1. \/ Goes(h, [handler[h] EXCEPT !.read = Append(handler[h].read, rows[n])])
        \/ Goes(h, [handler[h] EXCEPT !.pc = "committing"])
    BY DEF Read
  <2> HIDE DEF rows, n
  <2> QED
    BY <2>1
<1>4. CASE Goes(h, [handler[h] EXCEPT !.read = v])
  <2> DEFINE r == [handler[h] EXCEPT !.read = v]
  <2>1. /\ DOMAIN r = Fields /\ r.pc = handler[h].pc /\ r.effect = handler[h].effect
        /\ r.req = handler[h].req /\ r.gone = FALSE /\ r.seq = handler[h].seq
        /\ r.tx = handler[h].tx /\ r.code = handler[h].code
    BY <1>2 DEF Sound, Fields
  <2>2. Goes(h, r)
    BY <1>4
  <2> HIDE DEF r
  <2>3. Sound(r) /\ Serving(r, Committed)
    BY <1>2, <2>1 DEF Sound, Serving
  <2> QED
    BY <1>1, <1>2, <2>1, <2>2, <2>3, StatementStep
<1>5. CASE Goes(h, [handler[h] EXCEPT !.pc = "committing"])
  <2> DEFINE r == [handler[h] EXCEPT !.pc = "committing"]
  <2>1. /\ DOMAIN r = Fields /\ r.pc = "committing" /\ r.effect = handler[h].effect
        /\ r.req = handler[h].req /\ r.gone = FALSE /\ r.seq = handler[h].seq
        /\ r.tx = handler[h].tx /\ r.code = handler[h].code
    BY <1>2 DEF Sound, Fields
  <2>2. Goes(h, r)
    BY <1>5
  <2> HIDE DEF r
  <2>3. Sound(r) /\ r.pc \in InTransaction
    BY <1>2, <2>1 DEF Sound, InTransaction
  <2>4. NoEffect.table = "none"
    BY DEF NoEffect
  <2>5. Serving(r, Committed)
    BY <1>2, <2>1, <2>4 DEF Serving, InTransaction
  <2> QED
    BY <1>1, <2>2, <2>3, <2>5, StatementStep
<1> QED
  BY <1>3, <1>4, <1>5

LEMMA StampRowStep ==
  ASSUME IInv, NEW h \in Handlers, StampRow(h)
  PROVE  IInv'
<1> DEFINE r == [handler[h] EXCEPT !.pc  = "inserting",
                                   !.tx  = Bumped(@),
                                   !.seq = handler[h].tx.next]
<1>1. /\ "stamping" \in InTransaction /\ Runs(h, "stamping")
      /\ UNCHANGED <<log, conn, world>> /\ Goes(h, r)
  BY DEF StampRow, InTransaction
<1>2. /\ Sound(handler[h]) /\ Serving(handler[h], Committed)
      /\ handler[h].pc = "stamping" /\ handler[h].gone = FALSE
  BY <1>1, AtStatement
<1>3. /\ DOMAIN r = Fields /\ r.pc = "inserting" /\ r.effect = handler[h].effect
      /\ r.req = handler[h].req /\ r.gone = FALSE /\ r.seq = handler[h].tx.next
      /\ r.tx = Bumped(handler[h].tx) /\ r.code = handler[h].code
  BY <1>2 DEF Sound, Fields
<1>4. handler[h].tx = Committed /\ Committed.next \in Nat
  BY <1>1, <1>2, CommittedIsDatabase DEF Serving, IsDatabase, IInv
<1> HIDE DEF r
<1>5. Sound(r) /\ r.pc \in InTransaction
  BY <1>2, <1>3, <1>4 DEF Sound, InTransaction
<1>6. Serving(r, Committed)
  BY <1>2, <1>3, <1>4 DEF Serving, InTransaction
<1> QED
  BY <1>1, <1>5, <1>6, StatementStep

LEMMA InsertRowStep ==
  ASSUME IInv, NEW h \in Handlers, InsertRow(h)
  PROVE  IInv'
<1> DEFINE pc == IF handler[h].effect.loan # 0 THEN "updating" ELSE "committing"
           r == [handler[h] EXCEPT !.pc = pc,
                                   !.tx = Inserted(@, handler[h].effect, handler[h].seq)]
<1>1. /\ "inserting" \in InTransaction /\ Runs(h, "inserting")
      /\ UNCHANGED <<log, conn, world>> /\ Goes(h, r)
  BY DEF InsertRow, InTransaction
<1>2. /\ Sound(handler[h]) /\ Serving(handler[h], Committed)
      /\ handler[h].pc = "inserting" /\ handler[h].gone = FALSE
  BY <1>1, AtStatement
<1>3. /\ DOMAIN r = Fields /\ r.pc = pc /\ r.effect = handler[h].effect
      /\ r.req = handler[h].req /\ r.gone = FALSE /\ r.seq = handler[h].seq
      /\ r.tx = Inserted(handler[h].tx, handler[h].effect, handler[h].seq)
      /\ r.code = handler[h].code
  BY <1>2 DEF Sound, Fields
<1>4. /\ handler[h].effect.table \in Tables
      /\ handler[h].tx = Bumped(Committed) /\ handler[h].seq = Committed.next
  BY <1>2 DEF Serving
<1>5. /\ pc \in {"updating", "committing"}
      /\ pc = "committing" => handler[h].effect.loan = 0
  OBVIOUS
<1>6. "none" \notin Tables
  BY DEF Tables
<1>7. pc = "committing" => r.tx = Outcome(Committed, handler[h].effect)
  BY <1>3, <1>4, <1>5, <1>6 DEF Outcome, Updated
<1> HIDE DEF r, pc
<1>8. Sound(r) /\ r.pc \in InTransaction
  BY <1>2, <1>3, <1>5 DEF Sound, InTransaction
<1>9. Serving(r, Committed)
  <2>1. Refusal(Committed, r.req) = Accepted /\ r.effect \in Effects(Committed, r.req)
        /\ r.req \in Requests /\ ~Malformed(r.req)
    BY <1>1, <1>2, <1>3 DEF Serving
  <2>2. CASE pc = "updating"
    BY <2>1, <2>2, <1>3, <1>4, <1>6 DEF Serving
  <2>3. CASE pc = "committing"
    BY <2>1, <2>3, <1>3, <1>4, <1>6, <1>7 DEF Serving
  <2> QED
    BY <2>2, <2>3, <1>5
<1> QED
  BY <1>1, <1>8, <1>9, StatementStep

LEMMA UpdateLoanStep ==
  ASSUME IInv, NEW h \in Handlers, UpdateLoan(h)
  PROVE  IInv'
<1> DEFINE r == [handler[h] EXCEPT !.pc = "committing",
                                   !.tx = Updated(@, handler[h].effect)]
<1>1. /\ "updating" \in InTransaction /\ Runs(h, "updating")
      /\ UNCHANGED <<log, conn, world>> /\ Goes(h, r)
  BY DEF UpdateLoan, InTransaction
<1>2. /\ Sound(handler[h]) /\ Serving(handler[h], Committed)
      /\ handler[h].pc = "updating" /\ handler[h].gone = FALSE
  BY <1>1, AtStatement
<1>3. /\ DOMAIN r = Fields /\ r.pc = "committing" /\ r.effect = handler[h].effect
      /\ r.req = handler[h].req /\ r.gone = FALSE /\ r.seq = handler[h].seq
      /\ r.tx = Updated(handler[h].tx, handler[h].effect) /\ r.code = handler[h].code
  BY <1>2 DEF Sound, Fields
<1>4. r.tx = Outcome(Committed, handler[h].effect)
  BY <1>2, <1>3 DEF Serving, Outcome
<1> HIDE DEF r
<1>5. Sound(r) /\ r.pc \in InTransaction
  BY <1>2, <1>3 DEF Sound, InTransaction
<1>6. Serving(r, Committed)
  BY <1>2, <1>3, <1>4 DEF Serving, InTransaction
<1> QED
  BY <1>1, <1>5, <1>6, StatementStep

LEMMA HangUpStep ==
  ASSUME IInv, NEW h \in Handlers, HangUp(h)
  PROVE  IInv'
<1>1. /\ handler[h].pc # "idle" /\ UNCHANGED <<log, conn, world>>
      /\ Sound(handler[h]) /\ Serving(handler[h], Committed)
  BY DEF HangUp, IInv, HandlersOK
<1>2. process # "down" /\ conn' = conn /\ conn \in Handlers \cup {NoHandler}
      /\ (handler[h].pc \in InTransaction => conn = h)
  BY <1>1, BusyIsUp DEF IInv, ConnOK
<1>3. CASE handler[h].pc = "answering"
  <2> DEFINE r == [handler[h] EXCEPT !.gone = TRUE]
  <2>1. /\ DOMAIN r = Fields /\ r.pc = "answering" /\ r.effect = handler[h].effect
        /\ r.gone = TRUE /\ r.seq = handler[h].seq /\ r.code = handler[h].code
    BY <1>1, <1>3 DEF Sound, Fields
  <2>2. Goes(h, r)
    BY <1>3 DEF HangUp
  <2> HIDE DEF r
  <2>3. Sound(r)
    <3>1. r.gone \in BOOLEAN
      BY <2>1
    <3> QED
      BY <1>1, <2>1, <3>1 DEF Sound
  <2>4. Serving(r, Committed) /\ r.pc \notin InTransaction
    BY <2>1, RestServes DEF InTransaction
  <2> QED
    BY <2>4, <1>1, <1>2, <1>3, <2>1, <2>2, <2>3, HandlerMoves DEF Wrote
<1>4. CASE handler[h].pc # "answering"
  <2> DEFINE r == [Idle EXCEPT !.pc = handler[h].pc, !.gone = TRUE]
  <2>1. /\ DOMAIN r = Fields /\ r.pc = handler[h].pc /\ r.effect = NoEffect
        /\ r.gone = TRUE /\ r.seq = 0 /\ r.code = 0
    BY DEF Idle, Fields
  <2>2. Goes(h, r)
    BY <1>4 DEF HangUp
  <2>3. NoEffect.table = "none" /\ 0 \in Codes
    BY DEF NoEffect, Codes
  <2> HIDE DEF r
  <2>4. Sound(r) /\ Serving(r, Committed)
    <3>1. r.gone \in BOOLEAN
      BY <2>1
    <3>5. r.seq \in Nat
      BY <2>1
    <3>2. r.code \in Codes /\ r.effect.table \in Tables \cup {"none"}
      BY <2>1, <2>3
    <3>3. Sound(r)
      BY <1>1, <2>1, <3>1, <3>2, <3>5 DEF Sound
    <3>4. Serving(r, Committed)
      BY <2>1 DEF Serving
    <3> QED
      BY <3>3, <3>4
  <2> QED
    BY <1>1, <1>2, <1>4, <2>1, <2>2, <2>4, HandlerMoves
<1> QED
  BY <1>3, <1>4
\* What a commit adds to the log.
LEMMA CommitAppends ==
  ASSUME IInv, NEW h \in Handlers, Commit(h)
  PROVE  \/ handler[h].effect = NoEffect /\ handler[h].seq = 0 /\ log' = log
         \/ \E effect \in Effects(Committed, handler[h].req) :
              /\ effect # NoEffect
              /\ log' = Append(log, Outcome(Committed, effect))
              /\ handler[h].seq = IF effect.table = "none" THEN 0 ELSE Committed.next
<1>1. "committing" \in InTransaction /\ Runs(h, "committing")
  BY DEF Commit, InTransaction
<1>2. /\ Serving(handler[h], Committed)
      /\ handler[h].pc = "committing" /\ handler[h].gone = FALSE
  BY <1>1, AtStatement
<1>3. NoEffect.table = "none"
  BY DEF NoEffect
<1>4. /\ handler[h].effect \in Effects(Committed, handler[h].req)
      /\ handler[h].effect = NoEffect \/ handler[h].tx = Outcome(Committed, handler[h].effect)
      /\ handler[h].seq = IF handler[h].effect.table = "none" THEN 0 ELSE Committed.next
  BY <1>1, <1>2 DEF Serving
<1>5. log' = IF handler[h].effect = NoEffect THEN log ELSE Append(log, handler[h].tx)
  BY DEF Commit
<1>6. CASE handler[h].effect = NoEffect
  BY <1>3, <1>4, <1>5, <1>6
<1>7. CASE handler[h].effect # NoEffect
  BY <1>4, <1>5, <1>7
<1> QED
  BY <1>6, <1>7

LEMMA CommitStep ==
  ASSUME IInv, NEW h \in Handlers, Commit(h)
  PROVE  IInv'
<1>1. "committing" \in InTransaction /\ Runs(h, "committing")
  BY DEF Commit, InTransaction
<1>2. conn = h /\ process # "down" /\ Committed.next > 0
  BY <1>1, AtStatement
<1>3. /\ Answers(h, Accepted) /\ conn' = NoHandler /\ synced' = synced
      /\ process' = process /\ lost' = lost /\ acked' = acked
  BY DEF Commit, world
<1>4. Accepted \in Codes
  BY DEF Accepted, Codes
<1>5. PICK r : Goes(h, r) /\ Sound(r) /\ r.pc = "answering" /\ r.seq = handler[h].seq
  BY <1>3, <1>4, AnswerMoves
<1>6. /\ DOMAIN handler' = Handlers /\ handler'[h] = r
      /\ \A o \in Handlers \ {h} : handler'[o] = handler[o]
  BY <1>5 DEF Goes, IInv, HandlersOK
<1>7. \A o \in Handlers \ {h} : handler[o].pc \notin InTransaction
  BY <1>2 DEF IInv, ConnOK
<1>8. IsDatabase(Committed) /\ Dense(Committed)
  BY CommittedIsDatabase DEF IInv
<1>9. /\ LogOK'
      /\ Committed'.next \in Nat /\ Committed.next \in Nat
      /\ Committed'.next >= Committed.next
      /\ r.seq # 0 => r.seq \in 1 .. Committed'.next - 1
  <2>1. CASE handler[h].effect = NoEffect /\ handler[h].seq = 0 /\ log' = log
    BY <2>1, <1>3, <1>5, <1>8 DEF IInv, LogOK, Committed, IsDatabase
  <2>2. ASSUME NEW effect \in Effects(Committed, handler[h].req),
               log' = Append(log, Outcome(Committed, effect)),
               handler[h].seq = IF effect.table = "none" THEN 0 ELSE Committed.next
        PROVE  /\ LogOK'
               /\ Committed'.next \in Nat /\ Committed.next \in Nat
               /\ Committed'.next >= Committed.next
               /\ r.seq # 0 => r.seq \in 1 .. Committed'.next - 1
    <3> DEFINE d == Outcome(Committed, effect)
    <3>1. /\ IsDatabase(d) /\ Dense(d)
          /\ d.next = IF effect.table = "none" THEN Committed.next ELSE Committed.next + 1
      BY <1>2, <1>8, EffectTables, OutcomeIsDense
    <3>2. LogOK' /\ Committed' = d
      BY <1>3, <2>2, <3>1, GrownLog DEF IInv
    <3>3. Committed.next \in Nat
      BY <1>8 DEF IsDatabase
    <3> HIDE DEF d
    <3> QED
      BY <1>2, <1>5, <2>2, <3>1, <3>2, <3>3
  <2> QED
    BY <2>1, <2>2, CommitAppends
<1>10. HandlersOK'
  <2>1. \A d : Serving(r, d)
    BY <1>5, RestServes
  <2>2. (Sound(handler[h]) /\ Serving(handler[h], Committed))'
    BY <1>5, <1>6, <2>1
  <2>3. ASSUME NEW o \in Handlers \ {h}
        PROVE  (Sound(handler[o]) /\ Serving(handler[o], Committed))'
    <3>1. Sound(handler[o]) /\ Serving(handler[o], Committed)
      BY DEF IInv, HandlersOK
    <3>2. \A d : Serving(handler[o], d)
      BY <1>7, <3>1 DEF Serving, InTransaction
    <3> QED
      BY <1>6, <3>1, <3>2
  <2> QED
    BY <1>6, <2>2, <2>3 DEF HandlersOK
<1>11. ConnOK'
  BY <1>3, <1>5, <1>6, <1>7 DEF ConnOK, InTransaction
<1>12. ProcessOK'
  BY <1>2, <1>3, <1>9 DEF IInv, ProcessOK
<1>13. AckedOK'
  <2>1. SUFFICES ASSUME ~lost
                 PROVE  /\ acked \subseteq 1 .. Committed'.next - 1
                        /\ \A o \in Handlers : Wrote(o)'
                             => handler'[o].seq \in 1 .. Committed'.next - 1
    BY <1>3 DEF AckedOK
  <2>2. 1 .. Committed.next - 1 \subseteq 1 .. Committed'.next - 1
    BY <1>9
  <2> QED
    BY <2>1, <2>2, <1>5, <1>6, <1>9 DEF IInv, AckedOK, Wrote
<1> QED
  BY <1>9, <1>10, <1>11, <1>12, <1>13 DEF IInv

LEMMA ReplyStep ==
  ASSUME IInv, NEW h \in Handlers, Reply(h)
  PROVE  IInv'
<1>1. /\ handler[h].pc = "answering" /\ Goes(h, Idle)
      /\ log' = log /\ Committed' = Committed /\ synced' = synced
      /\ conn' = conn /\ process' = process /\ lost' = lost
  BY DEF Reply, Committed
<1>2. acked' \subseteq acked \cup {handler[h].seq} /\ (~Wrote(h) => acked' = acked)
  BY DEF Reply
<1>3. /\ DOMAIN handler' = Handlers /\ handler'[h] = Idle
      /\ \A o \in Handlers \ {h} : handler'[o] = handler[o]
  BY <1>1 DEF Goes, IInv, HandlersOK
<1>4. LogOK'
  BY <1>1 DEF IInv, LogOK
<1>5. HandlersOK'
  BY <1>1, <1>3, IdleSound, RestServes DEF IInv, HandlersOK
<1>6. ConnOK'
  BY <1>1, <1>3, IdleSound DEF IInv, ConnOK, InTransaction
<1>7. ProcessOK'
  BY <1>1, <1>3, IdleSound DEF IInv, ProcessOK
<1>8. AckedOK'
  BY <1>1, <1>2, <1>3, IdleSound DEF IInv, AckedOK, Wrote
<1> QED
  BY <1>4, <1>5, <1>6, <1>7, <1>8 DEF IInv
\* Every handler is idle afterwards.
LEMMA AllIdle ==
  ASSUME IInv, handler' = [h \in Handlers |-> Idle], conn' = NoHandler
  PROVE  /\ HandlersOK' /\ ConnOK'
         /\ \A h \in Handlers : handler'[h].pc = "idle" /\ ~Wrote(h)'
<1>1. DOMAIN handler' = Handlers /\ \A h \in Handlers : handler'[h] = Idle
  OBVIOUS
<1>2. HandlersOK'
  BY <1>1, IdleSound, RestServes DEF HandlersOK
<1>3. ConnOK'
  BY <1>1, IdleSound DEF ConnOK, InTransaction
<1> QED
  BY <1>1, <1>2, <1>3, IdleSound DEF Wrote

\* The process dies, and what is committed stays.
LEMMA DeathStep ==
  ASSUME IInv, Dies, UNCHANGED <<log, synced, lost>>
  PROVE  IInv'
<1>1. /\ log' = log /\ Committed' = Committed /\ synced' = synced /\ lost' = lost
      /\ process' = "down" /\ acked' = acked
      /\ handler' = [h \in Handlers |-> Idle] /\ conn' = NoHandler
  BY DEF Dies, Committed
<1>2. LogOK'
  BY <1>1 DEF IInv, LogOK
<1>3. /\ HandlersOK' /\ ConnOK'
      /\ \A h \in Handlers : handler'[h].pc = "idle" /\ ~Wrote(h)'
  BY <1>1, AllIdle
<1>4. ProcessOK'
  BY <1>1, <1>3 DEF ProcessOK
<1>5. AckedOK'
  BY <1>1, <1>3 DEF IInv, AckedOK
<1> QED
  BY <1>2, <1>3, <1>4, <1>5 DEF IInv

LEMMA PowerFailureStep ==
  ASSUME IInv, PowerFailure
  PROVE  IInv'
<1>1. PICK n \in synced .. Len(log) :
        log' = SubSeq(log, 1, n) /\ lost' = (lost \/ n < Len(log))
  BY DEF PowerFailure
<1>2. /\ synced' = synced /\ process' = "down" /\ acked' = acked
      /\ handler' = [h \in Handlers |-> Idle] /\ conn' = NoHandler
  BY DEF PowerFailure, Dies
<1>3. LogOK'
  BY <1>1, <1>2, CutLog DEF IInv
<1>4. /\ HandlersOK' /\ ConnOK'
      /\ \A h \in Handlers : handler'[h].pc = "idle" /\ ~Wrote(h)'
  BY <1>2, AllIdle
<1>5. ProcessOK'
  BY <1>2, <1>4 DEF ProcessOK
<1>6. AckedOK'
  <2>1. CASE lost'
    BY <2>1 DEF AckedOK
  <2>2. CASE ~lost'
    <3>1. Len(log) \in Nat /\ synced \in 1 .. Len(log)
      BY CommittedIsDatabase DEF IInv, LogOK
    <3>2. ~lost /\ n = Len(log)
      <4>1. ~lost /\ ~(n < Len(log))
        BY <1>1, <2>2
      <4> QED
        BY <3>1, <4>1
    <3>3. log' = log
      BY <1>1, <3>2, SubSeqFull DEF IInv, LogOK
    <3>4. Committed' = Committed
      BY <3>3 DEF Committed
    <3> QED
      BY <1>2, <1>4, <3>2, <3>4 DEF IInv, AckedOK
  <2> QED
    BY <2>1, <2>2
<1> QED
  BY <1>3, <1>4, <1>5, <1>6 DEF IInv

\* The process moves and the handlers and the log do not.
LEMMA ProcessStep ==
  ASSUME IInv, UNCHANGED <<log, conn, handler, lost, acked>>,
         synced' \in synced .. Len(log), process' \in {"up", "draining", "down"},
         process' = "down" => process = "down" \/ \A h \in Handlers : handler[h].pc = "idle",
         process = "down" => process' = "down"
  PROVE  IInv'
<1>1. Committed' = Committed
  BY DEF Committed
<1>2. LogOK'
  <2>1. Len(log) \in Nat
    BY LenProperties DEF IInv, LogOK
  <2> QED
    BY <2>1 DEF IInv, LogOK
<1>3. HandlersOK' /\ ConnOK'
  BY <1>1 DEF IInv, HandlersOK, ConnOK
<1>4. ProcessOK'
  BY <1>1 DEF IInv, ProcessOK
<1>5. AckedOK'
  BY <1>1 DEF IInv, AckedOK, Wrote
<1> QED
  BY <1>2, <1>3, <1>4, <1>5 DEF IInv

LEMMA StartStep ==
  ASSUME IInv, Start
  PROVE  IInv'
<1>1. /\ process = "down" /\ process' = "up" /\ synced' = synced
      /\ conn' = conn /\ handler' = handler /\ lost' = lost /\ acked' = acked
      /\ log' = IF Opened(Committed) = Committed THEN log ELSE Append(log, Opened(Committed))
  BY DEF Start
<1>2. \A h \in Handlers : handler[h].pc = "idle"
  BY <1>1 DEF IInv, ProcessOK
<1>3. /\ IsDatabase(Opened(Committed)) /\ Dense(Opened(Committed))
      /\ Opened(Committed).next > 0
      /\ Committed.next > 0 => Opened(Committed) = Committed
      /\ Committed.next \in Nat
  BY CommittedIsDatabase, OpenedIsDense DEF IInv, IsDatabase
<1>4. LogOK' /\ Committed' = Opened(Committed)
  <2>1. CASE Opened(Committed) = Committed
    BY <1>1, <2>1 DEF IInv, LogOK, Committed
  <2>2. CASE Opened(Committed) # Committed
    BY <1>1, <1>3, <2>2, GrownLog DEF IInv
  <2> QED
    BY <2>1, <2>2
<1>5. HandlersOK'
  BY <1>1, <1>2, RestServes DEF IInv, HandlersOK
<1>6. ConnOK'
  BY <1>1 DEF IInv, ConnOK
<1>7. ProcessOK'
  BY <1>1, <1>3, <1>4 DEF ProcessOK
<1>8. AckedOK'
  <2>1. 1 .. Committed.next - 1 \subseteq 1 .. Committed'.next - 1
    BY <1>3, <1>4
  <2> QED
    BY <1>1, <1>2, <2>1 DEF IInv, AckedOK, Wrote
<1> QED
  BY <1>4, <1>5, <1>6, <1>7, <1>8 DEF IInv

LEMMA NextInvariant == IInv /\ [Next]_vars => IInv'
<1> SUFFICES ASSUME IInv, [Next]_vars
             PROVE  IInv'
  OBVIOUS
<1>1. ASSUME NEW h \in Handlers, NEW req \in Requests, Receive(h, req)
      PROVE  IInv'
  BY <1>1, ReceiveStep
<1>2. ASSUME NEW h \in Handlers,
             \/ Begin(h) \/ Refuse(h) \/ Decide(h) \/ Read(h) \/ StampRow(h)
             \/ InsertRow(h) \/ UpdateLoan(h) \/ Commit(h) \/ Reply(h) \/ Fail(h)
             \/ HangUp(h)
      PROVE  IInv'
  BY <1>2, BeginStep, RefuseStep, DecideStep, ReadStep, StampRowStep, InsertRowStep,
     UpdateLoanStep, CommitStep, ReplyStep, FailStep, HangUpStep
<1>3. synced \in 1 .. Len(log) /\ Len(log) \in Nat
  BY LenProperties DEF IInv, LogOK
<1>4. CASE Checkpoint
  BY <1>3, <1>4, ProcessStep DEF Checkpoint, IInv, ProcessOK
<1>5. CASE Crash
  BY <1>5, DeathStep DEF Crash
<1>6. CASE PowerFailure
  BY <1>6, PowerFailureStep
<1>7. CASE Stop
  BY <1>3, <1>7, ProcessStep DEF Stop
<1>8. CASE Exit
  BY <1>3, <1>8, ProcessStep DEF Exit
<1>9. CASE Expire
  BY <1>9, DeathStep DEF Expire
<1>10. CASE Start
  BY <1>10, StartStep
<1>11. CASE UNCHANGED vars
  <2>1. Committed' = Committed
    BY <1>11 DEF vars, Committed
  <2> QED
    BY <1>3, <1>11, <2>1, ProcessStep DEF vars, IInv, ProcessOK
<1> QED
  BY <1>1, <1>2, <1>4, <1>5, <1>6, <1>7, <1>8, <1>9, <1>10, <1>11 DEF Next

-----------------------------------------------------------------------------
(***************************************************************************)
(* What holds of every behaviour                                           *)
(***************************************************************************)

\* Every state of the service satisfies the inductive invariant.
THEOREM InvariantHolds == Spec => []IInv
<1> QED
  BY InitInvariant, NextInvariant, PTL DEF Spec

\* The state of the service has its type: no request, fault or restart makes a
\* handler write to a table that does not exist or answer with another status.
THEOREM ServiceTypeCorrect == Spec => []TypeOK
<1>1. IInv => TypeOK
  <2> SUFFICES ASSUME IInv
               PROVE  TypeOK
    OBVIOUS
  <2> QED
    BY DEF IInv, LogOK, HandlersOK, ConnOK, ProcessOK, Sound, Codes, TypeOK
<1> QED
  BY <1>1, InvariantHolds, PTL

\* NextSeq and the rows it stamps stay in step in every committed state, through
\* rollbacks, failed statements, crashes, restarts and power failures.
THEOREM StampsAlwaysDense == Spec => []StampsAreDense
<1>1. IInv => StampsAreDense
  BY DEF IInv, LogOK, StampsAreDense
<1> QED
  BY <1>1, InvariantHolds, PTL

\* A committed row that a client was told of is in every later state, unless a
\* power failure took commits away.
THEOREM AnswersAlwaysStored == Spec => []AnswersAreStored
<1>1. IInv => AnswersAreStored
  <2> SUFFICES ASSUME IInv, ~lost, NEW s \in acked
               PROVE  \E t \in Tables : \E i \in 1 .. Len(Committed[t]) :
                        Committed[t][i].stamp = s
    BY DEF AnswersAreStored
  <2>1. s \in 1 .. Committed.next - 1
    BY DEF IInv, AckedOK
  <2>2. Dense(Committed)
    BY CommittedIsDatabase DEF IInv
  <2> QED
    BY <2>1, <2>2 DEF Dense
<1> QED
  BY <1>1, InvariantHolds, PTL

\* A commit is a request served on the latest committed state.
LEMMA CommitServes ==
  ASSUME IInv, NEW h \in Handlers, Commit(h)
  PROVE  [Evolve]_portfolioVars
<1>1. "committing" \in InTransaction /\ Runs(h, "committing")
  BY DEF Commit, InTransaction
<1>2. /\ Serving(handler[h], Committed) /\ handler[h].pc = "committing"
      /\ handler[h].gone = FALSE /\ Committed.next > 0
  BY <1>1, AtStatement
<1>3. /\ handler[h].req \in Requests /\ ~Malformed(handler[h].req)
      /\ Refusal(Committed, handler[h].req) = Accepted
  BY <1>1, <1>2 DEF Serving
<1>4. Opened(Committed) = Committed
  BY <1>2, CommittedIsDatabase, OpenedIsDense DEF IInv
<1>5. synced' = synced
  BY DEF Commit, world
<1>6. CASE log' = log
  BY <1>5, <1>6 DEF portfolioVars
<1>7. ASSUME NEW effect \in Effects(Committed, handler[h].req), effect # NoEffect,
             log' = Append(log, Outcome(Committed, effect))
      PROVE  Serve(handler[h].req)
  <2>1. Outcome(Committed, effect) \in Outcomes(Committed, handler[h].req)
    BY <1>3, <1>7 DEF Outcomes
  <2> QED
    BY <1>4, <1>5, <1>7, <2>1 DEF Serve
<1>8. log' = log \/ Serve(handler[h].req)
  BY <1>7, CommitAppends
<1> QED
  BY <1>3, <1>6, <1>8 DEF Evolve

LEMMA StepEvolves ==
  ASSUME IInv, [Next]_vars
  PROVE  [Evolve]_portfolioVars
<1>1. ASSUME NEW h \in Handlers, NEW req \in Requests, Receive(h, req)
      PROVE  UNCHANGED portfolioVars
  BY <1>1 DEF Receive, world, portfolioVars
<1>2. ASSUME NEW h \in Handlers,
             \/ Begin(h) \/ Refuse(h) \/ Decide(h) \/ Read(h) \/ StampRow(h)
             \/ InsertRow(h) \/ UpdateLoan(h) \/ Reply(h) \/ Fail(h) \/ HangUp(h)
      PROVE  UNCHANGED portfolioVars
  BY <1>2 DEF Begin, Refuse, Decide, Read, StampRow, InsertRow, UpdateLoan, Reply,
              Fail, HangUp, world, portfolioVars
<1>3. Len(log) \in Nat /\ synced \in 1 .. Len(log)
  BY LenProperties DEF IInv, LogOK
<1>4. CASE Checkpoint
  BY <1>3, <1>4 DEF Checkpoint, Evolve, Harden
<1>5. CASE Crash \/ Stop \/ Expire
  BY <1>5 DEF Crash, Stop, Expire, portfolioVars
<1>6. CASE PowerFailure
  BY <1>6 DEF PowerFailure, Evolve, Lose
<1>7. CASE Exit
  BY <1>3, <1>7 DEF Exit, Evolve, Harden, portfolioVars
<1>8. CASE Start
  BY <1>8 DEF Start, Evolve, Open, portfolioVars
<1>9. CASE UNCHANGED vars
  BY <1>9 DEF vars, portfolioVars
<1> QED
  BY <1>1, <1>2, <1>4, <1>5, <1>6, <1>7, <1>8, <1>9, CommitServes DEF Next

\* Every behaviour of the service, statement by statement, is a behaviour of
\* module Portfolio: the committed states are requests served one at a time.
THEOREM ServiceServesAtomically == Spec => ServesAtomically
<1>1. Init => FirstFile
  BY DEF Init
<1>2. IInv /\ [Next]_vars => [Evolve]_portfolioVars
  BY StepEvolves
<1> QED
  BY <1>1, <1>2, InvariantHolds, PTL DEF Spec, ServesAtomically

-----------------------------------------------------------------------------
(***************************************************************************)
(* Reads of several queries                                                *)
(***************************************************************************)

LEMMA TupleIsSeq ==
  /\ \A a : \E S : <<a>> \in Seq(S)
  /\ \A a, b : \E S : <<a, b>> \in Seq(S)
  /\ \A a, b, c : \E S : <<a, b, c>> \in Seq(S)
<1>1. ASSUME NEW a PROVE \E S : <<a>> \in Seq(S)
  <2>1. <<a>> \in Seq({a})
    OBVIOUS
  <2> QED
    BY <2>1
<1>2. ASSUME NEW a, NEW b PROVE \E S : <<a, b>> \in Seq(S)
  <2>1. <<a, b>> \in Seq({a, b})
    OBVIOUS
  <2> QED
    BY <2>1
<1>3. ASSUME NEW a, NEW b, NEW c PROVE \E S : <<a, b, c>> \in Seq(S)
  <2>1. <<a, b, c>> \in Seq({a, b, c})
    OBVIOUS
  <2> QED
    BY <2>1
<1> QED
  BY <1>1, <1>2, <1>3

LEMMA ReadingsIsSeq ==
  ASSUME NEW d, IsDatabase(d), NEW req
  PROVE  /\ Readings(d, req) \in Seq(Range(Readings(d, req)))
         /\ Len(Readings(d, req)) \in Nat
<1>1. Len(d.loans) \in Nat
  BY TableLength DEF IsDatabase, Tables
<1> DEFINE rows == Readings(d, req)
<1>2. \E S : rows \in Seq(S)
  <2>1. CASE req.kind = "stats"
    <3> DEFINE S == {LoansByStatus(d), PrincipalOut(d), InterestPaid(d),
                     Len(d.borrowers), Len(d.payments)}
    <3>1. Stats(d) \in Seq(S)
      BY DEF Stats
    <3> QED
      BY <2>1, <3>1 DEF Readings
  <2>2. CASE req.kind = "recompute"
    <3> DEFINE drifts(l) == DriftsOf(LoanRow(d, l), LedgerOf(d, l))
    <3>1. Recompute(d) = [l \in 1 .. Len(d.loans) |-> drifts(l)]
      BY DEF Recompute
    <3> HIDE DEF drifts
    <3> DEFINE S == {drifts(l) : l \in 1 .. Len(d.loans)}
    <3>2. Recompute(d) \in [1 .. Len(d.loans) -> S]
      BY <3>1
    <3> HIDE DEF S
    <3>3. Recompute(d) \in Seq(S)
      BY <1>1, <3>2
    <3> QED
      BY <2>2, <3>3 DEF Readings
  <2>3. CASE req.kind \in {"borrowers", "loans", "payments", "get_borrower", "get_loan"}
    <3>1. PICK a : rows = <<a>>
      BY <2>3 DEF Readings
    <3>2. \E S : <<a>> \in Seq(S)
      BY TupleIsSeq
    <3> QED
      BY <3>1, <3>2
  <2>4. CASE req.kind \in {"borrower_loans", "list_payments", "get_payment"}
    <3>1. PICK a, b : rows = <<a, b>>
      BY <2>4 DEF Readings
    <3>2. \E S : <<a, b>> \in Seq(S)
      BY TupleIsSeq
    <3> QED
      BY <3>1, <3>2
  <2>5. CASE req.kind \notin {"stats", "recompute", "borrowers", "loans", "payments",
                              "get_borrower", "get_loan", "borrower_loans",
                              "list_payments", "get_payment"}
    <3>1. rows \in {BalanceQueries(d, req.loan, req.asOf), LoadQueries(d, req.loan)}
      BY <2>5 DEF Readings
    <3>2. PICK a, b, c : rows = <<a, b, c>>
      <4>1. CASE rows = BalanceQueries(d, req.loan, req.asOf)
        BY <4>1 DEF BalanceQueries
      <4>2. CASE rows = LoadQueries(d, req.loan)
        BY <4>2 DEF LoadQueries
      <4> QED
        BY <3>1, <4>1, <4>2
    <3>3. \E S : <<a, b, c>> \in Seq(S)
      BY TupleIsSeq
    <3> QED
      BY <3>2, <3>3
  <2> QED
    BY <2>1, <2>2, <2>3, <2>4, <2>5
<1> HIDE DEF rows
<1>3. rows \in Seq(Range(rows)) /\ Len(rows) \in Nat
  BY <1>2, SeqOfItsRange, LenProperties
<1> QED
  BY <1>3 DEF rows

\* The first of the rows, in their order.
Copied(part, rows) ==
  /\ part \in Seq(Range(rows))
  /\ Len(part) <= Len(rows)
  /\ \A i \in 1 .. Len(part) : part[i] = rows[i]

LEMMA CopiedAll ==
  ASSUME NEW rows, rows \in Seq(Range(rows)), NEW part, Copied(part, rows),
         Len(part) + 1 > Len(rows)
  PROVE  part = rows
<1>1. Len(part) \in Nat /\ Len(rows) \in Nat
  BY LenProperties DEF Copied
<1>2. Len(part) = Len(rows)
  BY <1>1 DEF Copied
<1> QED
  BY <1>2, SeqEqual DEF Copied

LEMMA CopiedNext ==
  ASSUME NEW rows, rows \in Seq(Range(rows)), NEW part, Copied(part, rows),
         Len(part) + 1 <= Len(rows)
  PROVE  Copied(Append(part, rows[Len(part) + 1]), rows)
<1>1. Len(part) \in Nat /\ Len(rows) \in Nat
  BY LenProperties DEF Copied
<1>2. rows[Len(part) + 1] \in Range(rows)
  BY <1>1, LenProperties DEF Range
<1>3. /\ Append(part, rows[Len(part) + 1]) \in Seq(Range(rows))
      /\ Len(Append(part, rows[Len(part) + 1])) = Len(part) + 1
      /\ \A i \in 1 .. Len(part) :
           Append(part, rows[Len(part) + 1])[i] = part[i]
      /\ Append(part, rows[Len(part) + 1])[Len(part) + 1] = rows[Len(part) + 1]
  BY <1>1, <1>2 DEF Copied
<1> QED
  BY <1>1, <1>3 DEF Copied

\* What a handler has read, the committed states being those of past.
Snapped(r, past) ==
  /\ IsRead(r.req) /\ r.pc # "idle" => r.since \in 1 .. Len(past)
  /\ r.pc \in {"waiting", "deciding"} /\ ~r.gone => r.read = << >>
  /\ r.pc = "reading" /\ ~r.gone
       => r.tx = past[Len(past)] /\ Copied(r.read, Readings(past[Len(past)], r.req))
  /\ r.pc \in {"stamping", "inserting", "updating"} /\ ~r.gone => ~IsRead(r.req)
  /\ r.pc = "committing" /\ ~r.gone /\ IsRead(r.req)
       => r.read = Readings(past[Len(past)], r.req)
  /\ r.pc = "answering" /\ r.code = Accepted /\ IsRead(r.req)
       => \E n \in r.since .. Len(past) : r.read = Readings(past[n], r.req)

SnapshotsOK == \A h \in Handlers : Snapped(handler[h], log)

LEMMA NobodyReads ==
  /\ ~IsRead(NoRequest) /\ Idle.req = NoRequest
  /\ \A r, past : ~IsRead(r.req) /\ r.pc \in {"idle", "answering"} => Snapped(r, past)
  /\ \A r, past : r.pc = "idle" => Snapped(r, past)
<1>1. ~IsRead(NoRequest)
  BY ReadKinds
<1> QED
  BY <1>1 DEF Idle, Snapped

\* A handler moves and nothing is committed.
LEMMA SnapshotMoves ==
  ASSUME IInv, SnapshotsOK, NEW h \in Handlers, UNCHANGED log
  PROVE  \A r : Goes(h, r) /\ Snapped(r, log) => SnapshotsOK'
<1> SUFFICES ASSUME NEW r, Goes(h, r), Snapped(r, log)
             PROVE  SnapshotsOK'
  OBVIOUS
<1>1. /\ DOMAIN handler' = Handlers /\ handler'[h] = r
      /\ \A o \in Handlers \ {h} : handler'[o] = handler[o]
  BY DEF Goes, IInv, HandlersOK
<1> QED
  BY <1>1 DEF SnapshotsOK

\* The end of a transaction that answers to no read.
LEMMA SnapshotAnswers ==
  ASSUME IInv, SnapshotsOK, NEW h \in Handlers, NEW code \in Codes, Answers(h, code),
         UNCHANGED log, code # Accepted \/ ~IsRead(handler[h].req)
  PROVE  SnapshotsOK'
<1> DEFINE seq == IF code = Accepted THEN handler[h].seq ELSE 0
           r == [Idle EXCEPT !.pc = "answering", !.gone = handler[h].gone,
                             !.code = code, !.seq = seq]
<1>1. Goes(h, r)
  BY DEF Answers
<1> HIDE DEF seq
<1>2. r.pc = "answering" /\ r.req = NoRequest
  BY DEF Idle
<1> HIDE DEF r
<1> QED
  BY <1>1, <1>2, NobodyReads, SnapshotMoves

LEMMA SnapshotReceive ==
  ASSUME IInv, SnapshotsOK, NEW h \in Handlers, NEW req \in Requests, Receive(h, req)
  PROVE  SnapshotsOK'
<1> DEFINE r == [Idle EXCEPT !.pc    = IF Malformed(req) THEN "answering" ELSE "waiting",
                             !.code  = IF Malformed(req) THEN 400 ELSE 0,
                             !.req   = req,
                             !.since = IF IsRead(req) THEN Len(log) ELSE 0]
<1>1. /\ r.pc = IF Malformed(req) THEN "answering" ELSE "waiting"
      /\ r.code = IF Malformed(req) THEN 400 ELSE 0
      /\ r.req = req /\ r.read = << >>
      /\ r.since = IF IsRead(req) THEN Len(log) ELSE 0
  BY DEF Idle
<1>2. Goes(h, r) /\ UNCHANGED log
  BY DEF Receive
<1>3. Len(log) \in 1 .. Len(log)
  BY LenProperties DEF IInv, LogOK
<1> HIDE DEF r
<1>4. Snapped(r, log)
  BY <1>1, <1>3 DEF Snapped, Accepted
<1> QED
  BY <1>2, <1>4, SnapshotMoves

\* Begin, Decide and the statements leave what was read as it was.
LEMMA SnapshotStatement ==
  ASSUME IInv, SnapshotsOK, NEW h \in Handlers,
         \/ Begin(h) \/ Decide(h) \/ StampRow(h) \/ InsertRow(h) \/ UpdateLoan(h)
  PROVE  SnapshotsOK'
<1>1. /\ Sound(handler[h]) /\ Serving(handler[h], Committed) /\ Snapped(handler[h], log)
      /\ UNCHANGED log
  BY DEF IInv, HandlersOK, SnapshotsOK, Begin, Decide, StampRow, InsertRow, UpdateLoan
<1>2. CASE Begin(h)
  <2> DEFINE r == [handler[h] EXCEPT !.pc = "deciding", !.tx = Committed]
  <2>1. Goes(h, r) /\ handler[h].pc = "waiting" /\ ~handler[h].gone
    BY <1>2 DEF Begin, Runs
  <2>2. /\ r.pc = "deciding" /\ r.req = handler[h].req /\ r.since = handler[h].since
        /\ r.gone = handler[h].gone /\ r.read = handler[h].read
    BY <1>1 DEF Sound, Fields
  <2> HIDE DEF r
  <2>3. Snapped(r, log)
    BY <1>1, <2>1, <2>2 DEF Snapped
  <2> QED
    BY <1>1, <2>1, <2>3, SnapshotMoves
<1>3. CASE Decide(h)
  <2>1. handler[h].tx = Committed /\ handler[h].pc = "deciding" /\ ~handler[h].gone
    BY <1>1, <1>3 DEF Decide, Runs, Serving
  <2>2. PICK effect \in Effects(Committed, handler[h].req) :
          Goes(h, [handler[h] EXCEPT !.pc     = FirstStatement(handler[h].req, effect),
                                     !.effect = effect])
    BY <1>3, <2>1 DEF Decide
  <2> DEFINE pc == FirstStatement(handler[h].req, effect)
             r == [handler[h] EXCEPT !.pc = pc, !.effect = effect]
  <2>3. /\ r.pc = pc /\ r.req = handler[h].req /\ r.since = handler[h].since
        /\ r.gone = handler[h].gone /\ r.read = handler[h].read
        /\ r.tx = handler[h].tx
    BY <1>1 DEF Sound, Fields
  <2>4. IF IsRead(handler[h].req) THEN pc = "reading" ELSE pc \in {"stamping", "updating"}
    BY DEF FirstStatement
  <2>5. Goes(h, r)
    BY <2>2
  <2>6. \A rows : Copied(<< >>, rows)
    <3> SUFFICES ASSUME NEW rows
                 PROVE  Copied(<< >>, rows)
      OBVIOUS
    <3>1. << >> \in Seq(Range(rows)) /\ Len(<< >>) = 0
      OBVIOUS
    <3> QED
      BY <3>1 DEF Copied
  <2> HIDE DEF pc, r
  <2>7. r.read = << >> /\ r.tx = log[Len(log)]
    BY <1>1, <2>1, <2>3 DEF Snapped, Committed
  <2>8. Snapped(r, log)
    BY <1>1, <2>1, <2>3, <2>4, <2>6, <2>7 DEF Snapped
  <2> QED
    BY <1>1, <2>5, <2>8, SnapshotMoves
<1>4. ASSUME NEW r, Goes(h, r), handler[h].pc \in {"stamping", "inserting", "updating"},
             ~handler[h].gone, r.pc \in {"inserting", "updating", "committing"},
             r.req = handler[h].req, r.since = handler[h].since
      PROVE  SnapshotsOK'
  <2>1. Snapped(r, log)
    BY <1>1, <1>4 DEF Snapped
  <2> QED
    BY <1>1, <1>4, <2>1, SnapshotMoves
<1>5. CASE StampRow(h)
  <2> DEFINE r == [handler[h] EXCEPT !.pc = "inserting", !.tx = Bumped(@),
                                     !.seq = handler[h].tx.next]
  <2>1. handler[h].pc = "stamping" /\ ~handler[h].gone /\ Goes(h, r)
    BY <1>5 DEF StampRow, Runs
  <2>2. r.pc = "inserting" /\ r.req = handler[h].req /\ r.since = handler[h].since
    BY <1>1 DEF Sound, Fields
  <2> HIDE DEF r
  <2> QED
    BY <1>4, <2>1, <2>2
<1>6. CASE InsertRow(h)
  <2> DEFINE pc == IF handler[h].effect.loan # 0 THEN "updating" ELSE "committing"
             r == [handler[h] EXCEPT !.pc = pc,
                                     !.tx = Inserted(@, handler[h].effect, handler[h].seq)]
  <2>1. handler[h].pc = "inserting" /\ ~handler[h].gone /\ Goes(h, r)
    BY <1>6 DEF InsertRow, Runs
  <2>2. r.pc = pc /\ r.req = handler[h].req /\ r.since = handler[h].since
    BY <1>1 DEF Sound, Fields
  <2> HIDE DEF r
  <2> QED
    BY <1>4, <2>1, <2>2
<1>7. CASE UpdateLoan(h)
  <2> DEFINE r == [handler[h] EXCEPT !.pc = "committing",
                                     !.tx = Updated(@, handler[h].effect)]
  <2>1. handler[h].pc = "updating" /\ ~handler[h].gone /\ Goes(h, r)
    BY <1>7 DEF UpdateLoan, Runs
  <2>2. r.pc = "committing" /\ r.req = handler[h].req /\ r.since = handler[h].since
    BY <1>1 DEF Sound, Fields
  <2> HIDE DEF r
  <2> QED
    BY <1>4, <2>1, <2>2
<1> QED
  BY <1>2, <1>3, <1>5, <1>6, <1>7

LEMMA SnapshotRead ==
  ASSUME IInv, SnapshotsOK, NEW h \in Handlers, Read(h)
  PROVE  SnapshotsOK'
<1> DEFINE rows == Readings(handler[h].tx, handler[h].req)
           n    == Len(handler[h].read) + 1
<1>1. /\ handler[h].pc = "reading" /\ ~handler[h].gone /\ UNCHANGED log
      /\ IF n <= Len(rows)
         THEN Goes(h, [handler[h] EXCEPT !.read = Append(handler[h].read, rows[n])])
         ELSE Goes(h, [handler[h] EXCEPT !.pc = "committing"])
  BY DEF Read, Runs
<1>2. Sound(handler[h]) /\ Snapped(handler[h], log)
  BY DEF IInv, HandlersOK, SnapshotsOK
<1>3. handler[h].tx = Committed /\ Copied(handler[h].read, rows)
  BY <1>1, <1>2 DEF Snapped, Committed
<1>4. rows \in Seq(Range(rows)) /\ Len(rows) \in Nat /\ n \in Nat
  <2>1. Len(handler[h].read) \in Nat
    BY <1>3, LenProperties DEF Copied
  <2> QED
    BY <1>3, <2>1, ReadingsIsSeq, CommittedIsDatabase DEF IInv
<1>5. rows = Readings(log[Len(log)], handler[h].req)
  BY <1>3 DEF Committed
<1> HIDE DEF rows
<1>6. CASE n <= Len(rows)
  <2> DEFINE r == [handler[h] EXCEPT !.read = Append(handler[h].read, rows[n])]
  <2>1. /\ r.pc = handler[h].pc /\ r.req = handler[h].req /\ r.since = handler[h].since
        /\ r.gone = handler[h].gone /\ r.tx = handler[h].tx
        /\ r.read = Append(handler[h].read, rows[n])
    BY <1>2 DEF Sound, Fields
  <2>2. Copied(r.read, rows) /\ Goes(h, r)
    BY <1>1, <1>3, <1>4, <1>6, <2>1, CopiedNext
  <2> HIDE DEF r
  <2>3. Snapped(r, log)
    BY <1>1, <1>2, <1>5, <2>1, <2>2 DEF Snapped
  <2> QED
    BY <1>1, <2>2, <2>3, SnapshotMoves
<1>7. CASE ~(n <= Len(rows))
  <2> DEFINE r == [handler[h] EXCEPT !.pc = "committing"]
  <2>1. /\ r.pc = "committing" /\ r.req = handler[h].req /\ r.since = handler[h].since
        /\ r.gone = handler[h].gone /\ r.read = handler[h].read
    BY <1>2 DEF Sound, Fields
  <2>2. r.read = rows /\ Goes(h, r)
    BY <1>1, <1>3, <1>4, <1>7, <2>1, CopiedAll
  <2> HIDE DEF r
  <2>3. Snapped(r, log)
    BY <1>1, <1>2, <1>5, <2>1, <2>2 DEF Snapped
  <2> QED
    BY <1>1, <2>2, <2>3, SnapshotMoves
<1> QED
  BY <1>6, <1>7

LEMMA SnapshotRollback ==
  ASSUME IInv, SnapshotsOK, NEW h \in Handlers, Refuse(h) \/ Fail(h)
  PROVE  SnapshotsOK'
<1>1. CASE Refuse(h)
  BY <1>1, RefusalCodes, SnapshotAnswers DEF Refuse
<1>2. CASE Fail(h)
  BY <1>2, SnapshotAnswers DEF Fail, Codes, Accepted
<1> QED
  BY <1>1, <1>2

LEMMA SnapshotCommit ==
  ASSUME IInv, SnapshotsOK, NEW h \in Handlers, Commit(h)
  PROVE  SnapshotsOK'
<1>1. /\ Sound(handler[h]) /\ Snapped(handler[h], log) /\ Answers(h, Accepted)
      /\ handler[h].pc = "committing" /\ ~handler[h].gone /\ Accepted \in Codes
  BY DEF IInv, HandlersOK, SnapshotsOK, Commit, Runs, Codes, Accepted
<1>2. Len(log) \in Nat /\ Len(log) > 0
  BY LenProperties DEF IInv, LogOK
<1>3. CASE IsRead(handler[h].req)
  <2>1. log' = log
    BY <1>3, CommitAppends, ReadsWriteNothing
  <2> DEFINE r == [handler[h] EXCEPT !.pc = "answering", !.tx = NewFile, !.code = Accepted]
  <2>2. /\ r.pc = "answering" /\ r.req = handler[h].req /\ r.since = handler[h].since
        /\ r.gone = handler[h].gone /\ r.read = handler[h].read /\ r.code = Accepted
    BY <1>1 DEF Sound, Fields
  <2>3. Goes(h, r)
    BY <1>1, <1>3 DEF Answers
  <2> HIDE DEF r
  <2>4. /\ r.since \in 1 .. Len(log) /\ Len(log) \in r.since .. Len(log)
        /\ r.read = Readings(log[Len(log)], r.req)
    BY <1>1, <1>2, <1>3, <2>2 DEF Snapped
  <2>5. Snapped(r, log)
    BY <2>2, <2>4 DEF Snapped
  <2> QED
    BY <2>1, <2>3, <2>5, SnapshotMoves
<1>4. CASE ~IsRead(handler[h].req)
  <2> DEFINE r == [Idle EXCEPT !.pc = "answering", !.gone = handler[h].gone,
                               !.code = Accepted, !.seq = handler[h].seq]
  <2>1. Goes(h, r)
    BY <1>1, <1>4 DEF Answers
  <2>2. r.pc = "answering" /\ r.req = NoRequest
    BY DEF Idle
  <2> HIDE DEF r
  <2>3. /\ DOMAIN handler' = Handlers /\ handler'[h] = r
        /\ \A o \in Handlers \ {h} : handler'[o] = handler[o]
    BY <2>1 DEF Goes, IInv, HandlersOK
  <2>4. log' = log \/ \E d : log' = Append(log, d)
    BY CommitAppends
  <2>5. /\ Len(log') \in Nat /\ Len(log') >= Len(log)
        /\ \A n \in 1 .. Len(log) : log'[n] = log[n]
    <3>1. ASSUME NEW d, log' = Append(log, d)
          PROVE  /\ Len(log') = Len(log) + 1
                 /\ \A n \in 1 .. Len(log) : log'[n] = log[n]
      <4> DEFINE S == Range(log) \cup {d}
      <4>1. log \in Seq(S)
        BY SeqMonotonic DEF IInv, LogOK
      <4> QED
        BY <3>1, <4>1
    <3> QED
      BY <1>2, <2>4, <3>1
  <2>6. ASSUME NEW o \in Handlers \ {h}
        PROVE  Snapped(handler[o], log)'
    <3>1. handler[o].pc \notin InTransaction /\ Snapped(handler[o], log)
          /\ Sound(handler[o])
      BY <1>1, HandlerAssumption DEF IInv, ConnOK, SnapshotsOK, InTransaction, HandlersOK
    <3>2. ASSUME IsRead(handler[o].req), handler[o].pc # "idle"
          PROVE  handler[o].since \in 1 .. Len(log')
      BY <1>2, <2>5, <3>1, <3>2 DEF Snapped
    <3>3. ASSUME IsRead(handler[o].req), handler[o].pc = "answering",
                 handler[o].code = Accepted
          PROVE  \E n \in handler[o].since .. Len(log') :
                   handler[o].read = Readings(log[n], handler[o].req)'
      <4>1. PICK n \in handler[o].since .. Len(log) :
              handler[o].read = Readings(log[n], handler[o].req)
        BY <3>1, <3>3 DEF Snapped
      <4>2. handler[o].since \in 1 .. Len(log)
        BY <3>1, <3>3 DEF Snapped
      <4>3. n \in 1 .. Len(log) /\ n \in handler[o].since .. Len(log')
        BY <1>2, <2>5, <4>1, <4>2
      <4> QED
        BY <2>3, <2>5, <4>1, <4>3
    <3> QED
      BY <2>3, <3>1, <3>2, <3>3 DEF Snapped, InTransaction
  <2>7. Snapped(handler[h], log)'
    BY <2>2, <2>3, NobodyReads
  <2> QED
    BY <2>6, <2>7 DEF SnapshotsOK
<1> QED
  BY <1>3, <1>4

LEMMA SnapshotRest ==
  ASSUME IInv, SnapshotsOK, NEW h \in Handlers, HangUp(h) \/ Reply(h)
  PROVE  SnapshotsOK'
<1>1. /\ Sound(handler[h]) /\ Snapped(handler[h], log) /\ UNCHANGED log
  BY DEF IInv, HandlersOK, SnapshotsOK, HangUp, Reply
<1>2. CASE Reply(h)
  <2>1. Goes(h, Idle) /\ Snapped(Idle, log)
    BY <1>2, NobodyReads, IdleSound DEF Reply
  <2> QED
    BY <1>1, <2>1, SnapshotMoves
<1>3. CASE HangUp(h) /\ handler[h].pc = "answering"
  <2> DEFINE r == [handler[h] EXCEPT !.gone = TRUE]
  <2>1. /\ r.pc = "answering" /\ r.req = handler[h].req /\ r.since = handler[h].since
        /\ r.read = handler[h].read /\ r.code = handler[h].code
    BY <1>1, <1>3 DEF Sound, Fields
  <2>2. Goes(h, r)
    BY <1>3 DEF HangUp
  <2> HIDE DEF r
  <2>3. Snapped(r, log)
    BY <1>1, <1>3, <2>1 DEF Snapped
  <2> QED
    BY <1>1, <2>2, <2>3, SnapshotMoves
<1>4. CASE HangUp(h) /\ handler[h].pc # "answering"
  <2> DEFINE r == [Idle EXCEPT !.pc = handler[h].pc, !.gone = TRUE]
  <2>1. r.req = NoRequest /\ r.gone = TRUE
    BY DEF Idle
  <2>2. Goes(h, r)
    BY <1>4 DEF HangUp
  <2> HIDE DEF r
  <2>3. Snapped(r, log)
    BY <2>1, NobodyReads DEF Snapped
  <2> QED
    BY <1>1, <2>2, <2>3, SnapshotMoves
<1> QED
  BY <1>2, <1>3, <1>4

LEMMA NextSnapshots == IInv /\ SnapshotsOK /\ [Next]_vars => SnapshotsOK'
<1> SUFFICES ASSUME IInv, SnapshotsOK, [Next]_vars
             PROVE  SnapshotsOK'
  OBVIOUS
<1>1. ASSUME NEW h \in Handlers, NEW req \in Requests, Receive(h, req)
      PROVE  SnapshotsOK'
  BY <1>1, SnapshotReceive
<1>2. ASSUME NEW h \in Handlers,
             \/ Begin(h) \/ Decide(h) \/ StampRow(h) \/ InsertRow(h) \/ UpdateLoan(h)
      PROVE  SnapshotsOK'
  BY <1>2, SnapshotStatement
<1>3. ASSUME NEW h \in Handlers,
             \/ Refuse(h) \/ Read(h) \/ Commit(h) \/ Fail(h) \/ Reply(h) \/ HangUp(h)
      PROVE  SnapshotsOK'
  BY <1>3, SnapshotRollback, SnapshotRead, SnapshotCommit, SnapshotRest
<1>4. CASE UNCHANGED <<log, handler>>
  BY <1>4 DEF SnapshotsOK
<1>5. ASSUME \A h \in Handlers : handler'[h].pc = "idle"
      PROVE  SnapshotsOK'
  <2> SUFFICES ASSUME NEW h \in Handlers
               PROVE  Snapped(handler[h], log)'
    BY DEF SnapshotsOK
  <2> QED
    BY <1>5, NobodyReads
<1>6. CASE Crash \/ PowerFailure \/ Expire
  <2>1. \A h \in Handlers : handler'[h].pc = "idle"
    BY <1>6, IdleSound DEF Crash, PowerFailure, Expire, Dies
  <2> QED
    BY <1>5, <2>1
<1>7. CASE Start
  <2>1. \A h \in Handlers : handler'[h].pc = "idle"
    BY <1>7 DEF Start, IInv, ProcessOK
  <2> QED
    BY <1>5, <2>1
<1>8. CASE Checkpoint \/ Stop \/ Exit
  BY <1>4, <1>8 DEF Checkpoint, Stop, Exit
<1>9. CASE UNCHANGED vars
  BY <1>4, <1>9 DEF vars
<1> QED
  BY <1>1, <1>2, <1>3, <1>6, <1>7, <1>8, <1>9 DEF Next

\* What Stats and Recompute answer is one committed state, no older than the
\* request: immediate transactions on one connection isolate their queries.
THEOREM ReadsAlwaysSnapshots == Spec => []ReadsAreSnapshots
<1>1. Init => SnapshotsOK
  BY IdleSound, NobodyReads DEF Init, SnapshotsOK
<1>2. SnapshotsOK => ReadsAreSnapshots
  BY DEF SnapshotsOK, Snapped, ReadsAreSnapshots
<1> QED
  BY <1>1, <1>2, NextSnapshots, InvariantHolds, PTL DEF Spec

-----------------------------------------------------------------------------
(***************************************************************************)
(* Rows and answers                                                        *)
(***************************************************************************)

LEMMA RowsIsNat ==
  ASSUME NEW d, IsDatabase(d)
  PROVE  Rows(d) \in Nat
<1>1. IsTable(d.borrowers) /\ IsTable(d.loans) /\ IsTable(d.payments)
  BY DEF IsDatabase, Tables
<1>2. Len(d.borrowers) \in Nat /\ Len(d.loans) \in Nat /\ Len(d.payments) \in Nat
  BY <1>1, TableLength
<1> DEFINE b == Len(d.borrowers)
           l == Len(d.loans)
           p == Len(d.payments)
<1>3. Rows(d) = b + l + p
  BY DEF Rows
<1> HIDE DEF b, l, p
<1>4. b \in Nat /\ l \in Nat /\ p \in Nat
  BY <1>2 DEF b, l, p
<1> QED
  BY <1>3, <1>4

LEMMA RowsBySameStamps ==
  ASSUME NEW d, NEW e, SameStamps(d, e)
  PROVE  Rows(e) = Rows(d)
  BY DEF SameStamps, Rows, Tables

LEMMA RowsOfOutcome ==
  ASSUME NEW d, IsDatabase(d), NEW effect, effect.table \in Tables \cup {"none"}
  PROVE  Rows(Outcome(d, effect)) = Rows(d) + IF effect.table = "none" THEN 0 ELSE 1
<1>1. CASE effect.table = "none"
  <2>1. Outcome(d, effect) = Updated(d, effect)
    BY <1>1 DEF Outcome
  <2> QED
    BY <1>1, <2>1, UpdatedKeepsStamps, RowsBySameStamps, RowsIsNat
<1>2. CASE effect.table \in Tables
  <2> DEFINE e == Inserted(Bumped(d), effect, d.next)
             r == [row |-> effect.row, owner |-> effect.owner, stamp |-> d.next]
  <2>1. /\ IsDatabase(e)
        /\ e[effect.table] = Append(d[effect.table], r)
        /\ \A t \in Tables \ {effect.table} : e[t] = d[t]
    BY <1>2, InsertedTables
  <2>2. "none" \notin Tables
    BY DEF Tables
  <2>3. Outcome(d, effect) = Updated(e, effect)
    BY <1>2, <2>2 DEF Outcome
  <2> HIDE DEF e, r
  <2>4. \A t \in Tables : Len(d[t]) \in Nat /\ d[t] \in Seq(Range(d[t]))
    BY TableLength DEF IsDatabase, IsTable
  <2>5. Len(e[effect.table]) = Len(d[effect.table]) + 1
    <3> DEFINE S == Range(d[effect.table]) \cup {r}
    <3>1. d[effect.table] \in Seq(S)
      BY <1>2, <2>4, SeqMonotonic
    <3> QED
      BY <2>1, <3>1
  <2>6. Rows(e) = Rows(d) + 1
    <3>1. /\ Len(d["borrowers"]) \in Nat /\ Len(d["loans"]) \in Nat
          /\ Len(d["payments"]) \in Nat
      BY <2>4 DEF Tables
    <3> DEFINE b(x) == Len(x.borrowers)
               l(x) == Len(x.loans)
               p(x) == Len(x.payments)
    <3>2. b(d) \in Nat /\ l(d) \in Nat /\ p(d) \in Nat
      BY <3>1
    <3>3. \/ b(e) = b(d) + 1 /\ l(e) = l(d) /\ p(e) = p(d)
          \/ b(e) = b(d) /\ l(e) = l(d) + 1 /\ p(e) = p(d)
          \/ b(e) = b(d) /\ l(e) = l(d) /\ p(e) = p(d) + 1
      <4>1. CASE effect.table = "borrowers"
        BY <2>1, <2>5, <4>1 DEF Tables
      <4>2. CASE effect.table = "loans"
        BY <2>1, <2>5, <4>2 DEF Tables
      <4>3. CASE effect.table = "payments"
        BY <2>1, <2>5, <4>3 DEF Tables
      <4> QED
        BY <1>2, <4>1, <4>2, <4>3 DEF Tables
    <3>4. Rows(d) = b(d) + l(d) + p(d) /\ Rows(e) = b(e) + l(e) + p(e)
      BY DEF Rows
    <3> HIDE DEF b, l, p
    <3> QED
      BY <3>2, <3>3, <3>4
  <2>7. Rows(Updated(e, effect)) = Rows(e)
    BY <2>1, UpdatedKeepsStamps, RowsBySameStamps
  <2> QED
    BY <1>2, <2>2, <2>3, <2>6, <2>7
<1> QED
  BY <1>1, <1>2

LEMMA RowsOfOpened ==
  ASSUME NEW d, IsDatabase(d)
  PROVE  Rows(Opened(d)) = Rows(d)
  BY DEF Opened, Rows, IsDatabase, Tables

\* The handlers about to answer for a row.
Writers == {h \in Handlers : Wrote(h)}

\* Besides what RowsAreAccountedFor says: no two answers are about the same row.
RowsOK ==
  /\ IsFiniteSet(acked) /\ unsure \in Nat
  /\ ~lost => /\ \A h \in Handlers : Wrote(h) => handler[h].seq \notin acked
              /\ \A h, o \in Handlers :
                   Wrote(h) /\ Wrote(o) /\ handler[h].seq = handler[o].seq => h = o
              /\ Rows(Committed) = Rows(log[1]) + Cardinality(acked) + unsure
                                     + Cardinality(Writers)

LEMMA WritersAreFinite ==
  IsFiniteSet(Writers) /\ Cardinality(Writers) \in Nat
<1>1. Writers \subseteq Handlers
  BY DEF Writers
<1> QED
  BY <1>1, HandlerAssumption, FS_Subset, FS_CardinalityType

\* Nothing about rows and answers changes.
LEMMA RowsStay ==
  ASSUME RowsOK, UNCHANGED <<log, lost, acked, unsure>>,
         \A h \in Handlers : /\ Wrote(h)' <=> Wrote(h)
                             /\ Wrote(h) => handler'[h].seq = handler[h].seq
  PROVE  RowsOK'
<1>1. Writers' = Writers /\ Committed' = Committed
  BY DEF Writers, Committed
<1> QED
  BY <1>1 DEF RowsOK

LEMMA RowsStayBy ==
  ASSUME IInv, RowsOK, UNCHANGED <<log, lost, acked, unsure>>, NEW h \in Handlers
  PROVE  \A r : /\ Goes(h, r)
                /\ r.pc = "answering" /\ r.seq # 0 <=> Wrote(h)
                /\ Wrote(h) => r.seq = handler[h].seq
                => RowsOK'
<1> SUFFICES ASSUME NEW r, Goes(h, r), r.pc = "answering" /\ r.seq # 0 <=> Wrote(h),
                    Wrote(h) => r.seq = handler[h].seq
             PROVE  RowsOK'
  OBVIOUS
<1>1. /\ DOMAIN handler' = Handlers /\ handler'[h] = r
      /\ \A o \in Handlers \ {h} : handler'[o] = handler[o]
  BY DEF Goes, IInv, HandlersOK
<1>2. \A o \in Handlers : /\ Wrote(o)' <=> Wrote(o)
                          /\ Wrote(o) => handler'[o].seq = handler[o].seq
  BY <1>1 DEF Wrote
<1> QED
  BY <1>2, RowsStay

LEMMA RowsReceive ==
  ASSUME IInv, RowsOK, NEW h \in Handlers, NEW req \in Requests, Receive(h, req)
  PROVE  RowsOK'
<1> DEFINE r == [Idle EXCEPT !.pc    = IF Malformed(req) THEN "answering" ELSE "waiting",
                             !.code  = IF Malformed(req) THEN 400 ELSE 0,
                             !.req   = req,
                             !.since = IF IsRead(req) THEN Len(log) ELSE 0]
<1>1. r.seq = 0
  BY DEF Idle
<1>2. /\ Goes(h, r) /\ ~Wrote(h) /\ UNCHANGED <<log, lost, acked, unsure>>
  BY DEF Receive, world, Wrote
<1> HIDE DEF r
<1> QED
  BY <1>1, <1>2, RowsStayBy

\* The statements of a transaction, and the ends of one that commits nothing.
LEMMA RowsTransaction ==
  ASSUME IInv, RowsOK, NEW h \in Handlers,
         \/ Begin(h) \/ Decide(h) \/ Read(h) \/ StampRow(h) \/ InsertRow(h)
         \/ UpdateLoan(h) \/ Refuse(h) \/ Fail(h)
  PROVE  RowsOK'
<1>1. Sound(handler[h]) /\ UNCHANGED <<log, lost, acked, unsure>>
  BY DEF IInv, HandlersOK, Begin, Decide, Read, StampRow, InsertRow, UpdateLoan,
         Refuse, Fail, world
<1>2. ~Wrote(h)
  BY DEF Begin, Decide, Read, StampRow, InsertRow, UpdateLoan, Refuse, Fail, Runs,
         Wrote, InTransaction
<1>3. ASSUME NEW r, Goes(h, r), r.pc # "answering"
      PROVE  RowsOK'
  BY <1>1, <1>2, <1>3, RowsStayBy
<1>4. CASE Begin(h)
  <2> DEFINE r == [handler[h] EXCEPT !.pc = "deciding", !.tx = Committed]
  <2>1. Goes(h, r) /\ r.pc = "deciding"
    BY <1>1, <1>4 DEF Begin, Sound, Fields
  <2> HIDE DEF r
  <2> QED
    BY <1>3, <2>1
<1>5. CASE Decide(h)
  <2>1. PICK effect :
          Goes(h, [handler[h] EXCEPT !.pc     = FirstStatement(handler[h].req, effect),
                                     !.effect = effect])
    BY <1>5 DEF Decide
  <2> DEFINE r == [handler[h] EXCEPT !.pc     = FirstStatement(handler[h].req, effect),
                                     !.effect = effect]
  <2>2. Goes(h, r)
    BY <2>1
  <2>3. r.pc = FirstStatement(handler[h].req, effect)
    BY <1>1 DEF Sound, Fields
  <2>4. FirstStatement(handler[h].req, effect) # "answering"
    BY DEF FirstStatement
  <2> HIDE DEF r
  <2> QED
    BY <1>3, <2>2, <2>3, <2>4
<1>6. CASE Read(h)
  <2>1. handler[h].pc = "reading"
    BY <1>6 DEF Read, Runs
  <2>2. PICK v : \/ Goes(h, [handler[h] EXCEPT !.read = v])
                 \/ Goes(h, [handler[h] EXCEPT !.pc = "committing"])
    <3> DEFINE rows == Readings(handler[h].tx, handler[h].req)
               n    == Len(handler[h].read) + 1
    <3>1. \/ Goes(h, [handler[h] EXCEPT !.read = Append(handler[h].read, rows[n])])
          \/ Goes(h, [handler[h] EXCEPT !.pc = "committing"])
      BY <1>6 DEF Read
    <3> HIDE DEF rows, n
    <3> QED
      BY <3>1
  <2>3. /\ [handler[h] EXCEPT !.read = v].pc = "reading"
        /\ [handler[h] EXCEPT !.pc = "committing"].pc = "committing"
    BY <1>1, <2>1 DEF Sound, Fields
  <2>4. CASE Goes(h, [handler[h] EXCEPT !.read = v])
    <3> DEFINE r == [handler[h] EXCEPT !.read = v]
    <3>1. Goes(h, r) /\ r.pc # "answering"
      BY <2>3, <2>4
    <3> HIDE DEF r
    <3> QED
      BY <1>3, <3>1
  <2>5. CASE Goes(h, [handler[h] EXCEPT !.pc = "committing"])
    <3> DEFINE r == [handler[h] EXCEPT !.pc = "committing"]
    <3>1. Goes(h, r) /\ r.pc # "answering"
      BY <2>3, <2>5
    <3> HIDE DEF r
    <3> QED
      BY <1>3, <3>1
  <2> QED
    BY <2>2, <2>4, <2>5
<1>7. CASE StampRow(h)
  <2> DEFINE r == [handler[h] EXCEPT !.pc = "inserting", !.tx = Bumped(@),
                                     !.seq = handler[h].tx.next]
  <2>1. Goes(h, r) /\ r.pc = "inserting"
    BY <1>1, <1>7 DEF StampRow, Sound, Fields
  <2> HIDE DEF r
  <2> QED
    BY <1>3, <2>1
<1>8. CASE InsertRow(h)
  <2> DEFINE pc == IF handler[h].effect.loan # 0 THEN "updating" ELSE "committing"
             r == [handler[h] EXCEPT !.pc = pc,
                                     !.tx = Inserted(@, handler[h].effect, handler[h].seq)]
  <2>1. Goes(h, r) /\ r.pc = pc
    BY <1>1, <1>8 DEF InsertRow, Sound, Fields
  <2>2. pc # "answering"
    OBVIOUS
  <2> HIDE DEF r, pc
  <2> QED
    BY <1>3, <2>1, <2>2
<1>9. CASE UpdateLoan(h)
  <2> DEFINE r == [handler[h] EXCEPT !.pc = "committing",
                                     !.tx = Updated(@, handler[h].effect)]
  <2>1. Goes(h, r) /\ r.pc = "committing"
    BY <1>1, <1>9 DEF UpdateLoan, Sound, Fields
  <2> HIDE DEF r
  <2> QED
    BY <1>3, <2>1
<1>10. ASSUME NEW code \in Codes \ {Accepted}, Answers(h, code)
       PROVE  RowsOK'
  <2>1. PICK r : Goes(h, r) /\ r.seq = 0
    BY <1>10, AnswerMoves
  <2> QED
    BY <1>1, <1>2, <2>1, RowsStayBy
<1>11. CASE Refuse(h)
  <2> DEFINE code == Refusal(handler[h].tx, handler[h].req)
  <2>1. code \in Codes \ {Accepted} /\ Answers(h, code)
    BY <1>11, RefusalCodes DEF Refuse
  <2> HIDE DEF code
  <2> QED
    BY <1>10, <2>1
<1>12. CASE Fail(h)
  BY <1>10, <1>12 DEF Fail, Codes, Accepted
<1> QED
  BY <1>4, <1>5, <1>6, <1>7, <1>8, <1>9, <1>11, <1>12

LEMMA GrownLogKeepsFirst ==
  ASSUME LogOK
  PROVE  \A d : log' = Append(log, d) => log'[1] = log[1]
<1> SUFFICES ASSUME NEW d, log' = Append(log, d)
             PROVE  log'[1] = log[1]
  OBVIOUS
<1> DEFINE S == Range(log) \cup {d}
<1>1. log \in Seq(S) /\ Len(log) \in Nat /\ Len(log) > 0
  BY SeqMonotonic, LenProperties DEF LogOK
<1> QED
  BY <1>1

\* A handler starts or ends being about to answer for a row.
LEMMA WritersChange ==
  ASSUME IInv, NEW h \in Handlers
  PROVE  \A r : Goes(h, r) =>
           /\ r.pc = "answering" /\ r.seq # 0 => Writers' = Writers \cup {h}
           /\ ~(r.pc = "answering" /\ r.seq # 0) => Writers' = Writers \ {h}
           /\ handler'[h] = r
           /\ \A o \in Handlers \ {h} : (Wrote(o)' <=> Wrote(o)) /\ handler'[o] = handler[o]
<1> SUFFICES ASSUME NEW r, Goes(h, r)
             PROVE  /\ r.pc = "answering" /\ r.seq # 0 => Writers' = Writers \cup {h}
                    /\ ~(r.pc = "answering" /\ r.seq # 0) => Writers' = Writers \ {h}
                    /\ handler'[h] = r
                    /\ \A o \in Handlers \ {h} :
                         (Wrote(o)' <=> Wrote(o)) /\ handler'[o] = handler[o]
  OBVIOUS
<1>1. /\ DOMAIN handler' = Handlers /\ handler'[h] = r
      /\ \A o \in Handlers \ {h} : handler'[o] = handler[o]
  BY DEF Goes, IInv, HandlersOK
<1>2. Wrote(h)' <=> r.pc = "answering" /\ r.seq # 0
  BY <1>1 DEF Wrote
<1>3. \A o \in Handlers \ {h} : Wrote(o)' <=> Wrote(o)
  BY <1>1 DEF Wrote
<1> QED
  BY <1>1, <1>2, <1>3 DEF Writers

LEMMA RowsCommit ==
  ASSUME IInv, RowsOK, NEW h \in Handlers, Commit(h)
  PROVE  RowsOK'
<1>1. /\ Answers(h, Accepted) /\ handler[h].pc = "committing" /\ Accepted \in Codes
      /\ lost' = lost /\ acked' = acked /\ unsure' = unsure
  BY DEF Commit, Runs, world, Accepted, Codes
<1>2. ~Wrote(h)
  BY <1>1 DEF Wrote
<1>3. PICK r : Goes(h, r) /\ Sound(r) /\ r.pc = "answering" /\ r.seq = handler[h].seq
  BY <1>1, AnswerMoves
<1>4. /\ r.seq # 0 => Writers' = Writers \cup {h}
      /\ r.seq = 0 => Writers' = Writers \ {h}
      /\ handler'[h] = r
      /\ \A o \in Handlers \ {h} : (Wrote(o)' <=> Wrote(o)) /\ handler'[o] = handler[o]
  BY <1>3, WritersChange
<1>5. h \notin Writers
  BY <1>2 DEF Writers
<1>6. /\ IsDatabase(Committed) /\ Committed.next > 0 /\ Committed.next \in Nat
      /\ log[1] \in Range(log)
  <2>1. "committing" \in InTransaction /\ Runs(h, "committing")
    BY DEF InTransaction, Commit
  <2>2. Committed.next > 0
    BY <2>1, AtStatement
  <2>3. Len(log) \in Nat /\ Len(log) > 0 /\ DOMAIN log = 1 .. Len(log)
    BY LenProperties DEF IInv, LogOK
  <2> QED
    BY <2>2, <2>3, CommittedIsDatabase DEF IInv, IsDatabase, Range
<1>7. CASE r.seq = 0 /\ Rows(Committed)' = Rows(Committed) /\ log'[1] = log[1]
  <2>1. Writers' = Writers
    BY <1>4, <1>5, <1>7
  <2>2. ~Wrote(h)'
    BY <1>4, <1>7 DEF Wrote
  <2> QED
    BY <1>1, <1>2, <1>4, <1>7, <2>1, <2>2 DEF RowsOK
<1>8. CASE r.seq = Committed.next /\ Rows(Committed)' = Rows(Committed) + 1 /\ log'[1] = log[1]
  <2>1. /\ Cardinality(Writers') = Cardinality(Writers) + 1
        /\ Cardinality(Writers) \in Nat
    BY <1>4, <1>5, <1>6, <1>8, WritersAreFinite, FS_AddElement
  <2> SUFFICES ASSUME ~lost
               PROVE  /\ \A o \in Handlers : Wrote(o)' => handler'[o].seq \notin acked
                      /\ \A o, u \in Handlers :
                           Wrote(o)' /\ Wrote(u)' /\ handler'[o].seq = handler'[u].seq => o = u
                      /\ Rows(Committed)' = Rows(log[1])' + Cardinality(acked) + unsure
                                              + Cardinality(Writers')
    BY <1>1 DEF RowsOK
  <2>2. /\ acked \subseteq 1 .. Committed.next - 1
        /\ \A o \in Handlers : Wrote(o) => handler[o].seq \in 1 .. Committed.next - 1
    BY DEF IInv, AckedOK
  <2>3. \A o \in Handlers : Wrote(o)' => handler'[o].seq \notin acked
    BY <1>4, <1>6, <1>8, <2>2 DEF RowsOK
  <2>4. \A o, u \in Handlers :
          Wrote(o)' /\ Wrote(u)' /\ handler'[o].seq = handler'[u].seq => o = u
    BY <1>4, <1>6, <1>8, <2>2 DEF RowsOK
  <2>5. Rows(Committed)' = Rows(log[1])' + Cardinality(acked) + unsure
                             + Cardinality(Writers')
    <3>1. Rows(log[1])' = Rows(log[1]) /\ Rows(log[1]) \in Nat
      <4>1. IsDatabase(log[1])
        BY LenProperties DEF IInv, LogOK
      <4> QED
        BY <1>8, <4>1, RowsIsNat
    <3>2. Cardinality(acked) \in Nat /\ unsure \in Nat
      BY FS_CardinalityType DEF RowsOK
    <3>3. Rows(Committed) = Rows(log[1]) + Cardinality(acked) + unsure + Cardinality(Writers)
      BY DEF RowsOK
    <3> QED
      BY <1>8, <2>1, <3>1, <3>2, <3>3
  <2> QED
    BY <2>3, <2>4, <2>5
<1>9. CASE handler[h].effect = NoEffect /\ handler[h].seq = 0 /\ log' = log
  BY <1>3, <1>7, <1>9 DEF Committed
<1>10. ASSUME NEW effect \in Effects(Committed, handler[h].req),
              log' = Append(log, Outcome(Committed, effect)),
              handler[h].seq = IF effect.table = "none" THEN 0 ELSE Committed.next
       PROVE  RowsOK'
  <2>1. effect.table \in Tables \cup {"none"} /\ "none" \notin Tables
    BY EffectTables DEF Tables
  <2>2. /\ IsDatabase(Outcome(Committed, effect)) /\ Dense(Outcome(Committed, effect))
    BY <1>6, <2>1, CommittedIsDatabase, OutcomeIsDense DEF IInv
  <2>3. synced' = synced
    BY DEF Commit, world
  <2>4. Committed' = Outcome(Committed, effect) /\ log'[1] = log[1]
    BY <1>10, <2>2, <2>3, GrownLog, GrownLogKeepsFirst DEF IInv
  <2>5. Rows(Outcome(Committed, effect)) =
          Rows(Committed) + IF effect.table = "none" THEN 0 ELSE 1
    BY <1>6, <2>1, RowsOfOutcome
  <2>6. Rows(Committed)' = Rows(Committed) + IF effect.table = "none" THEN 0 ELSE 1
    BY <2>4, <2>5
  <2>7. Rows(Committed) \in Nat
    BY <1>6, RowsIsNat
  <2> QED
    BY <1>3, <1>7, <1>8, <1>10, <2>1, <2>4, <2>6, <2>7
<1> QED
  BY <1>9, <1>10, CommitAppends

LEMMA RowsReply ==
  ASSUME IInv, RowsOK, NEW h \in Handlers, Reply(h)
  PROVE  RowsOK'
<1>1. /\ Goes(h, Idle) /\ log' = log /\ lost' = lost /\ Committed' = Committed
      /\ acked'  = IF Wrote(h) /\ ~handler[h].gone THEN acked \cup {handler[h].seq} ELSE acked
      /\ unsure' = IF Wrote(h) /\ handler[h].gone THEN unsure + 1 ELSE unsure
  BY DEF Reply, Committed
<1>2. /\ Writers' = Writers \ {h}
      /\ handler'[h] = Idle
      /\ \A o \in Handlers \ {h} : (Wrote(o)' <=> Wrote(o)) /\ handler'[o] = handler[o]
  BY <1>1, IdleSound, WritersChange
<1>3. ~Wrote(h)'
  BY <1>2, IdleSound DEF Wrote
<1>4. CASE ~Wrote(h)
  <2>1. Writers' = Writers
    BY <1>2, <1>4 DEF Writers
  <2> QED
    BY <1>1, <1>2, <1>3, <1>4, <2>1 DEF RowsOK
<1>5. CASE Wrote(h)
  <2>1. /\ h \in Writers /\ IsFiniteSet(Writers) /\ Cardinality(Writers) \in Nat
    BY <1>5, WritersAreFinite DEF Writers
  <2>2. Cardinality(Writers') = Cardinality(Writers) - 1
    BY <1>2, <2>1, FS_RemoveElement
  <2>3. /\ IsFiniteSet(acked) /\ unsure \in Nat /\ Cardinality(acked) \in Nat
    BY FS_CardinalityType DEF RowsOK
  <2>4. IsFiniteSet(acked') /\ unsure' \in Nat
    <3>1. IsFiniteSet(acked \cup {handler[h].seq})
      BY <2>3, FS_AddElement
    <3> QED
      BY <1>1, <2>3, <3>1
  <2> SUFFICES ASSUME ~lost
               PROVE  /\ \A o \in Handlers : Wrote(o)' => handler'[o].seq \notin acked'
                      /\ \A o, u \in Handlers :
                           Wrote(o)' /\ Wrote(u)' /\ handler'[o].seq = handler'[u].seq => o = u
                      /\ Rows(Committed) = Rows(log[1]) + Cardinality(acked') + unsure'
                                              + Cardinality(Writers')
    BY <1>1, <2>4 DEF RowsOK
  <2>5. /\ \A o \in Handlers : Wrote(o) => handler[o].seq \notin acked
        /\ \A o, u \in Handlers :
             Wrote(o) /\ Wrote(u) /\ handler[o].seq = handler[u].seq => o = u
        /\ Rows(Committed) = Rows(log[1]) + Cardinality(acked) + unsure
                               + Cardinality(Writers)
    BY DEF RowsOK
  <2>6. Cardinality(acked') + unsure' = Cardinality(acked) + unsure + 1
    <3>1. CASE handler[h].gone
      BY <1>1, <1>5, <2>3, <3>1
    <3>2. CASE ~handler[h].gone
      <4>1. Cardinality(acked \cup {handler[h].seq}) = Cardinality(acked) + 1
        BY <1>5, <2>3, <2>5, FS_AddElement
      <4> QED
        BY <1>1, <1>5, <2>3, <3>2, <4>1
    <3> QED
      BY <3>1, <3>2
  <2>7. /\ \A o \in Handlers : Wrote(o)' => handler'[o].seq \notin acked'
        /\ \A o, u \in Handlers :
             Wrote(o)' /\ Wrote(u)' /\ handler'[o].seq = handler'[u].seq => o = u
    BY <1>1, <1>2, <1>3, <1>5, <2>5
  <2>8. Rows(log[1]) \in Nat /\ Cardinality(acked') \in Nat
    <3>1. IsDatabase(log[1])
      BY LenProperties DEF IInv, LogOK
    <3> QED
      BY <2>4, <3>1, RowsIsNat, FS_CardinalityType
  <2> QED
    BY <2>1, <2>2, <2>3, <2>4, <2>5, <2>6, <2>7, <2>8
<1> QED
  BY <1>4, <1>5

\* The process dies; no commit is lost, or lost is set.
LEMMA RowsDeath ==
  ASSUME IInv, RowsOK, Dies, lost' \/ (~lost /\ log' = log)
  PROVE  RowsOK'
<1>1. /\ unsure' = unsure + Cardinality(Writers) /\ acked' = acked
      /\ handler' = [h \in Handlers |-> Idle]
  BY DEF Dies, Writers
<1>2. \A h \in Handlers : ~Wrote(h)'
  BY <1>1, IdleSound DEF Wrote
<1>3. Writers' = {} /\ Cardinality({}) = 0
  BY <1>2, FS_EmptySet DEF Writers
<1>4. /\ IsFiniteSet(acked) /\ unsure \in Nat /\ Cardinality(acked) \in Nat
      /\ Cardinality(Writers) \in Nat
  BY FS_CardinalityType, WritersAreFinite DEF RowsOK
<1>5. IsFiniteSet(acked') /\ unsure' \in Nat
  BY <1>1, <1>4
<1>6. CASE lost'
  BY <1>5, <1>6 DEF RowsOK
<1>7. CASE ~lost'
  <2>1. ~lost /\ log' = log /\ Committed' = Committed
    BY <1>7 DEF Committed
  <2>2. Rows(Committed) = Rows(log[1]) + Cardinality(acked) + unsure + Cardinality(Writers)
    BY <2>1 DEF RowsOK
  <2>3. Rows(log[1]) \in Nat
    <3>1. IsDatabase(log[1])
      BY LenProperties DEF IInv, LogOK
    <3> QED
      BY <3>1, RowsIsNat
  <2>4. Rows(Committed) = Rows(log[1]) + Cardinality(acked') + unsure' + Cardinality(Writers')
    BY <1>1, <1>3, <1>4, <2>2, <2>3
  <2> QED
    BY <1>2, <1>5, <2>1, <2>4 DEF RowsOK
<1> QED
  BY <1>6, <1>7

LEMMA RowsStart ==
  ASSUME IInv, RowsOK, Start
  PROVE  RowsOK'
<1>1. /\ handler' = handler /\ lost' = lost /\ acked' = acked /\ unsure' = unsure
      /\ synced' = synced
      /\ log' = IF Opened(Committed) = Committed THEN log ELSE Append(log, Opened(Committed))
  BY DEF Start
<1>2. Writers' = Writers /\ \A h \in Handlers : Wrote(h)' <=> Wrote(h)
  BY <1>1 DEF Writers, Wrote
<1>3. Rows(Committed)' = Rows(Committed) /\ log'[1] = log[1]
  <2>1. CASE Opened(Committed) = Committed
    BY <1>1, <2>1 DEF Committed
  <2>2. CASE Opened(Committed) # Committed
    <3>1. IsDatabase(Opened(Committed)) /\ Dense(Opened(Committed)) /\ IsDatabase(Committed)
      BY CommittedIsDatabase, OpenedIsDense DEF IInv
    <3>2. Committed' = Opened(Committed) /\ log'[1] = log[1]
      BY <1>1, <2>2, <3>1, GrownLog, GrownLogKeepsFirst DEF IInv
    <3> QED
      BY <3>1, <3>2, RowsOfOpened
  <2> QED
    BY <2>1, <2>2
<1> QED
  BY <1>1, <1>2, <1>3 DEF RowsOK

LEMMA RowsHangUp ==
  ASSUME IInv, RowsOK, NEW h \in Handlers, HangUp(h)
  PROVE  RowsOK'
<1>1. Sound(handler[h]) /\ UNCHANGED <<log, lost, acked, unsure>>
  BY DEF IInv, HandlersOK, HangUp, world
<1>2. CASE handler[h].pc = "answering"
  <2> DEFINE r == [handler[h] EXCEPT !.gone = TRUE]
  <2>1. Goes(h, r) /\ r.pc = handler[h].pc /\ r.seq = handler[h].seq
    BY <1>1, <1>2 DEF HangUp, Sound, Fields
  <2> HIDE DEF r
  <2> QED
    BY <1>1, <2>1, RowsStayBy DEF Wrote
<1>3. CASE handler[h].pc # "answering"
  <2> DEFINE r == [Idle EXCEPT !.pc = handler[h].pc, !.gone = TRUE]
  <2>1. Goes(h, r)
    BY <1>3 DEF HangUp
  <2>2. r.seq = 0 /\ ~Wrote(h)
    BY <1>3 DEF Idle, Wrote
  <2> HIDE DEF r
  <2> QED
    BY <1>1, <2>1, <2>2, RowsStayBy
<1> QED
  BY <1>2, <1>3

LEMMA NextRows == IInv /\ RowsOK /\ [Next]_vars => RowsOK'
<1> SUFFICES ASSUME IInv, RowsOK, [Next]_vars
             PROVE  RowsOK'
  OBVIOUS
<1>1. ASSUME NEW h \in Handlers, NEW req \in Requests, Receive(h, req)
      PROVE  RowsOK'
  BY <1>1, RowsReceive
<1>2. ASSUME NEW h \in Handlers,
             \/ Begin(h) \/ Decide(h) \/ Read(h) \/ StampRow(h) \/ InsertRow(h)
             \/ UpdateLoan(h) \/ Refuse(h) \/ Fail(h)
      PROVE  RowsOK'
  BY <1>2, RowsTransaction
<1>3. ASSUME NEW h \in Handlers, Commit(h) \/ Reply(h) \/ HangUp(h)
      PROVE  RowsOK'
  BY <1>3, RowsCommit, RowsReply, RowsHangUp
<1>4. CASE UNCHANGED <<log, handler, lost, acked, unsure>>
  BY <1>4, RowsStay DEF Wrote
<1>5. CASE Crash \/ Expire
  BY <1>5, RowsDeath DEF Crash, Expire
<1>6. CASE PowerFailure
  <2>1. PICK n \in synced .. Len(log) :
          log' = SubSeq(log, 1, n) /\ lost' = (lost \/ n < Len(log))
    BY <1>6 DEF PowerFailure
  <2>2. Len(log) \in Nat /\ synced \in 1 .. Len(log)
    BY CommittedIsDatabase DEF IInv, LogOK
  <2>3. CASE n < Len(log)
    BY <1>6, <2>1, <2>3, RowsDeath DEF PowerFailure
  <2>4. CASE ~(n < Len(log))
    <3>1. n = Len(log)
      BY <2>2, <2>4
    <3>2. log' = log
      BY <2>1, <3>1, SubSeqFull DEF IInv, LogOK
    <3>3. lost' \/ ~lost
      BY <2>1, <2>4
    <3> QED
      BY <1>6, <3>2, <3>3, RowsDeath DEF PowerFailure
  <2> QED
    BY <2>3, <2>4
<1>7. CASE Start
  BY <1>7, RowsStart
<1>8. CASE Checkpoint \/ Stop \/ Exit
  BY <1>4, <1>8 DEF Checkpoint, Stop, Exit
<1>9. CASE UNCHANGED vars
  BY <1>4, <1>9 DEF vars
<1> QED
  BY <1>1, <1>2, <1>3, <1>5, <1>6, <1>7, <1>8, <1>9 DEF Next

\* Every row was written for one request, answered, about to be, or unknown to
\* its client; no failure, refusal or repetition leaves another.
THEOREM RowsAlwaysAccountedFor == Spec => []RowsAreAccountedFor
<1>1. Init => RowsOK
  <2> SUFFICES ASSUME Init
               PROVE  RowsOK
    OBVIOUS
  <2>1. \A h \in Handlers : ~Wrote(h)
    BY IdleSound DEF Init, Wrote
  <2>2. Writers = {} /\ Cardinality({}) = 0 /\ IsFiniteSet({})
    BY <2>1, FS_EmptySet DEF Writers
  <2>3. acked = {} /\ unsure = 0
    BY DEF Init
  <2>4. Committed = log[1] /\ IsDatabase(log[1])
    BY InitInvariant DEF Init, FirstFile, Committed, IInv, LogOK
  <2>5. Rows(log[1]) \in Nat
    BY <2>4, RowsIsNat
  <2> QED
    BY <2>1, <2>2, <2>3, <2>4, <2>5 DEF RowsOK
<1>2. RowsOK => RowsAreAccountedFor
  BY DEF RowsOK, RowsAreAccountedFor, Writers
<1> QED
  BY <1>1, <1>2, NextRows, InvariantHolds, PTL DEF Spec
==============================================================================
