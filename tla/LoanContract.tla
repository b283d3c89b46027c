---------------------------- MODULE LoanContract ----------------------------
(***************************************************************************)
(* What a loan of internal/loan promises, whatever its schedule, rate and  *)
(* payments are: the principal owed only ever goes down, one ledger entry  *)
(* at a time; only an entry that settles the loan closes it (a prepayment  *)
(* that settles it may leave it active); it can be canceled only while it  *)
(* is untouched; and once closed or canceled it never changes again.       *)
(***************************************************************************)
EXTENDS Integers

VARIABLES phase,    \* "none", "active", "closed" or "canceled"
          owed,     \* the principal not yet returned, in cents
          entries   \* the number of ledger entries

Init == phase = "none" /\ owed = 0 /\ entries = 0

Open ==
  /\ phase = "none"
  /\ phase' = "active"
  /\ owed' \in Nat \ {0}
  /\ UNCHANGED entries

Cancel ==
  /\ phase = "active"
  /\ entries = 0
  /\ phase' = "canceled"
  /\ UNCHANGED <<owed, entries>>

\* A scheduled payment or a prepayment.  The last scheduled payment may
\* return more than is owed.
Collect ==
  /\ phase = "active"
  /\ owed > 0
  /\ owed' \in Int
  /\ owed' <= owed
  /\ entries' = entries + 1
  /\ \/ phase' = "active" /\ owed' >= 0
     \/ phase' = "closed" /\ owed' <= 0

Next == Open \/ Cancel \/ Collect

vars == <<phase, owed, entries>>

Spec == Init /\ [][Next]_vars
=============================================================================
