----------------------------- MODULE MCLoanReads -----------------------------
(***************************************************************************)
(* The instances of LoanReads that TLC checks, at the scale of MCLoan.     *)
(***************************************************************************)
EXTENDS LoanReads
=============================================================================
