------------------------------- MODULE MCLoan -------------------------------
(***************************************************************************)
(* The instances of Loan that TLC checks.  RateMicroScale is 4, so that    *)
(* rate 1 is 25% per period: on a dozen cents every plan rounds, carries a *)
(* remainder and drifts, as real loans do on millions.                     *)
(***************************************************************************)
EXTENDS Loan
=============================================================================
