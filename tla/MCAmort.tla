------------------------------ MODULE MCAmort -------------------------------
(* The instances of AmortCalls that TLC checks. *)
EXTENDS AmortCalls

MCOutstandings == 1 .. 40
MCPeriods == 1 .. 5
MCPayments == {1, 2, 3, 5, 8, 11, 13, 21, 34}
=============================================================================
