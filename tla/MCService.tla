------------------------------ MODULE MCService ------------------------------
(***************************************************************************)
(* The instance of Service that TLC checks: two requests at a time on a    *)
(* new file and on one that an earlier process left with two loans, one    *)
(* prepaid in full and one not yet paid.                                   *)
(***************************************************************************)
EXTENDS Service, SequencesExt

CONSTANTS h1, h2

Create(principal, rate) ==
  [kind |-> "create", borrower |-> 1, principal |-> principal, rate |-> rate,
   periods |-> 2, type |-> "equal_installment"]

Pay(l, amount) == [kind |-> "pay", loan |-> l, amount |-> amount]

MCRequests ==
  {Pay(2, 0), Pay(2, 7),
   [kind |-> "prepay", loan |-> 2, amount |-> 2, strategy |-> "reduce_term"],
   [kind |-> "prepay", loan |-> 2, amount |-> 4, strategy |-> "reduce_payment"],
   [kind |-> "cancel", loan |-> 2],
   [kind |-> "stats"],
   [kind |-> "payoff", loan |-> 1, asOf |-> -1]}

\* The file after the requests of a history were served one by one.
After(requests) ==
  FoldLeft(LAMBDA d, req : Outcome(d, CHOOSE effect \in Effects(d, req) : TRUE),
           Opened(NewFile), requests)

MCStored ==
  {NewFile,
   After(<<[kind |-> "borrower"], Create(4, 0),
           [kind |-> "prepay", loan |-> 1, amount |-> 4, strategy |-> "reduce_term"],
           Create(5, 4)>>)}
=============================================================================
