------------------------------ MODULE Portfolio ------------------------------
(***************************************************************************)
(* What the service promises about the database as a whole: it passes      *)
(* through a sequence of committed states, each the outcome of one request *)
(* served on the one before.  A power failure may cost the last of them,   *)
(* never one from the middle, and never one made durable.                  *)
(*                                                                         *)
(* The variables are those of Service that a client could ever observe     *)
(* the effect of; Service adds the handlers, transactions and processes.   *)
(***************************************************************************)
EXTENDS Operations

CONSTANTS Requests,    \* what clients may ask for
          Stored       \* the database files a first process may find

\* Clients may send any of the forms the handlers decode, well formed or not.
ASSUME RequestAssumption == Requests \subseteq RequestForms

VARIABLES log,      \* the committed states of the database, oldest first
          synced    \* how many of them no failure can take away

portfolioVars == <<log, synced>>

Committed == log[Len(log)]

FirstFile == log \in {<<d>> : d \in Stored} /\ synced = 1

Harden ==
  /\ synced' \in synced + 1 .. Len(log)
  /\ UNCHANGED log

Lose ==
  /\ \E n \in synced .. Len(log) : log' = SubSeq(log, 1, n)
  /\ UNCHANGED synced

Open ==
  /\ Opened(Committed) # Committed
  /\ log' = Append(log, Opened(Committed))
  /\ UNCHANGED synced

Serve(req) ==
  /\ Opened(Committed) = Committed
  /\ \E d \in Outcomes(Committed, req) : log' = Append(log, d)
  /\ UNCHANGED synced

Evolve == Harden \/ Lose \/ Open \/ \E req \in Requests : Serve(req)

\* Statements, rollbacks, crashes and restarts add up to requests served one
\* at a time on the latest committed state.
ServesAtomically == FirstFile /\ [][Evolve]_portfolioVars
=============================================================================
