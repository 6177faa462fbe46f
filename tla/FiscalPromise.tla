---------------------------- MODULE FiscalPromise ----------------------------
(***************************************************************************)
(* What the fiscal protocol promises of an invoice, whatever is lost and   *)
(* whoever dies: ARCA is asked again only when it is certain that it holds *)
(* no voucher, it issues at most one, and the books say "authorized" only  *)
(* of an invoice ARCA has a voucher for.                                   *)
(***************************************************************************)
CONSTANT Moves

VARIABLES
  status,    \* what the books know: open, unknown or authorized
  vouchers   \* the invoices ARCA holds a voucher for

vars == <<status, vouchers>>

Init ==
  /\ status = [m \in Moves |-> "open"]
  /\ vouchers = {}

\* A request is about to be made; until its outcome is learnt it is unknown.
Ask(m) ==
  /\ status[m] = "open"
  /\ m \notin vouchers
  /\ status' = [status EXCEPT ![m] = "unknown"]
  /\ UNCHANGED vouchers

\* ARCA authorizes the invoice, only ever while the books expect it may.
Issue(m) ==
  /\ status[m] = "unknown"
  /\ m \notin vouchers
  /\ vouchers' = vouchers \cup {m}
  /\ UNCHANGED status

\* The books learn that ARCA authorized the invoice.
Learn(m) ==
  /\ status[m] = "unknown"
  /\ m \in vouchers
  /\ status' = [status EXCEPT ![m] = "authorized"]
  /\ UNCHANGED vouchers

\* The books learn that ARCA did not.
Reopen(m) ==
  /\ status[m] = "unknown"
  /\ m \notin vouchers
  /\ status' = [status EXCEPT ![m] = "open"]
  /\ UNCHANGED vouchers

Next == \E m \in Moves : Ask(m) \/ Issue(m) \/ Learn(m) \/ Reopen(m)

Spec == Init /\ [][Next]_vars
=============================================================================
