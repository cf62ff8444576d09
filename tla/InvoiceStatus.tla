---------------------------- MODULE InvoiceStatus ----------------------------
(***************************************************************************)
(* The pure state machine of src/invoice.rs: the statuses of an invoice    *)
(* and the three functions that decide the next one.  They have no side    *)
(* effects; the modules that call them decide when the answer is written.  *)
(*                                                                         *)
(* An operator whose name ends in _x... is a mutated form of the one after *)
(* it: a plausible bug that some property of the project has to catch.     *)
(***************************************************************************)
EXTENDS Integers

InvoiceStatuses == {"pending", "partially_paid", "confirming",
                    "confirmed", "expired", "cancelled"}

Terminal == {"confirmed", "expired", "cancelled"}

\* is_cancellable.  The sweeper's query and the explorer watch list name the
\* same two statuses.
Unpaid == {"pending", "partially_paid"}

next_status_on_payment_xStrict(current, due, paid) ==
  IF current \in Terminal THEN current
  ELSE IF paid > due THEN "confirming" ELSE "partially_paid"

next_status_on_payment(current, due, paid) ==
  IF current \in Terminal THEN current
  ELSE IF paid >= due THEN "confirming" ELSE "partially_paid"

next_status_on_confirmation(current, due, confirmed) ==
  IF current \notin Terminal /\ confirmed >= due THEN "confirmed" ELSE current

next_status_on_tick_xTerminal(current, now, expiresAt) ==
  IF current # "confirming" /\ now >= expiresAt THEN "expired" ELSE current

next_status_on_tick_xConfirming(current, now, expiresAt) ==
  IF current \notin Terminal /\ now >= expiresAt THEN "expired" ELSE current

next_status_on_tick_xEarly(current, now, expiresAt) ==
  IF current \in Unpaid /\ now + 1 >= expiresAt THEN "expired" ELSE current

next_status_on_tick_xPartial(current, now, expiresAt) ==
  IF current = "pending" /\ now >= expiresAt THEN "expired" ELSE current

next_status_on_tick(current, now, expiresAt) ==
  IF current \in Unpaid /\ now >= expiresAt THEN "expired" ELSE current
==============================================================================
