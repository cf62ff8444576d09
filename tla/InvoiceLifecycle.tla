-------------------------- MODULE InvoiceLifecycle ---------------------------
(***************************************************************************)
(* The lifecycle of an invoice as src/invoice.rs documents it: "Pending -> *)
(* PartiallyPaid -> Confirming -> Confirmed is the happy path; Expired and *)
(* Cancelled are terminal", a terminal status never changes, a Confirming  *)
(* invoice neither expires nor can be cancelled, and nothing goes back.    *)
(***************************************************************************)
EXTENDS InvoiceStatus

CONSTANT Invoices
VARIABLE status

Moves == ({"none"} \X {"pending"})
    \cup ({"pending"} \X {"partially_paid", "confirming", "expired", "cancelled"})
    \cup ({"partially_paid"} \X {"confirming", "expired", "cancelled"})
    \cup ({"confirming"} \X {"confirmed"})

Init == status = [i \in Invoices |-> "none"]

Move(i, next) ==
  /\ <<status[i], next>> \in Moves
  /\ status' = [status EXCEPT ![i] = next]

Next == \E i \in Invoices, next \in InvoiceStatuses : Move(i, next)

Spec == Init /\ [][Next]_status
==============================================================================
