-------------------------- MODULE MCInvoiceCreation --------------------------
(***************************************************************************)
(* Instances of InvoiceCreation for TLC: q1 and q2 carry the same          *)
(* external_id, q3 and q4 none; diversifiers 0 and 2 are invalid.          *)
(***************************************************************************)
EXTENDS InvoiceCreation, TLC

CONSTANTS q1, q2, q3, q4

Order == [r \in Requests |-> IF r \in {q1, q2} THEN "order" ELSE NoId]
SomeShield == Requests \ {q4}
FirstValid == [n \in 0..MaxIndex |-> CHOOSE m \in {n, n + 1} : m \notin {0, 2}]
==============================================================================
