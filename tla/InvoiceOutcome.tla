--------------------------- MODULE InvoiceOutcome ----------------------------
(***************************************************************************)
(* What the sync loop promises of each invoice whatever else happens: it   *)
(* decides once; then it may owe one refund, whose kind fits the decision; *)
(* then it announces the decision.  A crash may cut this short, and        *)
(* nothing may repeat, swap or contradict it.  The refund comes before the *)
(* announcement, as the comment at src/matcher/sweeper.rs:34 wants.        *)
(***************************************************************************)
CONSTANT Invoices
VARIABLES verdict, refund, announced

vars == <<verdict, refund, announced>>

Verdicts == {"confirmed", "expired"}
RefundFor(v) == IF v = "confirmed" THEN "overpayment" ELSE "partial_expired"

Init ==
  /\ verdict = [i \in Invoices |-> "open"]
  /\ refund = [i \in Invoices |-> "none"]
  /\ announced = [i \in Invoices |-> FALSE]

Decide(i, v) ==
  /\ verdict[i] = "open"
  /\ verdict' = [verdict EXCEPT ![i] = v]
  /\ UNCHANGED <<refund, announced>>

Refund(i) ==
  /\ verdict[i] \in Verdicts
  /\ refund[i] = "none" /\ ~announced[i]
  /\ refund' = [refund EXCEPT ![i] = RefundFor(verdict[i])]
  /\ UNCHANGED <<verdict, announced>>

Announce(i) ==
  /\ verdict[i] \in Verdicts
  /\ ~announced[i]
  /\ announced' = [announced EXCEPT ![i] = TRUE]
  /\ UNCHANGED <<verdict, refund>>

Next ==
  \E i \in Invoices :
    \/ \E v \in Verdicts : Decide(i, v)
    \/ Refund(i) \/ Announce(i)

Spec == Init /\ [][Next]_vars
==============================================================================
