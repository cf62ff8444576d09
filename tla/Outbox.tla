------------------------------- MODULE Outbox --------------------------------
(***************************************************************************)
(* What the webhook worker promises of the rows it works off (table        *)
(* webhook_deliveries of src/webhooks): a row is sent while it is pending, *)
(* is marked done only after it was sent, and then rests.  A row may be    *)
(* sent more than once: a worker that fails after sending does not know    *)
(* that it sent.                                                           *)
(***************************************************************************)
EXTENDS Naturals

CONSTANT Items
VARIABLES state, sent

Init ==
  /\ state = [x \in Items |-> "none"]
  /\ sent = [x \in Items |-> 0]

Become(x, from, to) ==
  /\ state[x] = from
  /\ state' = [state EXCEPT ![x] = to]
  /\ UNCHANGED sent

Enqueue(x) == Become(x, "none", "pending")

Send(x) ==
  /\ state[x] = "pending"
  /\ sent' = [sent EXCEPT ![x] = @ + 1]
  /\ UNCHANGED state

Done(x) == sent[x] > 0 /\ Become(x, "pending", "done")
GiveUp(x) == Become(x, "pending", "dead")

Next == \E x \in Items : Enqueue(x) \/ Send(x) \/ Done(x) \/ GiveUp(x)

Spec == Init /\ [][Next]_<<state, sent>>
==============================================================================
