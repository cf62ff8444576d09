----------------------------- MODULE MCEndToEnd ------------------------------
(***************************************************************************)
(* An instance of EndToEnd for TLC: an invoice over 4, payments of 3 and   *)
(* 7, and the change of a refund.                                          *)
(***************************************************************************)
EXTENDS EndToEnd, FiniteSetsExt, TLC

CONSTANTS i1, o1, o2, c1

OneInvoice == [o \in Outputs |-> i1]
OneChange == [i \in Invoices |-> {c1}]

Amount == (o1 :> 3) @@ (o2 :> 7) @@ (c1 :> 1)
Sums == [S \in SUBSET Outputs |-> MapThenSumSet(LAMBDA o : Amount[o], S)]
Prices == [i \in Invoices |-> 4]
Coins == [o \in Outputs |-> [at |-> i1, value |-> Amount[o], id |-> -Amount[o]]]

\* Nothing that the model does, and none of these properties, depends on the
\* history in trail: states that differ in it alone count once.
WithoutTrail == <<db, world, wallet, sync, call, verdict, bounds, workerVars>>
==============================================================================
