---------------------------- MODULE MCSettlement -----------------------------
(***************************************************************************)
(* Instances of Settlement for TLC: the outputs with their amounts and the *)
(* invoices with their prices.                                             *)
(***************************************************************************)
EXTENDS Settlement, FiniteSetsExt, TLC

CONSTANTS i1, i2, o1, o2

OneInvoice == [o \in Outputs |-> i1]
TwoInvoices == [o \in Outputs |-> IF o = o1 THEN i2 ELSE i1]

Amount == (o1 :> 2) @@ (o2 :> 4)
Sums == [S \in SUBSET Outputs |-> MapThenSumSet(LAMBDA o : Amount[o], S)]
Prices == [i \in Invoices |-> 4]
==============================================================================
