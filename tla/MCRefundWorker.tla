--------------------------- MODULE MCRefundWorker ----------------------------
(***************************************************************************)
(* Instances of RefundWorker for TLC: r1 repays the excess at an address   *)
(* that also holds the price, r2 is paid from notes.                       *)
(***************************************************************************)
EXTENDS RefundWorker, TLC

CONSTANTS r1, r2, address, pool

Places == (r1 :> address) @@ (r2 :> pool)
SourceOfEach == [r \in Refunds |-> Places[r]]
ShieldPools == {pool} \cap Sources

Amounts == (r1 :> {2}) @@ (r2 :> {4})
GrossOfEach == [r \in Refunds |-> Amounts[r]]

Received == {c \in {[at |-> address, value |-> 7, id |-> 0],
                    [at |-> pool, value |-> 4, id |-> 0],
                    [at |-> pool, value |-> 9, id |-> -1]} : c.at \in Sources}
ComesLate == {[at |-> address, value |-> 1, id |-> -2]}
==============================================================================
