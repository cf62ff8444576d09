------------------------------ MODULE EndToEnd -------------------------------
(***************************************************************************)
(* From a payment to the money back: the sync loop of Settlement and the   *)
(* worker of RefundWorker over one database, one chain and one process.    *)
(* The loop enqueues the rows that the worker pays; what the worker pays   *)
(* is taken from the outputs the customers sent to the invoice's address,  *)
(* and what is left returns there, where the loop polls.                   *)
(*                                                                         *)
(* Here invoices are paid in transparent outputs, and the chain takes      *)
(* back what no refund has spent yet.                                      *)
(***************************************************************************)
EXTENDS Settlement

CONSTANTS
  ChangeOf,      \* the outputs that the change of refunds makes, of each invoice
  CoinOf,        \* an output of a customer as the worker sees it: [at, value, id]
  RefundPage,    \* the LIMIT of the worker's query
  \* Bounds of the model
  WorkerFaults,  \* the failures of the worker that are considered
  MaxFailures    \* how many, of the loop and the worker together

Changes == UNION {ChangeOf[i] : i \in Invoices}
Payments == Outputs \ Changes

ASSUME ChangeAssumption ==
  /\ ChangeOf \in [Invoices -> SUBSET Outputs]
  /\ \A i \in Invoices : ChangeOf[i] \subseteq OutputsOf(i)
  /\ ShieldInvoices = {} /\ RefundPage \in Nat \ {0}
ASSUME PaymentsAssumption ==
  /\ IsFiniteSet(Payments)
  /\ \A o \in Payments :
       /\ CoinOf[o] \in [at : {InvoiceOf[o]}, value : Nat \ {0}, id : Int]
       /\ CoinOf[o].id <= 0
       /\ \A p \in Payments : CoinOf[o] = CoinOf[p] => o = p
       /\ \A S \in SUBSET (Payments \ {o}) : Total[S \cup {o}] = Total[S] + CoinOf[o].value

VARIABLES
  row, rowAmount, rowFee, rowTxid, rowBorn, rowOwed,  \* table refunds
  coins, listed, late, payouts,                       \* the chain
  at, batch, taken, inputs, sentTx,                   \* the worker
  marking, workerFaults

Worker == INSTANCE RefundWorker WITH
  Refunds <- Invoices, SourceOf <- [i \in Invoices |-> i], Pools <- {},
  Gross <- [i \in Invoices |-> {g \in Nat : g > Fee}],
  BaseFee <- 0, InputFee <- Fee, ShieldBaseFee <- 0, SpendFee <- 0,
  InitialCoins <- {}, LateCoins <- {CoinOf[o] : o \in Payments},
  PageSize <- RefundPage, HasProver <- FALSE, Operators <- {},
  FaultKinds <- WorkerFaults, status <- row, amount <- rowAmount, fee <- rowFee, txid <- rowTxid,
  born <- rowBorn, owed <- rowOwed, pc <- at, cur <- taken, call <- marking,
  faults <- workerFaults

ASSUME WorkerAssumption == WorkerFaults \subseteq Worker!Faults /\ MaxFailures \in Nat

workerVars == <<row, rowAmount, rowFee, rowTxid, rowBorn, rowOwed, coins, listed,
                late, payouts, at, batch, taken, inputs, sentTx, marking, workerFaults>>
allVars == <<vars, workerVars>>
------------------------------------------------------------------------------
EndToEndInit == Init /\ Worker!Init

\* refunds::enqueue writes the row that the worker reads.
Enqueues(i) ==
  /\ refunds'[i] # refunds[i]
  /\ Worker!EnqueueRefund(i, refunds'[i][Len(refunds'[i])].gross)

Loop ==
  /\ SyncStep
  /\ \/ refunds' = refunds /\ UNCHANGED workerVars
     \/ \E i \in Invoices : Enqueues(i)

\* The change of a transaction is an output of the invoice's address like any
\* other.
NewChange ==
  {o \in Changes : chainHeight[o] = Unseen /\ \E c \in coins' \ coins : o \in ChangeOf[c.at]}

Pays ==
  /\ Worker!WorkerStep
  /\ \/ NewChange = {} /\ UNCHANGED vars
     \/ \E o \in NewChange : Pay(o)

Views ==
  /\ Worker!ViewCatchesUp
  /\ UNCHANGED vars

Receives(o) ==
  /\ o \in Payments
  /\ Pay(o)
  /\ Worker!LatePayment(CoinOf[o])

Request == Api /\ UNCHANGED workerVars

\* A clean shutdown lets the worker finish too.  A crash is a failure of both.
Fails ==
  \/ Interruptions /\ UNCHANGED workerVars
  \/ Restart /\ at = "idle" /\ UNCHANGED workerVars
  \/ Crash /\ Worker!Crash

\* A reorg or a conflict takes outputs back, and their coins with them.
TakesBack(S) ==
  LET gone == {CoinOf[o] : o \in S \cap Payments} IN
  /\ S \subseteq Payments /\ gone \subseteq coins
  /\ Reorg(S) \/ \E o \in S : S = {o} /\ Evict(o)
  /\ coins' = coins \ gone /\ late' = late \cup gone
  /\ UNCHANGED <<row, rowAmount, rowFee, rowTxid, rowBorn, rowOwed, listed, payouts,
                 at, batch, taken, inputs, sentTx, marking, workerFaults>>

Advances ==
  /\ TimePasses \/ \E S \in SUBSET Outputs : NewBlock(S)
  /\ UNCHANGED workerVars

\* A failure is one too many when there were as many as the bound allows.
Bounded == faults + workerFaults < MaxFailures \/ UNCHANGED <<faults, workerFaults>>

EndToEndNext ==
  /\ \/ Loop \/ Pays \/ Views \/ Request \/ Fails \/ Advances
     \/ \E o \in Outputs : Receives(o)
     \/ \E S \in SUBSET Payments : TakesBack(S)
  /\ Bounded

EndToEndSpec == EndToEndInit /\ [][EndToEndNext]_allVars
------------------------------------------------------------------------------
\* The merchant's own change is never taken for a customer's payment: an
\* address is not polled any more when a refund can come from it
\* (src/sync/transparent.rs, watch_list; src/refunds/worker.rs).
ChangeIsNoPayment == Changes \cap recorded = {}

\* Refunds leave the merchant the price of what was sold: unless a fault made
\* the worker pay a second time, the address of a confirmed invoice still
\* holds it.
AtAddress(i) == Worker!ValueOf({c \in coins : c.at = i})
PriceIsKept ==
  \A i \in Invoices :
    verdict[i] = "confirmed" /\ reorgs = 0 /\ Cardinality(Worker!PayoutsOf(i)) <= 1
      => AtAddress(i) >= Due[i]

\* Nothing is paid back before the invoice is decided, nor twice without a
\* fault, nor for goods that were released, but for the excess.
SentBack(i) == Worker!ValueOf({[value |-> payouts[k].amount, id |-> k] :
                                 k \in Worker!PayoutsOf(i)})
NeverBoth ==
  \A i \in Invoices :
    /\ SentBack(i) > 0 => verdict[i] # "open"
    /\ Cardinality(Worker!PayoutsOf(i)) <= 1 + workerFaults
    /\ workerFaults = 0 =>
         SentBack(i) + (IF verdict[i] = "confirmed" THEN Due[i] ELSE 0)
           <= Total[PaidRows(i)]

==============================================================================
