---------------------------- MODULE RefundWorker -----------------------------
(***************************************************************************)
(* Paying refunds back: the worker of src/refunds/worker.rs, which works   *)
(* off the rows of src/refunds/queue.rs, and the operator's endpoint of    *)
(* src/api/refunds.rs, against an explorer that may lag behind the chain,  *)
(* a node that may not answer, and crashes.                                *)
(*                                                                         *)
(* A row is added by refunds::enqueue, the step EnqueueRefund of module    *)
(* Settlement; module EndToEnd puts the two together.  An invoice is never *)
(* deleted by this code, and deleting it by hand deletes its refunds (ON   *)
(* DELETE CASCADE), so the row of a missing invoice that broadcast_one     *)
(* would mark dead does not occur.                                         *)
(* An operator whose name has an _x is a mutated form of the one after it. *)
(***************************************************************************)
EXTENDS Integers, Sequences, FiniteSets, FiniteSetsExt

CONSTANTS
  Refunds,         \* refund rows that may be enqueued
  SourceOf,        \* where a refund is paid from: its invoice's transparent
                   \* address, or the pool of the wallet's shield notes
  Pools,           \* the sources that are shield pools
  Gross,           \* what a customer may be owed before the fee
  BaseFee, InputFee,  \* the transparent fee grows with the inputs
  ShieldBaseFee, SpendFee,  \* the fee of two Sapling outputs, and of each note
  InitialCoins,    \* coins at the sources, of invoices paid before
  LateCoins,       \* coins customers send to an address later on
  PageSize,        \* the LIMIT of a tick's query
  HasProver,       \* the Sapling parameters could be loaded
  Operators,       \* operator requests served at a time
  \* Bounds of the model
  FaultKinds, MaxFaults

\* What can fail: a read of the explorer or of the tip, sending, the answer to
\* what was sent, a statement, the daemon.
Faults == {"fetch", "send", "reply", "write", "crash"}

Sources == {SourceOf[r] : r \in Refunds}
Coin == [at : Sources, value : Nat \ {0}, id : Int]
ValueOf(S) == MapThenSumSet(LAMBDA c : c.value, S)

\* refunds::estimate_fee, and the estimate that refunds::enqueue deducts.
TransparentFee(inputCount) == BaseFee + InputFee * inputCount
EnqueueFee == TransparentFee(1)

\* The kit's fees::estimate_fee(0, 0, spends, 2).
ShieldFee(spends) == ShieldBaseFee + SpendFee * spends

ASSUME FeesAssumption ==
  BaseFee \in Nat /\ InputFee \in Nat /\ ShieldBaseFee \in Nat /\ SpendFee \in Nat
ASSUME RowsAssumption ==
  /\ Pools \subseteq Sources
  /\ Gross \in [Refunds -> SUBSET Nat]
  /\ \A r \in Refunds : \A g \in Gross[r] : g > EnqueueFee
ASSUME CoinsAssumption ==
  /\ InitialCoins \subseteq Coin /\ LateCoins \subseteq Coin
  /\ IsFiniteSet(InitialCoins) /\ IsFiniteSet(LateCoins)
  /\ InitialCoins \cap LateCoins = {}
  /\ \A c \in InitialCoins \cup LateCoins : c.id <= 0
ASSUME WorkerAssumption ==
  /\ PageSize \in Nat \ {0} /\ HasProver \in BOOLEAN
  /\ FaultKinds \subseteq Faults /\ MaxFaults \in Nat

VARIABLES
  \* table refunds
  status, amount, fee,
  txid,     \* 0 = NULL, a position in payouts, or what an operator recorded
  born,     \* created_at, as a rank
  \* the chain
  coins,    \* unspent outputs and notes
  listed,   \* the explorer's and the wallet's view of them
  late,     \* LateCoins not sent yet
  payouts,  \* the refund transactions the network accepted, in order
  \* locals of the worker
  pc, batch, cur, inputs, sentTx,
  \* operator requests
  call,
  \* history
  owed,     \* the gross amount a row was enqueued with
  faults

rowVars == <<status, amount, fee, txid, born, owed>>
chain == <<coins, listed, late, payouts>>
worker == <<pc, batch, cur, inputs, sentTx>>
vars == <<rowVars, chain, worker, call, faults>>

Idle == [at |-> "idle"]
Shielded(r) == SourceOf[r] \in Pools
PayoutsOf(r) == {k \in DOMAIN payouts : payouts[k].refund = r}

\* An operator pays from another wallet, and records a txid of its own.
ByOperator == -1

Init ==
  /\ status = [r \in Refunds |-> "none"]
  /\ amount = [r \in Refunds |-> 0]
  /\ fee = [r \in Refunds |-> 0]
  /\ txid = [r \in Refunds |-> 0]
  /\ born = [r \in Refunds |-> 0]
  /\ owed = [r \in Refunds |-> 0]
  /\ coins = InitialCoins /\ listed = InitialCoins /\ late = LateCoins
  /\ payouts = <<>>
  /\ pc = "idle" /\ batch = {} /\ cur \in Refunds /\ inputs = {} /\ sentTx = 0
  /\ call = [h \in Operators |-> Idle]
  /\ faults = 0

Fault(kind) ==
  /\ kind \in FaultKinds /\ faults < MaxFaults
  /\ faults' = faults + 1

\* The worker is done with the current row, whatever came of it: an error is
\* logged and the next row is tried.
NextRow ==
  /\ pc' = "next"
  /\ inputs' = {} /\ sentTx' = 0
  /\ UNCHANGED <<batch, cur>>
------------------------------------------------------------------------------
(* The rows.                                                               *)
EnqueueRefund(r, gross) ==
  /\ status[r] = "none"
  /\ status' = [status EXCEPT ![r] = "pending"]
  /\ amount' = [amount EXCEPT ![r] = gross - EnqueueFee]
  /\ owed' = [owed EXCEPT ![r] = gross]
  /\ fee' = [fee EXCEPT ![r] = EnqueueFee]
  /\ born' = [born EXCEPT ![r] = 1 + Cardinality({q \in Refunds : status[q] # "none"})]
  /\ UNCHANGED <<txid, chain, worker, call, faults>>

\* queue::list: the newest rows of every status.
Page ==
  {r \in Refunds :
     /\ status[r] # "none"
     /\ Cardinality({q \in Refunds : born[q] > born[r]}) < PageSize}

Tick_xUnfiltered ==
  /\ pc = "idle"
  /\ batch' = Page
  /\ pc' = "next"
  /\ UNCHANGED <<rowVars, chain, cur, inputs, sentTx, call, faults>>

Tick_xFresh ==
  /\ pc = "idle"
  /\ batch' = {r \in Page : status[r] = "pending" /\ fee[r] = EnqueueFee}
  /\ pc' = "next"
  /\ UNCHANGED <<rowVars, chain, cur, inputs, sentTx, call, faults>>

\* A tick lists a page and keeps its pending rows.
Tick ==
  /\ pc = "idle"
  /\ batch' = {r \in Page : status[r] = "pending"}
  /\ pc' = "next"
  /\ UNCHANGED <<rowVars, chain, cur, inputs, sentTx, call, faults>>

TickEnds ==
  /\ pc = "next" /\ batch = {}
  /\ pc' = "idle"
  /\ UNCHANGED <<rowVars, chain, batch, cur, inputs, sentTx, call, faults>>

\* The rows are worked off newest first, by the copies the tick has read.
Take(r) ==
  /\ pc = "next" /\ r \in batch
  /\ \A q \in batch : born[q] <= born[r]
  /\ batch' = batch \ {r}
  /\ cur' = r
  /\ pc' = "fetch"
  /\ UNCHANGED <<rowVars, chain, inputs, sentTx, call, faults>>

\* Transparent: what the explorer lists at the address, without duplicates; an
\* address with nothing is an error.  Shield: the tip, if there is a prover.
Fetch ==
  LET seen == {c \in listed : c.at = SourceOf[cur]} IN
  /\ pc = "fetch"
  /\ IF Shielded(cur)
     THEN /\ pc' = IF HasProver THEN "refine" ELSE "next"
          /\ UNCHANGED inputs
     ELSE /\ inputs' = seen
          /\ pc' = IF seen = {} THEN "next" ELSE "refine"
  /\ UNCHANGED <<rowVars, chain, batch, cur, sentTx, call, faults>>

FetchFails ==
  /\ pc = "fetch" /\ ~(Shielded(cur) /\ ~HasProver)
  /\ Fault("fetch")
  /\ NextRow
  /\ UNCHANGED <<rowVars, chain, call>>

ExactFee_xOneInput(r, n) == IF Shielded(r) THEN ShieldFee(1) ELSE TransparentFee(1)

\* The worker's estimate: a shield refund is taken to spend one note, what is
\* paid from an address spends all the outputs there.
ExactFee(r, n) == IF Shielded(r) THEN ShieldFee(1) ELSE TransparentFee(n)

\* The fee that a transaction pays: its builder computes it from the inputs, for
\* shield from the notes that it selects itself.
BuilderFee(r, n) == IF Shielded(r) THEN ShieldFee(n) ELSE TransparentFee(n)

Refined_xFromNet(r, exact) == amount[r] - exact

\* "Keep the gross refund amount invariant and let the fee absorb the
\* recalculation."
Refined(r, exact) == amount[r] + fee[r] - exact

Refine_xMarksFirst ==
  LET exact == ExactFee(cur, Cardinality(inputs)) IN
  /\ pc = "refine"
  /\ amount[cur] + fee[cur] > exact
  /\ status' = [status EXCEPT ![cur] = "broadcast"]
  /\ amount' = [amount EXCEPT ![cur] = Refined(cur, exact)]
  /\ fee' = [fee EXCEPT ![cur] = exact]
  /\ pc' = "send"
  /\ UNCHANGED <<batch, cur, inputs, sentTx, txid, born, owed, chain, call, faults>>

\* A refund that the exact fee would eat is marked dead; else the row is
\* brought up to date.
Refine ==
  LET exact == ExactFee(cur, Cardinality(inputs)) IN
  /\ pc = "refine"
  /\ IF amount[cur] + fee[cur] <= exact
     THEN /\ status' = [status EXCEPT ![cur] = "dead"]
          /\ UNCHANGED <<amount, fee>>
          /\ NextRow
     ELSE /\ amount' = [amount EXCEPT ![cur] = Refined(cur, exact)]
          /\ fee' = [fee EXCEPT ![cur] = exact]
          /\ pc' = "send"
          /\ UNCHANGED <<status, batch, cur, inputs, sentTx>>
  /\ UNCHANGED <<txid, born, owed, chain, call, faults>>

\* The inputs of the transaction: every listed output of the address, or
\* notes of the wallet's choice.  They must cover the amount and the builder's
\* fee.
Spendable(r) ==
  {S \in IF Shielded(r) THEN SUBSET {c \in listed : c.at = SourceOf[r]} ELSE {inputs} :
     ValueOf(S) >= amount[r] + BuilderFee(r, Cardinality(S))}

\* The transaction, and what it leaves of its inputs.
Transaction(r, S) ==
  [refund |-> r, amount |-> amount[r], fee |-> BuilderFee(r, Cardinality(S)),
   spends |-> Cardinality(S)]
Change(r, S) ==
  [at |-> SourceOf[r], id |-> Len(payouts) + 1,
   value |-> ValueOf(S) - amount[r] - BuilderFee(r, Cardinality(S))]

Accept_xEmptyChange(r, S) ==
  /\ coins' = (coins \ S) \cup {Change(r, S)}
  /\ payouts' = Append(payouts, Transaction(r, S))

\* The network accepts a transaction whose inputs are unspent; the change goes
\* back to the source.
Accept(r, S) ==
  /\ coins' = (coins \ S) \cup (IF Change(r, S).value > 0 THEN {Change(r, S)} ELSE {})
  /\ payouts' = Append(payouts, Transaction(r, S))

\* Build, sign and broadcast.  The transaction may be accepted although the
\* answer is lost.
Send(S) ==
  /\ pc = "send" /\ S \in Spendable(cur) /\ S \subseteq coins
  /\ Accept(cur, S)
  /\ \/ /\ sentTx' = Len(payouts')
        /\ pc' = "mark"
        /\ UNCHANGED <<batch, cur, inputs, faults>>
     \/ Fault("reply") /\ NextRow
  /\ UNCHANGED <<rowVars, listed, late, call>>

\* It cannot be built, is refused, or does not reach the node.
SendFails ==
  /\ pc = "send"
  /\ \/ /\ \/ Spendable(cur) = {}
           \/ \E S \in Spendable(cur) : ~(S \subseteq coins)
        /\ UNCHANGED faults
     \/ Fault("send")
  /\ NextRow
  /\ UNCHANGED <<rowVars, chain, call>>

MarkBroadcast_xTxidOnly ==
  /\ pc = "mark"
  /\ txid' = [txid EXCEPT ![cur] = sentTx]
  /\ NextRow
  /\ UNCHANGED <<status, amount, fee, born, owed, chain, call, faults>>

\* queue::mark_broadcast, which looks at nothing but the id.
MarkBroadcast ==
  /\ pc = "mark"
  /\ status' = [status EXCEPT ![cur] = "broadcast"]
  /\ txid' = [txid EXCEPT ![cur] = sentTx]
  /\ NextRow
  /\ UNCHANGED <<amount, fee, born, owed, chain, call, faults>>

WriteFails ==
  /\ pc \in {"refine", "mark"}
  /\ Fault("write")
  /\ NextRow
  /\ UNCHANGED <<rowVars, chain, call>>

\* The daemon restarts with an idle worker; requests are lost too.
Crash ==
  /\ Fault("crash")
  /\ pc' = "idle" /\ batch' = {} /\ inputs' = {} /\ sentTx' = 0
  /\ call' = [h \in Operators |-> Idle]
  /\ UNCHANGED <<rowVars, chain, cur>>
------------------------------------------------------------------------------
(* POST /v1/refunds/:id/broadcast: the row is read, and written later.     *)
MarkRead(h, r) ==
  /\ call[h] = Idle /\ status[r] = "pending"
  /\ call' = [call EXCEPT ![h] = [at |-> "write", refund |-> r]]
  /\ UNCHANGED <<rowVars, chain, worker, faults>>

MarkWrite(h) ==
  /\ call[h].at = "write"
  /\ status' = [status EXCEPT ![call[h].refund] = "broadcast"]
  /\ txid' = [txid EXCEPT ![call[h].refund] = ByOperator]
  /\ call' = [call EXCEPT ![h] = Idle]
  /\ UNCHANGED <<amount, fee, born, owed, chain, worker, faults>>
------------------------------------------------------------------------------
(* The world.                                                              *)
LatePayment(c) ==
  /\ c \in late
  /\ late' = late \ {c}
  /\ coins' = coins \cup {c}
  /\ UNCHANGED <<rowVars, listed, payouts, worker, call, faults>>

ViewCatchesUp ==
  /\ listed # coins
  /\ listed' = coins
  /\ UNCHANGED <<rowVars, coins, late, payouts, worker, call, faults>>
------------------------------------------------------------------------------
WorkerStep ==
  \/ Tick \/ TickEnds
  \/ \E r \in Refunds : Take(r)
  \/ Fetch \/ FetchFails \/ Refine
  \/ \E S \in SUBSET listed : Send(S)
  \/ SendFails \/ MarkBroadcast \/ WriteFails

OperatorStep ==
  \E h \in Operators : MarkWrite(h) \/ \E r \in Refunds : MarkRead(h, r)

Next ==
  \/ WorkerStep \/ OperatorStep \/ Crash \/ ViewCatchesUp
  \/ \E r \in Refunds : \E gross \in Gross[r] : EnqueueRefund(r, gross)
  \/ \E c \in LateCoins : LatePayment(c)

Spec == Init /\ [][Next]_vars

\* The worker runs as long as the daemon does, and the explorer's index and
\* the wallet's scan get to the tip.
FairSpec == Spec /\ WF_vars(WorkerStep) /\ WF_vars(ViewCatchesUp)
------------------------------------------------------------------------------
\* The types of the state.
TypeOK ==
  /\ status \in [Refunds -> {"none", "pending", "broadcast", "dead"}]
  /\ amount \in [Refunds -> Nat] /\ fee \in [Refunds -> Nat]
  /\ txid \in [Refunds -> Nat \cup {ByOperator}]
  /\ born \in [Refunds -> Nat] /\ owed \in [Refunds -> Nat]
  /\ coins \subseteq Coin /\ listed \subseteq Coin /\ late \subseteq LateCoins
  /\ payouts \in Seq([refund : Refunds, amount : Nat, fee : Nat, spends : Nat])
  /\ pc \in {"idle", "next", "fetch", "refine", "send", "mark"}
  /\ batch \subseteq Refunds /\ cur \in Refunds
  /\ inputs \subseteq Coin /\ sentTx \in Nat
  /\ call \in [Operators -> {Idle} \cup [at : {"write"}, refund : Refunds]]
  /\ faults \in 0..MaxFaults

\* The customer is paid once, and once more at most for every crash, lost
\* answer or failed write: nothing else makes the worker pay a row again.
PaidOncePerFault ==
  \A r \in Refunds : Cardinality(PayoutsOf(r)) <= 1 + faults

\* A customer bears the fee of the outputs at the address, or of one note, and no
\* more: however often a row is retried, and whatever was listed when, the row
\* adds up to the gross amount it was enqueued with, and so does the transaction
\* with the fee its builder takes, but for the notes beyond the first, which the
\* merchant pays for without a trace in the row (src/refunds/worker.rs, "Keep
\* the gross refund amount invariant", and broadcast_shield).
BornByMerchant(tx) == IF Shielded(tx.refund) THEN SpendFee * (tx.spends - 1) ELSE 0
GrossIsKept ==
  /\ \A r \in Refunds : status[r] # "none" => amount[r] + fee[r] = owed[r]
  /\ \A k \in DOMAIN payouts :
       payouts[k].amount + payouts[k].fee
         = owed[payouts[k].refund] + BornByMerchant(payouts[k])

\* A row that the worker marked broadcast names a transaction of the network
\* that pays this refund the amount in the row.  A refund is given up as dust
\* only if nothing was paid, unless the answer to a payment was lost: then a
\* later look at the address may find more outputs, and with them a fee that
\* eats the rest.
RowsTellTheTruth ==
  \A r \in Refunds :
    /\ status[r] = "broadcast" /\ txid[r] # ByOperator =>
         txid[r] \in PayoutsOf(r) /\ payouts[txid[r]].amount = amount[r]
    /\ status[r] = "dead" => Cardinality(PayoutsOf(r)) <= faults

\* "Once the daemon (or a previous manual call) has recorded a broadcast, the
\* txid is immutable" (src/api/refunds.rs, mark_broadcast).
TxidIsImmutable ==
  [][\A r \in Refunds : status[r] = "broadcast" => txid'[r] = txid[r]]_vars

\* A refund whose source can pay it is paid and marked, or found to be dust.
\* Only a fault may leave a paid row pending, when its source is spent.
PendingIsSettled ==
  \A r \in Refunds :
    status[r] = "pending"
      ~> status[r] # "pending" \/ (faults > 0 /\ PayoutsOf(r) # {})
==============================================================================
