--------------------------- MODULE EndToEndProofs ---------------------------
(***************************************************************************)
(* What the sync loop and the refund worker guarantee together, for any    *)
(* invoices, outputs, amounts and failures of either: what is proved of    *)
(* each of them still holds, the change of a refund is never counted as a  *)
(* payment, nobody is paid back more than is owed, and the price of what   *)
(* was sold stays at its address.                                          *)
(*                                                                         *)
(* The loop takes only steps of Settlement, so all that SettlementProofs   *)
(* and SettlementChainProofs show carries over.  The worker takes only     *)
(* steps of RefundWorker, but its chain may take payments back: its        *)
(* invariants are shown again for that step.                               *)
(***************************************************************************)
EXTENDS EndToEnd, SettlementChainProofs, FiniteSetTheorems

\* What is proved of the worker, of the worker of this composition.
WP == INSTANCE RefundWorkerProofs WITH
  Refunds <- Invoices, SourceOf <- [i \in Invoices |-> i], Pools <- {},
  Gross <- [i \in Invoices |-> {g \in Nat : g > Fee}],
  BaseFee <- 0, InputFee <- Fee, ShieldBaseFee <- 0, SpendFee <- 0,
  InitialCoins <- {}, LateCoins <- {CoinOf[o] : o \in Payments},
  PageSize <- RefundPage, HasProver <- FALSE, Operators <- {},
  FaultKinds <- WorkerFaults, status <- row, amount <- rowAmount, fee <- rowFee, txid <- rowTxid,
  born <- rowBorn, owed <- rowOwed, pc <- at, cur <- taken, call <- marking,
  faults <- workerFaults

\* Worker and WP are instances of the same module with the same substitution:
\* what one defines the other does.
LEMMA SameValue == ASSUME NEW S PROVE Worker!ValueOf(S) = WP!ValueOf(S)
BY DEF Worker!ValueOf, WP!ValueOf, Worker!MapThenSumSet, WP!MapThenSumSet,
  Worker!MapThenFoldSet, WP!MapThenFoldSet

LEMMA SameFee ==
  \A r, S : Worker!BuilderFee(r, Worker!Cardinality(S)) = WP!BuilderFee(r, WP!Cardinality(S))
            /\ Worker!Cardinality(S) = WP!Cardinality(S)
BY DEF Worker!BuilderFee, WP!BuilderFee, Worker!Shielded, WP!Shielded, Worker!ShieldFee,
  WP!ShieldFee, Worker!TransparentFee, WP!TransparentFee, Worker!Cardinality, WP!Cardinality

\* The assumptions of RefundWorker hold of what it is instantiated with.
LEMMA WorkerAssumed ==
  /\ WP!FeesAssumption /\ WP!RowsAssumption /\ WP!CoinsAssumption /\ WP!WorkerAssumption
<1>1. WP!FeesAssumption
  BY AmountsAssumption DEF WP!FeesAssumption
<1>2. WP!RowsAssumption
  BY AmountsAssumption
  DEF WP!RowsAssumption, WP!Sources, WP!EnqueueFee, WP!TransparentFee
<1>3. WP!Sources = Invoices
  BY DEF WP!Sources
<1>4. \A o \in Payments : CoinOf[o] \in WP!Coin /\ CoinOf[o].id <= 0
  BY <1>3, PaymentsAssumption, SetsAssumption DEF WP!Coin, Payments
<1>5. IsFiniteSet({CoinOf[o] : o \in Payments})
  <2> DEFINE f == [o \in Payments |-> CoinOf[o]]
  <2>1. f \in Surjection(Payments, {CoinOf[o] : o \in Payments})
    BY DEF Surjection
  <2> HIDE DEF f
  <2> QED
    BY <2>1, FS_Surjection, PaymentsAssumption
<1>6. WP!CoinsAssumption
  BY <1>4, <1>5, FS_EmptySet DEF WP!CoinsAssumption, WP!IsFiniteSet, IsFiniteSet
<1>7. WP!WorkerAssumption
  BY BoundsAssumption, ChangeAssumption, WorkerAssumption
  DEF WP!WorkerAssumption, WP!Faults, Worker!Faults
<1> QED
  BY <1>1, <1>2, <1>6, <1>7

\* An initial state, a step of the worker, and a step that it meets with are the
\* same for both instances.
LEMMA WorkerInit == Worker!Init => WP!Init
BY DEF Worker!Init, WP!Init, Worker!Idle, WP!Idle

LEMMA WorkerSteps == Worker!WorkerStep => WP!WorkerStep
<1> SUFFICES ASSUME Worker!WorkerStep PROVE WP!WorkerStep
  OBVIOUS
<1>1. Worker!Tick => WP!Tick
  BY DEF Worker!Tick, WP!Tick, Worker!Page, WP!Page, Worker!Cardinality, WP!Cardinality,
         Worker!rowVars, WP!rowVars, Worker!chain, WP!chain, Worker!worker, WP!worker
<1>2. Worker!TickEnds => WP!TickEnds
  BY DEF Worker!TickEnds, WP!TickEnds, Worker!rowVars, WP!rowVars, Worker!chain, WP!chain,
         Worker!worker, WP!worker
<1>3. Worker!Fetch => WP!Fetch
  BY DEF Worker!Fetch, WP!Fetch, Worker!Shielded, WP!Shielded, Worker!rowVars, WP!rowVars,
         Worker!chain, WP!chain, Worker!worker, WP!worker
<1>4. Worker!FetchFails => WP!FetchFails
  BY DEF Worker!FetchFails, WP!FetchFails, Worker!Shielded, WP!Shielded, Worker!Fault, WP!Fault,
         Worker!NextRow, WP!NextRow, Worker!rowVars, WP!rowVars, Worker!chain, WP!chain,
         Worker!worker, WP!worker
<1>5. Worker!Refine => WP!Refine
  BY DEF Worker!Refine, WP!Refine, Worker!Cardinality, WP!Cardinality, Worker!ExactFee,
         WP!ExactFee, Worker!Refined, WP!Refined, Worker!Shielded, WP!Shielded,
         Worker!TransparentFee, WP!TransparentFee, Worker!ShieldFee, WP!ShieldFee,
         Worker!NextRow, WP!NextRow, Worker!rowVars,
         WP!rowVars, Worker!chain, WP!chain, Worker!worker, WP!worker
<1>6. Worker!MarkBroadcast => WP!MarkBroadcast
  BY DEF Worker!MarkBroadcast, WP!MarkBroadcast, Worker!NextRow, WP!NextRow, Worker!rowVars,
         WP!rowVars, Worker!chain, WP!chain, Worker!worker, WP!worker
<1>7. Worker!WriteFails => WP!WriteFails
  BY DEF Worker!WriteFails, WP!WriteFails, Worker!NextRow, WP!NextRow, Worker!Fault, WP!Fault,
         Worker!rowVars, WP!rowVars, Worker!chain, WP!chain, Worker!worker, WP!worker
<1>8. \A r \in Invoices : Worker!Take(r) => WP!Take(r)
  BY DEF Worker!Take, WP!Take, Worker!rowVars, WP!rowVars, Worker!chain, WP!chain,
         Worker!worker, WP!worker
<1>9. \A r : Worker!Spendable(r) = WP!Spendable(r)
  BY SameValue, SameFee DEF Worker!Spendable, WP!Spendable, Worker!Shielded, WP!Shielded
<1>10. Worker!SendFails => WP!SendFails
  BY <1>9
  DEF Worker!SendFails, WP!SendFails, Worker!Fault, WP!Fault, Worker!NextRow, WP!NextRow,
      Worker!rowVars, WP!rowVars, Worker!chain, WP!chain, Worker!worker, WP!worker
<1>11. \A r, S : Worker!Accept(r, S) => WP!Accept(r, S)
  BY SameValue, SameFee
  DEF Worker!Accept, WP!Accept, Worker!Change, WP!Change, Worker!Transaction, WP!Transaction
<1>12. \A S : Worker!Send(S) => WP!Send(S)
  BY <1>9, <1>11
  DEF Worker!Send, WP!Send, Worker!Fault, WP!Fault, Worker!NextRow, WP!NextRow, Worker!rowVars,
      WP!rowVars, Worker!chain, WP!chain, Worker!worker, WP!worker
<1> QED
  BY <1>1, <1>2, <1>3, <1>4, <1>5, <1>6, <1>7, <1>8, <1>10, <1>12
  DEF Worker!WorkerStep, WP!WorkerStep

LEMMA WorkerNeighbours ==
  /\ Worker!ViewCatchesUp \/ Worker!Crash => WP!Next
  /\ \A o \in Payments : Worker!LatePayment(CoinOf[o]) => WP!Next
  /\ \A i \in Invoices, g \in Nat : g > Fee /\ Worker!EnqueueRefund(i, g) => WP!Next
<1> USE DEF Worker!rowVars, WP!rowVars, Worker!chain, WP!chain, Worker!worker, WP!worker,
            Worker!Idle, WP!Idle, Worker!Fault, WP!Fault, Worker!EnqueueFee, WP!EnqueueFee,
            Worker!TransparentFee, WP!TransparentFee
<1>1. Worker!ViewCatchesUp \/ Worker!Crash => WP!Next
  BY DEF WP!Next, Worker!ViewCatchesUp, WP!ViewCatchesUp, Worker!Crash, WP!Crash
<1>2. ASSUME NEW o \in Payments, Worker!LatePayment(CoinOf[o]) PROVE WP!Next
  BY <1>2 DEF WP!Next, Worker!LatePayment, WP!LatePayment
<1>3. ASSUME NEW i \in Invoices, NEW g \in Nat, g > Fee, Worker!EnqueueRefund(i, g)
      PROVE  WP!Next
  <2>1. WP!EnqueueRefund(i, g)
    BY <1>3 DEF Worker!EnqueueRefund, WP!EnqueueRefund, Worker!Cardinality, WP!Cardinality
  <2> QED
    BY <1>3, <2>1 DEF WP!Next
<1> HIDE DEF WP!Next, Worker!EnqueueRefund, Worker!LatePayment
<1> QED
  BY ONLY <1>1, <1>2, <1>3

\* Every step of the composition is one of Settlement, or leaves the loop alone:
\* the change of a refund is a payment like any other to it.
LEMMA LoopSteps == EndToEndNext => [Next]_vars
<1> SUFFICES ASSUME EndToEndNext PROVE [Next]_vars
  OBVIOUS
<1> USE DEF Next, World, Failures
<1>1. CASE Loop
  BY <1>1 DEF Loop
<1>2. CASE Pays
  BY <1>2, ChangeAssumption DEF Pays, NewChange, Changes
<1>3. CASE Views \/ Request \/ Fails
  BY <1>3 DEF Views, Request, Fails
<1>4. CASE Advances
  BY <1>4 DEF Advances
<1>5. CASE \E o \in Outputs : Receives(o)
  BY <1>5 DEF Receives
<1>6. CASE \E S \in SUBSET Payments : TakesBack(S)
  BY <1>6 DEF TakesBack, Payments
<1> QED
  BY <1>1, <1>2, <1>3, <1>4, <1>5, <1>6 DEF EndToEndNext

\* Next to the worker the loop behaves as it does without: all theorems about
\* Settlement are theorems about the composition (src/sync/mod.rs, run_tick).
THEOREM ComposedSettles == EndToEndSpec => Spec
<1>1. EndToEndInit => Init
  BY DEF EndToEndInit
<1>2. [EndToEndNext]_allVars => [Next]_vars
  BY LoopSteps DEF allVars
<1> QED
  BY <1>1, <1>2, PTL DEF EndToEndSpec, Spec

\* So it keeps its promise of one outcome for each invoice
\* (src/matcher/confirms.rs, src/matcher/sweeper.rs).
THEOREM ComposedKeepsOutcome == EndToEndSpec => KeepsOutcome
BY ComposedSettles, OutcomeIsKept

\* A refund row is the first of its invoice, comes after the verdict, and is for
\* no more than the rows of payments sum up to, less the price of what was sold.
LEMMA NewRefund ==
  ASSUME Inv, Next, NEW i \in Invoices, refunds'[i] # refunds[i]
  PROVE  /\ refunds[i] = <<>> /\ verdict'[i] = verdict[i] /\ verdict[i] # "open"
         /\ Len(refunds'[i]) = 1 /\ refunds'[i][1].gross \in Nat /\ refunds'[i][1].gross > Fee
         /\ \A j \in Invoices : j # i => refunds'[j] = refunds[j]
         /\ refunds'[i][1].gross + (IF verdict[i] = "confirmed" THEN Due[i] ELSE 0) <= Paid(i)
         /\ UNCHANGED recorded
<1>1. (ConfirmsRefund \/ SweepRefund) /\ i = cur
  BY RefundSteps
<1>t. /\ TypeOK /\ DecidedOnce /\ Fee \in Nat /\ Due \in [Invoices -> Nat \ {0}]
      /\ PaidRows(i) \in SUBSET Outputs /\ ConfirmedRows(i) \in SUBSET PaidRows(i)
      /\ Total \in [SUBSET Outputs -> Nat]
  BY AmountsAssumption DEF Inv, TypeOK, PaidRows, ConfirmedRows
<1>2. refunds[i] = <<>> /\ UNCHANGED <<verdict, recorded>> /\ verdict[i] # "open"
  BY <1>1, <1>t DEF DecidedOnce, DecidingIsOrdered, ConfirmsRefund, SweepRefund, history, db
<1>3. ConfirmedPaid(i) <= Paid(i) /\ Paid(i) \in Nat /\ ConfirmedPaid(i) \in Nat
  <2>1. Total[ConfirmedRows(i)] <= Total[PaidRows(i)]
    BY <1>t, SumAssumption
  <2> QED
    BY <1>t, <2>1 DEF Paid, ConfirmedPaid
<1>4. PICK gross \in Nat, reason \in {"overpayment", "partial_expired"} :
        /\ EnqueueRefund(i, reason, gross)
        /\ gross + (IF verdict[i] = "confirmed" THEN Due[i] ELSE 0) <= Paid(i)
  <2>1. CASE ConfirmsRefund
    <3>1. verdict[i] = "confirmed"
      BY <1>1, <1>t, <2>1 DEF DecidedOnce, DecidingIsOrdered, ConfirmsRefund
    <3>2. EnqueueRefund(i, "overpayment", Excess(i)) /\ Excess(i) > 0
      BY <1>1, <2>1 DEF ConfirmsRefund
    <3> QED
      BY <1>3, <1>t, <3>1, <3>2 DEF Excess
  <2>2. CASE SweepRefund
    <3>1. verdict[i] = "expired"
      BY <1>1, <1>t, <2>2 DEF DecidedOnce, DecidingIsOrdered, SweepRefund
    <3>2. EnqueueRefund(i, "partial_expired", Paid(i))
      BY <1>1, <2>2 DEF SweepRefund
    <3> QED
      BY <1>3, <1>t, <3>1, <3>2
  <2> QED
    BY <1>1, <2>1, <2>2
<1>5. gross > Fee
  BY <1>4 DEF EnqueueRefund
<1>6. refunds'[i][1].gross = gross
  BY <1>2, <1>4, <1>5, <1>t, RefundWritten
<1>7. Len(refunds'[i]) = 1
  BY <1>2, <1>4, <1>5, <1>t DEF EnqueueRefund, TypeOK
<1>8. \A j \in Invoices : j # i => refunds'[j] = refunds[j]
  BY <1>2, <1>4, <1>t, FirstRefund
<1> QED
  BY <1>2, <1>4, <1>5, <1>6, <1>7, <1>8

\* Payment rows are never deleted, and a new one is of an output that was found.
LEMMA RowsGrow ==
  ASSUME [Next]_vars
  PROVE  /\ recorded \subseteq recorded'
         /\ \A o \in recorded' : o \in recorded \/ \E d \in found : d.output = o
<1> USE DEF db, world, wallet, sync, locals, timing, history, trail, bounds
<1>1. CASE Next /\ ~ChainStep
  BY <1>1, UnchainedSteps
<1>2. CASE (\E t \in {0, tip} : TickStart(t)) \/ (\E i \in Invoices : FetchUtxos(i)) \/ ShieldTick
  BY <1>2 DEF TickStart, FetchUtxos, ShieldTick
<1>3. CASE \E d \in Discovered : InsertUtxo(d) \/ InsertNote(d)
  BY <1>3 DEF InsertUtxo, InsertNote, Record
<1>4. CASE \/ \E o \in Outputs : ConfirmRow(o) \/ Pay(o) \/ Evict(o)
           \/ \E S \in SUBSET Outputs : NewBlock(S) \/ Reorg(S)
  BY <1>4 DEF ConfirmRow, Pay, Evict, NewBlock, Reorg
<1>5. CASE UNCHANGED vars
  BY <1>5 DEF vars
<1> QED
  BY <1>1, <1>2, <1>3, <1>4, <1>5 DEF ChainStep

\* A refund row is backed by the rows of payments, whatever the chain takes back.
RowsBacked ==
  \A i \in Invoices : refunds[i] # <<>> =>
    refunds[i][1].gross + (IF verdict[i] = "confirmed" THEN Due[i] ELSE 0) <= Paid(i)

\* This stays so: the rows of payments only grow, and the verdict stands.
LEMMA RowsBackedKept == Inv /\ Inv' /\ RowsBacked /\ [Next]_vars => RowsBacked'
<1> SUFFICES ASSUME Inv, Inv', RowsBacked, [Next]_vars, NEW i \in Invoices, refunds'[i] # <<>>
             PROVE  refunds'[i][1].gross + (IF verdict'[i] = "confirmed" THEN Due[i] ELSE 0)
                      <= Paid(i)'
  BY DEF RowsBacked
<1>1. /\ TypeOK /\ DecidedOnce /\ Due[i] \in Nat /\ Paid(i) \in Nat /\ Paid(i)' \in Nat
      /\ Paid(i) <= Paid(i)'
  <2>1. /\ PaidRows(i) \in SUBSET Outputs /\ PaidRows(i)' \in SUBSET Outputs
        /\ PaidRows(i) \subseteq PaidRows(i)'
    BY RowsGrow DEF Inv, TypeOK, PaidRows, OutputsOf
  <2> QED
    BY <2>1, AmountsAssumption, SumAssumption DEF Inv, Paid
<1>2. CASE refunds'[i] = refunds[i]
  <2>1. verdict[i] # "open"
    BY <1>1, <1>2 DEF DecidedOnce, UndecidedIsClean
  <2>2. verdict'[i] = verdict[i]
    BY <2>1, VerdictStep DEF vars, history
  <2>3. refunds[i][1].gross \in Nat
    <3>1. refunds[i] \in Seq(Refunds) /\ refunds[i] # <<>>
      BY <1>1, <1>2 DEF TypeOK
    <3>2. refunds[i][1] \in Refunds
      BY <3>1
    <3> QED
      BY <3>2 DEF Refunds
  <2> QED
    BY <1>1, <1>2, <2>2, <2>3 DEF RowsBacked
<1>3. CASE refunds'[i] # refunds[i]
  BY <1>1, <1>3, NewRefund DEF vars, db
<1> QED
  BY <1>2, <1>3

LEMMA RowsBackedAlways == Spec => []RowsBacked
<1>1. Init => RowsBacked
  BY DEF Init, RowsBacked
<1> QED
  BY <1>1, RowsBackedKept, Invariance, PTL DEF Spec
------------------------------------------------------------------------------
\* All that is known of the worker.
WorkerInv == WP!RefundInv /\ WP!CoinTypes /\ WP!MoneyInv

\* But for what the chain takes back, every step is one of the worker's
\* specification, or leaves the worker alone.
LEMMA WorkerMoves ==
  ASSUME Inv, [EndToEndNext]_allVars, ~\E S \in SUBSET Payments : TakesBack(S)
  PROVE  [WP!Next]_(WP!vars)
<1> USE DEF WP!vars, WP!rowVars, WP!chain, WP!worker, workerVars
<1>1. CASE Loop
  <2>1. CASE UNCHANGED workerVars
    BY <2>1
  <2>2. CASE \E i \in Invoices : Enqueues(i)
    <3>1. PICK i \in Invoices : Enqueues(i)
      BY <2>2
    <3>2. Next
      BY <1>1 DEF Loop, Next
    <3>3. LET g == refunds'[i][1].gross IN g \in Nat /\ g > Fee /\ Len(refunds'[i]) = 1
      BY <3>1, <3>2, NewRefund DEF Enqueues
    <3>4. Worker!EnqueueRefund(i, refunds'[i][1].gross)
      BY <3>1, <3>3 DEF Enqueues
    <3> QED
      BY <3>3, <3>4, WorkerNeighbours
  <2> QED
    BY <1>1, <2>1, <2>2 DEF Loop
<1>2. CASE Pays
  BY <1>2, WorkerSteps DEF Pays, WP!Next
<1>3. CASE Views
  BY <1>3, WorkerNeighbours DEF Views
<1>4. CASE Request \/ Advances
  BY <1>4 DEF Request, Advances
<1>5. CASE Fails
  BY <1>5, WorkerNeighbours DEF Fails
<1>6. CASE \E o \in Outputs : Receives(o)
  BY <1>6, WorkerNeighbours DEF Receives
<1>7. CASE UNCHANGED allVars
  BY <1>7 DEF allVars
<1> QED
  BY <1>1, <1>2, <1>3, <1>4, <1>5, <1>6, <1>7 DEF EndToEndNext

\* Its invariants hold of the composition.
LEMMA WorkerKept == Inv /\ WorkerInv /\ [EndToEndNext]_allVars => WorkerInv'
<1> SUFFICES ASSUME Inv, WorkerInv, [EndToEndNext]_allVars PROVE WorkerInv'
  OBVIOUS
<1>1. CASE \E S \in SUBSET Payments : TakesBack(S)
  <2>1. PICK S \in SUBSET Payments : TakesBack(S)
    BY <1>1
  <2>2. PICK gone : gone = {CoinOf[o] : o \in S \cap Payments}
    OBVIOUS
  <2>3. /\ gone \in SUBSET {CoinOf[o] : o \in Payments} /\ gone \subseteq coins
        /\ coins' = coins \ gone /\ late' = late \cup gone
        /\ UNCHANGED <<WP!rowVars, listed, payouts, WP!worker, marking, workerFaults>>
    BY <2>1, <2>2 DEF TakesBack, WP!rowVars, WP!worker
  <2> QED
    BY <2>3, WorkerAssumed, WP!MoneyTakenBack DEF WorkerInv
<1>2. CASE ~\E S \in SUBSET Payments : TakesBack(S)
  BY <1>2, WorkerMoves, WorkerAssumed, WP!RefundStep, WP!CoinStep, WP!MoneyStep DEF WorkerInv
<1> QED
  BY <1>1, <1>2

LEMMA WorkerAlways == EndToEndSpec => []WorkerInv
<1>1. EndToEndInit => WorkerInv
  BY WorkerInit, WorkerAssumed, WP!RefundInit, WP!CoinInit, WP!MoneyInit
  DEF EndToEndInit, WorkerInv
<1>2. EndToEndSpec => []Inv
  BY ComposedSettles, Invariance
<1> QED
  BY <1>1, <1>2, WorkerKept, PTL DEF EndToEndSpec
------------------------------------------------------------------------------
\* What the loop and the worker know of each other: a row of the worker is one
\* that the loop enqueued, at the same amount; a coin is late as long as
\* its output is not on the chain.
RowInv ==
  \A i \in Invoices : row[i] # "none" => refunds[i] # <<>> /\ rowOwed[i] = refunds[i][1].gross
LateInv ==
  \A o \in Payments : CoinOf[o] \in late <=> chainHeight[o] = Unseen

\* The change of a refund comes after the verdict, and nobody looks for it.
ChangeInv ==
  /\ \A o \in Changes : chainHeight[o] # Unseen => verdict[InvoiceOf[o]] # "open"
  /\ \A d \in found : d.output \notin Changes
  /\ Changes \cap recorded = {}

\* The worker adds no rows, and a row keeps its gross amount.
LEMMA RowSteps ==
  ASSUME WP!RefundInv, WP!WorkerStep
  PROVE  /\ UNCHANGED <<rowOwed, late>>
         /\ \A i \in Invoices : row'[i] # "none" => row[i] # "none"
<1> USE DEF WP!rowVars, WP!chain, WP!NextRow
<1>t. /\ row \in [Invoices -> {"none", "pending", "broadcast", "dead"}]
      /\ at \in {"refine", "mark"} => row[taken] # "none"
  BY DEF WP!RefundInv, WP!Types, WP!RowTypes, WP!PaymentInv, WP!Working, WP!Sent, WP!WorkerTypes
<1>1. CASE WP!Refine \/ WP!MarkBroadcast
  BY <1>1, <1>t DEF WP!Refine, WP!MarkBroadcast
<1>2. CASE \E S \in SUBSET listed : WP!Send(S)
  BY <1>2 DEF WP!Send, WP!Accept
<1>3. CASE WP!Tick \/ WP!TickEnds \/ (\E r \in Invoices : WP!Take(r)) \/ WP!Fetch \/ WP!FetchFails
  BY <1>3 DEF WP!Tick, WP!TickEnds, WP!Take, WP!Fetch, WP!FetchFails
<1>4. CASE WP!SendFails \/ WP!WriteFails
  BY <1>4 DEF WP!SendFails, WP!WriteFails
<1> QED
  BY <1>1, <1>2, <1>3, <1>4 DEF WP!WorkerStep

\* The rows of both tables agree.
LEMMA RowKept == Inv /\ WorkerInv /\ RowInv /\ [EndToEndNext]_allVars => RowInv'
<1> SUFFICES ASSUME Inv, WorkerInv, RowInv, [EndToEndNext]_allVars, NEW i \in Invoices,
                    row'[i] # "none"
             PROVE  refunds'[i] # <<>> /\ rowOwed'[i] = refunds'[i][1].gross
  BY DEF RowInv
<1>t. row \in [Invoices -> {"none", "pending", "broadcast", "dead"}]
  BY DEF WorkerInv, WP!RefundInv, WP!Types, WP!RowTypes
<1>o. rowOwed \in [Invoices -> Nat]
  BY DEF WorkerInv, WP!RefundInv, WP!Types, WP!RowTypes
<1>1. ASSUME row[i] # "none" PROVE UNCHANGED refunds[i]
  <2>1. refunds[i] # <<>>
    BY <1>1 DEF RowInv
  <2> QED
    BY <2>1, LoopSteps, NewRefund DEF vars, db, allVars
<1>2. ASSUME row[i] # "none", rowOwed'[i] = rowOwed[i]
      PROVE  refunds'[i] # <<>> /\ rowOwed'[i] = refunds'[i][1].gross
  BY <1>1, <1>2 DEF RowInv
<1>3. CASE UNCHANGED <<row, rowOwed>>
  BY <1>2, <1>3
<1>4. CASE Loop /\ ~UNCHANGED <<row, rowOwed>>
  <2>1. PICK j \in Invoices : Enqueues(j)
    BY <1>4 DEF Loop, workerVars
  <2>2. Next
    BY <1>4 DEF Loop, Next
  <2>3. LET g == refunds'[j][1].gross IN
          /\ Len(refunds'[j]) = 1
          /\ row' = [row EXCEPT ![j] = "pending"] /\ rowOwed' = [rowOwed EXCEPT ![j] = g]
    BY <2>1, <2>2, NewRefund DEF Enqueues, Worker!EnqueueRefund
  <2>4. CASE i = j
    BY <1>o, <2>3, <2>4
  <2>5. CASE i # j
    BY <1>2, <1>t, <1>o, <2>3, <2>5
  <2> QED
    BY <2>4, <2>5
<1>5. CASE Pays
  BY <1>2, <1>5, WorkerSteps, RowSteps DEF Pays, WorkerInv
<1>6. CASE EndToEndNext /\ ~Loop /\ ~Pays
  <2>1. UNCHANGED <<row, rowOwed>>
    BY <1>6
    DEF EndToEndNext, Views, Request, Fails, Receives, TakesBack, Advances, workerVars,
        Worker!ViewCatchesUp, Worker!Crash, Worker!LatePayment, Worker!rowVars
  <2> QED
    BY <1>3, <2>1
<1> QED
  BY <1>3, <1>4, <1>5, <1>6 DEF allVars, workerVars

\* The tasks of the daemon leave the chain alone.
LEMMA ChainStays == SyncStep \/ Api \/ Failures => UNCHANGED chainHeight
<1> USE DEF world
<1>1. Matching => UNCHANGED chainHeight
  BY DEF Matching, TickStart, WatchList, FetchUtxos, InsertUtxo, InsertNote, Record, ApplyRead,
         ApplyWrite, ApplyExpiry, ShieldTick
<1>2. Confirming => UNCHANGED chainHeight
  BY DEF Confirming, ConfirmsSelect, ConfirmRow, ConfirmsZeroConf, ConfirmsEvaluate,
         ConfirmsWrite,
         ConfirmsRefund, ConfirmsWebhook
<1>3. Sweeping => UNCHANGED chainHeight
  BY DEF Sweeping, SweepSelect, SweepWrite, SweepRefund, SweepWebhook, SaveWallet
<1>4. Api \/ Failures => UNCHANGED chainHeight
  BY DEF Api, Failures, Interruptions, Create, CancelRead, CancelStep, CancelWrite, CancelWebhook,
         CancelAborts, TickAborts, Crash, Restart
<1> QED
  BY <1>1, <1>2, <1>3, <1>4 DEF SyncStep

\* A block takes in outputs that were sent.
LEMMA BlocksSendNothing ==
  ASSUME TypeOK, Advances, NEW o \in Outputs
  PROVE  chainHeight'[o] = Unseen <=> chainHeight[o] = Unseen
<1>1. CASE TimePasses
  BY <1>1 DEF TimePasses
<1>2. CASE \E S \in SUBSET Outputs : NewBlock(S)
  <2>1. PICK S \in SUBSET Outputs : NewBlock(S)
    BY <1>2
  <2>2. tip' = tip + 1 /\ tip \in Nat
    BY <2>1, BoundsAssumption DEF NewBlock, TypeOK
  <2>3. tip' # Unseen /\ 0 # Unseen
    BY <2>2 DEF Unseen
  <2>4. /\ chainHeight'[o] = (IF o \in S THEN tip' ELSE chainHeight[o])
        /\ o \in S => chainHeight[o] = 0
    BY <2>1 DEF NewBlock
  <2> QED
    BY <2>3, <2>4
<1> QED
  BY <1>1, <1>2 DEF Advances

\* A coin that a step of the worker makes is the change of the row it works on.
LEMMA ChangeComes ==
  ASSUME WP!RefundInv, WP!WorkerStep, NEW c \in coins', c \notin coins
  PROVE  c.at \in Invoices /\ row[c.at] # "none"
<1> USE DEF WP!rowVars, WP!chain, WP!NextRow
<1>1. PICK S \in SUBSET listed : WP!Send(S)
  BY DEF WP!WorkerStep, WP!Tick, WP!TickEnds, WP!Take, WP!Fetch, WP!FetchFails, WP!Refine,
         WP!SendFails, WP!MarkBroadcast, WP!WriteFails
<1>2. c.at = taken /\ at = "send"
  <2>1. taken \in Invoices
    BY DEF WP!RefundInv, WP!Types, WP!WorkerTypes
  <2> QED
    BY <1>1, <2>1 DEF WP!Send, WP!Accept, WP!Change
<1> QED
  BY <1>2 DEF WP!RefundInv, WP!Types, WP!WorkerTypes, WP!PaymentInv, WP!Working

\* The loop's chain and the worker's agree on what was sent.
LEMMA LateKept == Inv /\ WorkerInv /\ LateInv /\ [EndToEndNext]_allVars => LateInv'
<1> SUFFICES ASSUME Inv, WorkerInv, LateInv, [EndToEndNext]_allVars PROVE LateInv'
  OBVIOUS
<1>t. /\ chainHeight \in [Outputs -> Heights \cup {Unseen}] /\ tip \in Nat
      /\ Payments \subseteq Outputs
      /\ Unseen \notin Nat
  BY BoundsAssumption DEF Inv, TypeOK, Payments, Unseen
<1>1. CASE UNCHANGED <<chainHeight, late>>
  BY <1>1 DEF LateInv
<1>2. CASE Loop \/ Views \/ Request \/ Fails
  <2>1. UNCHANGED chainHeight
    BY <1>2, ChainStays DEF Loop, Views, Request, Fails, vars, world, Failures
  <2>2. UNCHANGED late
    BY <1>2 DEF Loop, Enqueues, Views, Request, Fails, workerVars, Worker!EnqueueRefund,
      Worker!ViewCatchesUp, Worker!Crash, Worker!chain
  <2> QED
    BY <1>1, <2>1, <2>2
<1>3. CASE Pays
  <2>1. UNCHANGED late
    BY <1>3, WorkerSteps, RowSteps DEF Pays, WorkerInv
  <2>2. \A o \in Payments : chainHeight'[o] = chainHeight[o]
    BY <1>3, <1>t DEF Pays, NewChange, Pay, Payments, vars, world
  <2> QED
    BY <2>1, <2>2 DEF LateInv
<1>4. CASE \E o \in Outputs : Receives(o)
  <2>1. PICK o \in Payments : Receives(o)
    BY <1>4 DEF Receives
  <2>2. chainHeight' = [chainHeight EXCEPT ![o] = 0] /\ late' = late \ {CoinOf[o]}
    BY <2>1 DEF Receives, Pay, Worker!LatePayment
  <2>3. \A p \in Payments : CoinOf[p] = CoinOf[o] => p = o
    BY PaymentsAssumption
  <2> QED
    BY <1>t, <2>2, <2>3 DEF LateInv, Unseen
<1>5. CASE \E S \in SUBSET Payments : TakesBack(S)
  <2>1. PICK S \in SUBSET Payments : TakesBack(S)
    BY <1>5
  <2>2. late' = late \cup {CoinOf[o] : o \in S}
    BY <2>1 DEF TakesBack
  <2>3. \A p \in Payments : CoinOf[p] \in {CoinOf[o] : o \in S} <=> p \in S
    BY PaymentsAssumption
  <2>4. \A p \in Payments : chainHeight'[p] = Unseen <=> chainHeight[p] = Unseen \/ p \in S
    BY <2>1, <1>t DEF TakesBack, Reorg, Evict, Unseen
  <2> QED
    BY <2>2, <2>3, <2>4 DEF LateInv
<1>6. CASE Advances
  <2>1. UNCHANGED late
    BY <1>6 DEF Advances, workerVars
  <2>2. \A p \in Payments : chainHeight'[p] = Unseen <=> chainHeight[p] = Unseen
    BY <1>6, <1>t, BlocksSendNothing DEF Inv
  <2> QED
    BY <2>1, <2>2 DEF LateInv
<1> QED
  BY <1>1, <1>2, <1>3, <1>4, <1>5, <1>6 DEF EndToEndNext, allVars, vars, world, workerVars

\* A change output appears after the verdict, when the address is not polled any
\* more.
LEMMA ChangeKept ==
  Inv /\ QuietInv /\ WorkerInv /\ RowInv /\ ChangeInv /\ [EndToEndNext]_allVars => ChangeInv'
<1> SUFFICES ASSUME Inv, QuietInv, WorkerInv, RowInv, ChangeInv, [EndToEndNext]_allVars
             PROVE  ChangeInv'
  OBVIOUS
<1>0. [Next]_vars
  BY LoopSteps DEF allVars
<1>t. /\ chainHeight \in [Outputs -> Heights \cup {Unseen}] /\ tip \in Nat
      /\ Payments \subseteq Outputs
      /\ Changes \subseteq Outputs /\ InvoiceOf \in [Outputs -> Invoices]
      /\ Changes \cap Payments = {} /\ Unseen \notin Nat
  BY BoundsAssumption, ChangeAssumption, SetsAssumption
  DEF Inv, TypeOK, Payments, Changes, Unseen
<1>1. \A i \in Invoices : verdict[i] # "open" => verdict'[i] # "open"
  BY <1>0, VerdictStep DEF vars, history
<1>2. ASSUME NEW o \in Changes, chainHeight'[o] # Unseen PROVE verdict'[InvoiceOf[o]] # "open"
  <2>1. CASE chainHeight[o] # Unseen
    BY <1>1, <1>t, <2>1 DEF ChangeInv
  <2>2. CASE chainHeight[o] = Unseen
    <3>1. CASE Pays
      <4>1. o \in NewChange
        BY <3>1, <2>2, <1>2, <1>t DEF Pays, Pay, vars, world, NewChange
      <4>2. PICK c \in coins' \ coins : o \in ChangeOf[c.at]
        BY <4>1 DEF NewChange
      <4>3. c.at \in Invoices /\ row[c.at] # "none"
        BY <3>1, <4>2, WorkerSteps, ChangeComes DEF Pays, WorkerInv
      <4>4. InvoiceOf[o] = c.at
        BY <4>2, <4>3, ChangeAssumption DEF OutputsOf
      <4>5. verdict[c.at] # "open"
        BY <4>3 DEF RowInv, Inv, DecidedOnce, UndecidedIsClean
      <4> QED
        BY <1>1, <4>3, <4>4, <4>5
    <3>2. CASE ~Pays
      <4>1. CASE Loop \/ Views \/ Request \/ Fails \/ UNCHANGED allVars
        BY <4>1, ChainStays, <2>2, <1>2
        DEF Loop, Views, Request, Fails, vars, world, Failures, allVars
      <4>2. CASE Advances
        BY <1>t, <1>2, <2>2, <4>2, BlocksSendNothing DEF Inv
      <4>3. CASE \E p \in Outputs : Receives(p)
        BY <1>t, <1>2, <2>2, <4>3 DEF Receives, Pay
      <4>4. CASE \E S \in SUBSET Payments : TakesBack(S)
        BY <1>t, <1>2, <2>2, <4>4 DEF TakesBack, Reorg, Evict
      <4> QED
        BY <3>2, <4>1, <4>2, <4>3, <4>4 DEF EndToEndNext
    <3> QED
      BY <3>1, <3>2
  <2> QED
    BY <2>1, <2>2
<1>3. ASSUME NEW d \in found' PROVE d.output \notin Changes
  <2>1. CASE d \in found
    BY <2>1 DEF ChangeInv
  <2>2. CASE d \notin found
    <3>1. PollStep
      BY <1>0, <1>3, <2>2, UnquietSteps DEF vars, sync, locals
    <3>2. PICK i \in Invoices : FetchUtxos(i)
      BY <3>1, <1>3, <2>2, ChangeAssumption
      
      DEF PollStep, WatchList, ShieldTick, NewNotes, Transparent, ConfirmsWrite, SweepWrite,
          locals
    <3>3. /\ i \in watch /\ d.output \in OutputsOf(i) /\ chainHeight[d.output] # Unseen
      BY <3>2, <1>3, <2>2 DEF FetchUtxos
    <3> QED
      BY <3>3 DEF QuietInv, ChangeInv, OutputsOf
  <2> QED
    BY <2>1, <2>2
<1>4. Changes \cap recorded' = {}
  BY <1>0, RowsGrow DEF ChangeInv
<1> QED
  BY <1>2, <1>3, <1>4 DEF ChangeInv

LinkInv == RowInv /\ LateInv /\ ChangeInv

\* These hold in every behaviour.
LEMMA LinkAlways == EndToEndSpec => [](Inv /\ WorkerInv /\ LinkInv)
<1>1. EndToEndInit => LinkInv
  <2> SUFFICES ASSUME EndToEndInit PROVE RowInv /\ LateInv /\ ChangeInv
    BY DEF LinkInv
  <2>1. RowInv
    BY DEF EndToEndInit, Worker!Init, RowInv
  <2>2. LateInv
    BY DEF EndToEndInit, Init, Worker!Init, LateInv, Payments
  <2>3. ChangeInv
    BY ChangeAssumption DEF EndToEndInit, Init, ChangeInv, Changes
  <2> QED
    BY <2>1, <2>2, <2>3
<1>2. Inv /\ QuietInv /\ WorkerInv /\ LinkInv /\ [EndToEndNext]_allVars => LinkInv'
  BY RowKept, LateKept, ChangeKept DEF LinkInv
<1>3. EndToEndSpec => []Inv /\ []QuietInv /\ []WorkerInv
  BY ComposedSettles, Invariance, QuietInvariance, WorkerAlways
<1> QED
  BY <1>1, <1>2, <1>3, PTL DEF EndToEndSpec

\* The merchant's own change is never taken for a customer's payment
\* (src/sync/transparent.rs, watch_list; src/refunds/worker.rs, broadcast_one).
THEOREM ChangeIsNeverRecorded == EndToEndSpec => []ChangeIsNoPayment
<1>1. LinkInv => ChangeIsNoPayment
  BY DEF LinkInv, ChangeInv, ChangeIsNoPayment
<1> QED
  BY <1>1, LinkAlways, PTL
------------------------------------------------------------------------------
\* A set of at most one element is empty or a singleton.
LEMMA AtMostOne ==
  ASSUME NEW S, IsFiniteSet(S), Cardinality(S) <= 1, S # {}
  PROVE  \E k : S = {k}
<1>1. PICK k : k \in S
  OBVIOUS
<1>2. IsFiniteSet(S \ {k}) /\ Cardinality(S \ {k}) = Cardinality(S) - 1 /\ Cardinality(S) \in Nat
  BY <1>1, FS_RemoveElement, FS_CardinalityType
<1>3. Cardinality(S \ {k}) = 0
  BY <1>2, FS_CardinalityType
<1>4. S \ {k} = {}
  BY <1>2, <1>3, FS_EmptySet
<1> QED
  BY <1>1, <1>4

\* The payments of a refund are at the address of its invoice, and finitely many.
LEMMA PaidFromAddress ==
  ASSUME WP!RefundInv, NEW i \in Invoices
  PROVE  /\ WP!PaidFrom(i) = Worker!PayoutsOf(i) /\ IsFiniteSet(Worker!PayoutsOf(i))
         /\ Cardinality(Worker!PayoutsOf(i)) <= 1 + workerFaults
         /\ row[i] = "none" => Worker!PayoutsOf(i) = {}
         /\ \A k \in Worker!PayoutsOf(i) :
              /\ payouts[k].amount \in Nat /\ payouts[k].fee \in Nat
              /\ payouts[k].amount + payouts[k].fee = rowOwed[i]
<1>1. payouts \in Seq(WP!Payouts)
  BY DEF WP!RefundInv, WP!Types, WP!RowTypes
<1>2. \A k \in DOMAIN payouts : payouts[k] \in WP!Payouts
  BY <1>1
<1>3. Worker!PayoutsOf(i) = WP!PayoutsOf(i)
  BY DEF Worker!PayoutsOf, WP!PayoutsOf
<1>4. WP!PaidFrom(i) = WP!PayoutsOf(i)
  BY <1>2 DEF WP!PaidFrom, WP!PayoutsOf, WP!Payouts
<1>5. IsFiniteSet(WP!PayoutsOf(i))
  BY <1>1, WorkerAssumed, WP!PayoutsFinite DEF WP!IsFiniteSet, IsFiniteSet
<1>6. /\ Cardinality(WP!PayoutsOf(i)) <= 1 + workerFaults
      /\ row[i] = "none" => WP!PayoutsOf(i) = {}
  BY DEF WP!RefundInv, WP!PaymentInv, WP!Paid, WP!Cardinality, Cardinality
<1>7. ASSUME NEW k \in WP!PayoutsOf(i)
      PROVE  /\ payouts[k].amount \in Nat /\ payouts[k].fee \in Nat
             /\ payouts[k].amount + payouts[k].fee = rowOwed[i]
  <2>1. k \in DOMAIN payouts /\ payouts[k].refund = i /\ payouts[k] \in WP!Payouts
    BY <1>2, <1>7 DEF WP!PayoutsOf
  <2>2. WP!BornByMerchant(payouts[k]) = 0
    BY DEF WP!BornByMerchant, WP!Shielded
  <2>3. rowOwed[i] \in Nat
    BY DEF WP!RefundInv, WP!Types, WP!RowTypes
  <2>4. payouts[k].amount + payouts[k].fee = rowOwed[i] + 0
    BY <2>1, <2>2 DEF WP!RefundInv, WP!GrossInv
  <2> QED
    BY <2>1, <2>3, <2>4 DEF WP!Payouts
<1> QED
  BY <1>3, <1>4, <1>5, <1>6, <1>7

\* The value of a single coin.
LEMMA ValueOfOneCoin ==
  ASSUME NEW c, c.value \in Nat
  PROVE  WP!ValueOf({c}) = c.value
<1>1. WP!IsFiniteSet({}) /\ WP!IsFiniteSet({c})
  BY FS_EmptySet, FS_Singleton DEF WP!IsFiniteSet, IsFiniteSet
<1>2. WP!ValueOf({}) = 0
  BY WorkerAssumed, WP!ValueOfNone
<1>3. WP!ValueOf({} \cup {c}) = WP!ValueOf({}) + c.value
  BY <1>1, WorkerAssumed, WP!ValueOfMore
<1> QED
  BY <1>2, <1>3

\* While the customer was paid at most once, what that took from the address and
\* the price of what was sold are covered by the payments in the table.
LEMMA OnePayment ==
  ASSUME Inv, WorkerInv, LinkInv, RowsBacked, ConfirmedIsCovered, NEW i \in Invoices,
         Cardinality(Worker!PayoutsOf(i)) <= 1
  PROVE  /\ SentBack(i) \in Nat /\ WP!ValueOf(WP!Spent(i)) \in Nat /\ Paid(i) \in Nat
         /\ SentBack(i) <= WP!ValueOf(WP!Spent(i))
         /\ WP!ValueOf(WP!Spent(i)) + (IF verdict[i] = "confirmed" THEN Due[i] ELSE 0) <= Paid(i)
<1> DEFINE sent(k) == [value |-> payouts[k].amount, id |-> k]
<1>0. WP!RefundInv
  BY DEF WorkerInv
<1>1. /\ SentBack(i) = WP!ValueOf({sent(k) : k \in Worker!PayoutsOf(i)})
      /\ WP!Spent(i) = {WP!Bill(k) : k \in Worker!PayoutsOf(i)}
  BY <1>0, SameValue, PaidFromAddress DEF SentBack, WP!Spent
<1>t. /\ Paid(i) \in Nat /\ Due[i] \in Nat
      /\ verdict[i] = "confirmed" => Due[i] <= Paid(i)
  <2>1. /\ PaidRows(i) \in SUBSET Outputs /\ ConfirmedRows(i) \in SUBSET Outputs
        /\ ConfirmedRows(i) \subseteq PaidRows(i)
    BY DEF Inv, TypeOK, PaidRows, ConfirmedRows
  <2>2. /\ Total[PaidRows(i)] \in Nat /\ Total[ConfirmedRows(i)] \in Nat
        /\ Total[ConfirmedRows(i)] <= Total[PaidRows(i)] /\ Due[i] \in Nat
    BY <2>1, AmountsAssumption, SumAssumption
  <2> QED
    BY <2>2 DEF Paid, ConfirmedPaid, ConfirmedIsCovered
<1>2. CASE Worker!PayoutsOf(i) = {}
  <2>1. {sent(k) : k \in Worker!PayoutsOf(i)} = {} /\ WP!Spent(i) = {}
    BY <1>1, <1>2
  <2>2. SentBack(i) = 0 /\ WP!ValueOf(WP!Spent(i)) = 0
    BY <1>1, <2>1, WorkerAssumed, WP!ValueOfNone
  <2> QED
    BY <1>t, <2>2
<1>3. CASE Worker!PayoutsOf(i) # {}
  <2>1. PICK k : Worker!PayoutsOf(i) = {k}
    BY <1>0, <1>3, AtMostOne, PaidFromAddress
  <2>2. /\ payouts[k].amount \in Nat /\ payouts[k].fee \in Nat
        /\ payouts[k].amount + payouts[k].fee = rowOwed[i] /\ row[i] # "none"
    BY <1>0, <1>3, <2>1, PaidFromAddress
  <2>3. {sent(l) : l \in Worker!PayoutsOf(i)} = {sent(k)} /\ WP!Spent(i) = {WP!Bill(k)}
    BY <1>1, <2>1
  <2>4. sent(k).value = payouts[k].amount
    OBVIOUS
  <2>5. WP!Bill(k).value = payouts[k].amount + payouts[k].fee
    BY DEF WP!Bill
  <2> HIDE DEF sent
  <2>6. SentBack(i) = payouts[k].amount
    BY <1>1, <2>2, <2>3, <2>4, ValueOfOneCoin
  <2>7. WP!ValueOf(WP!Spent(i)) = payouts[k].amount + payouts[k].fee
    BY <2>2, <2>3, <2>5, ValueOfOneCoin
  <2>8. rowOwed[i] + (IF verdict[i] = "confirmed" THEN Due[i] ELSE 0) <= Paid(i)
    BY <2>2 DEF LinkInv, RowInv, RowsBacked
  <2> QED
    BY <1>t, <2>2, <2>6, <2>7, <2>8
<1> QED
  BY <1>2, <1>3

\* Nothing is paid back before the invoice is decided, nor twice without a
\* failure of the worker, nor more than what was received less the price of what
\* was sold (src/refunds/mod.rs, enqueue; src/refunds/worker.rs, broadcast_one).
THEOREM NobodyIsPaidTwice == EndToEndSpec => []NeverBoth
<1>1. ASSUME Inv, WorkerInv, LinkInv, RowsBacked, ConfirmedIsCovered PROVE NeverBoth
  <2> SUFFICES ASSUME NEW i \in Invoices
               PROVE  /\ SentBack(i) > 0 => verdict[i] # "open"
                      /\ Cardinality(Worker!PayoutsOf(i)) <= 1 + workerFaults
                      /\ workerFaults = 0 =>
                           SentBack(i) + (IF verdict[i] = "confirmed" THEN Due[i] ELSE 0)
                             <= Total[PaidRows(i)]
    BY DEF NeverBoth
  <2>0. WP!RefundInv
    BY <1>1 DEF WorkerInv
  <2>1. SentBack(i) > 0 => verdict[i] # "open"
    <3>1. CASE Worker!PayoutsOf(i) = {}
      <4>1. {[value |-> payouts[k].amount, id |-> k] : k \in Worker!PayoutsOf(i)} = {}
        BY <3>1
      <4>2. SentBack(i) = 0
        BY <4>1, SameValue, WorkerAssumed, WP!ValueOfNone DEF SentBack
      <4> QED
        BY <4>2
    <3>2. CASE Worker!PayoutsOf(i) # {}
      BY <1>1, <2>0, <3>2, PaidFromAddress
      DEF LinkInv, RowInv, Inv, DecidedOnce, UndecidedIsClean
    <3> QED
      BY <3>1, <3>2
  <2>2. Cardinality(Worker!PayoutsOf(i)) <= 1 + workerFaults
    BY <2>0, PaidFromAddress
  <2>3. ASSUME workerFaults = 0
        PROVE  SentBack(i) + (IF verdict[i] = "confirmed" THEN Due[i] ELSE 0)
                 <= Total[PaidRows(i)]
    <3>1. Cardinality(Worker!PayoutsOf(i)) <= 1
      BY <2>2, <2>3
    <3>2. Due[i] \in Nat
      BY AmountsAssumption
    <3> QED
      BY <1>1, <3>1, <3>2, OnePayment DEF Paid
  <2> QED
    BY <2>1, <2>2, <2>3
<1> QED
  BY <1>1, LinkAlways, ComposedSettles, RowsBackedAlways, ConfirmsOnlyPaid, PTL
------------------------------------------------------------------------------
(* The worker's sums are those of the table, as long as the coins of the     *)
(* payments are.                                                            *)
CoinsOf(T) == {CoinOf[o] : o \in T}

\* The coins of payments are worth what the table sums up.
LEMMA PaymentsAddUp == ASSUME NEW T \in SUBSET Payments PROVE WP!ValueOf(CoinsOf(T)) = Total[T]
<1> DEFINE Bad == {U \in SUBSET Payments : WP!ValueOf(CoinsOf(U)) # Total[U]}
<1> SUFFICES ASSUME Bad # {} PROVE FALSE
  OBVIOUS
<1>1. PICK U \in Bad : \A V \in Bad : V \subseteq U => V = U
  <2>1. Bad \in SUBSET (SUBSET Payments) /\ WP!IsFiniteSet(Payments)
    BY PaymentsAssumption DEF WP!IsFiniteSet, IsFiniteSet
  <2> HIDE DEF Bad
  <2> QED
    BY <2>1, WorkerAssumed, WP!SmallestOne
<1>2. U \in SUBSET Payments /\ WP!ValueOf(CoinsOf(U)) # Total[U]
  BY <1>1
<1>3. U # {}
  <2>1. CoinsOf({}) = {} /\ WP!ValueOf({}) = 0
    BY WorkerAssumed, WP!ValueOfNone DEF CoinsOf
  <2> QED
    BY <1>2, <2>1, SumAssumption
<1>4. PICK p \in U : TRUE
  BY <1>3
<1>5. PICK V : V = U \ {p}
  OBVIOUS
<1>6. WP!ValueOf(CoinsOf(V)) = Total[V]
  BY <1>1, <1>2, <1>4, <1>5
<1> HIDE DEF Bad
<1>7. p \in Payments /\ V \in SUBSET (Payments \ {p}) /\ V \cup {p} = U
  BY <1>2, <1>4, <1>5
<1>8. /\ CoinsOf(U) = CoinsOf(V) \cup {CoinOf[p]} /\ CoinOf[p] \notin CoinsOf(V)
      /\ CoinOf[p].value \in Nat /\ \A c \in CoinsOf(V) : c.value \in Nat
  BY <1>7, PaymentsAssumption DEF CoinsOf
<1>9. WP!IsFiniteSet(CoinsOf(V))
  <2>1. IsFiniteSet(CoinsOf(Payments))
    BY WorkerAssumed DEF WP!CoinsAssumption, CoinsOf, WP!IsFiniteSet, IsFiniteSet
  <2>2. CoinsOf(V) \in SUBSET CoinsOf(Payments)
    BY <1>7 DEF CoinsOf
  <2>3. IsFiniteSet(CoinsOf(V))
    BY <2>1, <2>2, FS_Subset
  <2> QED
    BY <2>3 DEF WP!IsFiniteSet, IsFiniteSet
<1>10. WP!ValueOf(CoinsOf(V) \cup {CoinOf[p]}) = WP!ValueOf(CoinsOf(V)) + CoinOf[p].value
  BY <1>8, <1>9, WorkerAssumed, WP!ValueOfMore
<1>11. Total[V \cup {p}] = Total[V] + CoinOf[p].value
  BY <1>7, PaymentsAssumption
<1> QED
  BY <1>2, <1>6, <1>7, <1>8, <1>10, <1>11

\* What came to an address is worth what its payments on the chain sum up to.
SeenPayments(i) == {o \in Payments \cap OutputsOf(i) : chainHeight[o] # Unseen}

LEMMA CameToAddress ==
  ASSUME LateInv, NEW i \in Invoices
  PROVE  WP!ValueOf(WP!At(WP!Came, i)) = Total[SeenPayments(i)]
<1>1. SeenPayments(i) \in SUBSET Payments
  BY DEF SeenPayments
<1>2. \A o \in Payments : CoinOf[o].at = InvoiceOf[o]
  BY PaymentsAssumption
<1>3. WP!At(WP!Came, i) = CoinsOf(SeenPayments(i))
  BY <1>2 DEF WP!At, WP!Came, CoinsOf, SeenPayments, LateInv, OutputsOf, Payments
<1> QED
  BY <1>1, <1>3, PaymentsAddUp

\* Unless a failure made the worker pay twice, or the chain took payments back,
\* the address of a confirmed invoice holds its price (src/refunds/worker.rs,
\* broadcast_one: the change to the address).
THEOREM KeepsPrice == EndToEndSpec => []PriceIsKept
<1>1. ASSUME Inv, ChainInv, WorkerInv, LinkInv, RowsBacked, ConfirmedIsCovered PROVE PriceIsKept
  <2> SUFFICES ASSUME NEW i \in Invoices, verdict[i] = "confirmed", reorgs = 0,
                      Cardinality(Worker!PayoutsOf(i)) <= 1
               PROVE  AtAddress(i) >= Due[i]
    BY DEF PriceIsKept
  <2> USE <1>1
  <2>1. /\ Paid(i) \in Nat /\ WP!ValueOf(WP!Spent(i)) \in Nat
        /\ WP!ValueOf(WP!Spent(i)) + Due[i] <= Paid(i)
    BY OnePayment
  <2>2. Paid(i) <= Total[SeenPayments(i)] /\ Total[SeenPayments(i)] \in Nat
    <3>1. PaidRows(i) \in SUBSET Outputs /\ SeenPayments(i) \in SUBSET Outputs
      BY DEF PaidRows, SeenPayments, OutputsOf, Payments
    <3>2. PaidRows(i) \subseteq SeenPayments(i)
      BY DEF PaidRows, SeenPayments, Payments, LinkInv, ChangeInv, ChainInv, Seen, OutputsOf
    <3> QED
      BY <3>1, <3>2, AmountsAssumption, SumAssumption DEF Paid
  <2>3. WP!ValueOf(WP!At(coins, i)) + WP!ValueOf(WP!Spent(i)) = Total[SeenPayments(i)]
    BY CameToAddress DEF LinkInv, WorkerInv, WP!MoneyInv, WP!Sources
  <2>4. AtAddress(i) = WP!ValueOf(WP!At(coins, i))
    BY SameValue DEF AtAddress, WP!At
  <2>5. WP!ValueOf(WP!At(coins, i)) \in Nat /\ Due[i] \in Nat
    BY WorkerAssumed, WP!MoneyTypes, AmountsAssumption DEF WorkerInv
  <2> QED
    BY <2>1, <2>2, <2>3, <2>4, <2>5
<1> QED
  BY <1>1, LinkAlways, ComposedSettles, ChainInvariance, RowsBackedAlways, ConfirmsOnlyPaid, PTL

\* The worker keeps its own promises next to the loop, on a chain that takes
\* payments back (src/refunds/worker.rs, broadcast_one).
THEOREM WorkerIsUndisturbed ==
  EndToEndSpec => [](/\ WP!TypeOK /\ WP!PaidOncePerFault /\ WP!GrossIsKept
                     /\ WP!RowsTellTheTruth)
<1>1. WorkerInv => /\ WP!TypeOK /\ WP!PaidOncePerFault /\ WP!GrossIsKept
                   /\ WP!RowsTellTheTruth
  BY WorkerAssumed, WP!RefundInvShows, WP!CoinTypesShow DEF WorkerInv
<1> QED
  BY <1>1, WorkerAlways, PTL
=============================================================================
