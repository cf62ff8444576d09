------------------------ MODULE SettlementChainProofs ------------------------
(***************************************************************************)
(* What the tables of Settlement say of the chain, for any invoices,       *)
(* outputs, amounts and thresholds: while nothing is taken back, the rows  *)
(* agree with the chain, what is confirmed is on it, and what a refund     *)
(* promises has been received.  What the sweeper expires is due, and what  *)
(* came in time for it is in the table; a note that was scanned is in the  *)
(* table too; what was decided is completed; and without a cancel the      *)
(* statuses follow the documented lifecycle.                               *)
(***************************************************************************)
EXTENDS SettlementProofs
------------------------------------------------------------------------------
(* ConfirmedIsOnChain is not inductive: the confirmations of a row are     *)
(* computed from its height in the table and a tip that was read earlier.  *)
(* ChainInv says what both have to do with the chain.                      *)
Seen(o, h) == chainHeight[o] # Unseen /\ h \in {0, chainHeight[o]}

ChainInv ==
  reorgs = 0 =>
    /\ chainTip <= tip
    /\ \A o \in Outputs : chainHeight[o] <= tip
    /\ \A d \in found : Seen(d.output, d.height)
    /\ \A o \in recorded : Seen(o, height[o]) /\ confs[o] <= Depth(height[o], tip)

\* The steps that touch what ChainInv speaks of.
ChainStep ==
  \/ \E t \in {0, tip} : TickStart(t)
  \/ \E i \in Invoices : FetchUtxos(i)
  \/ \E d \in Discovered : InsertUtxo(d) \/ InsertNote(d)
  \/ ShieldTick
  \/ \E o \in Outputs : ConfirmRow(o) \/ Pay(o) \/ Evict(o)
  \/ \E S \in SUBSET Outputs : NewBlock(S) \/ Reorg(S)

\* The others leave the rows and the chain alone, or end the tick.
LEMMA UnchainedSteps ==
  ASSUME Next, ~ChainStep
  PROVE  /\ UNCHANGED <<recorded, height, confs, chainHeight, tip, reorgs>>
         /\ found' \in {found, {}} /\ chainTip' \in {chainTip, 0}
<1> USE DEF db, world, wallet, sync, locals, timing, trail, history, bounds
<1>1. CASE Matching
  BY <1>1 DEF ChainStep, Matching, WatchList, ApplyRead, ApplyWrite, ApplyExpiry
<1>2. CASE Confirming
  BY <1>2 DEF ChainStep, Confirming, ConfirmsSelect, ConfirmsZeroConf, ConfirmsEvaluate,
     ConfirmsWrite, ConfirmsRefund, ConfirmsWebhook
<1>3. CASE Sweeping
  BY <1>3 DEF Sweeping, SweepSelect, SweepWrite, SweepRefund, SweepWebhook, SaveWallet, EndTick
<1>4. CASE Api
  BY <1>4 DEF Api, CancelStep, Create, CancelRead, CancelWrite, CancelWebhook
<1>5. CASE Failures
  BY <1>5 DEF Failures, Interruptions, CancelAborts, TickAborts, Crash, Restart, EndTick, Fault
<1>6. CASE World
  BY <1>6 DEF ChainStep, World, TimePasses
<1> QED
  BY <1>1, <1>2, <1>3, <1>4, <1>5, <1>6 DEF Next, SyncStep

\* A row gets no shallower while the chain grows.
LEMMA DepthGrows ==
  ASSUME NEW h \in Nat, NEW t \in Nat, NEW u \in Nat, t <= u
  PROVE  Depth(h, t) <= Depth(h, u) /\ Depth(h, t) \in Nat /\ Depth(h, u) \in Nat
BY DEF Depth

\* What the rows, the chain and the heights are.
LEMMA ChainTypes ==
  ASSUME TypeOK
  PROVE  /\ tip \in Nat \ {0} /\ chainTip \in Nat /\ reorgs \in Nat /\ lastBlock \in Nat \ {0}
         /\ recorded \subseteq Outputs /\ height \in [Outputs -> Nat] /\ confs \in [Outputs -> Nat]
         /\ chainHeight \in [Outputs -> Nat \cup {Unseen}] /\ Unseen \in Int /\ Unseen \notin Nat
         /\ found \subseteq Discovered
         /\ \A d \in Discovered : d.output \in Outputs /\ d.height \in Nat
BY BoundsAssumption DEF TypeOK, Heights, Discovered, Unseen

\* The rows agree with a chain from which nothing was taken back.
LEMMA ChainKept == TypeOK /\ ChainInv /\ [Next]_vars => ChainInv'
<1> SUFFICES ASSUME TypeOK, ChainInv, [Next]_vars, reorgs' = 0 PROVE ChainInv'
  BY DEF ChainInv
<1> USE ChainTypes DEF ChainInv, Seen
<1>1. CASE \E t \in {0, tip} : TickStart(t)
  <2>1. /\ reorgs = 0 /\ chainTip' \in {0, tip}
        /\ UNCHANGED <<recorded, height, confs, chainHeight, tip, found>>
    BY <1>1 DEF TickStart, Fault, db, world, bounds
  <2> QED
    BY <2>1
<1>2. ASSUME NEW i \in Invoices, FetchUtxos(i) PROVE ChainInv'
  <2>1. /\ reorgs = 0
        /\ UNCHANGED <<recorded, height, confs, chainHeight, tip, chainTip>>
    BY <1>2 DEF FetchUtxos, Fault, db, world, bounds
  <2>2. \A d \in found' :
          \/ d \in found
          \/ d.height = chainHeight[d.output] /\ chainHeight[d.output] # Unseen
    <3> DEFINE seenNow == {o \in OutputsOf(i) : Transparent(o) /\ chainHeight[o] # Unseen}
               news == {[output |-> o, height |-> chainHeight[o]] : o \in seenNow}
    <3>1. found' = found \cup news \/ found' = found
      BY <1>2 DEF FetchUtxos
    <3>2. \A d \in news : d.height = chainHeight[d.output] /\ chainHeight[d.output] # Unseen
      OBVIOUS
    <3> QED
      BY <3>1, <3>2
  <2> QED
    BY <2>1, <2>2
<1>3. ASSUME NEW d \in Discovered, Record(d) PROVE ChainInv'
  <2>1. /\ reorgs = 0 /\ UNCHANGED <<chainHeight, tip, chainTip>> /\ found' \subseteq found
        /\ d \in found
    BY <1>3 DEF Record, world, bounds
  <2>2. CASE d.output \in recorded
    BY <1>3, <2>1, <2>2 DEF Record
  <2>3. CASE d.output \notin recorded
    <3>1. /\ recorded' = recorded \cup {d.output}
          /\ height' = [height EXCEPT ![d.output] = d.height]
          /\ confs' = [confs EXCEPT ![d.output] = 0]
      BY <1>3, <2>3 DEF Record
    <3>2. \A o \in recorded : height'[o] = height[o] /\ confs'[o] = confs[o]
      BY <2>3, <3>1
    <3>3. height'[d.output] = d.height /\ confs'[d.output] = 0
      BY <3>1
    <3>4. Depth(d.height, tip) \in Nat
      BY DepthType
    <3> QED
      BY <2>1, <3>1, <3>2, <3>3, <3>4
  <2> QED
    BY <2>2, <2>3
<1>4. CASE ShieldTick
  <2>1. /\ reorgs = 0 /\ UNCHANGED <<recorded, height, confs, chainHeight, tip, chainTip>>
        /\ found' = {[output |-> o, height |-> chainHeight[o]] : o \in NewNotes}
    BY <1>4 DEF ShieldTick, db, world, bounds
  <2>2. \A o \in NewNotes : chainHeight[o] # Unseen
    BY DEF NewNotes, Unseen
  <2> QED
    BY <2>1, <2>2
<1>5. ASSUME NEW o \in Outputs, ConfirmRow(o) PROVE ChainInv'
  <2>1. /\ reorgs = 0 /\ UNCHANGED <<recorded, height, chainHeight, tip, chainTip, found>>
        /\ confs' = [confs EXCEPT ![o] = Depth(height[o], chainTip)]
    BY <1>5 DEF ConfirmRow, world, bounds
  <2>2. Depth(height[o], chainTip) <= Depth(height[o], tip)
    BY <2>1, DepthGrows
  <2> QED
    BY <2>1, <2>2
<1>6. ASSUME NEW o \in Outputs, Pay(o) PROVE ChainInv'
  <2>1. /\ reorgs = 0 /\ UNCHANGED <<recorded, height, confs, tip, chainTip, found>>
        /\ chainHeight[o] = Unseen /\ chainHeight' = [chainHeight EXCEPT ![o] = 0]
    BY <1>6 DEF Pay, db, sync, locals, bounds
  <2> QED
    BY <2>1
<1>7. ASSUME NEW S \in SUBSET Outputs, NewBlock(S) PROVE ChainInv'
  <2>1. /\ reorgs = 0 /\ UNCHANGED <<recorded, height, confs, chainTip, found>>
        /\ tip' = tip + 1 /\ \A o \in S : chainHeight[o] = 0
        /\ chainHeight' = [o \in Outputs |-> IF o \in S THEN tip' ELSE chainHeight[o]]
    BY <1>7 DEF NewBlock, db, sync, locals, bounds
  <2>2. \A o \in recorded : /\ Depth(height[o], tip) <= Depth(height[o], tip')
                            /\ Depth(height[o], tip) \in Nat /\ Depth(height[o], tip') \in Nat
    <3>1. tip \in Nat /\ tip' \in Nat /\ tip <= tip' /\ \A o \in recorded : height[o] \in Nat
      BY <2>1
    <3> QED
      BY <3>1, DepthGrows
  <2>3. \A o \in Outputs, h \in Nat : Seen(o, h) => Seen(o, h)'
    BY <2>1
  <2>4. \A o \in Outputs : chainHeight'[o] <= tip'
    BY <2>1
  <2>5. \A o \in recorded : confs[o] <= Depth(height[o], tip')
    BY <2>1, <2>2
  <2> QED
    BY <2>1, <2>3, <2>4, <2>5
<1>8. CASE (\E o \in Outputs : Evict(o)) \/ \E S \in SUBSET Outputs : Reorg(S)
  BY <1>8 DEF Evict, Reorg, Fault
<1>9. CASE (Next /\ ~ChainStep) \/ UNCHANGED vars
  <2>1. /\ UNCHANGED <<recorded, height, confs, chainHeight, tip, reorgs>>
        /\ found' \in {found, {}} /\ chainTip' \in {chainTip, 0}
    BY <1>9, UnchainedSteps DEF vars, db, world, sync, locals, bounds
  <2> QED
    BY <2>1
<1> QED
  BY <1>1, <1>2, <1>3, <1>4, <1>5, <1>6, <1>7, <1>8, <1>9 DEF ChainStep, InsertUtxo, InsertNote

\* In every behaviour the rows agree with the chain until it takes something back.
LEMMA ChainInvariance == Spec => []ChainInv
<1>1. Init => ChainInv
  BY DEF Init, ChainInv, Unseen
<1>2. Inv => TypeOK
  BY DEF Inv
<1> QED
  BY <1>1, <1>2, ChainKept, Invariance, PTL DEF Spec

\* Rows at the threshold are outputs at the threshold, and all rows are outputs.
LEMMA RowsAreOnChain ==
  ASSUME TypeOK, ChainInv, reorgs = 0, NEW i \in Invoices
  PROVE  /\ ConfirmedRows(i) \subseteq OnChain(i, Threshold)
         /\ ConfirmedRows(i) \subseteq OnChain(i, 0) /\ PaidRows(i) \subseteq OnChain(i, 0)
         /\ OnChain(i, 0) \in SUBSET Outputs /\ OnChain(i, Threshold) \in SUBSET Outputs
<1> USE ChainTypes DEF ChainInv, Seen
<1>1. ASSUME NEW o \in ConfirmedRows(i) PROVE o \in OnChain(i, Threshold)
  <2>1. /\ o \in Outputs /\ o \in recorded /\ o \in OutputsOf(i) /\ confs[o] >= Threshold
        /\ chainHeight[o] # Unseen /\ height[o] \in {0, chainHeight[o]} /\ chainHeight[o] <= tip
        /\ confs[o] <= Depth(height[o], tip) /\ confs[o] \in Nat
    BY DEF ConfirmedRows, PaidRows, OutputsOf
  <2>2. CASE Threshold = 0
    BY <2>1, <2>2 DEF OnChain
  <2>3. CASE Threshold # 0
    <3>1. Threshold \in Nat /\ Depth(height[o], tip) >= Threshold /\ Depth(height[o], tip) >= 1
      <4>1. height[o] \in Nat /\ tip \in Nat /\ Threshold \in Nat
        BY <2>1, ConfigAssumption
      <4>2. Depth(height[o], tip) \in Nat
        BY <4>1, DepthType
      <4> HIDE DEF ChainInv, Seen
      <4> QED
        BY <2>1, <2>3, <4>1, <4>2
    <3>2. height[o] # 0 /\ height[o] <= tip /\ Depth(height[o], tip) = tip - height[o] + 1
      BY <2>1, <3>1 DEF Depth
    <3>3. chainHeight[o] \in 1..tip /\ tip - chainHeight[o] + 1 >= Threshold
      BY <2>1, <3>1, <3>2
    <3> QED
      BY <2>1, <3>3 DEF OnChain
  <2> QED
    BY <2>2, <2>3
<1>2. PaidRows(i) \subseteq OnChain(i, 0)
  BY DEF PaidRows, OnChain, OutputsOf
<1>3. ConfirmedRows(i) \subseteq PaidRows(i)
  BY DEF ConfirmedRows
<1> QED
  BY <1>1, <1>2, <1>3 DEF OnChain, OutputsOf

\* While nothing is taken back, an invoice that was confirmed is paid on the
\* chain, at the threshold, and not only in the table (matcher/confirms.rs).
THEOREM ConfirmsOnChain == Spec => []ConfirmedIsOnChain
<1>1. TypeOK /\ ChainInv /\ ConfirmedIsCovered => ConfirmedIsOnChain
  <2> SUFFICES ASSUME TypeOK, ChainInv, ConfirmedIsCovered, reorgs = 0,
                      NEW i \in Invoices, verdict[i] = "confirmed"
               PROVE  Total[OnChain(i, Threshold)] >= Due[i]
    BY DEF ConfirmedIsOnChain
  <2>1. ConfirmedRows(i) \in SUBSET Outputs
    BY DEF ConfirmedRows, PaidRows, OutputsOf
  <2>2. Total[ConfirmedRows(i)] <= Total[OnChain(i, Threshold)]
    BY <2>1, RowsAreOnChain, SumAssumption
  <2>3. Total[ConfirmedRows(i)] >= Due[i]
    BY DEF ConfirmedIsCovered, ConfirmedPaid
  <2> QED
    BY <2>1, <2>2, <2>3, RowsAreOnChain, AmountsAssumption
<1>2. Inv => TypeOK
  BY DEF Inv
<1> QED
  BY <1>1, <1>2, Invariance, ChainInvariance, ConfirmsOnlyPaid, PTL
------------------------------------------------------------------------------
(* What is promised back was received.  The promise is made of rows, which *)
(* are on the chain, and is kept because the chain only grows.             *)
Promise(i, k) == refunds[i][k].gross + (IF verdict[i] = "confirmed" THEN Due[i] ELSE 0)

\* What was received of an invoice is not lost while nothing is taken back.
LEMMA ReceivedGrows ==
  ASSUME TypeOK, TypeOK', [Next]_vars, reorgs' = 0, NEW i \in Invoices
  PROVE  /\ reorgs = 0
         /\ Total[OnChain(i, 0)] <= Total[OnChain(i, 0)']
         /\ Total[OnChain(i, 0)] \in Nat /\ Total[OnChain(i, 0)'] \in Nat
<1>1. reorgs = 0 /\ \A o \in Outputs : chainHeight[o] # Unseen => chainHeight'[o] # Unseen
  <2> USE ChainTypes DEF db, world, wallet, sync, locals, timing, trail, history, bounds
  <2>1. CASE \E t \in {0, tip} : TickStart(t)
    BY <2>1 DEF TickStart, Fault
  <2>2. CASE \E j \in Invoices : FetchUtxos(j)
    BY <2>2 DEF FetchUtxos, Fault
  <2>3. CASE (\E d \in Discovered : Record(d)) \/ ShieldTick \/ \E o \in Outputs : ConfirmRow(o)
    BY <2>3 DEF Record, ShieldTick, ConfirmRow
  <2>4. CASE \E o \in Outputs : Pay(o)
    BY <2>4 DEF Pay, Unseen
  <2>5. ASSUME NEW S \in SUBSET Outputs, NewBlock(S)
        PROVE  reorgs = 0 /\ \A o \in Outputs : chainHeight[o] # Unseen => chainHeight'[o] # Unseen
    <3>1. tip' = tip + 1 /\ UNCHANGED reorgs
          /\ chainHeight' = [o \in Outputs |-> IF o \in S THEN tip' ELSE chainHeight[o]]
      BY <2>5 DEF NewBlock
    <3> QED
      BY <3>1 DEF Unseen
  <2>6. CASE (\E o \in Outputs : Evict(o)) \/ \E S \in SUBSET Outputs : Reorg(S)
    BY <2>6 DEF Evict, Reorg, Fault
  <2>7. CASE (Next /\ ~ChainStep) \/ UNCHANGED vars
    BY <2>7, UnchainedSteps DEF vars
  <2> QED
    BY <2>1, <2>2, <2>3, <2>4, <2>5, <2>6, <2>7 DEF ChainStep, InsertUtxo, InsertNote
<1>2. /\ OnChain(i, 0) \subseteq OnChain(i, 0)'
      /\ OnChain(i, 0) \in SUBSET Outputs /\ OnChain(i, 0)' \in SUBSET Outputs
  <2>1. OnChain(i, 0) = {o \in OutputsOf(i) : chainHeight[o] # Unseen}
    BY DEF OnChain, Unseen
  <2>2. OnChain(i, 0)' = {o \in OutputsOf(i) : chainHeight'[o] # Unseen}
    BY DEF OnChain, Unseen, OutputsOf
  <2> QED
    BY <1>1, <2>1, <2>2 DEF OutputsOf
<1> QED
  BY <1>1, <1>2, SumAssumption, AmountsAssumption

\* A row that is appended to none is the only one.
LEMMA FirstRefund ==
  ASSUME TypeOK, NEW i \in Invoices, NEW gross \in Nat,
         NEW reason \in {"overpayment", "partial_expired"},
         refunds[i] = <<>>, EnqueueRefund(i, reason, gross)
  PROVE  /\ \A j \in Invoices : j # i => refunds'[j] = refunds[j]
         /\ \A k \in DOMAIN refunds'[i] : refunds'[i][k].gross = gross
<1> DEFINE e == [reason |-> reason, gross |-> gross]
<1>1. CASE UNCHANGED refunds
  BY <1>1
<1>2. CASE refunds' = [refunds EXCEPT ![i] = Append(@, e)]
  <2>1. e.gross = gross
    OBVIOUS
  <2> HIDE DEF e
  <2>2. refunds'[i] = <<e>>
    BY <1>2 DEF TypeOK
  <2>3. \A j \in Invoices : j # i => refunds'[j] = refunds[j]
    BY <1>2 DEF TypeOK
  <2>4. DOMAIN refunds'[i] = {1} /\ refunds'[i][1] = e
    BY <2>2
  <2> QED
    BY <2>1, <2>3, <2>4
<1> QED
  BY <1>1, <1>2 DEF EnqueueRefund

\* Only two statements write a refund row, and only of the invoice at hand.
LEMMA RefundSteps ==
  ASSUME Inv, [Next]_vars, NEW i \in Invoices, refunds'[i] # refunds[i]
  PROVE  (ConfirmsRefund \/ SweepRefund) /\ i = cur
<1> USE DEF db, world, wallet, sync, locals, timing, trail, history, bounds
<1>1. Next
  BY DEF vars
<1>2. CASE ~OutcomeStep
  BY <1>1, <1>2, OtherSteps
<1>3. CASE ConfirmsWrite \/ ConfirmsWebhook \/ SweepWebhook \/ \E j \in Invoices : SweepWrite(j)
  BY <1>3 DEF ConfirmsWrite, ConfirmsWebhook, SweepWebhook, SweepWrite
<1>4. CASE ConfirmsRefund \/ SweepRefund
  <2>1. refunds' = refunds \/ \E e : refunds' = [refunds EXCEPT ![cur] = Append(@, e)]
    BY <1>4 DEF ConfirmsRefund, SweepRefund, EnqueueRefund
  <2> QED
    BY <1>4, <2>1 DEF Inv, TypeOK
<1> QED
  BY <1>2, <1>3, <1>4 DEF OutcomeStep

\* A promise is made of what was received, and stays so.
LEMMA BackedKept == Inv /\ ChainInv /\ RefundsAreBacked /\ [Next]_vars => RefundsAreBacked'
<1> SUFFICES ASSUME Inv, ChainInv, RefundsAreBacked, [Next]_vars, reorgs' = 0,
                    NEW i \in Invoices, NEW k \in DOMAIN refunds'[i]
             PROVE  Promise(i, k)' <= Total[OnChain(i, 0)']
  BY DEF RefundsAreBacked, Promise
<1>t. TypeOK /\ TypeOK' /\ DecidedOnce
  BY TypeStep DEF Inv
<1>0. /\ reorgs = 0 /\ Total[OnChain(i, 0)] <= Total[OnChain(i, 0)']
      /\ Total[OnChain(i, 0)] \in Nat /\ Total[OnChain(i, 0)'] \in Nat
  BY <1>t, ReceivedGrows
<1>1. CASE refunds'[i] = refunds[i]
  <2>1. k \in DOMAIN refunds[i] /\ refunds[i] # <<>>
    BY <1>1
  <2>2. verdict[i] # "open"
    BY <1>t, <2>1 DEF DecidedOnce, UndecidedIsClean
  <2>3. verdict'[i] = verdict[i]
    BY <2>2, VerdictStep DEF vars, history
  <2>4. Promise(i, k)' = Promise(i, k)
    BY <1>1, <2>3 DEF Promise
  <2>5. Promise(i, k) <= Total[OnChain(i, 0)]
    BY <1>0, <2>1 DEF RefundsAreBacked, Promise
  <2>6. Promise(i, k) \in Nat
    <3>0. refunds[i] \in Seq(Refunds)
      BY <1>t DEF TypeOK
    <3>1. refunds[i][k] \in Refunds
      BY <2>1, <3>0
    <3> QED
      BY <3>1, AmountsAssumption DEF Promise, Refunds
  <2> QED
    BY <1>0, <2>4, <2>5, <2>6
<1>2. CASE refunds'[i] # refunds[i]
  <2>0. (ConfirmsRefund \/ SweepRefund) /\ i = cur
    BY <1>2, RefundSteps
  <2>1. CASE ConfirmsRefund
    <3>1. verdict[i] = "confirmed" /\ refunds[i] = <<>> /\ verdict' = verdict
      BY <1>t, <2>0, <2>1 DEF ConfirmsRefund, DecidedOnce, DecidingIsOrdered, history
    <3>2. EnqueueRefund(i, "overpayment", Excess(i)) /\ Excess(i) > 0
      BY <1>2, <2>0, <2>1 DEF ConfirmsRefund
    <3>3. Excess(i) \in Nat /\ Excess(i) + Due[i] = Total[ConfirmedRows(i)]
      BY <1>t, <3>2, PaidType, AmountsAssumption DEF Excess, ConfirmedPaid
    <3>4. refunds'[i][k].gross = Excess(i)
      BY <1>t, <3>1, <3>2, <3>3, FirstRefund
    <3>5. Total[ConfirmedRows(i)] <= Total[OnChain(i, 0)] /\ Total[ConfirmedRows(i)] \in Nat
      <4>1. ConfirmedRows(i) \in SUBSET Outputs
        BY DEF ConfirmedRows, PaidRows, OutputsOf
      <4> QED
        BY <1>t, <1>0, <4>1, RowsAreOnChain, SumAssumption, AmountsAssumption
    <3> QED
      BY <1>0, <3>1, <3>3, <3>4, <3>5, AmountsAssumption DEF Promise
  <2>2. CASE SweepRefund
    <3>1. verdict[i] = "expired" /\ refunds[i] = <<>> /\ verdict' = verdict
      BY <1>t, <2>0, <2>2 DEF SweepRefund, DecidedOnce, DecidingIsOrdered, history
    <3>2. EnqueueRefund(i, "partial_expired", Paid(i))
      BY <1>2, <2>0, <2>2 DEF SweepRefund
    <3>3. Paid(i) \in Nat
      BY <1>t, PaidType
    <3>4. refunds'[i][k].gross = Paid(i)
      BY <1>t, <3>1, <3>2, <3>3, FirstRefund
    <3>5. Paid(i) <= Total[OnChain(i, 0)]
      <4>1. PaidRows(i) \in SUBSET Outputs
        BY DEF PaidRows, OutputsOf
      <4> QED
        BY <1>t, <1>0, <4>1, RowsAreOnChain, SumAssumption DEF Paid
    <3> QED
      BY <1>0, <3>1, <3>3, <3>4, <3>5 DEF Promise
  <2> QED
    BY <2>0, <2>1, <2>2
<1> QED
  BY <1>1, <1>2

\* While nothing is taken back, no refund row promises more than was received
\* on the chain, less the price of what was sold (refunds/mod.rs).
THEOREM RefundsBacked == Spec => []RefundsAreBacked
<1>1. Init => RefundsAreBacked
  BY DEF Init, RefundsAreBacked
<1> QED
  BY <1>1, BackedKept, Invariance, ChainInvariance, PTL DEF Spec
------------------------------------------------------------------------------
(* What the sweeper has listed is due for as long as it is on the list: no *)
(* other task moves an expiry, and a cancel is all that can happen to it.  *)
DueInv ==
  /\ now <= clock
  /\ \A i \in sweep : expiresAt[i] <= now /\ status[i] \in Unpaid \cup {"cancelled"}

\* The steps that touch what DueInv speaks of.
DueStep ==
  \/ \E t \in {0, tip} : TickStart(t)
  \/ ApplyWrite \/ ApplyExpiry \/ ConfirmsWrite \/ SweepSelect
  \/ \E i \in Invoices : SweepWrite(i) \/ \E w \in Windows : Create(i, w)
  \/ \E h \in Handlers : CancelWrite(h)
  \/ TimePasses

\* The others move no expiry and no status, or end the tick.
LEMMA UndueSteps ==
  ASSUME Next, ~DueStep
  PROVE  /\ UNCHANGED <<status, expiresAt, clock>>
         /\ UNCHANGED <<now, sweep>> \/ (now' = 0 /\ sweep' = {})
<1> USE DEF db, world, wallet, sync, locals, timing, trail, history, bounds
<1>1. CASE Matching
  BY <1>1 DEF DueStep, Matching, WatchList, FetchUtxos, InsertUtxo, InsertNote, Record,
     ApplyRead, ShieldTick
<1>2. CASE Confirming
  BY <1>2 DEF DueStep, Confirming, ConfirmsSelect, ConfirmRow, ConfirmsZeroConf, ConfirmsEvaluate,
     ConfirmsRefund, ConfirmsWebhook
<1>3. CASE Sweeping
  BY <1>3 DEF DueStep, Sweeping, SweepRefund, SweepWebhook, SaveWallet, EndTick
<1>4. CASE Api
  BY <1>4 DEF DueStep, Api, CancelStep, CancelRead, CancelWebhook
<1>5. CASE Failures
  BY <1>5 DEF Failures, Interruptions, CancelAborts, TickAborts, Crash, Restart, EndTick
<1>6. CASE World
  BY <1>6 DEF DueStep, World, Pay, Evict, NewBlock, Reorg
<1> QED
  BY <1>1, <1>2, <1>3, <1>4, <1>5, <1>6 DEF Next, SyncStep

\* The list of the sweeper stays due.
LEMMA DueKept == Inv /\ DueInv /\ [Next]_vars => DueInv'
<1> SUFFICES ASSUME Inv, DueInv, [Next]_vars PROVE DueInv'
  OBVIOUS
<1>t. /\ now \in Nat /\ clock \in Nat /\ status \in [Invoices -> InvoiceStatuses \cup {"none"}]
      /\ expiresAt \in [Invoices -> Nat] /\ sweep \subseteq Invoices /\ cur \in Invoices
      /\ pc \notin {"sweep", "sweepRefund", "sweepWebhook"} => sweep = {}
  BY BoundsAssumption DEF Inv, TypeOK, DecidedOnce, StaleWritesAreSafe
<1> USE <1>t DEF DueInv
<1>1. CASE (\E t \in {0, tip} : TickStart(t)) \/ ApplyWrite \/ ApplyExpiry \/ ConfirmsWrite
  <2>1. /\ sweep = {} /\ sweep' = sweep /\ clock' = clock /\ now' \in {now, clock}
    BY <1>1 DEF TickStart, ApplyWrite, ApplyExpiry, ConfirmsWrite, world, locals
  <2> QED
    BY <2>1
<1>2. CASE SweepSelect
  <2>1. UNCHANGED <<now, clock, expiresAt, status>> /\ sweep' = Expirable(now)
    BY <1>2 DEF SweepSelect, db, timing, world
  <2>2. \A i \in Expirable(now) : status[i] \in Unpaid /\ now >= expiresAt[i]
    BY DEF Expirable, next_status_on_tick
  <2> QED
    BY <2>1, <2>2 DEF Expirable
<1>3. ASSUME NEW i \in Invoices, SweepWrite(i) PROVE DueInv'
  <2>1. /\ UNCHANGED <<now, clock, expiresAt>> /\ sweep' = sweep \ {i}
        /\ status' = [status EXCEPT ![i] = "expired"]
    BY <1>3 DEF SweepWrite, timing, world
  <2> QED
    BY <2>1
<1>4. ASSUME NEW i \in Invoices, NEW w \in Windows, Create(i, w) PROVE DueInv'
  <2>1. /\ UNCHANGED <<now, clock, sweep>> /\ status[i] = "none"
        /\ status' = [status EXCEPT ![i] = "pending"]
        /\ expiresAt' = [expiresAt EXCEPT ![i] = clock + w]
    BY <1>4 DEF Create, Exists, world, sync, locals
  <2>2. i \notin sweep
    BY <2>1 DEF Unpaid
  <2> QED
    BY <2>1, <2>2
<1>5. ASSUME NEW h \in Handlers, CancelWrite(h) PROVE DueInv'
  <2>1. /\ UNCHANGED <<now, clock, sweep, expiresAt>>
        /\ status' = [status EXCEPT ![call[h].invoice] = "cancelled"]
    BY <1>5 DEF CancelWrite, timing, world, sync, locals
  <2>2. \A i \in sweep : status'[i] = "cancelled" \/ status'[i] = status[i]
    BY <2>1
  <2> QED
    BY <2>1, <2>2
<1>6. CASE TimePasses
  BY <1>6 DEF TimePasses, db, timing, sync, locals
<1>7. CASE (Next /\ ~DueStep) \/ UNCHANGED vars
  <2>1. /\ UNCHANGED <<status, expiresAt, clock>>
        /\ UNCHANGED <<now, sweep>> \/ (now' = 0 /\ sweep' = {})
    BY <1>7, UndueSteps DEF vars, db, timing, world, sync, locals
  <2> QED
    BY <2>1
<1> QED
  BY <1>1, <1>2, <1>3, <1>4, <1>5, <1>6, <1>7 DEF DueStep

\* Only the sweeper expires an invoice.
LEMMA OnlyTheSweeperExpires ==
  ASSUME Inv, Next, NEW i \in Invoices, Expires(i)
  PROVE  SweepWrite(i)
<1>1. CASE OutcomeStep /\ ~\E j \in Invoices : SweepWrite(j)
  BY <1>1 DEF Inv, TypeOK, Expires, OutcomeStep, ConfirmsWrite, ConfirmsRefund,
     ConfirmsWebhook, SweepRefund, SweepWebhook, history
<1>2. CASE ~OutcomeStep
  BY <1>2, OtherSteps DEF Expires
<1>3. ASSUME NEW j \in Invoices, SweepWrite(j) PROVE SweepWrite(i)
  BY <1>3 DEF Inv, TypeOK, Expires, SweepWrite
<1> QED
  BY <1>1, <1>2, <1>3

\* It is so in every behaviour.
LEMMA DueInvariance == Spec => []DueInv
<1>1. Init => DueInv
  BY DEF Init, DueInv
<1> QED
  BY <1>1, DueKept, Invariance, PTL DEF Spec

\* An invoice expires only after the window the customer was last shown, and
\* never once it is Confirming (invoice.rs, next_status_on_tick), although the
\* sweeper writes it without another look at the row.
THEOREM ExpiresWhenDue == Spec => ExpiresOnlyWhenDue
<1>1. Inv /\ DueInv /\ [Next]_vars =>
        [\A i \in Invoices : Expires(i) => /\ clock >= expiresAt[i]
                                           /\ status[i] # "confirming"]_vars
  <2> SUFFICES ASSUME Inv, DueInv, Next, NEW i \in Invoices, Expires(i)
               PROVE  clock >= expiresAt[i] /\ status[i] # "confirming"
    OBVIOUS
  <2>1. i \in sweep /\ expiresAt[i] \in Nat /\ now \in Nat /\ clock \in Nat
    BY OnlyTheSweeperExpires, BoundsAssumption DEF SweepWrite, Inv, TypeOK
  <2> QED
    BY <2>1 DEF DueInv, Unpaid
<1> QED
  BY <1>1, DueInvariance, Invariance, PTL DEF Spec, ExpiresOnlyWhenDue
------------------------------------------------------------------------------
(* What was counted of an invoice that may still expire does not cover it. *)
(* A status is written from one that was read before a cancel, so the sum  *)
(* has to fit both; and an invoice that does not exist has nothing counted.*)
Counted(i) == applied \cap OutputsOf(i)

PaidFor == Terminal \cup {"confirming"}

UncoveredInv ==
  /\ applied \subseteq recorded
  /\ \A i \in Invoices : status[i] \in Unpaid \/ i \in sweep => Total[Counted(i)] < Due[i]
  /\ \A o \in Outputs : ~Exists(InvoiceOf[o]) => chainHeight[o] = Unseen /\ o \notin recorded
  /\ \A d \in found : Exists(InvoiceOf[d.output])
  /\ pc = "applyWrite" /\ seen \in PaidFor => status[cur] \in PaidFor

\* The steps that touch what UncoveredInv speaks of.
CountStep ==
  \/ \E i \in Invoices : FetchUtxos(i) \/ SweepWrite(i) \/ \E w \in Windows : Create(i, w)
  \/ \E d \in Discovered : Record(d)
  \/ ApplyRead \/ ApplyWrite \/ ShieldTick \/ ConfirmsWrite \/ SweepSelect
  \/ \E h \in Handlers : CancelWrite(h)
  \/ \E o \in Outputs : Pay(o) \/ Evict(o)
  \/ \E S \in SUBSET Outputs : NewBlock(S) \/ Reorg(S)

\* The others leave statuses, rows and chain alone, or end the tick.
LEMMA UncountedSteps ==
  ASSUME Next, ~CountStep
  PROVE  /\ UNCHANGED <<status, recorded, applied, chainHeight>>
         /\ found' \in {found, {}} /\ sweep' \in {sweep, {}}
         /\ pc' = "applyWrite" => UNCHANGED <<pc, seen, cur>>
<1> USE DEF db, world, wallet, sync, locals, timing, trail, history, bounds
<1>1. CASE Matching
  BY <1>1 DEF CountStep, Matching, TickStart, WatchList, InsertUtxo, InsertNote, ApplyExpiry
<1>2. CASE Confirming
  BY <1>2 DEF CountStep, Confirming, ConfirmsSelect, ConfirmRow, ConfirmsZeroConf, ConfirmsEvaluate,
     ConfirmsRefund, ConfirmsWebhook
<1>3. CASE Sweeping
  BY <1>3 DEF CountStep, Sweeping, SweepRefund, SweepWebhook, SaveWallet, EndTick
<1>4. CASE Api
  BY <1>4 DEF CountStep, Api, CancelStep, CancelRead, CancelWebhook
<1>5. CASE Failures
  BY <1>5 DEF Failures, Interruptions, CancelAborts, TickAborts, Crash, Restart, EndTick
<1>6. CASE World
  BY <1>6 DEF CountStep, World, TimePasses
<1> QED
  BY <1>1, <1>2, <1>3, <1>4, <1>5, <1>6 DEF Next, SyncStep

\* A sum that did not cover an invoice is still counted as before.
LEMMA CountedSame ==
  ASSUME UNCHANGED applied
  PROVE  \A i \in Invoices : Counted(i)' = Counted(i)
BY DEF Counted, OutputsOf

\* Nothing an invoice expires over covers it.
LEMMA UncoveredKept == Inv /\ UncoveredInv /\ [Next]_vars => UncoveredInv'
<1> SUFFICES ASSUME Inv, UncoveredInv, [Next]_vars PROVE UncoveredInv'
  OBVIOUS
<1>t. /\ status \in [Invoices -> InvoiceStatuses \cup {"none"}] /\ cur \in Invoices
      /\ applied \subseteq Outputs /\ recorded \subseteq Outputs /\ sweep \subseteq Invoices
      /\ \A d \in found : d.output \in Outputs
      /\ InvoiceOf \in [Outputs -> Invoices] /\ tip \in Nat \ {0} /\ Unseen = -1
      /\ pc \notin {"sweep", "sweepRefund", "sweepWebhook"} => sweep = {}
  BY BoundsAssumption, SetsAssumption
     DEF Inv, TypeOK, DecidedOnce, StaleWritesAreSafe, Discovered, Unseen
<1> USE <1>t DEF UncoveredInv, Exists, Unpaid, Terminal, PaidFor
<1> USE DEF db, world, wallet, sync, locals, timing, trail, history, bounds
<1>1. ASSUME NEW i \in Invoices, FetchUtxos(i) PROVE UncoveredInv'
  <2>1. /\ UNCHANGED <<status, recorded, applied, chainHeight, sweep>>
        /\ pc' \in {"match", "fetch"}
    BY <1>1 DEF FetchUtxos
  <2>2. \A d \in found' : Exists(InvoiceOf[d.output])
    <3> DEFINE seenNow == {o \in OutputsOf(i) : Transparent(o) /\ chainHeight[o] # Unseen}
               news == {[output |-> o, height |-> chainHeight[o]] : o \in seenNow}
    <3>1. found' = found \cup news \/ found' = found
      BY <1>1 DEF FetchUtxos
    <3>2. \A d \in news : d.output \in Outputs /\ chainHeight[d.output] # Unseen
      BY DEF OutputsOf
    <3> QED
      BY <3>1, <3>2
  <2> QED
    BY <2>1, <2>2, CountedSame
<1>2. ASSUME NEW i \in Invoices, SweepWrite(i) PROVE UncoveredInv'
  <2>1. /\ UNCHANGED <<recorded, applied, chainHeight, found>> /\ sweep' \subseteq sweep
        /\ status' = [status EXCEPT ![i] = "expired"] /\ pc' = "sweepRefund"
    BY <1>2 DEF SweepWrite
  <2> QED
    BY <2>1, CountedSame
<1>3. ASSUME NEW i \in Invoices, NEW w \in Windows, Create(i, w) PROVE UncoveredInv'
  <2>1. /\ UNCHANGED <<recorded, applied, chainHeight, found, sweep, pc, seen, cur>>
        /\ status[i] = "none" /\ status' = [status EXCEPT ![i] = "pending"]
    BY <1>3 DEF Create
  <2>2. Counted(i) = {}
    BY <2>1 DEF Counted, OutputsOf
  <2>3. Total[Counted(i)] < Due[i]
    BY <2>2, AmountsAssumption, SumAssumption
  <2> QED
    BY <2>1, <2>3, CountedSame
<1>4. ASSUME NEW d \in Discovered, Record(d) PROVE UncoveredInv'
  <2>1. /\ UNCHANGED <<status, applied, chainHeight, sweep>> /\ found' \subseteq found
        /\ d \in found /\ recorded' \subseteq recorded \cup {d.output}
        /\ recorded \subseteq recorded'
        /\ pc' \in {"match", "applyRead"}
    BY <1>4 DEF Record
  <2> QED
    BY <2>1, CountedSame
<1>5. CASE ApplyRead
  <2>1. UNCHANGED <<status, recorded, applied, chainHeight, found, sweep, cur>>
        /\ seen' = status[cur]
    BY <1>5 DEF ApplyRead
  <2> QED
    BY <2>1, CountedSame
<1>6. CASE ApplyWrite
  <2> DEFINE next == next_status_on_payment(seen, Due[cur], Paid(cur))
  <2>1. /\ UNCHANGED <<recorded, chainHeight, found, sweep, cur>>
        /\ pc = "applyWrite" /\ pc' # "applyWrite" /\ applied' = applied \cup PaidRows(cur)
        /\ status' = IF next # seen THEN [status EXCEPT ![cur] = next] ELSE status
    BY <1>6 DEF ApplyWrite
  <2>2. \A i \in Invoices : Exists(i) => Exists(i)'
    BY <2>1 DEF next_status_on_payment
  <2>3. sweep' = {} /\ applied' \subseteq recorded'
    BY <2>1 DEF PaidRows
  <2>4. \A i \in Invoices : i # cur =>
          applied' \cap OutputsOf(i) = Counted(i) /\ status'[i] = status[i]
    BY <2>1 DEF Counted, PaidRows, OutputsOf
  <2>5. ASSUME status'[cur] \in Unpaid PROVE Total[applied' \cap OutputsOf(cur)] < Due[cur]
    <3>1. next = "partially_paid" /\ seen \notin Terminal
      <4>1. CASE next = seen
        BY <2>1, <2>5, <4>1 DEF next_status_on_payment
      <4>2. CASE next # seen
        BY <2>1, <2>5, <4>2 DEF next_status_on_payment
      <4> QED
        BY <4>1, <4>2
    <3>2. Paid(cur) < Due[cur]
      BY <3>1, PaidType, AmountsAssumption DEF next_status_on_payment, Inv
    <3>3. applied' \cap OutputsOf(cur) = PaidRows(cur)
      BY <2>1 DEF PaidRows
    <3> QED
      BY <3>2, <3>3 DEF Paid
  <2>6. \A i \in Invoices : status'[i] \in Unpaid => Total[applied' \cap OutputsOf(i)] < Due[i]
    BY <2>4, <2>5
  <2>7. \A o \in Outputs : ~Exists(InvoiceOf[o])' => chainHeight'[o] = Unseen /\ o \notin recorded'
    BY <2>1, <2>2
  <2>8. \A d \in found' : Exists(InvoiceOf[d.output])'
    BY <2>1, <2>2
  <2> HIDE DEF Exists, Unpaid
  <2> QED
    BY <2>1, <2>3, <2>6, <2>7, <2>8 DEF Counted, OutputsOf
<1>7. CASE ShieldTick
  <2>1. /\ UNCHANGED <<status, recorded, applied, chainHeight, sweep, pc>> /\ pc = "match"
        /\ found' = {[output |-> o, height |-> chainHeight[o]] : o \in NewNotes}
    BY <1>7 DEF ShieldTick
  <2>2. \A o \in NewNotes : o \in Outputs /\ chainHeight[o] # Unseen
    BY ChainTypes DEF NewNotes, Inv
  <2>3. \A d \in found' : d.output \in Outputs /\ chainHeight[d.output] # Unseen
    BY <2>1, <2>2
  <2> QED
    BY <2>1, <2>3, CountedSame
<1>8. CASE ConfirmsWrite
  <2>1. /\ UNCHANGED <<recorded, applied, chainHeight, found, sweep>> /\ pc' = "confirmRefund"
        /\ status' = [status EXCEPT ![cur] = "confirmed"]
    BY <1>8 DEF ConfirmsWrite
  <2> QED
    BY <2>1, CountedSame
<1>9. CASE SweepSelect
  <2>1. /\ UNCHANGED <<status, recorded, applied, chainHeight, found>> /\ pc' = "sweep"
        /\ \A i \in sweep' : status[i] \in Unpaid
    BY <1>9 DEF SweepSelect, Expirable, next_status_on_tick
  <2> QED
    BY <2>1, CountedSame DEF SweepSelect, Expirable
<1>10. ASSUME NEW h \in Handlers, CancelWrite(h) PROVE UncoveredInv'
  <2>1. /\ UNCHANGED <<recorded, applied, chainHeight, found, sweep, pc, seen, cur>>
        /\ status' = [status EXCEPT ![call[h].invoice] = "cancelled"]
    BY <1>10 DEF CancelWrite
  <2>2. \A i \in Invoices : status'[i] = "cancelled" \/ status'[i] = status[i]
    BY <2>1
  <2> QED
    BY <2>1, <2>2, CountedSame
<1>11. ASSUME UNCHANGED <<status, recorded, applied, found, sweep, pc, seen, cur>>,
              \A o \in Outputs : ~Exists(InvoiceOf[o]) /\ chainHeight[o] = Unseen
                                   => chainHeight'[o] = Unseen
       PROVE  UncoveredInv'
  BY <1>11, CountedSame
<1>12. CASE \E o \in Outputs : Pay(o) \/ Evict(o)
  <2>1. PICK o \in Outputs : Pay(o) \/ Evict(o)
    BY <1>12
  <2>2. UNCHANGED <<status, recorded, applied, found, sweep, pc, seen, cur>>
    BY <2>1 DEF Pay, Evict
  <2>3. /\ chainHeight' = [chainHeight EXCEPT ![o] = chainHeight'[o]]
        /\ chainHeight'[o] = Unseen \/ Exists(InvoiceOf[o])
    BY <2>1, ChainTypes DEF Pay, Evict, Inv
  <2>4. \A p \in Outputs : p # o => chainHeight'[p] = chainHeight[p]
    BY <2>3, ChainTypes DEF Inv
  <2> QED
    BY <1>11, <2>2, <2>3, <2>4
<1>13. CASE \E S \in SUBSET Outputs : NewBlock(S) \/ Reorg(S)
  BY <1>11, <1>13 DEF NewBlock, Reorg
<1>14. CASE (Next /\ ~CountStep) \/ UNCHANGED vars
  <2>1. /\ UNCHANGED <<status, recorded, applied, chainHeight>>
        /\ found' \in {found, {}} /\ sweep' \in {sweep, {}}
        /\ pc' = "applyWrite" => UNCHANGED <<pc, seen, cur>>
    BY <1>14, UncountedSteps DEF vars
  <2> QED
    BY <2>1, CountedSame
<1> QED
  BY <1>1, <1>2, <1>3, <1>4, <1>5, <1>6, <1>7, <1>8, <1>9, <1>10, <1>12, <1>13, <1>14
     DEF CountStep

\* It is so in every behaviour.
LEMMA UncoveredInvariance == Spec => []UncoveredInv
<1>1. Init => UncoveredInv
  <2> SUFFICES ASSUME Init PROVE UncoveredInv
    OBVIOUS
  <2>1. \A i \in Invoices : status[i] = "none"
    BY DEF Init
  <2> QED
    BY <2>1, SetsAssumption DEF Init, UncoveredInv, Unpaid, Exists
<1> QED
  BY <1>1, UncoveredKept, Invariance, PTL DEF Spec

\* "Once the customer has paid the full amount, they're entitled to the goods"
\* (invoice.rs, next_status_on_tick): an invoice does not expire over payments
\* that were counted and cover it, whatever cancels, fails or is taken back.
THEOREM PaidNeverExpires == Spec => PaidInFullNeverExpires
<1>1. Inv /\ UncoveredInv /\ [Next]_vars =>
        [\A i \in Invoices : Expires(i) => Total[applied \cap OutputsOf(i)] < Due[i]]_vars
  <2> SUFFICES ASSUME Inv, UncoveredInv, Next, NEW i \in Invoices, Expires(i)
               PROVE  Total[applied \cap OutputsOf(i)] < Due[i]
    OBVIOUS
  <2>1. SweepWrite(i)
    BY OnlyTheSweeperExpires
  <2> QED
    BY <2>1 DEF SweepWrite, UncoveredInv, Counted
<1> QED
  BY <1>1, UncoveredInvariance, Invariance, PTL DEF Spec, PaidInFullNeverExpires
------------------------------------------------------------------------------
(* The phases of a tick: what it has found is handed over before it counts *)
(* confirmations, and it looks for transparent outputs before it looks for *)
(* notes.                                                                  *)
Late == {"confirms", "evaluate", "confirmWrite", "confirmRefund", "confirmWebhook",
         "sweep", "sweepRefund", "sweepWebhook"}
Applying == {"applyRead", "applyWrite", "applyExpiry"}

LoopInv ==
  /\ pc = "idle" => found = {} /\ polled = {}
  /\ pc \in {"idle", "watch", "fetch"} => stage = "transparent"
  /\ pc # "fetch" => watch = {}
  /\ pc \in Late => found = {} /\ stage = "shield"
  /\ pc # "confirms" => rows = {}
  /\ \A d \in found : Transparent(d.output) <=> stage = "transparent"
  /\ pc \in Applying => Exists(cur)

\* A tick goes through its phases in order, whatever ends it.
LEMMA LoopKept == TypeOK /\ UncoveredInv /\ LoopInv /\ [Next]_vars => LoopInv'
<1> SUFFICES ASSUME TypeOK, UncoveredInv, LoopInv, [Next]_vars PROVE LoopInv'
  OBVIOUS
<1> USE DEF LoopInv, Late, Applying
<1> USE DEF db, world, wallet, sync, locals, timing, trail, history, bounds
<1>0. /\ status \in [Invoices -> InvoiceStatuses \cup {"none"}] /\ cur \in Invoices
      /\ InvoiceOf \in [Outputs -> Invoices]
      /\ \A d \in found : d.output \in Outputs /\ Exists(InvoiceOf[d.output])
      /\ "none" \notin InvoiceStatuses
  BY SetsAssumption DEF TypeOK, Discovered, UncoveredInv, InvoiceStatuses
<1>1. ASSUME NEW i \in Invoices, FetchUtxos(i) PROVE LoopInv'
  <2>1. \A d \in found' : d \in found \/ Transparent(d.output)
    <3> DEFINE news == {[output |-> o, height |-> chainHeight[o]] :
                 o \in {o \in OutputsOf(i) : Transparent(o) /\ chainHeight[o] # Unseen}}
    <3>1. found' = found \cup news \/ found' = found
      BY <1>1 DEF FetchUtxos
    <3>2. \A d \in news : Transparent(d.output)
      BY DEF OutputsOf
    <3> QED
      BY <3>1, <3>2
  <2>2. pc = "fetch" /\ UNCHANGED <<stage, rows, status, cur>>
        /\ \/ pc' = "match" /\ watch' = {}
           \/ pc' = "fetch"
    BY <1>1 DEF FetchUtxos
  <2> QED
    BY <2>1, <2>2 DEF Transparent
<1>2. ASSUME NEW d \in Discovered, Record(d) PROVE LoopInv'
  <2>1. /\ UNCHANGED <<stage, watch, rows, status, polled>> /\ found' \subseteq found /\ d \in found
        /\ pc = "match"
        /\ \/ UNCHANGED <<cur, pc>>
           \/ cur' = InvoiceOf[d.output] /\ pc' = "applyRead"
    BY <1>2 DEF Record
  <2> QED
    BY <1>0, <2>1 DEF Transparent, Exists
<1>3. CASE ShieldTick
  <2>1. \A d \in found' : ~Transparent(d.output)
    BY <1>3 DEF ShieldTick, NewNotes
  <2> QED
    BY <1>3, <2>1 DEF ShieldTick, Transparent
<1>4. CASE (\E t \in {0, tip} : TickStart(t)) \/ WatchList \/ ApplyRead \/ ApplyExpiry
  BY <1>4 DEF TickStart, WatchList, ApplyRead, ApplyExpiry, Transparent, Exists
<1>5. CASE ApplyWrite
  <2>1. /\ UNCHANGED <<stage, watch, rows, found, polled, cur>> /\ pc = "applyWrite"
        /\ pc' \in {"applyExpiry", "match"}
    BY <1>5 DEF ApplyWrite
  <2>2. Exists(cur)'
    <3>1. status'[cur] \in {status[cur], "confirming", "partially_paid"} \cup Terminal
      BY <1>0, <1>5 DEF ApplyWrite, next_status_on_payment
    <3> QED
      BY <2>1, <3>1 DEF Exists, Terminal
  <2> QED
    BY <2>1, <2>2 DEF Transparent
<1>6. CASE Confirming
  BY <1>6 DEF Confirming, ConfirmsSelect, ConfirmRow, ConfirmsZeroConf, ConfirmsEvaluate,
     ConfirmsWrite, ConfirmsRefund, ConfirmsWebhook, Transparent
<1>7. CASE Sweeping
  BY <1>7 DEF Sweeping, SweepSelect, SweepWrite, SweepRefund, SweepWebhook, SaveWallet, EndTick
<1>8. CASE Api
  <2>1. /\ UNCHANGED <<pc, stage, watch, rows, found, polled, cur>>
        /\ \A i \in Invoices : Exists(i) => Exists(i)'
    BY <1>0, <1>8 DEF Api, Create, CancelRead, CancelStep, CancelWrite, CancelWebhook, Exists
  <2> QED
    BY <1>0, <2>1 DEF Transparent
<1>9. CASE TickAborts \/ Crash
  BY <1>9 DEF TickAborts, Crash, EndTick
<1>10. CASE World \/ Restart \/ (\E h \in Handlers : CancelAborts(h)) \/ UNCHANGED vars
  <2>1. UNCHANGED <<pc, stage, watch, rows, found, polled, cur, status>>
    BY <1>10 DEF World, Restart, CancelAborts, Pay, Evict, NewBlock, Reorg, TimePasses, vars
  <2> QED
    BY <2>1 DEF Transparent, Exists
<1> QED
  BY <1>1, <1>2, <1>3, <1>4, <1>5, <1>6, <1>7, <1>8, <1>9, <1>10
     DEF Next, SyncStep, Matching, Failures, Interruptions, InsertUtxo, InsertNote

\* The phases hold of every behaviour.
LEMMA LoopInvariance == Spec => []LoopInv
<1>1. Init => LoopInv
  BY DEF Init, LoopInv, Late, Applying
<1>2. Inv => TypeOK
  BY DEF Inv
<1> QED
  BY <1>1, <1>2, LoopKept, Invariance, UncoveredInvariance, PTL DEF Spec
------------------------------------------------------------------------------
(* A note is looked for once, when its block is scanned.  Until it has a   *)
(* row, it is in a block that will be scanned (again, after a crash), or   *)
(* in the list the tick holds, unless a tick that failed has dropped it.   *)
Listed(o) == \E d \in found : d.output = o

NoteInv ==
  /\ savedBlock <= lastBlock
  /\ \A o \in onTime : chainHeight[o] # Unseen /\ (Transparent(o) \/ chainHeight[o] # 0)
  /\ \A o \in onTime \ lost : ~Transparent(o) =>
       /\ o \in recorded \/ chainHeight[o] > savedBlock
       /\ o \in recorded \/ Listed(o) \/ chainHeight[o] > lastBlock
  /\ reorgs = 0 => lastBlock <= tip
  /\ reorgs = 0 => \A o \in Outputs : ~Transparent(o) =>
       /\ chainHeight[o] \in 2..savedBlock => o \in recorded \cup lost
       /\ chainHeight[o] \in 2..lastBlock => o \in recorded \cup lost \/ Listed(o)

\* The steps that touch what NoteInv speaks of.
NoteStep ==
  \/ \E t \in {0, tip} : TickStart(t)
  \/ \E i \in Invoices : FetchUtxos(i)
  \/ \E d \in Discovered : Record(d)
  \/ ShieldTick \/ SaveWallet \/ TickAborts \/ Crash \/ Restart
  \/ \E o \in Outputs : Pay(o) \/ Evict(o)
  \/ \E S \in SUBSET Outputs : NewBlock(S) \/ Reorg(S)

\* The others leave the wallet, the notes and the chain alone.
LEMMA UnnotedSteps ==
  ASSUME Next, ~NoteStep
  PROVE  /\ UNCHANGED <<recorded, chainHeight, tip, lastBlock, savedBlock>>
         /\ UNCHANGED <<found, onTime, lost, reorgs>>
<1> USE DEF db, world, wallet, sync, locals, timing, trail, history, bounds
<1>1. CASE Matching
  BY <1>1 DEF NoteStep, Matching, InsertUtxo, InsertNote, WatchList, ApplyRead, ApplyWrite,
      ApplyExpiry
<1>2. CASE Confirming
  BY <1>2 DEF Confirming, ConfirmsSelect, ConfirmRow, ConfirmsZeroConf, ConfirmsEvaluate,
     ConfirmsWrite, ConfirmsRefund, ConfirmsWebhook
<1>3. CASE Sweeping
  BY <1>3 DEF NoteStep, Sweeping, SweepSelect, SweepWrite, SweepRefund, SweepWebhook
<1>4. CASE Api
  BY <1>4 DEF Api, CancelStep, Create, CancelRead, CancelWrite, CancelWebhook
<1>5. CASE Failures
  BY <1>5 DEF NoteStep, Failures, Interruptions, CancelAborts, Fault
<1>6. CASE World
  BY <1>6 DEF NoteStep, World, TimePasses
<1> QED
  BY <1>1, <1>2, <1>3, <1>4, <1>5, <1>6 DEF Next, SyncStep

\* What is on time, was lost or is a row is an output; and a fault only adds to
\* what was taken back.
LEMMA NoteTypes ==
  ASSUME TypeOK
  PROVE  /\ tip \in Nat \ {0} /\ lastBlock \in Nat \ {0} /\ savedBlock \in Nat \ {0}
         /\ reorgs \in Nat /\ onTime \subseteq Outputs /\ lost \subseteq Outputs
         /\ recorded \subseteq Outputs /\ InvoiceOf \in [Outputs -> Invoices]
         /\ chainHeight \in [Outputs -> Nat \cup {Unseen}] /\ Unseen \in Int /\ Unseen \notin Nat
         /\ \A d \in found : d.output \in Outputs
         /\ \A kind : Fault(kind) => reorgs' >= reorgs
BY BoundsAssumption, SetsAssumption DEF TypeOK, Heights, Discovered, Unseen, Fault

\* No note is lost but by a tick that fails.
LEMMA NoteKept ==
  TypeOK /\ LoopInv /\ NoteInv /\ [Next]_vars => NoteInv'
<1> SUFFICES ASSUME TypeOK, LoopInv, NoteInv, [Next]_vars PROVE NoteInv'
  OBVIOUS
<1> USE NoteTypes DEF NoteInv, Listed, Transparent
<1>1. ASSUME NEW i \in Invoices, FetchUtxos(i) PROVE NoteInv'
  <2>1. /\ UNCHANGED <<recorded, chainHeight, tip, lastBlock, savedBlock, onTime, lost>>
        /\ found \subseteq found' /\ reorgs' >= reorgs
    BY <1>1 DEF FetchUtxos, db, world, wallet, bounds
  <2> QED
    BY <2>1
<1>2. ASSUME NEW d \in Discovered, Record(d) PROVE NoteInv'
  <2>1. /\ UNCHANGED <<chainHeight, tip, lastBlock, savedBlock, onTime, lost, reorgs>>
        /\ recorded' = recorded \cup {d.output} /\ found' = found \ {d}
    BY <1>2 DEF Record, world, wallet, history, trail, bounds
  <2> QED
    BY <2>1
<1>3. CASE ShieldTick
  <2>1. /\ UNCHANGED <<recorded, chainHeight, tip, savedBlock, onTime, lost, reorgs>>
        /\ found = {} /\ lastBlock' = (IF tip > lastBlock THEN tip ELSE lastBlock)
        /\ found' = {[output |-> o, height |-> chainHeight[o]] : o \in NewNotes}
    BY <1>3 DEF ShieldTick, db, world, history, trail, bounds
  <2>2. \A o \in Outputs : ~Transparent(o) /\ chainHeight[o] > lastBlock => Listed(o)'
    <3> SUFFICES ASSUME NEW o \in Outputs, ~Transparent(o), chainHeight[o] > lastBlock
                 PROVE  Listed(o)'
      OBVIOUS
    <3> DEFINE d == [output |-> o, height |-> chainHeight[o]]
    <3>1. d \in found' /\ d.output = o
      BY <2>1 DEF NewNotes
    <3> HIDE DEF d
    <3> QED
      BY <3>1
  <2>3. \A o \in Outputs : ~Listed(o)
    BY <2>1
  <2> HIDE DEF Listed
  <2> QED
    BY <2>1, <2>2, <2>3
<1>4. CASE SaveWallet \/ Restart
  <2>1. UNCHANGED <<recorded, chainHeight, tip, lastBlock, onTime, lost, reorgs>>
    BY <1>4 DEF SaveWallet, Restart, db, world, sync, locals, history, trail, bounds
  <2>2. found = {} /\ found' = {} /\ savedBlock' \in {lastBlock, savedBlock}
    BY <1>4 DEF SaveWallet, Restart, EndTick, LoopInv, Late, sync, locals
  <2> QED
    BY <2>1, <2>2
<1>5. CASE TickAborts
  <2>1. /\ UNCHANGED <<recorded, chainHeight, tip, lastBlock, savedBlock, onTime>>
        /\ reorgs' >= reorgs
        /\ \A o \in Outputs : ~Transparent(o) /\ Listed(o) => o \in lost'
        /\ lost \subseteq lost'
    BY <1>5 DEF TickAborts, db, world, wallet, history
  <2> HIDE DEF Listed, Transparent
  <2> QED
    BY <2>1 DEF Transparent
<1>6. CASE Crash
  <2>1. /\ UNCHANGED <<recorded, chainHeight, tip, savedBlock, onTime, lost>>
        /\ lastBlock' = savedBlock /\ reorgs' >= reorgs
    BY <1>6 DEF Crash, db, world, history
  <2> QED
    BY <2>1
<1>7. ASSUME NEW o \in Outputs, Pay(o) PROVE NoteInv'
  <2>1. /\ UNCHANGED <<recorded, tip, lastBlock, savedBlock, lost, reorgs, found>>
        /\ chainHeight[o] = Unseen /\ chainHeight' = [chainHeight EXCEPT ![o] = 0]
        /\ \A p \in onTime' : p \in onTime \/ (p = o /\ Transparent(o))
    BY <1>7 DEF Pay, BecomesVisible, db, sync, wallet, locals, bounds
  <2>2. \A p \in Outputs : p # o => chainHeight'[p] = chainHeight[p]
    BY <2>1
  <2>3. chainHeight'[o] = 0
    BY <2>1
  <2> QED
    BY <2>1, <2>2, <2>3
<1>8. ASSUME NEW S \in SUBSET Outputs, NewBlock(S) PROVE NoteInv'
  <2>1. /\ UNCHANGED <<recorded, lastBlock, savedBlock, lost, reorgs, found>>
        /\ tip' = tip + 1 /\ \A o \in S : chainHeight[o] = 0
        /\ chainHeight' = [o \in Outputs |-> IF o \in S THEN tip' ELSE chainHeight[o]]
        /\ \A p \in onTime' : p \in onTime \/ (p \in S /\ tip' > lastBlock)
    BY <1>8 DEF NewBlock, BecomesVisible, db, sync, wallet, locals, bounds
  <2>2. \A o \in Outputs : chainHeight'[o] = IF o \in S THEN tip + 1 ELSE chainHeight[o]
    BY <2>1
  <2> QED
    BY <2>1, <2>2
<1>9. ASSUME NEW o \in Outputs, Evict(o) PROVE NoteInv'
  <2>1. /\ UNCHANGED <<recorded, tip, lastBlock, savedBlock, lost, found>>
        /\ reorgs' = reorgs + 1
        /\ chainHeight' = [chainHeight EXCEPT ![o] = Unseen] /\ onTime' = onTime \ {o}
    BY <1>9 DEF Evict, Fault, db, sync, wallet, locals
  <2>2. \A p \in Outputs : p # o => chainHeight'[p] = chainHeight[p]
    BY <2>1
  <2> QED
    BY <2>1, <2>2
<1>10. ASSUME NEW S \in SUBSET Outputs, Reorg(S) PROVE NoteInv'
  <2>1. /\ UNCHANGED <<recorded, lastBlock, savedBlock, lost, found>>
        /\ reorgs' = reorgs + 1
        /\ chainHeight' = [o \in Outputs |-> IF o \in S THEN Unseen
                                             ELSE IF chainHeight[o] = tip THEN 0
                                             ELSE chainHeight[o]]
        /\ onTime' = {o \in onTime \ S : Transparent(o) \/ chainHeight[o] # tip}
    BY <1>10 DEF Reorg, Fault, db, sync, wallet, locals
  <2>2. \A o \in onTime' : /\ o \in onTime /\ o \notin S
                           /\ chainHeight'[o] = chainHeight[o]
                              \/ (chainHeight'[o] = 0 /\ Transparent(o))
    BY <2>1
  <2> QED
    BY <2>1, <2>2
<1>11. CASE (\E t \in {0, tip} : TickStart(t)) \/ (Next /\ ~NoteStep) \/ UNCHANGED vars
  <2>1. /\ UNCHANGED <<recorded, chainHeight, tip, lastBlock, savedBlock>>
        /\ UNCHANGED <<found, onTime, lost>> /\ reorgs' >= reorgs
    BY <1>11, UnnotedSteps DEF TickStart, vars, db, world, wallet, sync, locals, history,
       trail, bounds
  <2> QED
    BY <2>1
<1> QED
  BY <1>1, <1>2, <1>3, <1>4, <1>5, <1>6, <1>7, <1>8, <1>9, <1>10, <1>11 DEF NoteStep

\* So it is in every behaviour.
LEMMA NoteInvariance == Spec => []NoteInv
<1>1. Init => NoteInv
  BY DEF Init, NoteInv, Unseen
<1>2. Inv => TypeOK
  BY DEF Inv
<1> QED
  BY <1>1, <1>2, NoteKept, Invariance, LoopInvariance, PTL DEF Spec

\* The wallet file never runs ahead of the payments table (sync/mod.rs,
\* run_tick: the wallet is saved last), in whatever order ticks end, crash and
\* restart, but for what a tick that failed had found.
THEOREM SavedNotesHaveRows == Spec => []SavedNotesAreRecorded
<1>1. NoteInv => SavedNotesAreRecorded
  BY DEF NoteInv, SavedNotesAreRecorded
<1> QED
  BY <1>1, NoteInvariance, PTL
------------------------------------------------------------------------------
(* Once a tick that started after the window of an invoice has looked for  *)
(* its payments, all that came in time are in the table or in its hands;   *)
(* what comes later is not in time, because the clock is past the window,  *)
(* and the window is only ever moved forward.                              *)
Looked(i) == IF i \in ShieldInvoices THEN stage = "shield" ELSE i \in polled
InTime(i) == (onTime \ lost) \cap OutputsOf(i)

TimeInv ==
  /\ \A i \in Invoices : Looked(i) /\ expiresAt[i] <= now =>
       \A o \in InTime(i) : o \in recorded \/ Listed(o)
  /\ pc = "applyExpiry" => now + PartialReset > expiresAt[cur] /\ verdict[cur] = "open"
  /\ \A i \in Invoices : verdict[i] = "expired" =>
       expiresAt[i] <= clock /\ (i \in ShieldInvoices => InTime(i) \subseteq recorded)

\* What TimeInv speaks of has these types; nothing is due but to an invoice
\* that exists.
LEMMA TimeTypes ==
  ASSUME Inv
  PROVE  /\ now \in Nat /\ clock \in Nat /\ cur \in Invoices /\ PartialReset \in Nat
         /\ expiresAt \in [Invoices -> Nat] /\ Windows \subseteq Nat \ {0}
         /\ verdict \in [Invoices -> {"open", "confirmed", "expired"}]
         /\ status \in [Invoices -> InvoiceStatuses \cup {"none"}]
         /\ \A i \in Invoices : ~Exists(i) => verdict[i] = "open"
<1>1. \A i \in Invoices : ~Exists(i) => verdict[i] = "open"
  BY DEF Inv, DecidedOnce, UndecidedIsClean, Terminal, Exists
<1> QED
  BY <1>1, BoundsAssumption, ConfigAssumption DEF Inv, TypeOK

\* The steps that touch what TimeInv speaks of.
TimeStep ==
  \/ \E t \in {0, tip} : TickStart(t)
  \/ \E i \in Invoices : FetchUtxos(i) \/ SweepWrite(i) \/ \E w \in Windows : Create(i, w)
  \/ \E d \in Discovered : Record(d)
  \/ ShieldTick \/ ApplyWrite \/ ApplyExpiry \/ ConfirmsWrite
  \/ SaveWallet \/ TickAborts \/ Crash
  \/ \E o \in Outputs : Pay(o) \/ Evict(o)
  \/ \E S \in SUBSET Outputs : NewBlock(S) \/ Reorg(S)
  \/ TimePasses

\* The others leave it alone.
LEMMA UntimedSteps ==
  ASSUME Next, ~TimeStep
  PROVE  /\ UNCHANGED <<expiresAt, now, clock, stage, polled, found, recorded>>
         /\ UNCHANGED <<onTime, lost, verdict>>
         /\ pc' # "applyExpiry"  \/ UNCHANGED <<pc, cur>>
<1> USE DEF db, world, wallet, sync, locals, timing, trail, history, bounds
<1>1. CASE Matching
  BY <1>1 DEF TimeStep, Matching, InsertUtxo, InsertNote, WatchList, ApplyRead
<1>2. CASE Confirming
  BY <1>2 DEF TimeStep, Confirming, ConfirmsSelect, ConfirmRow, ConfirmsZeroConf, ConfirmsEvaluate,
     ConfirmsRefund, ConfirmsWebhook
<1>3. CASE Sweeping
  BY <1>3 DEF TimeStep, Sweeping, SweepSelect, SweepRefund, SweepWebhook
<1>4. CASE Api
  BY <1>4 DEF TimeStep, Api, CancelStep, CancelRead, CancelWrite, CancelWebhook
<1>5. CASE Failures
  BY <1>5 DEF TimeStep, Failures, Interruptions, CancelAborts, Restart, Fault
<1>6. CASE World
  BY <1>6 DEF TimeStep, World
<1> QED
  BY <1>1, <1>2, <1>3, <1>4, <1>5, <1>6 DEF Next, SyncStep

\* What becomes visible after the window of an invoice is not in time for it.
LEMMA TooLate ==
  ASSUME NEW S \in SUBSET Outputs, BecomesVisible(S), UNCHANGED <<lost, clock, expiresAt>>,
         clock \in Nat, expiresAt \in [Invoices -> Nat],
         NEW i \in Invoices, expiresAt[i] <= clock
  PROVE  InTime(i)' \subseteq InTime(i)
BY DEF BecomesVisible, InTime, OutputsOf

\* A tick that finds an invoice's window closed knows all that came in time.
LEMMA TimeKept ==
  Inv /\ LoopInv /\ DueInv /\ NoteInv /\ TimeInv /\ [Next]_vars => TimeInv'
<1> SUFFICES ASSUME Inv, LoopInv, DueInv, NoteInv, TimeInv, [Next]_vars PROVE TimeInv'
  OBVIOUS
<1>t. TypeOK
  BY DEF Inv
<1>n. now <= clock
  BY DEF DueInv
<1> USE <1>t, <1>n, NoteTypes, TimeTypes DEF TimeInv
\* It is enough that a step closes no window, brings nothing in time, forgets
\* nothing, has looked no further and decides nothing.
<1>s. ASSUME UNCHANGED <<expiresAt, now, clock, verdict>>,
             \A i \in Invoices : Looked(i)' => Looked(i),
             \A i \in Invoices : expiresAt[i] <= clock => InTime(i)' \subseteq InTime(i),
             recorded \subseteq recorded',
             \A o \in Outputs : Listed(o) => Listed(o)' \/ o \in recorded',
             pc' # "applyExpiry" \/ UNCHANGED <<pc, cur>>
      PROVE  TimeInv'
  <2>1. \A i \in Invoices : InTime(i) \subseteq Outputs
    BY DEF InTime
  <2>2. ASSUME NEW i \in Invoices, Looked(i)', expiresAt'[i] <= now', NEW o \in InTime(i)'
        PROVE  o \in recorded' \/ Listed(o)'
    BY <1>s, <2>1, <2>2
  <2>3. ASSUME NEW i \in Invoices, verdict'[i] = "expired"
        PROVE  expiresAt'[i] <= clock' /\ (i \in ShieldInvoices => InTime(i)' \subseteq recorded')
    BY <1>s, <2>3
  <2>4. pc' = "applyExpiry" => now' + PartialReset > expiresAt'[cur'] /\ verdict'[cur'] = "open"
    BY <1>s
  <2> QED
    BY <2>2, <2>3, <2>4
<1>1. CASE \E t \in {0, tip} : TickStart(t)
  <2>1. /\ UNCHANGED <<expiresAt, clock, verdict, recorded, onTime, lost, stage, polled>>
        /\ pc' = "watch" /\ stage = "transparent" /\ polled = {}
    BY <1>1 DEF TickStart, db, timing, world, history, trail, LoopInv
  <2>2. \A i \in Invoices : ~Looked(i)'
    BY <2>1 DEF Looked
  <2> QED
    BY <2>1, <2>2 DEF InTime, OutputsOf
<1>2. ASSUME NEW i \in Invoices, FetchUtxos(i) PROVE TimeInv'
  <2>1. /\ UNCHANGED <<expiresAt, now, clock, verdict, recorded, onTime, lost, stage>>
        /\ pc' \in {"match", "fetch"} /\ found \subseteq found'
        /\ polled' = polled \/ polled' = polled \cup {i}
    BY <1>2 DEF FetchUtxos, db, timing, world
  <2>2. \A j \in Invoices : InTime(j)' = InTime(j)
    BY <2>1 DEF InTime, OutputsOf
  <2>3. \A o \in Outputs : Listed(o) => Listed(o)'
    BY <2>1 DEF Listed
  <2>4. CASE polled' = polled
    BY <1>s, <2>1, <2>2, <2>3, <2>4 DEF Looked
  <2>5. CASE polled' # polled
    <3>1. found' = found \cup
            {[output |-> o, height |-> chainHeight[o]] :
                o \in {o \in OutputsOf(i) : Transparent(o) /\ chainHeight[o] # Unseen}}
      BY <1>2, <2>5 DEF FetchUtxos
    <3>2. \A o \in InTime(i) : i \notin ShieldInvoices => Listed(o)'
      <4> SUFFICES ASSUME NEW o \in InTime(i), i \notin ShieldInvoices PROVE Listed(o)'
        OBVIOUS
      <4> DEFINE d == [output |-> o, height |-> chainHeight[o]]
      <4>1. o \in OutputsOf(i) /\ Transparent(o) /\ chainHeight[o] # Unseen
        BY DEF InTime, NoteInv, OutputsOf, Transparent
      <4>2. d \in found' /\ d.output = o
        BY <3>1, <4>1
      <4> HIDE DEF d
      <4> QED
        BY <4>2 DEF Listed
    <3>3. \A j \in Invoices : j # i \/ j \in ShieldInvoices => (Looked(j)' => Looked(j))
      BY <2>1 DEF Looked
    <3>4. \A j \in Invoices : InTime(j) \subseteq Outputs
      BY DEF InTime
    <3> QED
      BY <2>1, <2>2, <2>3, <3>2, <3>3, <3>4
  <2> QED
    BY <2>4, <2>5
<1>3. ASSUME NEW d \in Discovered, Record(d) PROVE TimeInv'
  <2>1. /\ UNCHANGED <<expiresAt, now, clock, verdict, onTime, lost, stage, polled>>
        /\ pc' # "applyExpiry" /\ recorded' = recorded \cup {d.output} /\ found' = found \ {d}
    BY <1>3 DEF Record, timing, world, history, trail
  <2>2. \A o \in Outputs : Listed(o) => Listed(o)' \/ o \in recorded'
    BY <2>1 DEF Listed
  <2> QED
    BY <1>s, <2>1, <2>2 DEF Looked, InTime, OutputsOf
<1>4. CASE ShieldTick
  <2>1. /\ UNCHANGED <<expiresAt, now, clock, verdict, recorded, onTime, lost, polled>>
        /\ pc' = "match" /\ found = {}
        /\ found' = {[output |-> o, height |-> chainHeight[o]] : o \in NewNotes}
    BY <1>4 DEF ShieldTick, db, timing, world, history, trail
  <2>2. \A j \in Invoices : InTime(j)' = InTime(j)
    BY <2>1 DEF InTime, OutputsOf
  <2>3. ASSUME NEW i \in ShieldInvoices, i \in Invoices, NEW o \in InTime(i)
        PROVE  o \in recorded \/ Listed(o)'
    <3> DEFINE d == [output |-> o, height |-> chainHeight[o]]
    <3>1. o \in Outputs /\ ~Transparent(o) /\ o \in onTime \ lost
      BY <2>3 DEF InTime, OutputsOf, Transparent
    <3>2. o \in recorded \/ chainHeight[o] > lastBlock
      BY <2>1, <3>1 DEF NoteInv, Listed
    <3>3. chainHeight[o] > lastBlock => d \in found'
      BY <2>1, <3>1 DEF NewNotes
    <3>4. d.output = o
      OBVIOUS
    <3> HIDE DEF d
    <3> QED
      BY <3>2, <3>3, <3>4 DEF Listed
  <2>4. \A o \in Outputs : ~Listed(o)
    BY <2>1 DEF Listed
  <2>5. \A i \in Invoices : i \notin ShieldInvoices => (Looked(i)' => Looked(i))
    BY <2>1 DEF Looked
  <2>6. \A i \in Invoices : InTime(i) \subseteq Outputs
    BY DEF InTime
  <2> QED
    BY <2>1, <2>2, <2>3, <2>4, <2>5, <2>6
<1>5. CASE ApplyWrite
  <2>1. /\ UNCHANGED <<expiresAt, now, clock, verdict, recorded, onTime, lost,
                    stage, polled, found, cur>>
        /\ pc = "applyWrite"
    BY <1>5 DEF ApplyWrite, timing, world
  <2>2. pc' = "applyExpiry" => now + PartialReset > expiresAt[cur] /\ verdict[cur] = "open"
    <3>1. CASE seen \notin Terminal
      BY <1>5, <2>1, <3>1 DEF ApplyWrite, Inv, DecidedOnce, StaleWritesAreSafe
    <3>2. CASE seen \in Terminal
      BY <1>5, <3>2 DEF ApplyWrite, next_status_on_payment, Terminal
    <3> QED
      BY <3>1, <3>2
  <2>3. \A i \in Invoices : InTime(i)' = InTime(i) /\ (Looked(i)' <=> Looked(i))
    BY <2>1 DEF InTime, OutputsOf, Looked
  <2>4. \A o \in Outputs : Listed(o)' <=> Listed(o)
    BY <2>1 DEF Listed
  <2>5. \A i \in Invoices : InTime(i) \subseteq Outputs
    BY DEF InTime
  <2> QED
    BY <2>1, <2>2, <2>3, <2>4, <2>5
<1>6. CASE ApplyExpiry
  <2>1. /\ UNCHANGED <<now, clock, verdict, recorded, onTime, lost, stage, polled, found, cur>>
        /\ pc = "applyExpiry" /\ pc' = "match"
        /\ expiresAt' = [expiresAt EXCEPT ![cur] = now + PartialReset]
    BY <1>6 DEF ApplyExpiry, world, history, trail, locals
  <2>2. \A i \in Invoices : InTime(i)' = InTime(i) /\ (Looked(i)' <=> Looked(i))
    BY <2>1 DEF InTime, OutputsOf, Looked
  <2>3. \A o \in Outputs : Listed(o)' <=> Listed(o)
    BY <2>1 DEF Listed
  <2>4. expiresAt'[cur] > expiresAt[cur]
        /\ \A i \in Invoices : i # cur => expiresAt'[i] = expiresAt[i]
    BY <2>1
  <2>5. \A i \in Invoices : expiresAt[i] <= expiresAt'[i] /\ expiresAt'[i] \in Nat
    BY <2>1, <2>4
  <2>6. \A i \in Invoices : InTime(i) \subseteq Outputs
    BY DEF InTime
  <2>7. \A i \in Invoices : verdict[i] = "expired" => i # cur
    BY <2>1
  <2> QED
    BY <2>1, <2>2, <2>3, <2>4, <2>5, <2>6, <2>7
<1>7. CASE ConfirmsWrite
  <2>1. /\ UNCHANGED <<expiresAt, now, clock, recorded, onTime, lost, stage, polled, found, cur>>
        /\ pc' = "confirmRefund" /\ verdict' = [verdict EXCEPT ![cur] = "confirmed"]
    BY <1>7 DEF ConfirmsWrite, timing, world, trail, locals
  <2>2. \A i \in Invoices : InTime(i)' = InTime(i) /\ (Looked(i)' <=> Looked(i))
    BY <2>1 DEF InTime, OutputsOf, Looked
  <2>3. \A o \in Outputs : Listed(o)' <=> Listed(o)
    BY <2>1 DEF Listed
  <2>4. \A i \in Invoices : verdict'[i] = "expired" => verdict[i] = "expired"
    BY <2>1
  <2>5. \A i \in Invoices : InTime(i) \subseteq Outputs
    BY DEF InTime
  <2> QED
    BY <2>1, <2>2, <2>3, <2>4, <2>5
<1>8. ASSUME NEW i \in Invoices, SweepWrite(i) PROVE TimeInv'
  <2>1. /\ UNCHANGED <<expiresAt, now, clock, recorded, onTime, lost, stage, polled, found>>
        /\ pc = "sweep" /\ pc' = "sweepRefund" /\ verdict' = [verdict EXCEPT ![i] = "expired"]
        /\ i \in sweep
    BY <1>8 DEF SweepWrite, timing, world, trail
  <2>2. \A j \in Invoices : InTime(j)' = InTime(j) /\ (Looked(j)' <=> Looked(j))
    BY <2>1 DEF InTime, OutputsOf, Looked
  <2>3. \A o \in Outputs : (Listed(o)' <=> Listed(o)) /\ ~Listed(o)
    BY <2>1 DEF Listed, LoopInv, Late
  <2>4. \A j \in Invoices : verdict'[j] = "expired" => j = i \/ verdict[j] = "expired"
    BY <2>1
  <2>5. \A j \in Invoices : InTime(j) \subseteq Outputs
    BY DEF InTime
  <2>6. expiresAt[i] <= now
    BY <2>1 DEF DueInv
  <2>7. i \in ShieldInvoices => InTime(i) \subseteq recorded
    <3>1. i \in ShieldInvoices => Looked(i)
      BY <2>1 DEF Looked, LoopInv, Late
    <3> QED
      BY <2>3, <2>5, <2>6, <3>1
  <2> QED
    BY <2>1, <2>2, <2>3, <2>4, <2>5, <2>6, <2>7
<1>9. ASSUME NEW i \in Invoices, NEW w \in Windows, Create(i, w) PROVE TimeInv'
  <2>1. /\ UNCHANGED <<now, clock, verdict, recorded, onTime, lost, stage, polled, found, cur, pc>>
        /\ ~Exists(i) /\ expiresAt' = [expiresAt EXCEPT ![i] = clock + w]
    BY <1>9 DEF Create, world, history, trail, sync, locals
  <2>2. \A j \in Invoices : InTime(j)' = InTime(j) /\ (Looked(j)' <=> Looked(j))
    BY <2>1 DEF InTime, OutputsOf, Looked
  <2>3. \A o \in Outputs : Listed(o)' <=> Listed(o)
    BY <2>1 DEF Listed
  <2>4. expiresAt'[i] > now /\ \A j \in Invoices : j # i => expiresAt'[j] = expiresAt[j]
    BY <2>1
  <2>5. \A j \in Invoices : InTime(j) \subseteq Outputs
    BY DEF InTime
  <2>6. verdict[i] = "open" /\ (pc = "applyExpiry" => cur # i)
    BY <2>1 DEF LoopInv, Applying
  <2> QED
    BY <2>1, <2>2, <2>3, <2>4, <2>5, <2>6
<1>10. CASE SaveWallet \/ TickAborts \/ Crash
  <2>1. /\ UNCHANGED <<expiresAt, clock, recorded, verdict, onTime>> /\ lost \subseteq lost'
    BY <1>10 DEF SaveWallet, TickAborts, Crash, db, timing, world, history
  <2>2. pc' = "idle" /\ stage' = "transparent" /\ polled' = {}
    BY <1>10 DEF SaveWallet, TickAborts, Crash, EndTick
  <2>3. \A i \in Invoices : ~Looked(i)' /\ InTime(i)' \subseteq InTime(i)
    BY <2>1, <2>2 DEF Looked, InTime, OutputsOf
  <2> QED
    BY <2>1, <2>2, <2>3
<1>11. CASE (\E o \in Outputs : Pay(o)) \/ \E S \in SUBSET Outputs : NewBlock(S)
  <2>1. /\ UNCHANGED <<expiresAt, now, clock, recorded, verdict, lost, stage, polled,
                    found, pc, cur>>
        /\ \E S \in SUBSET Outputs : BecomesVisible(S)
    BY <1>11 DEF Pay, NewBlock, db, timing, sync, locals
  <2>2. \A i \in Invoices : expiresAt[i] <= clock => InTime(i)' \subseteq InTime(i)
    BY <2>1, TooLate
  <2> QED
    BY <1>s, <2>1, <2>2 DEF Looked, Listed
<1>12. CASE (\E o \in Outputs : Evict(o)) \/ \E S \in SUBSET Outputs : Reorg(S)
  <2>1. /\ UNCHANGED <<expiresAt, now, clock, recorded, verdict, lost, stage, polled,
                    found, pc, cur>>
        /\ onTime' \subseteq onTime
    BY <1>12 DEF Evict, Reorg, db, timing, sync, locals
  <2>2. \A i \in Invoices : InTime(i)' \subseteq InTime(i)
    BY <2>1 DEF InTime, OutputsOf
  <2> QED
    BY <1>s, <2>1, <2>2 DEF Looked, Listed
<1>13. CASE TimePasses
  <2>1. /\ UNCHANGED <<expiresAt, now, recorded, verdict, onTime, lost, stage, polled,
                    found, pc, cur>>
        /\ clock' = clock + 1
    BY <1>13 DEF TimePasses, db, timing, sync, locals, history, trail
  <2>2. \A i \in Invoices : InTime(i)' = InTime(i) /\ (Looked(i)' <=> Looked(i))
    BY <2>1 DEF InTime, OutputsOf, Looked
  <2>3. \A o \in Outputs : Listed(o)' <=> Listed(o)
    BY <2>1 DEF Listed
  <2>4. \A i \in Invoices : InTime(i) \subseteq Outputs
    BY DEF InTime
  <2> QED
    BY <2>1, <2>2, <2>3, <2>4
<1>14. CASE (Next /\ ~TimeStep) \/ UNCHANGED vars
  <2>1. /\ UNCHANGED <<expiresAt, now, clock, stage, polled, found, recorded>>
        /\ UNCHANGED <<onTime, lost, verdict>>
        /\ pc' # "applyExpiry"  \/ UNCHANGED <<pc, cur>>
    BY <1>14, UntimedSteps DEF vars, db, timing, world, sync, locals, history, trail
  <2> QED
    BY <1>s, <2>1 DEF Looked, Listed, InTime, OutputsOf
<1> QED
  BY <1>1, <1>2, <1>3, <1>4, <1>5, <1>6, <1>7, <1>8, <1>9, <1>10, <1>11, <1>12, <1>13, <1>14
     DEF TimeStep

\* So it is in every behaviour.
LEMMA TimeInvariance == Spec => []TimeInv
<1>1. Init => TimeInv
  BY DEF Init, TimeInv, InTime
<1> QED
  BY <1>1, TimeKept, Invariance, LoopInvariance, DueInvariance, NoteInvariance, PTL DEF Spec

\* A payment the daemon could see before the invoice expired is in the table
\* when it expires (sync/mod.rs, run_tick: the time is read before payments are
\* looked for), provided the tick fetched its address and no tick that failed
\* dropped it.
THEOREM OnTimeIsCounted == Spec => OnTimePaymentsAreCounted
<1>1. Inv /\ LoopInv /\ DueInv /\ TimeInv /\ [Next]_vars =>
        [\A i \in Invoices : Expires(i) /\ i \in polled \cup ShieldInvoices =>
           (onTime \ lost) \cap OutputsOf(i) \subseteq recorded]_vars
  <2> SUFFICES ASSUME Inv, LoopInv, DueInv, TimeInv, Next, NEW i \in Invoices, Expires(i),
                      i \in polled \cup ShieldInvoices
               PROVE  InTime(i) \subseteq recorded
    BY DEF InTime
  <2>1. SweepWrite(i)
    BY OnlyTheSweeperExpires
  <2>2. expiresAt[i] <= now /\ found = {} /\ stage = "shield"
    BY <2>1 DEF SweepWrite, DueInv, LoopInv, Late
  <2> QED
    BY <2>2 DEF TimeInv, Looked, Listed
<1> QED
  BY <1>1, Invariance, LoopInvariance, DueInvariance, TimeInvariance, PTL
     DEF Spec, OnTimePaymentsAreCounted
------------------------------------------------------------------------------
(* An invoice that is decided is not polled any more: no transparent output *)
(* of its address is looked for, nor in the hands of a tick.               *)
QuietInv ==
  /\ \A i \in watch : verdict[i] = "open"
  /\ \A d \in found : Transparent(d.output) => verdict[InvoiceOf[d.output]] = "open"

\* The steps that touch what QuietInv speaks of.
PollStep ==
  \/ WatchList \/ ShieldTick \/ ConfirmsWrite
  \/ \E i \in Invoices : FetchUtxos(i) \/ SweepWrite(i)

\* The others add nothing to the lists of the tick and decide nothing.
LEMMA UnquietSteps ==
  ASSUME Next, ~PollStep
  PROVE  UNCHANGED verdict /\ watch' \subseteq watch /\ found' \subseteq found
<1> USE DEF db, world, wallet, sync, locals, timing, trail, history, bounds
<1>1. CASE Matching
  BY <1>1 DEF PollStep, Matching, TickStart, InsertUtxo, InsertNote, Record, ApplyRead, ApplyWrite,
     ApplyExpiry
<1>2. CASE Confirming
  BY <1>2 DEF PollStep, Confirming, ConfirmsSelect, ConfirmRow, ConfirmsZeroConf, ConfirmsEvaluate,
     ConfirmsRefund, ConfirmsWebhook
<1>3. CASE Sweeping
  BY <1>3 DEF PollStep, Sweeping, SweepSelect, SweepRefund, SweepWebhook, SaveWallet, EndTick
<1>4. CASE Api
  BY <1>4 DEF Api, CancelStep, Create, CancelRead, CancelWrite, CancelWebhook
<1>5. CASE Failures
  BY <1>5 DEF Failures, Interruptions, CancelAborts, TickAborts, Crash, Restart, EndTick
<1>6. CASE World
  BY <1>6 DEF World, Pay, Evict, NewBlock, Reorg, TimePasses
<1> QED
  BY <1>1, <1>2, <1>3, <1>4, <1>5, <1>6 DEF Next, SyncStep

\* What a tick polls and holds is of invoices that are still open.
LEMMA QuietKept == Inv /\ LoopInv /\ QuietInv /\ [Next]_vars => QuietInv'
<1> SUFFICES ASSUME Inv, LoopInv, QuietInv, [Next]_vars PROVE QuietInv'
  OBVIOUS
<1> USE DEF QuietInv, Transparent
<1>1. CASE WatchList
  <2>1. UNCHANGED <<verdict, found>> /\ watch' = Watched
    BY <1>1 DEF WatchList, history
  <2>2. \A i \in Watched : verdict[i] = "open"
    BY DEF Watched, Inv, DecidedOnce, UndecidedIsClean, Unpaid, Terminal
  <2> QED
    BY <2>1, <2>2
<1>2. CASE ShieldTick
  <2>1. UNCHANGED <<verdict, watch>> /\ \A d \in found' : ~Transparent(d.output)
    BY <1>2 DEF ShieldTick, NewNotes, history
  <2> QED
    BY <2>1
<1>3. CASE ConfirmsWrite \/ \E i \in Invoices : SweepWrite(i)
  <2>1. UNCHANGED <<watch, found>> /\ watch = {} /\ found = {}
    BY <1>3 DEF ConfirmsWrite, SweepWrite, LoopInv, Late, locals
  <2> QED
    BY <2>1
<1>4. ASSUME NEW i \in Invoices, FetchUtxos(i) PROVE QuietInv'
  <2>1. UNCHANGED verdict /\ watch' \subseteq watch /\ verdict[i] = "open"
    BY <1>4 DEF FetchUtxos
  <2>2. \A d \in found' : d \in found \/ InvoiceOf[d.output] = i
    <3> DEFINE news == {[output |-> o, height |-> chainHeight[o]] :
                 o \in {o \in OutputsOf(i) : Transparent(o) /\ chainHeight[o] # Unseen}}
    <3>1. found' = found \cup news \/ found' = found
      BY <1>4 DEF FetchUtxos
    <3>2. \A d \in news : InvoiceOf[d.output] = i
      BY DEF OutputsOf
    <3> QED
      BY <3>1, <3>2
  <2> QED
    BY <2>1, <2>2
<1>5. CASE (Next /\ ~PollStep) \/ UNCHANGED vars
  <2>1. UNCHANGED verdict /\ watch' \subseteq watch /\ found' \subseteq found
    BY <1>5, UnquietSteps DEF vars, sync, locals, history
  <2> QED
    BY <2>1
<1> QED
  BY <1>1, <1>2, <1>3, <1>4, <1>5 DEF PollStep

\* So it is in every behaviour.
LEMMA QuietInvariance == Spec => []QuietInv
<1>1. Init => QuietInv
  BY DEF Init, QuietInv
<1> QED
  BY <1>1, QuietKept, Invariance, LoopInvariance, PTL DEF Spec
------------------------------------------------------------------------------
(* What the loop owes when it decides, it has enqueued when it is done;    *)
(* and no more falls due later.                                            *)
Refunding(i) == cur = i /\ pc \in {"confirmRefund", "sweepRefund"}

CompletedInv ==
  \A i \in Invoices : verdict[i] # "open" /\ i \notin cut =>
    /\ ~Deciding(i) => Announcements(i) # {}
    /\ ~Refunding(i) => RefundIsCompleted(i)

\* The sums that are owed are numbers.
LEMMA OwedType ==
  ASSUME TypeOK, NEW i \in Invoices
  PROVE  /\ Fee \in Nat /\ OwedBack(i) \in Int
         /\ InTime(i) \cap PaidRows(i) \in SUBSET Outputs /\ ConfirmedRows(i) \in SUBSET Outputs
         /\ (onTime \ lost) \cap PaidRows(i) = InTime(i) \cap PaidRows(i)
<1>1. /\ (onTime \ lost) \cap PaidRows(i) = InTime(i) \cap PaidRows(i)
      /\ InTime(i) \cap PaidRows(i) \in SUBSET Outputs
      /\ ConfirmedRows(i) \in SUBSET Outputs
  BY DEF PaidRows, ConfirmedRows, OutputsOf, InTime
<1> QED
  BY <1>1, AmountsAssumption DEF OwedBack, ConfirmedPaid

\* The rows that count for a decided invoice: no step makes them more.
LEMMA OwedKept ==
  ASSUME Inv, Inv', LoopInv, CoveredInv, TimeInv, QuietInv, [Next]_vars,
         NEW i \in Invoices, verdict[i] # "open"
  PROVE  /\ verdict[i] = "expired" =>
              InTime(i)' \cap PaidRows(i)' \subseteq InTime(i) \cap PaidRows(i)
         /\ verdict[i] = "confirmed" /\ ~CountsLateNotes(i) =>
              ConfirmedRows(i)' \subseteq ConfirmedRows(i)
<1>0. TypeOK /\ Threshold \in Nat
  BY ConfigAssumption DEF Inv
<1> USE <1>0, NoteTypes, TimeTypes, ChainTypes
<1>1. ASSUME UNCHANGED <<recorded, confs>>, verdict[i] = "expired" => InTime(i)' \subseteq InTime(i)
      PROVE  /\ verdict[i] = "expired" =>
                  InTime(i)' \cap PaidRows(i)' \subseteq InTime(i) \cap PaidRows(i)
             /\ ConfirmedRows(i)' \subseteq ConfirmedRows(i)
  BY <1>1 DEF PaidRows, ConfirmedRows, OutputsOf
<1>2. ASSUME NEW d \in Discovered, Record(d)
      PROVE  /\ verdict[i] = "expired" =>
                  InTime(i)' \cap PaidRows(i)' \subseteq InTime(i) \cap PaidRows(i)
             /\ verdict[i] = "confirmed" /\ ~CountsLateNotes(i) =>
                  ConfirmedRows(i)' \subseteq ConfirmedRows(i)
  <2>1. /\ d \in found /\ d.output \in Outputs /\ UNCHANGED <<onTime, lost>>
        /\ \/ UNCHANGED <<recorded, confs>>
           \/ /\ recorded' = recorded \cup {d.output}
              /\ confs' = [confs EXCEPT ![d.output] = 0]
    BY <1>2 DEF Record, Discovered, history, trail
  <2>2. InTime(i)' = InTime(i)
    BY <2>1 DEF InTime, OutputsOf
  <2>3. d.output \in OutputsOf(i) => i \in ShieldInvoices
    BY <2>1 DEF QuietInv, Transparent, OutputsOf
  <2>4. ASSUME verdict[i] = "expired"
        PROVE  InTime(i)' \cap PaidRows(i)' \subseteq InTime(i) \cap PaidRows(i)
    <3>1. d.output \in InTime(i) => d.output \in recorded
      BY <2>3, <2>4 DEF TimeInv, InTime
    <3>2. PaidRows(i)' \subseteq PaidRows(i) \cup {d.output}
      BY <2>1 DEF PaidRows, OutputsOf
    <3>3. \A o \in InTime(i) \cap recorded : o \in PaidRows(i)
      BY DEF PaidRows, InTime
    <3> QED
      BY <2>2, <3>1, <3>2, <3>3
  <2>5. ASSUME verdict[i] = "confirmed", ~CountsLateNotes(i)
        PROVE  ConfirmedRows(i)' \subseteq ConfirmedRows(i)
    <3>1. CASE d.output \in OutputsOf(i)
      <4>1. Threshold > 0
        BY <2>3, <2>5, <3>1 DEF CountsLateNotes
      <4> QED
        BY <2>1, <4>1 DEF ConfirmedRows, PaidRows, OutputsOf
    <3>2. CASE d.output \notin OutputsOf(i)
      BY <2>1, <3>2 DEF ConfirmedRows, PaidRows, OutputsOf
    <3> QED
      BY <3>1, <3>2
  <2> QED
    BY <2>4, <2>5
<1>3. ASSUME NEW o \in Outputs, ConfirmRow(o)
      PROVE  /\ InTime(i)' \cap PaidRows(i)' \subseteq InTime(i) \cap PaidRows(i)
             /\ ConfirmedRows(i)' \subseteq ConfirmedRows(i)
  <2>1. o \notin OutputsOf(i)
    BY <1>3 DEF ConfirmRow, CoveredInv, OutputsOf
  <2>2. /\ UNCHANGED <<recorded, onTime, lost>>
        /\ \A p \in Outputs : p # o => confs'[p] = confs[p]
    BY <1>3 DEF ConfirmRow, history, trail
  <2> QED
    BY <2>1, <2>2 DEF InTime, PaidRows, ConfirmedRows, OutputsOf
<1>4. CASE (\E o \in Outputs : Pay(o)) \/ \E S \in SUBSET Outputs : NewBlock(S)
  <2>1. /\ UNCHANGED <<expiresAt, clock, recorded, confs, lost>>
        /\ \E S \in SUBSET Outputs : BecomesVisible(S)
    BY <1>4 DEF Pay, NewBlock, db, timing
  <2>2. verdict[i] = "expired" => expiresAt[i] <= clock
    BY DEF TimeInv
  <2> QED
    BY <1>1, <2>1, <2>2, TooLate
<1>5. CASE (\E o \in Outputs : Evict(o)) \/ \E S \in SUBSET Outputs : Reorg(S)
  <2>1. UNCHANGED <<recorded, confs, lost>> /\ onTime' \subseteq onTime
    BY <1>5 DEF Evict, Reorg, db
  <2> QED
    BY <1>1, <2>1 DEF InTime, OutputsOf
<1>6. CASE (\E j \in Invoices : FetchUtxos(j)) \/ ShieldTick \/ SaveWallet
           \/ TickAborts \/ Crash \/ Restart
           \/ \E t \in {0, tip} : TickStart(t)
  <2>1. UNCHANGED <<recorded, confs, onTime>> /\ lost \subseteq lost'
    BY <1>6 DEF FetchUtxos, ShieldTick, SaveWallet, TickAborts, Crash,
        Restart, TickStart, db, history, trail
  <2> QED
    BY <1>1, <2>1 DEF InTime, OutputsOf
<1>7. CASE (Next /\ ~NoteStep /\ ~CoverStep) \/ UNCHANGED vars
           \/ (\E j \in Invoices : ConfirmsEvaluate(j) \/ SweepWrite(j))
           \/ ConfirmsSelect \/ ConfirmsWrite
  <2>1. UNCHANGED <<recorded, confs>>
    BY <1>7, UncoveredSteps DEF vars, db, ConfirmsEvaluate, SweepWrite, ConfirmsSelect,
      ConfirmsWrite
  <2>2. UNCHANGED <<onTime, lost>>
    BY <1>7, UnnotedSteps DEF vars, history, trail, ConfirmsEvaluate, SweepWrite, ConfirmsSelect,
      ConfirmsWrite
  <2> QED
    BY <1>1, <2>1, <2>2 DEF InTime, OutputsOf
<1> QED
  BY <1>2, <1>3, <1>4, <1>5, <1>6, <1>7 DEF NoteStep, CoverStep, CountsLateNotes

\* While an invoice is being decided the loop completes it, unless it is cut
\* short, which is noted.
LEMMA DecidingSteps ==
  ASSUME Next
  PROVE  /\ cut \subseteq cut'
         /\ Deciding(cur) => \/ ConfirmsRefund \/ ConfirmsWebhook \/ SweepRefund \/ SweepWebhook
                            \/ cur \in cut'
                            \/ UNCHANGED <<pc, cur>>
         /\ (\E i \in Invoices : Deciding(i)') =>
              \/ ConfirmsWrite \/ ConfirmsRefund \/ SweepRefund
              \/ (\E i \in Invoices : SweepWrite(i))
              \/ UNCHANGED <<pc, cur>>
<1> USE DEF Deciding, db, world, wallet, sync, locals, timing, trail, history, bounds
<1>1. CASE Matching
  BY <1>1 DEF Matching, TickStart, WatchList, FetchUtxos, InsertUtxo, InsertNote, Record, ApplyRead,
     ApplyWrite, ApplyExpiry, ShieldTick
<1>2. CASE Confirming
  BY <1>2 DEF Confirming, ConfirmsSelect, ConfirmRow, ConfirmsZeroConf, ConfirmsEvaluate,
     ConfirmsWrite, ConfirmsRefund, ConfirmsWebhook
<1>3. CASE Sweeping
  BY <1>3 DEF Sweeping, SweepSelect, SweepWrite, SweepRefund, SweepWebhook, SaveWallet, EndTick
<1>4. CASE Api
  BY <1>4 DEF Api, CancelStep, Create, CancelRead, CancelWrite, CancelWebhook
<1>5. CASE Failures
  BY <1>5 DEF Failures, Interruptions, CancelAborts, TickAborts, Crash, Restart, EndTick, CutsShort
<1>6. CASE World
  BY <1>6 DEF World, Pay, Evict, NewBlock, Reorg, TimePasses
<1> QED
  BY <1>1, <1>2, <1>3, <1>4, <1>5, <1>6 DEF Next, SyncStep

\* A verdict is first written by one of two statements.
LEMMA FirstVerdict ==
  ASSUME Inv, [Next]_vars, NEW i \in Invoices, verdict[i] = "open", verdict'[i] # "open"
  PROVE  (ConfirmsWrite /\ i = cur) \/ SweepWrite(i)
<1>0. verdict \in [Invoices -> {"open", "confirmed", "expired"}] /\ Next
  BY TimeTypes DEF vars, history
<1>1. CASE ConfirmsWrite
  BY <1>0, <1>1 DEF ConfirmsWrite
<1>2. ASSUME NEW j \in Invoices, SweepWrite(j) PROVE SweepWrite(i)
  BY <1>0, <1>2 DEF SweepWrite
<1>3. CASE ~ConfirmsWrite /\ ~\E j \in Invoices : SweepWrite(j)
  BY <1>0, <1>3, OtherSteps DEF OutcomeStep, ConfirmsRefund, ConfirmsWebhook, SweepRefund,
     SweepWebhook, history
<1> QED
  BY <1>1, <1>2, <1>3

\* A refund above the fee is written, first of its invoice.
LEMMA RefundWritten ==
  ASSUME TypeOK, NEW i \in Invoices, NEW gross \in Nat,
         NEW reason \in {"overpayment", "partial_expired"},
         refunds[i] = <<>>, gross > Fee, EnqueueRefund(i, reason, gross)
  PROVE  refunds'[i] # <<>> /\ refunds'[i][1].gross = gross
<1> DEFINE e == [reason |-> reason, gross |-> gross]
<1>1. refunds' = [refunds EXCEPT ![i] = Append(@, e)] /\ e.gross = gross
  BY DEF EnqueueRefund
<1> HIDE DEF e
<1>2. refunds'[i] = <<e>>
  BY <1>1 DEF TypeOK
<1> QED
  BY <1>1, <1>2

\* The refund of the outcome that was just decided is what is owed.
LEMMA RefundCompletes ==
  ASSUME Inv, ConfirmsRefund \/ SweepRefund, NEW i \in Invoices, i = cur
  PROVE  RefundIsCompleted(i)'
<1>0. TypeOK /\ DecidedOnce /\ refunds[i] = <<>>
  BY DEF Inv, DecidedOnce, DecidingIsOrdered, ConfirmsRefund, SweepRefund
<1>1. /\ UNCHANGED <<verdict, recorded, confs, onTime, lost>>
      /\ verdict[i] = IF ConfirmsRefund THEN "confirmed" ELSE "expired"
  BY <1>0 DEF ConfirmsRefund, SweepRefund, DecidedOnce, DecidingIsOrdered, history, trail
<1>2. OwedBack(i)' = OwedBack(i)
  BY <1>1 DEF OwedBack, ConfirmedPaid, ConfirmedRows, PaidRows, OutputsOf
<1> SUFFICES ASSUME RefundsEnabled, OwedBack(i) > Fee
             PROVE  refunds'[i] # <<>> /\ refunds'[i][1].gross >= OwedBack(i)
  BY <1>2 DEF RefundIsCompleted
<1>3. CASE ConfirmsRefund
  <2>1. OwedBack(i) = Excess(i) /\ Excess(i) > 0 /\ Excess(i) > Fee /\ Excess(i) \in Nat
    <3>1. OwedBack(i) = Excess(i)
      BY <1>1, <1>3 DEF OwedBack, Excess
    <3> QED
      BY <1>0, <3>1, OwedType
  <2>2. EnqueueRefund(i, "overpayment", Excess(i))
    BY <1>3, <2>1 DEF ConfirmsRefund
  <2>3. refunds'[i] # <<>> /\ refunds'[i][1].gross = Excess(i)
    BY <1>0, <2>1, <2>2, RefundWritten
  <2> QED
    BY <2>1, <2>3
<1>4. CASE SweepRefund /\ ~ConfirmsRefund
  <2>1. OwedBack(i) <= Paid(i) /\ Paid(i) \in Nat /\ Paid(i) > Fee /\ Paid(i) # 0
    <3>1. OwedBack(i) = Total[(onTime \ lost) \cap PaidRows(i)]
      BY <1>1, <1>4 DEF OwedBack
    <3>2. (onTime \ lost) \cap PaidRows(i) \subseteq PaidRows(i) /\ PaidRows(i) \in SUBSET Outputs
      BY DEF PaidRows, OutputsOf
    <3>3. OwedBack(i) <= Paid(i) /\ Paid(i) \in Nat
      BY <3>1, <3>2, SumAssumption, AmountsAssumption DEF Paid
    <3> QED
      BY <1>0, <3>3, OwedType
  <2>2. EnqueueRefund(i, "partial_expired", Paid(i))
    BY <1>4, <2>1 DEF SweepRefund
  <2>3. refunds'[i] # <<>> /\ refunds'[i][1].gross = Paid(i)
    BY <1>0, <2>1, <2>2, RefundWritten
  <2> QED
    BY <2>1, <2>3
<1> QED
  BY <1>3, <1>4

\* An announcement that was queued stays queued.
LEMMA AnnouncedStays ==
  ASSUME Inv, [Next]_vars, NEW i \in Invoices
  PROVE  /\ Announcements(i) # {} => Announcements(i)' # {}
         /\ (ConfirmsWebhook \/ SweepWebhook) /\ i = cur => Announcements(i)' # {}
<1>t. TypeOK /\ cur \in Invoices
  BY DEF Inv, TypeOK
<1>1. CASE ConfirmsWebhook \/ SweepWebhook
  <2>1. PICK v \in {"confirmed", "expired"}, c \in Invoices : c = cur /\ EnqueueWebhook(c, v)
    BY <1>t, <1>1 DEF ConfirmsWebhook, SweepWebhook
  <2>2. Announcements(c)' # {} /\ \A j \in Invoices : j # c => Announcements(j)' = Announcements(j)
    BY <1>t, <2>1, WebhookAnnounces
  <2> QED
    BY <2>1, <2>2
<1>2. CASE ~(ConfirmsWebhook \/ SweepWebhook)
  <2>1. CASE OutcomeStep \/ UNCHANGED vars
    <3>1. UNCHANGED events
      BY <1>2, <2>1 DEF OutcomeStep, ConfirmsWrite, ConfirmsRefund,
        SweepRefund, SweepWrite, vars, db
    <3> QED
      BY <1>2, <3>1 DEF Announcements
  <2>2. CASE Next /\ ~OutcomeStep
    BY <1>2, <2>2, OtherSteps
  <2> QED
    BY <2>1, <2>2
<1> QED
  BY <1>1, <1>2

\* What a decided invoice is owed does not grow, so a refund that was enough
\* stays enough.
LEMMA OwedStays ==
  ASSUME Inv, Inv', LoopInv, CoveredInv, TimeInv, QuietInv, [Next]_vars,
         NEW i \in Invoices, verdict[i] # "open", RefundIsCompleted(i), refunds'[i] = refunds[i]
  PROVE  RefundIsCompleted(i)'
<1>1. verdict'[i] = verdict[i]
  BY VerdictStep DEF vars, history
<1>2. CASE CountsLateNotes(i)
  BY <1>1, <1>2 DEF CountsLateNotes, RefundIsCompleted
<1>3. CASE ~CountsLateNotes(i)
  <2>1. Fee \in Nat
    BY AmountsAssumption
  <2>2. OwedBack(i)' <= OwedBack(i) /\ OwedBack(i) \in Int /\ OwedBack(i)' \in Int
    <3>1. CASE verdict[i] = "expired"
      <4>1. /\ OwedBack(i) = Total[InTime(i) \cap PaidRows(i)]
            /\ OwedBack(i)' = Total[InTime(i)' \cap PaidRows(i)']
        <5>1. /\ (onTime \ lost) \cap PaidRows(i) = InTime(i) \cap PaidRows(i)
              /\ ((onTime \ lost) \cap PaidRows(i))' = InTime(i)' \cap PaidRows(i)'
          BY DEF InTime, PaidRows, OutputsOf
        <5> QED
          BY <1>1, <3>1, <5>1 DEF OwedBack
      <4>2. /\ InTime(i)' \cap PaidRows(i)' \subseteq InTime(i) \cap PaidRows(i)
            /\ InTime(i) \cap PaidRows(i) \in SUBSET Outputs
        BY <3>1, OwedKept, OwedType DEF Inv
      <4>3. InTime(i)' \cap PaidRows(i)' \in SUBSET Outputs
        BY <4>2
      <4> QED
        BY <4>1, <4>2, <4>3, SumAssumption, AmountsAssumption
    <3>2. CASE verdict[i] = "confirmed"
      <4>1. /\ OwedBack(i) = Total[ConfirmedRows(i)] - Due[i]
            /\ OwedBack(i)' = Total[ConfirmedRows(i)'] - Due[i]
        BY <1>1, <3>2 DEF OwedBack, ConfirmedPaid
      <4>2. /\ ConfirmedRows(i)' \subseteq ConfirmedRows(i) /\ ConfirmedRows(i) \in SUBSET Outputs
        BY <1>3, <3>2, OwedKept, OwedType DEF Inv
      <4>3. ConfirmedRows(i)' \in SUBSET Outputs
        BY <4>2
      <4> QED
        BY <4>1, <4>2, <4>3, SumAssumption, AmountsAssumption
    <3> QED
      BY <3>1, <3>2, TimeTypes
  <2> SUFFICES ASSUME RefundsEnabled, OwedBack(i)' > Fee
               PROVE  refunds'[i] # <<>> /\ refunds'[i][1].gross >= OwedBack(i)'
    BY DEF RefundIsCompleted
  <2>3. refunds[i] # <<>> /\ refunds[i][1].gross >= OwedBack(i)
    BY <1>3, <2>1, <2>2 DEF RefundIsCompleted
  <2>4. refunds[i][1].gross \in Nat
    <3>1. refunds[i] \in Seq(Refunds)
      BY DEF Inv, TypeOK
    <3>2. refunds[i][1] \in Refunds
      BY <2>3, <3>1
    <3> QED
      BY <3>2 DEF Refunds
  <2> QED
    BY <2>2, <2>3, <2>4
<1> QED
  BY <1>2, <1>3

\* The consequences of a decision follow it, unless they are cut short.
LEMMA CompletedKept ==
  Inv /\ Inv' /\ LoopInv /\ CoveredInv /\ TimeInv /\ QuietInv /\ CompletedInv /\ [Next]_vars
    => CompletedInv'
<1> SUFFICES ASSUME Inv, Inv', LoopInv, CoveredInv, TimeInv, QuietInv, CompletedInv, [Next]_vars,
                    NEW i \in Invoices, verdict'[i] # "open", i \notin cut'
             PROVE  /\ ~Deciding(i)' => Announcements(i)' # {}
                    /\ ~Refunding(i)' => RefundIsCompleted(i)'
  BY DEF CompletedInv
<1> USE DEF Deciding, Refunding
<1>1. CASE verdict[i] = "open"
  <2>1. (ConfirmsWrite /\ i = cur) \/ SweepWrite(i)
    BY <1>1, FirstVerdict
  <2> QED
    BY <2>1 DEF ConfirmsWrite, SweepWrite, locals
<1>2. CASE verdict[i] # "open" /\ Next
  <2>1. i \notin cut
    BY <1>2, DecidingSteps
  <2>2. ~Deciding(i)' => Announcements(i)' # {}
    <3>1. CASE Deciding(i)
      <4>1. \/ ConfirmsRefund \/ ConfirmsWebhook \/ SweepRefund \/ SweepWebhook
            \/ UNCHANGED <<pc, cur>>
        BY <1>2, <3>1, DecidingSteps
      <4>2. CASE ConfirmsRefund \/ SweepRefund
        BY <3>1, <4>2 DEF ConfirmsRefund, SweepRefund, locals
      <4> QED
        BY <3>1, <4>1, <4>2, AnnouncedStays
    <3>2. CASE ~Deciding(i)
      BY <1>2, <2>1, <3>2, AnnouncedStays DEF CompletedInv
    <3> QED
      BY <3>1, <3>2
  <2>3. ~Refunding(i)' => RefundIsCompleted(i)'
    <3>1. CASE Refunding(i)
      <4>1. \/ ConfirmsRefund \/ ConfirmsWebhook \/ SweepRefund \/ SweepWebhook
            \/ UNCHANGED <<pc, cur>>
        BY <1>2, <3>1, DecidingSteps
      <4>2. CASE ConfirmsRefund \/ SweepRefund
        BY <3>1, <4>2, RefundCompletes
      <4> QED
        BY <3>1, <4>1, <4>2 DEF ConfirmsWebhook, SweepWebhook
    <3>2. CASE ~Refunding(i)
      <4>1. refunds'[i] = refunds[i]
        BY <3>2, RefundSteps DEF ConfirmsRefund, SweepRefund
      <4> QED
        BY <1>2, <2>1, <3>2, <4>1, OwedStays DEF CompletedInv
    <3> QED
      BY <3>1, <3>2
  <2> QED
    BY <2>2, <2>3
<1>3. CASE UNCHANGED vars
  <2>1. UNCHANGED <<verdict, cut, pc, cur, refunds>>
    BY <1>3 DEF vars, db, sync, locals, history, trail
  <2> QED
    BY <2>1, AnnouncedStays, OwedStays DEF CompletedInv
<1> QED
  BY <1>1, <1>2, <1>3 DEF vars

\* When the loop is done with an invoice its webhook is queued and what is owed
\* is on its way back (confirms.rs, sweeper.rs, refunds/mod.rs), for any
\* amounts, fee and threshold, unless a failure cut the decision short.
THEOREM OutcomesAreCompleted == Spec => []OutcomeIsCompleted
<1>1. Init => CompletedInv
  BY DEF Init, CompletedInv
<1>2. CompletedInv => OutcomeIsCompleted
  BY DEF CompletedInv, OutcomeIsCompleted, Refunding, Deciding
<1> QED
  BY <1>1, <1>2, CompletedKept, Invariance, LoopInvariance, CoveredInvariance, TimeInvariance,
     QuietInvariance, PTL DEF Spec
------------------------------------------------------------------------------
(* Without a cancel nothing comes between the look at an invoice and the   *)
(* write of its status, so the statuses follow the documented lifecycle.   *)
LifeInv ==
  /\ pc = "applyWrite" => seen = status[cur]
  /\ pc = "confirmWrite" => status[cur] = "confirming"
  /\ \A i \in Invoices : status[i] = "confirming" => Paid(i) >= Due[i]
  /\ \A i \in sweep : status[i] \in Unpaid

\* The steps that touch what LifeInv speaks of.
LifeStep ==
  \/ \E i \in Invoices : ConfirmsEvaluate(i) \/ SweepWrite(i) \/ \E w \in Windows : Create(i, w)
  \/ \E d \in Discovered : Record(d)
  \/ ApplyRead \/ ApplyWrite \/ ConfirmsWrite \/ SweepSelect

\* The others, in the absence of cancels, leave the statuses and the rows alone.
LEMMA LifelessSteps ==
  ASSUME Handlers = {}, Next, ~LifeStep
  PROVE  /\ UNCHANGED <<status, recorded>> /\ sweep' \in {sweep, {}}
         /\ pc' \in {"applyWrite", "confirmWrite"} => UNCHANGED <<pc, seen, cur>>
<1> USE DEF db, world, wallet, sync, locals, timing, trail, history, bounds
<1>1. CASE Matching
  BY <1>1 DEF LifeStep, Matching, TickStart, WatchList, FetchUtxos, InsertUtxo, InsertNote,
    ApplyExpiry, ShieldTick
<1>2. CASE Confirming
  BY <1>2 DEF LifeStep, Confirming, ConfirmsSelect, ConfirmRow, ConfirmsZeroConf,
     ConfirmsRefund, ConfirmsWebhook
<1>3. CASE Sweeping
  BY <1>3 DEF LifeStep, Sweeping, SweepRefund, SweepWebhook, SaveWallet, EndTick
<1>4. CASE Api
  BY <1>4 DEF LifeStep, Api
<1>5. CASE Failures
  BY <1>5 DEF Failures, Interruptions, TickAborts, Crash, Restart, EndTick
<1>6. CASE World
  BY <1>6 DEF World, Pay, Evict, NewBlock, Reorg, TimePasses
<1> QED
  BY <1>1, <1>2, <1>3, <1>4, <1>5, <1>6 DEF Next, SyncStep

\* What a status is written from is still so, and the write is a move.
LEMMA LifeKept ==
  ASSUME Handlers = {}
  PROVE  Inv /\ LoopInv /\ UncoveredInv /\ LifeInv /\ [Next]_vars =>
           LifeInv' /\ [Lifecycle!Next]_status
<1> SUFFICES ASSUME Inv, LoopInv, UncoveredInv, LifeInv, [Next]_vars
             PROVE  LifeInv' /\ (Lifecycle!Next \/ UNCHANGED status)
  OBVIOUS
<1> USE DEF Lifecycle!Next, Lifecycle!Move, Lifecycle!Moves, Lifecycle!InvoiceStatuses
<1>t. /\ status \in [Invoices -> InvoiceStatuses \cup {"none"}] /\ cur \in Invoices
      /\ recorded \subseteq Outputs /\ sweep \subseteq Invoices /\ TypeOK
      /\ pc \notin {"sweep", "sweepRefund", "sweepWebhook"} => sweep = {}
  BY DEF Inv, TypeOK, DecidedOnce, StaleWritesAreSafe
<1>n. \A i \in Invoices : Paid(i) \in Nat /\ Due[i] \in Nat /\ Due[i] > 0
  BY <1>t, PaidType, AmountsAssumption
<1> USE <1>t, <1>n DEF LifeInv
<1>p. ASSUME UNCHANGED recorded PROVE \A i \in Invoices : Paid(i)' = Paid(i)
  BY <1>p DEF Paid, PaidRows, OutputsOf
<1>1. ASSUME NEW i \in Invoices, ConfirmsEvaluate(i) PROVE LifeInv' /\ UNCHANGED status
  <2>1. /\ UNCHANGED <<status, recorded, sweep>> /\ pc' # "applyWrite"
        /\ pc' = "confirmWrite" => status[i] = "confirming" /\ cur' = i
    BY <1>1 DEF ConfirmsEvaluate, db
  <2> QED
    BY <1>p, <2>1
<1>2. ASSUME NEW i \in Invoices, SweepWrite(i) PROVE LifeInv' /\ Lifecycle!Next
  <2>1. /\ UNCHANGED recorded /\ sweep' = sweep \ {i} /\ pc' = "sweepRefund"
        /\ status' = [status EXCEPT ![i] = "expired"] /\ i \in sweep
    BY <1>2 DEF SweepWrite
  <2>2. LifeInv'
    BY <1>p, <2>1
  <2>3. <<status[i], "expired">> \in Lifecycle!Moves
    BY <2>1 DEF Unpaid
  <2> QED
    BY <2>1, <2>2, <2>3 DEF InvoiceStatuses
<1>3. ASSUME NEW i \in Invoices, NEW w \in Windows, Create(i, w) PROVE LifeInv' /\ Lifecycle!Next
  <2>1. /\ UNCHANGED <<recorded, sweep, pc, cur, seen>>
        /\ status[i] = "none" /\ status' = [status EXCEPT ![i] = "pending"]
    BY <1>3 DEF Create, Exists, sync, locals
  <2>2. pc \in Applying => cur # i
    BY <2>1 DEF LoopInv, Exists
  <2>3. LifeInv'
    BY <1>p, <2>1, <2>2 DEF Applying, Unpaid
  <2> QED
    BY <2>1, <2>3 DEF InvoiceStatuses
<1>4. ASSUME NEW d \in Discovered, Record(d) PROVE LifeInv' /\ UNCHANGED status
  <2>1. /\ UNCHANGED <<status, sweep>> /\ pc' \in {"match", "applyRead"}
        /\ recorded \subseteq recorded' /\ recorded' \subseteq Outputs
    BY <1>4 DEF Record, Discovered
  <2>2. \A i \in Invoices : Paid(i) <= Paid(i)' /\ Paid(i)' \in Nat
    <3>1. \A i \in Invoices : PaidRows(i) \subseteq PaidRows(i)' /\ PaidRows(i)' \in SUBSET Outputs
                               /\ PaidRows(i) \in SUBSET Outputs
      BY <2>1 DEF PaidRows, OutputsOf
    <3> QED
      BY <3>1, SumAssumption, AmountsAssumption DEF Paid
  <2> QED
    BY <2>1, <2>2
<1>5. CASE ApplyRead
  <2>1. UNCHANGED <<status, recorded, sweep, cur>> /\ seen' = status[cur] /\ pc' = "applyWrite"
    BY <1>5 DEF ApplyRead, db
  <2> QED
    BY <1>p, <2>1
<1>6. CASE ApplyWrite
  <2> DEFINE next == next_status_on_payment(status[cur], Due[cur], Paid(cur))
  <2>1. /\ UNCHANGED <<recorded, sweep, cur>> /\ pc' \in {"match", "applyExpiry"} /\ sweep = {}
        /\ status' = IF next # status[cur] THEN [status EXCEPT ![cur] = next] ELSE status
        /\ status[cur] # "none"
    BY <1>6 DEF ApplyWrite, LoopInv, Applying, Exists
  <2>2. CASE next = status[cur]
    BY <1>p, <2>1, <2>2
  <2>3. CASE next # status[cur]
    <3>1. /\ status[cur] \in {"pending", "partially_paid"}
          /\ next \in {"partially_paid", "confirming"} /\ <<status[cur], next>> \in Lifecycle!Moves
          /\ next = "confirming" => Paid(cur) >= Due[cur]
      BY <2>1, <2>3 DEF next_status_on_payment, Terminal, InvoiceStatuses
    <3>2. status' = [status EXCEPT ![cur] = next]
      BY <2>1, <2>3
    <3> HIDE DEF next
    <3>3. LifeInv'
      BY <1>p, <2>1, <3>1, <3>2
    <3> QED
      BY <3>1, <3>2, <3>3 DEF InvoiceStatuses
  <2> QED
    BY <2>2, <2>3
<1>7. CASE ConfirmsWrite
  <2>1. /\ UNCHANGED <<recorded, sweep, cur>> /\ pc' = "confirmRefund" /\ sweep = {}
        /\ status' = [status EXCEPT ![cur] = "confirmed"] /\ status[cur] = "confirming"
    BY <1>7 DEF ConfirmsWrite, locals
  <2>2. LifeInv'
    BY <1>p, <2>1
  <2> QED
    BY <2>1, <2>2 DEF InvoiceStatuses
<1>8. CASE SweepSelect
  <2>1. UNCHANGED <<status, recorded>> /\ pc' = "sweep" /\ \A i \in sweep' : status[i] \in Unpaid
    BY <1>8 DEF SweepSelect, Expirable, next_status_on_tick, db
  <2> QED
    BY <1>p, <2>1
<1>9. CASE (Next /\ ~LifeStep) \/ UNCHANGED vars
  <2>1. /\ UNCHANGED <<status, recorded>> /\ sweep' \in {sweep, {}}
        /\ pc' \in {"applyWrite", "confirmWrite"} => UNCHANGED <<pc, seen, cur>>
    BY <1>9, LifelessSteps DEF vars, db, sync, locals
  <2> QED
    BY <1>p, <2>1
<1> QED
  BY <1>1, <1>2, <1>3, <1>4, <1>5, <1>6, <1>7, <1>8, <1>9 DEF LifeStep

\* Without a racing cancel, the statuses follow the documented lifecycle
\* (invoice.rs), whatever fails or is taken back: the sync loop implements
\* InvoiceLifecycle.
THEOREM LifecycleIsFollowed ==
  ASSUME Handlers = {}
  PROVE  Spec => FollowsLifecycle
<1>1. Init => LifeInv /\ Lifecycle!Init
  BY DEF Init, LifeInv, Lifecycle!Init
<1> QED
  BY <1>1, LifeKept, Invariance, LoopInvariance, UncoveredInvariance, PTL
     DEF Spec, FollowsLifecycle, Lifecycle!Spec
==============================================================================
