-------------------------- MODULE RefundWorkerProofs -------------------------
(***************************************************************************)
(* What RefundWorker guarantees for any refunds, amounts, fees, coins and  *)
(* failures: a second payment of a row costs a failure, what is sent and   *)
(* its fee are the gross amount of the row but for the fee of more notes   *)
(* than one, and rows tell the truth.                                      *)
(*                                                                         *)
(* Which coins pay a refund does not matter to this, nor that their values *)
(* cover it.  It does to the full type invariant, at the end: the change   *)
(* of a transaction is what is left of a sum over a set of coins.          *)
(***************************************************************************)
EXTENDS RefundWorker, FiniteSetTheorems, SequenceTheorems, WellFoundedInduction, TLAPS

Payouts == [refund : Refunds, amount : Nat, fee : Nat, spends : Nat]
Calls == {Idle} \cup [at : {"write"}, refund : Refunds]

\* The types of what the proofs are about.
RowTypes ==
  /\ status \in [Refunds -> {"none", "pending", "broadcast", "dead"}]
  /\ amount \in [Refunds -> Nat] /\ fee \in [Refunds -> Nat] /\ owed \in [Refunds -> Nat]
  /\ txid \in [Refunds -> Nat \cup {ByOperator}]
  /\ payouts \in Seq(Payouts)
WorkerTypes ==
  /\ IsFiniteSet(coins) /\ IsFiniteSet(listed) /\ IsFiniteSet(inputs)
  /\ pc \in {"idle", "next", "fetch", "refine", "send", "mark"}
  /\ batch \subseteq Refunds /\ cur \in Refunds /\ sentTx \in Nat
  /\ call \in [Operators -> Calls]
  /\ faults \in 0..MaxFaults
Types == RowTypes /\ WorkerTypes

\* A row that the worker has listed and not yet paid, and one it has paid and
\* not yet marked.
Working(r) == r \in batch \/ (cur = r /\ pc \in {"fetch", "refine", "send"})
Sent(r) == cur = r /\ pc = "mark"
Paid(r) == Cardinality(PayoutsOf(r))

\* A row that is still to be paid has been paid only by payments that a failure
\* hid; a row under way has been neither enqueued just now nor given up.
PaymentInv ==
  /\ pc \notin {"idle", "next"} => cur \notin batch
  /\ \A r \in Refunds :
       /\ Working(r) \/ Sent(r) => status[r] \notin {"none", "dead"}
       /\ status[r] = "none" => PayoutsOf(r) = {}
       /\ ~Sent(r) /\ (Working(r) \/ status[r] \in {"none", "pending", "dead"})
            => Paid(r) <= faults
       /\ Paid(r) <= 1 + faults

\* A txid of the worker's names its payment, and a row that has one is not
\* worked on again.
Names(t, r) == t \in PayoutsOf(r) /\ payouts[t].amount = amount[r]
TxidInv ==
  /\ pc = "mark" => Names(sentTx, cur)
  /\ \A r \in Refunds :
       /\ txid[r] \in {0, ByOperator} \/ Names(txid[r], r)
       /\ Working(r) => txid[r] \in {0, ByOperator}
       /\ status[r] \in {"none", "pending"} => txid[r] = 0
       /\ status[r] = "broadcast" => txid[r] # 0

\* When a row is about to be paid its fee is the estimate for the inputs that
\* the worker has seen.
Estimated == pc = "send" => fee[cur] = ExactFee(cur, Cardinality(inputs))
GrossInv ==
  /\ \A r \in Refunds : amount[r] + fee[r] = owed[r]
  /\ \A k \in DOMAIN payouts :
       payouts[k].amount + payouts[k].fee
         = owed[payouts[k].refund] + BornByMerchant(payouts[k])
  /\ Estimated

RefundInv == Types /\ PaymentInv /\ TxidInv /\ GrossInv
------------------------------------------------------------------------------
\* Fees are natural numbers.
LEMMA FeeTypes ==
  /\ EnqueueFee \in Nat
  /\ \A r \in Refunds : \A n \in Nat : ExactFee(r, n) \in Nat /\ BuilderFee(r, n) \in Nat
<1>1. \A n \in Nat : TransparentFee(n) \in Nat /\ ShieldFee(n) \in Nat
  <2>1. \A n \in Nat : InputFee * n \in Nat /\ SpendFee * n \in Nat
    BY FeesAssumption
  <2> QED
    BY <2>1, FeesAssumption DEF TransparentFee, ShieldFee
<1> QED
  BY <1>1 DEF EnqueueFee, ExactFee, BuilderFee

\* What the builder takes is what the worker has estimated, and for each note
\* beyond the first as much again as a note costs.
LEMMA BuilderTakes ==
  ASSUME NEW r \in Refunds, NEW n \in Nat, NEW tx, tx.refund = r, tx.spends = n
  PROVE  BuilderFee(r, n) = ExactFee(r, n) + BornByMerchant(tx)
<1>1. CASE Shielded(r)
  <2>1. SpendFee * n = SpendFee * 1 + SpendFee * (n - 1)
    BY FeesAssumption
  <2>2. SpendFee * n \in Int /\ SpendFee * 1 \in Int /\ SpendFee * (n - 1) \in Int
    BY FeesAssumption
  <2> QED
    BY <1>1, <2>1, <2>2, FeesAssumption DEF BuilderFee, ExactFee, ShieldFee, BornByMerchant
<1>2. CASE ~Shielded(r)
  <2>1. TransparentFee(n) \in Nat
    BY <1>2, FeeTypes DEF ExactFee
  <2> QED
    BY <1>2, <2>1 DEF BuilderFee, ExactFee, BornByMerchant
<1> QED
  BY <1>1, <1>2

\* The payments of a row are finitely many.
LEMMA PayoutsFinite ==
  ASSUME payouts \in Seq(Payouts), NEW r
  PROVE  IsFiniteSet(PayoutsOf(r)) /\ Paid(r) \in Nat
<1>1. DOMAIN payouts = 1..Len(payouts) /\ Len(payouts) \in Nat
  OBVIOUS
<1>2. IsFiniteSet(1..Len(payouts))
  BY <1>1, FS_Interval
<1>3. PayoutsOf(r) \in SUBSET (1..Len(payouts))
  BY <1>1 DEF PayoutsOf
<1> QED
  BY <1>2, <1>3, FS_Subset, FS_CardinalityType DEF Paid

LEMMA RefundInit == Init => RefundInv
<1> SUFFICES ASSUME Init PROVE RefundInv
  OBVIOUS
<1>1. Types
  BY CoinsAssumption, WorkerAssumption, FS_EmptySet
  DEF Init, Types, RowTypes, WorkerTypes, ByOperator, Calls
<1>2. \A r \in Refunds : PayoutsOf(r) = {} /\ Paid(r) = 0
  BY FS_EmptySet DEF Init, PayoutsOf, Paid
<1> QED
  BY <1>1, <1>2, WorkerAssumption
  DEF Init, RefundInv, PaymentInv, TxidInv, GrossInv, Estimated, Working, Sent

\* A step that sends nothing leaves the payments of every row as they are.
LEMMA SamePayouts ==
  ASSUME UNCHANGED payouts
  PROVE  \A r : PayoutsOf(r)' = PayoutsOf(r) /\ Paid(r)' = Paid(r)
BY DEF PayoutsOf, Paid

\* A payment is one more of the row under way.
LEMMA OneMorePayout ==
  ASSUME Types, NEW rec \in Payouts, payouts' = Append(payouts, rec)
  PROVE  /\ payouts' \in Seq(Payouts)
         /\ \A k \in DOMAIN payouts : k \in DOMAIN payouts' /\ payouts'[k] = payouts[k]
         /\ DOMAIN payouts' = DOMAIN payouts \cup {Len(payouts')}
         /\ Len(payouts') \in Nat \ {0}
         /\ payouts'[Len(payouts')] = rec
         /\ \A r : /\ PayoutsOf(r)' = IF rec.refund = r THEN PayoutsOf(r) \cup {Len(payouts')}
                                      ELSE PayoutsOf(r)
                   /\ Paid(r)' = IF rec.refund = r THEN Paid(r) + 1 ELSE Paid(r)
<1> DEFINE n == Len(payouts) + 1
<1>1. payouts \in Seq(Payouts)
  BY DEF Types, RowTypes
<1>2. /\ payouts' \in Seq(Payouts) /\ Len(payouts') = n /\ n \in Nat \ {0}
      /\ DOMAIN payouts = 1..(n - 1) /\ DOMAIN payouts' = 1..n
      /\ payouts'[n] = rec /\ \A k \in 1..(n - 1) : payouts'[k] = payouts[k]
  BY <1>1
<1> HIDE DEF n
<1>3. 1..n = 1..(n - 1) \cup {n} /\ n \notin 1..(n - 1)
  BY <1>2
<1>4. ASSUME NEW r
      PROVE  PayoutsOf(r)' = IF rec.refund = r THEN PayoutsOf(r) \cup {n} ELSE PayoutsOf(r)
  BY <1>2, <1>3 DEF PayoutsOf
<1>5. ASSUME NEW r PROVE Paid(r)' = IF rec.refund = r THEN Paid(r) + 1 ELSE Paid(r)
  <2>1. IsFiniteSet(PayoutsOf(r)) /\ n \notin PayoutsOf(r)
    BY <1>1, <1>2, <1>3, PayoutsFinite DEF PayoutsOf
  <2>2. Cardinality(PayoutsOf(r) \cup {n}) = Cardinality(PayoutsOf(r)) + 1
    BY <2>1, FS_AddElement
  <2> QED
    BY <1>4, <2>2 DEF Paid
<1> QED
  BY <1>2, <1>3, <1>4, <1>5
------------------------------------------------------------------------------
\* A new row has not been paid.
LEMMA EnqueueStep ==
  ASSUME RefundInv, NEW r \in Refunds, NEW gross \in Gross[r], EnqueueRefund(r, gross)
  PROVE  RefundInv'
<1>1. gross \in Nat /\ gross > EnqueueFee /\ EnqueueFee \in Nat
  BY RowsAssumption, FeeTypes
<1>2. /\ status[r] = "none" /\ status' = [status EXCEPT ![r] = "pending"]
      /\ amount' = [amount EXCEPT ![r] = gross - EnqueueFee]
      /\ owed' = [owed EXCEPT ![r] = gross] /\ fee' = [fee EXCEPT ![r] = EnqueueFee]
      /\ UNCHANGED <<txid, coins, listed, late, payouts, pc, batch, cur, inputs, sentTx,
                     call, faults>>
  BY DEF EnqueueRefund, chain, worker
<1>3. \A q : PayoutsOf(q)' = PayoutsOf(q) /\ Paid(q)' = Paid(q)
  BY <1>2, SamePayouts
<1>4. PayoutsOf(r) = {} /\ ~Working(r) /\ ~Sent(r)
  BY <1>2 DEF RefundInv, PaymentInv
<1>5. Types'
  BY <1>1, <1>2 DEF RefundInv, Types, RowTypes, WorkerTypes
<1>6. \A q \in Refunds : (Working(q)' <=> Working(q)) /\ (Sent(q)' <=> Sent(q))
                         /\ (q # r => status'[q] = status[q] /\ amount'[q] = amount[q])
  BY <1>2 DEF Working, Sent, RefundInv, Types, RowTypes
<1>7. PaymentInv'
  BY <1>2, <1>3, <1>4, <1>6 DEF RefundInv, PaymentInv, Types, RowTypes
<1>8. pc = "mark" => cur # r
  BY <1>4 DEF Sent
<1>9. TxidInv'
  BY <1>2, <1>3, <1>4, <1>6, <1>8
  DEF RefundInv, TxidInv, Names, Types, RowTypes, WorkerTypes
<1>10. \A k \in DOMAIN payouts : payouts[k].refund # r /\ payouts[k].refund \in Refunds
  <2>1. \A k \in DOMAIN payouts : payouts[k] \in Payouts
    BY DEF RefundInv, Types, RowTypes
  <2> QED
    BY <1>4, <2>1 DEF PayoutsOf, Payouts
<1>11. GrossInv'
  <2>1. \A q \in Refunds : amount'[q] + fee'[q] = owed'[q]
    BY <1>1, <1>2 DEF RefundInv, GrossInv, Types, RowTypes
  <2>2. \A k \in DOMAIN payouts : owed'[payouts[k].refund] = owed[payouts[k].refund]
    BY <1>2, <1>10 DEF RefundInv, Types, RowTypes
  <2>3. payouts' = payouts
    BY <1>2
  <2>4. pc = "send" => cur \in Refunds \ {r}
    BY <1>4 DEF Working, RefundInv, Types, WorkerTypes
  <2>5. Estimated'
    BY <1>2, <2>4 DEF RefundInv, GrossInv, Estimated, Types, RowTypes
  <2> QED
    BY <2>1, <2>2, <2>3, <2>5 DEF RefundInv, GrossInv
<1> QED
  BY <1>5, <1>7, <1>9, <1>11 DEF RefundInv

\* The worker lists pending rows and takes one after the other.
LEMMA ListingStep ==
  ASSUME RefundInv, Tick \/ TickEnds \/ (\E r \in Refunds : Take(r)) \/ Fetch
  PROVE  RefundInv'
<1> USE DEF rowVars, chain
<1>1. UNCHANGED <<status, amount, fee, txid, owed, coins, listed, payouts, sentTx, call, faults>>
  BY DEF Tick, TickEnds, Take, Fetch
<1>2. \A r : PayoutsOf(r)' = PayoutsOf(r) /\ Paid(r)' = Paid(r)
  BY <1>1, SamePayouts
<1>3. /\ batch' \subseteq Refunds /\ cur' \in Refunds /\ IsFiniteSet(inputs')
      /\ pc' \in {"idle", "next", "fetch", "refine"}
  <2>1. IsFiniteSet({c \in listed : c.at = SourceOf[cur]})
    <3>1. {c \in listed : c.at = SourceOf[cur]} \in SUBSET listed
      OBVIOUS
    <3> QED
      BY <3>1, FS_Subset DEF RefundInv, Types, WorkerTypes
  <2>2. CASE Tick
    BY <2>2 DEF Tick, Page, RefundInv, Types, WorkerTypes
  <2>3. CASE TickEnds
    BY <2>3 DEF TickEnds, RefundInv, Types, WorkerTypes
  <2>4. CASE \E r \in Refunds : Take(r)
    BY <2>4 DEF Take, RefundInv, Types, WorkerTypes
  <2>5. CASE Fetch
    BY <2>1, <2>5 DEF Fetch, RefundInv, Types, WorkerTypes
  <2> QED
    BY <2>2, <2>3, <2>4, <2>5
<1>4. Types'
  BY <1>1, <1>3 DEF RefundInv, Types, RowTypes, WorkerTypes
<1>5. /\ \A r \in Refunds : Working(r)' => Working(r) \/ (status[r] = "pending" /\ ~Sent(r))
      /\ \A r \in Refunds : ~Sent(r)' /\ ~Sent(r)
      /\ pc' \notin {"idle", "next"} => cur' \notin batch'
  BY DEF Tick, TickEnds, Take, Fetch, Working, Sent, RefundInv, PaymentInv
<1>6. PaymentInv'
  BY <1>1, <1>2, <1>5 DEF RefundInv, PaymentInv
<1>7. TxidInv'
  BY <1>1, <1>2, <1>3, <1>5 DEF RefundInv, TxidInv, Names
<1>8. GrossInv'
  BY <1>1, <1>3 DEF RefundInv, GrossInv, Estimated
<1> QED
  BY <1>4, <1>6, <1>7, <1>8 DEF RefundInv

\* The worker gives a row up, or a failure takes it away: what was sent and not
\* marked is hidden by the failure.
LEMMA DroppingStep ==
  ASSUME RefundInv,
         UNCHANGED <<status, amount, fee, txid, owed, coins, listed, payouts>>,
         pc' \in {"idle", "next"}, batch' \subseteq batch, cur' = cur,
         inputs' = {}, sentTx' = 0, call' \in [Operators -> Calls],
         faults' \in 0..MaxFaults, faults <= faults',
         pc = "mark" => faults < faults'
  PROVE  RefundInv'
<1>1. \A r : PayoutsOf(r)' = PayoutsOf(r) /\ Paid(r)' = Paid(r)
  BY SamePayouts
<1>2. Types'
  BY FS_EmptySet DEF RefundInv, Types, RowTypes, WorkerTypes
<1>3. \A r \in Refunds : (Working(r)' => Working(r)) /\ ~Sent(r)'
  BY DEF Working, Sent
<1>4. \A r \in Refunds : Sent(r) => faults + 1 <= faults'
  BY DEF Sent, RefundInv, Types, WorkerTypes
<1>5. \A r \in Refunds : Paid(r) \in Nat
  BY PayoutsFinite DEF RefundInv, Types, RowTypes
<1>6. PaymentInv'
  BY <1>1, <1>3, <1>4, <1>5, <1>2 DEF RefundInv, PaymentInv, Types, WorkerTypes
<1>7. TxidInv'
  BY <1>1, <1>3 DEF RefundInv, TxidInv, Names
<1>8. GrossInv'
  BY DEF RefundInv, GrossInv, Estimated
<1> QED
  BY <1>2, <1>6, <1>7, <1>8 DEF RefundInv

\* The amount is brought up to date, at the expense of the fee; or the row is
\* given up.
LEMMA RefineStep == ASSUME RefundInv, Refine PROVE RefundInv'
<1> DEFINE exact == ExactFee(cur, Cardinality(inputs))
<1>1. exact \in Nat /\ cur \in Refunds /\ pc = "refine"
  BY FeeTypes, FS_CardinalityType DEF RefundInv, Types, WorkerTypes, Refine
<1>2. UNCHANGED <<txid, owed, coins, listed, payouts, call, faults, batch, cur>>
  BY DEF Refine, NextRow, chain
<1>3. \A r : PayoutsOf(r)' = PayoutsOf(r) /\ Paid(r)' = Paid(r)
  BY <1>2, SamePayouts
<1>4. Working(cur) /\ ~Sent(cur) /\ cur \notin batch
  BY <1>1 DEF Working, Sent, RefundInv, PaymentInv
<1> HIDE DEF exact
<1>5. CASE amount[cur] + fee[cur] <= exact
  <2>1. /\ status' = [status EXCEPT ![cur] = "dead"]
        /\ UNCHANGED <<amount, fee>>
        /\ pc' = "next" /\ inputs' = {} /\ sentTx' = 0
    BY <1>5 DEF Refine, NextRow, exact
  <2>2. Types'
    BY <1>2, <2>1, FS_EmptySet DEF RefundInv, Types, RowTypes, WorkerTypes
  <2>3. /\ ~Working(cur)' /\ \A r \in Refunds : (Working(r)' => Working(r)) /\ ~Sent(r)'
        /\ \A r \in Refunds : r # cur => status'[r] = status[r] /\ ~Sent(r)
        /\ status'[cur] = "dead"
    BY <1>1, <1>2, <1>4, <2>1 DEF Working, Sent, RefundInv, Types, RowTypes
  <2>4. PaymentInv'
    BY <1>1, <1>2, <1>3, <1>4, <2>1, <2>3 DEF RefundInv, PaymentInv
  <2>5. TxidInv'
    BY <1>1, <1>2, <1>3, <1>4, <2>1, <2>3 DEF RefundInv, TxidInv, Names
  <2>6. GrossInv'
    BY <1>2, <2>1 DEF RefundInv, GrossInv, Estimated
  <2> QED
    BY <2>2, <2>4, <2>5, <2>6 DEF RefundInv
<1>6. CASE ~(amount[cur] + fee[cur] <= exact)
  <2>1. /\ amount' = [amount EXCEPT ![cur] = amount[cur] + fee[cur] - exact]
        /\ fee' = [fee EXCEPT ![cur] = exact]
        /\ pc' = "send" /\ UNCHANGED <<status, inputs, sentTx>>
    BY <1>6 DEF Refine, Refined, exact
  <2>2. amount[cur] \in Nat /\ fee[cur] \in Nat /\ amount[cur] + fee[cur] - exact \in Nat
    BY <1>1, <1>6 DEF RefundInv, Types, RowTypes
  <2>3. Types'
    BY <1>1, <1>2, <2>1, <2>2 DEF RefundInv, Types, RowTypes, WorkerTypes
  <2>4. \A r \in Refunds : (Working(r)' <=> Working(r)) /\ ~Sent(r)' /\ ~Sent(r)
    BY <1>1, <1>2, <2>1 DEF Working, Sent
  <2>5. PaymentInv'
    BY <1>1, <1>2, <1>3, <2>1, <2>4 DEF RefundInv, PaymentInv
  <2>6. TxidInv'
    <3>1. txid[cur] \in {0, ByOperator}
      BY <1>1, <1>4 DEF RefundInv, TxidInv
    <3>2. \A r \in Refunds : r # cur => amount'[r] = amount[r]
      BY <2>1 DEF RefundInv, Types, RowTypes
    <3> QED
      BY <1>2, <1>3, <2>1, <2>4, <3>1, <3>2 DEF RefundInv, TxidInv, Names
  <2>7. \A r \in Refunds : amount'[r] + fee'[r] = owed'[r]
    BY <1>1, <1>2, <2>1, <2>2 DEF RefundInv, GrossInv, Types, RowTypes
  <2>8. Estimated'
    BY <1>1, <1>2, <2>1 DEF Estimated, exact, RefundInv, Types, RowTypes
  <2>9. GrossInv'
    BY <1>2, <2>7, <2>8 DEF RefundInv, GrossInv
  <2> QED
    BY <2>3, <2>5, <2>6, <2>9 DEF RefundInv
<1> QED
  BY <1>5, <1>6

\* A transaction has finitely many inputs.
LEMMA SpendsFinite ==
  ASSUME RefundInv, NEW S \in Spendable(cur)
  PROVE  IsFiniteSet(S)
<1>1. IsFiniteSet(listed) /\ IsFiniteSet(inputs)
  BY DEF RefundInv, Types, WorkerTypes
<1>2. S \in SUBSET listed \/ S = inputs
  BY DEF Spendable
<1> QED
  BY <1>1, <1>2, FS_Subset

\* A payment makes the row one that is paid and not yet marked, or its answer
\* is lost.
LEMMA SendStep == ASSUME RefundInv, NEW S, Send(S) PROVE RefundInv'
<1> DEFINE n == Cardinality(S)
           rec == Transaction(cur, S)
<1>1. /\ pc = "send" /\ payouts' = Append(payouts, rec)
      /\ UNCHANGED <<status, amount, fee, txid, owed, listed, call, batch, cur>>
  BY DEF Send, Accept, NextRow, rowVars
<1>s. n \in Nat
  BY SpendsFinite, FS_CardinalityType DEF Send
<1>2. /\ rec \in Payouts /\ cur \in Refunds /\ rec.refund = cur /\ rec.amount = amount[cur]
      /\ rec.fee = BuilderFee(cur, n) /\ rec.spends = n
  BY <1>s, FeeTypes
  DEF RefundInv, Types, RowTypes, WorkerTypes, Payouts, Transaction
<1> HIDE DEF rec, n
<1>3. /\ payouts' \in Seq(Payouts)
      /\ \A k \in DOMAIN payouts : k \in DOMAIN payouts' /\ payouts'[k] = payouts[k]
      /\ DOMAIN payouts' = DOMAIN payouts \cup {Len(payouts')}
      /\ Len(payouts') \in Nat \ {0} /\ payouts'[Len(payouts')] = rec
      /\ \A r : /\ PayoutsOf(r)' = IF cur = r THEN PayoutsOf(r) \cup {Len(payouts')}
                                   ELSE PayoutsOf(r)
                /\ Paid(r)' = IF cur = r THEN Paid(r) + 1 ELSE Paid(r)
  BY <1>1, <1>2, OneMorePayout DEF RefundInv
<1>4. IsFiniteSet(coins')
  <2>1. PICK change : coins' = (coins \ S) \cup {change} \/ coins' = coins \ S
    BY DEF Send, Accept
  <2>2. IsFiniteSet(coins \ S)
    BY FS_Difference DEF RefundInv, Types, WorkerTypes
  <2> QED
    BY <2>1, <2>2, FS_AddElement
<1>5. \/ sentTx' = Len(payouts') /\ pc' = "mark" /\ UNCHANGED <<inputs, faults>>
      \/ /\ sentTx' = 0 /\ pc' = "next" /\ inputs' = {}
         /\ faults < MaxFaults /\ faults' = faults + 1
  BY DEF Send, NextRow, Fault
<1>6. Types'
  <2>1. RowTypes'
    BY <1>1, <1>3 DEF RefundInv, Types, RowTypes
  <2>2. faults' \in 0..MaxFaults
    BY <1>5, WorkerAssumption DEF RefundInv, Types, WorkerTypes
  <2>3. IsFiniteSet(inputs') /\ sentTx' \in Nat
    <3>1. IsFiniteSet(inputs)
      BY DEF RefundInv, Types, WorkerTypes
    <3>2. IsFiniteSet(inputs')
      BY <1>5, <3>1, FS_EmptySet
    <3>3. Len(payouts') \in Nat
      BY <1>3
    <3>4. sentTx' \in Nat
      BY <1>5, <3>3
    <3> QED
      BY <3>2, <3>4
  <2>4. WorkerTypes'
    BY <1>1, <1>4, <1>5, <2>2, <2>3 DEF RefundInv, Types, WorkerTypes
  <2> QED
    BY <2>1, <2>4 DEF Types
<1>7. /\ Working(cur) /\ cur \notin batch /\ status[cur] \notin {"none", "dead"}
      /\ Paid(cur) <= faults
  BY <1>1, <1>2 DEF Working, Sent, RefundInv, PaymentInv
<1>8. /\ \A r \in Refunds : (Working(r)' => Working(r)) /\ ~Sent(r)
      /\ \A r \in Refunds : Sent(r)' => r = cur
      /\ ~Working(cur)'
      /\ Sent(cur)' \/ faults' = faults + 1
  BY <1>1, <1>2, <1>5, <1>7 DEF Working, Sent
<1>9. \A r \in Refunds : Paid(r) \in Nat
  BY PayoutsFinite DEF RefundInv, Types, RowTypes
<1>10. faults \in Nat /\ faults' \in Nat /\ faults' >= faults
  BY <1>5, WorkerAssumption DEF RefundInv, Types, WorkerTypes
<1>11. PaymentInv'
  <2>1. pc' \notin {"idle", "next"} => cur' \notin batch'
    BY <1>1, <1>7
  <2>2. ASSUME NEW r \in Refunds
        PROVE  /\ Working(r)' \/ Sent(r)' => status'[r] \notin {"none", "dead"}
               /\ status'[r] = "none" => PayoutsOf(r)' = {}
               /\ ~Sent(r)' /\ (Working(r)' \/ status'[r] \in {"none", "pending", "dead"})
                    => Paid(r)' <= faults'
               /\ Paid(r)' <= 1 + faults'
    <3>1. /\ Working(r) \/ Sent(r) => status[r] \notin {"none", "dead"}
          /\ status[r] = "none" => PayoutsOf(r) = {}
          /\ ~Sent(r) /\ (Working(r) \/ status[r] \in {"none", "pending", "dead"})
               => Paid(r) <= faults
          /\ Paid(r) <= 1 + faults
      BY DEF RefundInv, PaymentInv
    <3>2. CASE r = cur
      BY <1>1, <1>3, <1>7, <1>8, <1>9, <1>10, <3>2
    <3>3. CASE r # cur
      BY <1>1, <1>3, <1>8, <1>9, <1>10, <3>1, <3>3
    <3> QED
      BY <3>2, <3>3
  <2> QED
    BY <2>1, <2>2 DEF PaymentInv
<1>12. TxidInv'
  <2>1. \A r \in Refunds : \A t : Names(t, r) => Names(t, r)'
    BY <1>1, <1>3 DEF Names, PayoutsOf
  <2>2. /\ Len(payouts') \in DOMAIN payouts'
        /\ payouts'[Len(payouts')].refund = cur'
        /\ payouts'[Len(payouts')].amount = amount'[cur']
    BY <1>1, <1>2, <1>3
  <2>3. pc' = "mark" => Names(sentTx, cur)'
    BY <1>5, <2>2 DEF Names, PayoutsOf
  <2> QED
    BY <1>1, <1>8, <2>1, <2>3 DEF RefundInv, TxidInv, Names
<1>13. GrossInv'
  <2>1. amount[cur] + fee[cur] = owed[cur]
    BY <1>2 DEF RefundInv, GrossInv
  <2>2. fee[cur] = ExactFee(cur, n)
    <3>1. ~Shielded(cur) => S = inputs
      BY DEF Send, Spendable
    <3> QED
      BY <1>1, <3>1 DEF RefundInv, GrossInv, Estimated, ExactFee, n
  <2>3. rec.fee = fee[cur] + BornByMerchant(rec)
    BY <1>s, <1>2, <2>2, BuilderTakes
  <2>4. amount[cur] \in Nat /\ fee[cur] \in Nat /\ rec.fee \in Nat /\ BornByMerchant(rec) \in Int
    BY <1>s, <1>2, FeesAssumption
    DEF RefundInv, Types, RowTypes, Payouts, BornByMerchant
  <2>5. rec.amount + rec.fee = owed[rec.refund] + BornByMerchant(rec)
    BY <1>2, <2>1, <2>3, <2>4
  <2>6. Estimated'
    BY <1>5 DEF Estimated
  <2> QED
    BY <1>1, <1>3, <2>5, <2>6 DEF RefundInv, GrossInv
<1> QED
  BY <1>6, <1>11, <1>12, <1>13 DEF RefundInv

\* A row that the worker marks names the payment it has just made.
LEMMA MarkStep == ASSUME RefundInv, MarkBroadcast PROVE RefundInv'
<1>1. /\ pc = "mark" /\ pc' = "next" /\ inputs' = {} /\ sentTx' = 0
      /\ status' = [status EXCEPT ![cur] = "broadcast"]
      /\ txid' = [txid EXCEPT ![cur] = sentTx]
      /\ UNCHANGED <<amount, fee, owed, coins, listed, payouts, call, faults, batch, cur>>
  BY DEF MarkBroadcast, NextRow, chain
<1>2. \A r : PayoutsOf(r)' = PayoutsOf(r) /\ Paid(r)' = Paid(r)
  BY <1>1, SamePayouts
<1>3. Types'
  BY <1>1, FS_EmptySet DEF RefundInv, Types, RowTypes, WorkerTypes
<1>4. cur \in Refunds /\ Sent(cur) /\ cur \notin batch
  BY <1>1 DEF Sent, RefundInv, Types, WorkerTypes, PaymentInv
<1>5. /\ \A r \in Refunds : (Working(r)' => Working(r)) /\ ~Sent(r)'
      /\ \A r \in Refunds : r # cur => /\ status'[r] = status[r] /\ txid'[r] = txid[r]
                                       /\ ~Sent(r)
      /\ ~Working(cur)' /\ status'[cur] = "broadcast" /\ txid'[cur] = sentTx
  BY <1>1, <1>4 DEF Working, Sent, RefundInv, Types, RowTypes
<1>6. PaymentInv'
  BY <1>1, <1>2, <1>4, <1>5 DEF RefundInv, PaymentInv
<1>7. Names(sentTx, cur) /\ sentTx # 0
  <2>1. Names(sentTx, cur)
    BY <1>1 DEF RefundInv, TxidInv
  <2>2. DOMAIN payouts = 1..Len(payouts)
    BY DEF RefundInv, Types, RowTypes
  <2> QED
    BY <2>1, <2>2 DEF Names, PayoutsOf
<1>8. TxidInv'
  BY <1>1, <1>2, <1>5, <1>7 DEF RefundInv, TxidInv, Names
<1>9. GrossInv'
  BY <1>1 DEF RefundInv, GrossInv, Estimated
<1> QED
  BY <1>3, <1>6, <1>8, <1>9 DEF RefundInv

\* The operator's request writes a txid of its own, whatever became of the row.
LEMMA OperatorSteps == ASSUME RefundInv, OperatorStep PROVE RefundInv'
<1>1. UNCHANGED <<amount, fee, owed, coins, listed, payouts, faults, pc, batch, cur, inputs,
                  sentTx>>
  BY DEF OperatorStep, MarkRead, MarkWrite, rowVars, chain, worker
<1>2. \A r : PayoutsOf(r)' = PayoutsOf(r) /\ Paid(r)' = Paid(r)
  BY <1>1, SamePayouts
<1>3. \A r : (Working(r)' <=> Working(r)) /\ (Sent(r)' <=> Sent(r))
  BY <1>1 DEF Working, Sent
<1>4. GrossInv'
  BY <1>1 DEF RefundInv, GrossInv, Estimated
<1>5. ASSUME NEW h \in Operators, NEW r \in Refunds, MarkRead(h, r) PROVE RefundInv'
  <2>1. UNCHANGED <<status, txid>> /\ call' \in [Operators -> Calls]
    BY <1>5 DEF MarkRead, rowVars, Calls, RefundInv, Types, WorkerTypes
  <2>2. Types'
    BY <1>1, <2>1 DEF RefundInv, Types, RowTypes, WorkerTypes
  <2>3. PaymentInv' /\ TxidInv'
    BY <1>1, <1>2, <1>3, <2>1 DEF RefundInv, PaymentInv, TxidInv, Names
  <2> QED
    BY <1>4, <2>2, <2>3 DEF RefundInv
<1>6. ASSUME NEW h \in Operators, MarkWrite(h) PROVE RefundInv'
  <2>1. call[h] \in [at : {"write"}, refund : Refunds]
    BY <1>6 DEF MarkWrite, RefundInv, Types, WorkerTypes, Calls, Idle
  <2>2. PICK r \in Refunds : call[h].refund = r
    BY <2>1
  <2>3. /\ status' = [status EXCEPT ![r] = "broadcast"]
        /\ txid' = [txid EXCEPT ![r] = ByOperator]
        /\ call' \in [Operators -> Calls]
    BY <1>6, <2>2 DEF MarkWrite, RefundInv, Types, WorkerTypes, Calls
  <2>4. Types'
    BY <1>1, <2>3 DEF RefundInv, Types, RowTypes, WorkerTypes, ByOperator
  <2>5. \A q \in Refunds : IF q = r THEN status'[q] = "broadcast" /\ txid'[q] = ByOperator
                           ELSE status'[q] = status[q] /\ txid'[q] = txid[q]
    BY <2>3 DEF RefundInv, Types, RowTypes
  <2>6. PaymentInv'
    BY <1>1, <1>2, <1>3, <2>5 DEF RefundInv, PaymentInv
  <2>7. TxidInv'
    BY <1>1, <1>2, <1>3, <2>5 DEF RefundInv, TxidInv, Names, ByOperator
  <2> QED
    BY <1>4, <2>4, <2>6, <2>7 DEF RefundInv
<1> QED
  BY <1>5, <1>6 DEF OperatorStep

\* The world moves coins only.
LEMMA WorldStep ==
  ASSUME RefundInv, ViewCatchesUp \/ (\E c \in LateCoins : LatePayment(c))
  PROVE  RefundInv'
<1>1. UNCHANGED <<status, amount, fee, txid, owed, payouts, pc, batch, cur, inputs, sentTx,
                  call, faults>>
  BY DEF ViewCatchesUp, LatePayment, rowVars, worker
<1>2. IsFiniteSet(coins') /\ IsFiniteSet(listed')
  <2>1. IsFiniteSet(coins) /\ IsFiniteSet(listed)
    BY DEF RefundInv, Types, WorkerTypes
  <2>2. CASE ViewCatchesUp
    BY <2>1, <2>2 DEF ViewCatchesUp
  <2>3. ASSUME NEW c \in LateCoins, LatePayment(c)
        PROVE  IsFiniteSet(coins') /\ IsFiniteSet(listed')
    <3>1. coins' = coins \cup {c} /\ listed' = listed
      BY <2>3 DEF LatePayment
    <3>2. IsFiniteSet(coins \cup {c})
      BY ONLY <2>1, FS_AddElement
    <3> QED
      BY <2>1, <3>1, <3>2
  <2> QED
    BY <2>2, <2>3
<1>3. \A r : PayoutsOf(r)' = PayoutsOf(r) /\ Paid(r)' = Paid(r)
  BY <1>1, SamePayouts
<1>4. Types'
  BY <1>1, <1>2 DEF RefundInv, Types, RowTypes, WorkerTypes
<1> QED
  BY <1>1, <1>3, <1>4
  DEF RefundInv, PaymentInv, TxidInv, GrossInv, Estimated, Working, Sent, Names

LEMMA RefundStep == RefundInv /\ [Next]_vars => RefundInv'
<1> SUFFICES ASSUME RefundInv, [Next]_vars PROVE RefundInv'
  OBVIOUS
<1>1. CASE Tick \/ TickEnds \/ (\E r \in Refunds : Take(r)) \/ Fetch
  BY <1>1, ListingStep
<1>2. CASE FetchFails \/ SendFails \/ WriteFails \/ Crash
  <2>1. /\ UNCHANGED <<status, amount, fee, txid, owed, coins, listed, payouts>>
        /\ pc' \in {"idle", "next"} /\ batch' \subseteq batch /\ cur' = cur
        /\ inputs' = {} /\ sentTx' = 0
    BY <1>2 DEF FetchFails, SendFails, WriteFails, Crash, NextRow, rowVars, chain
  <2>2. call' \in [Operators -> Calls]
    BY <1>2 DEF FetchFails, SendFails, WriteFails, Crash, Calls, RefundInv, Types,
                WorkerTypes
  <2>3. faults' \in 0..MaxFaults /\ faults <= faults' /\ (pc = "mark" => faults < faults')
    BY <1>2, WorkerAssumption
    DEF FetchFails, SendFails, WriteFails, Crash, Fault, RefundInv, Types, WorkerTypes
  <2> QED
    BY <2>1, <2>2, <2>3, DroppingStep
<1>3. CASE Refine
  BY <1>3, RefineStep
<1>4. ASSUME NEW S, Send(S) PROVE RefundInv'
  BY <1>4, SendStep
<1>5. CASE MarkBroadcast
  BY <1>5, MarkStep
<1>6. CASE OperatorStep
  BY <1>6, OperatorSteps
<1>7. CASE ViewCatchesUp \/ (\E c \in LateCoins : LatePayment(c))
  BY <1>7, WorldStep
<1>8. ASSUME NEW r \in Refunds, NEW gross \in Gross[r], EnqueueRefund(r, gross)
      PROVE  RefundInv'
  BY <1>8, EnqueueStep
<1>9. CASE UNCHANGED vars
  <2>1. \A r : PayoutsOf(r)' = PayoutsOf(r) /\ Paid(r)' = Paid(r)
    BY <1>9, SamePayouts DEF vars, chain
  <2> QED
    BY <1>9, <2>1
    DEF vars, rowVars, chain, worker, RefundInv, Types, RowTypes, WorkerTypes, PaymentInv,
        TxidInv, GrossInv, Estimated, Working, Sent, Names
<1> QED
  BY <1>1, <1>2, <1>3, <1>4, <1>5, <1>6, <1>7, <1>8, <1>9 DEF Next, WorkerStep

LEMMA RefundAlways == Spec => []RefundInv
  BY RefundInit, RefundStep, PTL DEF Spec
------------------------------------------------------------------------------
\* What the invariant says in the terms of the properties.
LEMMA RefundInvShows == RefundInv => PaidOncePerFault /\ GrossIsKept /\ RowsTellTheTruth
<1> SUFFICES ASSUME RefundInv PROVE PaidOncePerFault /\ GrossIsKept /\ RowsTellTheTruth
  OBVIOUS
<1>1. PaidOncePerFault
  BY DEF RefundInv, PaymentInv, PaidOncePerFault, Paid
<1>2. GrossIsKept
  BY DEF RefundInv, GrossInv, GrossIsKept
<1>3. RowsTellTheTruth
  <2> SUFFICES ASSUME NEW r \in Refunds
               PROVE  /\ status[r] = "broadcast" /\ txid[r] # ByOperator =>
                           txid[r] \in PayoutsOf(r) /\ payouts[txid[r]].amount = amount[r]
                      /\ status[r] = "dead" => Cardinality(PayoutsOf(r)) <= faults
    BY DEF RowsTellTheTruth
  <2>1. status[r] = "dead" => ~Sent(r)
    BY DEF RefundInv, PaymentInv
  <2> QED
    BY <2>1 DEF RefundInv, PaymentInv, TxidInv, Names, Paid
<1> QED
  BY <1>1, <1>2, <1>3

\* A refund is paid once, and once more at most for every failure
\* (src/refunds/worker.rs, run_tick and broadcast_one).
THEOREM PaysOncePerFault == Spec => []PaidOncePerFault
BY RefundInvShows, RefundAlways, PTL

\* What a transaction sends and the fee its builder takes are the gross amount,
\* however often the fee is estimated anew, but for the fee of more notes than
\* one, which is the merchant's (src/refunds/worker.rs, broadcast_one and
\* broadcast_shield; src/refunds/mod.rs, estimate_fee).
THEOREM KeepsGross == Spec => []GrossIsKept
BY RefundInvShows, RefundAlways, PTL

\* A row marked by the worker names a transaction that pays it, and a row that
\* was given up was not paid, but for what a failure hid (src/refunds/queue.rs,
\* mark_broadcast and mark_dead).
THEOREM TellsTheTruth == Spec => []RowsTellTheTruth
BY RefundInvShows, RefundAlways, PTL
------------------------------------------------------------------------------
(* The sum of the values of finitely many coins is a natural number.       *)
\* A set of subsets of a finite set has a member that contains no other one:
\* an induction over finite sets looks at the smallest one that fails.
LEMMA SmallestOne ==
  ASSUME NEW S, IsFiniteSet(S), NEW Bad \in SUBSET (SUBSET S), Bad # {}
  PROVE  \E T \in Bad : \A U \in Bad : U \subseteq T => U = T
<1>1. IsWellFoundedOn(StrictSubsetOrdering(S), SUBSET S)
  BY FS_StrictSubsetOrderingWellFounded, FS_FiniteSubsetsOfFinite
<1>2. PICK T \in Bad : \A U \in Bad : ~ (<<U, T>> \in StrictSubsetOrdering(S))
  BY <1>1, WFMin
<1>3. ASSUME NEW U \in Bad, U \subseteq T, U # T PROVE FALSE
  <2>1. U \in SUBSET S /\ T \in SUBSET S
    OBVIOUS
  <2>2. <<U, T>> \in StrictSubsetOrdering(S)
    BY <2>1, <1>3 DEF StrictSubsetOrdering
  <2> QED
    BY <2>2, <1>2
<1> QED
  BY <1>3

\* ValueOf is defined by a function over the subsets, f, that takes one element
\* out at a time.
First(s) == CHOOSE x \in s : TRUE
Sums(f, S) ==
  f = [s \in SUBSET S |-> IF s = {} THEN 0 ELSE First(s).value + f[s \ {First(s)}]]
SumOver(S) == CHOOSE f : Sums(f, S)

LEMMA ValueIsASum == ASSUME NEW S PROVE ValueOf(S) = SumOver(S)[S]
BY DEF ValueOf, MapThenSumSet, MapThenFoldSet, Sums, SumOver, First

LEMMA FirstIsIn == ASSUME NEW s, s # {} PROVE First(s) \in s
BY DEF First

LEMMA SumsOf ==
  ASSUME NEW S, NEW f, Sums(f, S), NEW s \in SUBSET S
  PROVE  f[s] = IF s = {} THEN 0 ELSE First(s).value + f[s \ {First(s)}]
BY DEF Sums

LEMMA SumsAgree ==
  ASSUME NEW S, IsFiniteSet(S), NEW T \in SUBSET S, NEW f, NEW g, Sums(f, S), Sums(g, T)
  PROVE  \A s \in SUBSET T : f[s] = g[s]
<1> DEFINE Bad == {s \in SUBSET T : f[s] # g[s]}
<1> SUFFICES ASSUME Bad # {} PROVE FALSE
  OBVIOUS
<1>1. IsFiniteSet(T)
  BY FS_Subset
<1>2. PICK s \in Bad : \A u \in Bad : u \subseteq s => u = s
  <2>1. Bad \in SUBSET (SUBSET T)
    OBVIOUS
  <2> HIDE DEF Bad
  <2> QED
    BY <1>1, <2>1, SmallestOne
<1>3. s \in SUBSET T /\ s \in SUBSET S
  OBVIOUS
<1>4. s # {}
  BY <1>3, SumsOf
<1>5. First(s) \in s
  BY <1>4, FirstIsIn
<1>6. s \ {First(s)} \notin Bad
  BY <1>2, <1>5
<1>7. f[s \ {First(s)}] = g[s \ {First(s)}]
  BY <1>3, <1>6
<1>8. f[s] = First(s).value + f[s \ {First(s)}] /\ g[s] = First(s).value + g[s \ {First(s)}]
  BY <1>3, <1>4, SumsOf
<1> QED
  BY <1>7, <1>8

LEMMA SumsExist == ASSUME NEW S, IsFiniteSet(S) PROVE Sums(SumOver(S), S)
<1> DEFINE Bad == {T \in SUBSET S : ~Sums(SumOver(T), T)}
<1> SUFFICES ASSUME Bad # {} PROVE FALSE
  OBVIOUS
<1>1. PICK T \in Bad : \A U \in Bad : U \subseteq T => U = T
  <2>1. Bad \in SUBSET (SUBSET S)
    OBVIOUS
  <2> HIDE DEF Bad
  <2> QED
    BY <2>1, SmallestOne
<1>2. T \in SUBSET S /\ ~Sums(SumOver(T), T)
  OBVIOUS
<1>3. ASSUME NEW u \in SUBSET T, u # T
      PROVE  Sums(SumOver(u), u) /\ IsFiniteSet(u)
  <2>1. u \in SUBSET S /\ u \notin Bad
    BY <1>1, <1>3
  <2> QED
    BY <2>1, FS_Subset
<1> DEFINE g == [s \in SUBSET T |->
                   IF s = {} THEN 0
                   ELSE First(s).value + SumOver(s \ {First(s)})[s \ {First(s)}]]
<1>4. ASSUME NEW u \in SUBSET T, u # T
      PROVE  g[u] = SumOver(u)[u]
  <2>1. u \in SUBSET u
    OBVIOUS
  <2>2. Sums(SumOver(u), u)
    BY <1>3, <1>4
  <2>3. SumOver(u)[u] = IF u = {} THEN 0
                        ELSE First(u).value + SumOver(u)[u \ {First(u)}]
    BY <2>1, <2>2, SumsOf
  <2>4. CASE u = {}
    BY <2>3, <2>4
  <2>5. CASE u # {}
    <3> DEFINE w == u \ {First(u)}
    <3>1. First(u) \in u
      BY <2>5, FirstIsIn
    <3>2. w \in SUBSET u /\ w \in SUBSET T /\ w # T
      BY <3>1
    <3>3. Sums(SumOver(w), w)
      BY <3>2, <1>3
    <3>4. w \in SUBSET w /\ IsFiniteSet(u)
      BY <1>3, <1>4
    <3> HIDE DEF w
    <3>5. SumOver(u)[w] = SumOver(w)[w]
      BY <2>2, <3>2, <3>3, <3>4, SumsAgree
    <3>6. g[u] = First(u).value + SumOver(w)[w]
      BY <2>5 DEF w
    <3> QED
      BY <2>3, <2>5, <3>5, <3>6 DEF w
  <2> QED
    BY <2>4, <2>5
<1>5. ASSUME NEW s \in SUBSET T, s # {}
      PROVE  s \ {First(s)} \in SUBSET T /\ s \ {First(s)} # T
  BY <1>5, FirstIsIn
<1>6. g = [s \in SUBSET T |-> IF s = {} THEN 0 ELSE First(s).value + g[s \ {First(s)}]]
  <2>1. ASSUME NEW s \in SUBSET T
        PROVE  g[s] = IF s = {} THEN 0 ELSE First(s).value + g[s \ {First(s)}]
    <3>1. CASE s = {}
      BY <3>1
    <3>2. CASE s # {}
      <4>1. g[s] = First(s).value + SumOver(s \ {First(s)})[s \ {First(s)}]
        BY <3>2
      <4>2. g[s \ {First(s)}] = SumOver(s \ {First(s)})[s \ {First(s)}]
        BY <1>4, <1>5, <3>2
      <4> QED
        BY <3>2, <4>1, <4>2
    <3> QED
      BY <3>1, <3>2
  <2>2. g = [s \in SUBSET T |-> g[s]]
    OBVIOUS
  <2> HIDE DEF g
  <2> QED
    BY <2>1, <2>2
<1>7. Sums(g, T)
  <2> HIDE DEF g
  <2> QED
    BY <1>6 DEF Sums
<1> HIDE DEF g
<1>8. Sums(SumOver(T), T)
  BY <1>7 DEF SumOver
<1> QED
  BY <1>2, <1>8

\* The value of coins is the value of one of them and that of the others.
LEMMA ValueOfFirst ==
  ASSUME NEW S, IsFiniteSet(S), S # {}
  PROVE  ValueOf(S) = First(S).value + ValueOf(S \ {First(S)})
<1> DEFINE T == S \ {First(S)}
<1>1. First(S) \in S /\ T \in SUBSET S /\ S \in SUBSET S /\ T \in SUBSET T
  BY FirstIsIn
<1>2. IsFiniteSet(T)
  BY <1>1, FS_Subset
<1>3. Sums(SumOver(S), S) /\ Sums(SumOver(T), T)
  BY <1>2, SumsExist
<1>4. SumOver(S)[S] = First(S).value + SumOver(S)[T]
  BY <1>1, <1>3, SumsOf
<1>5. SumOver(S)[T] = SumOver(T)[T]
  <2> HIDE DEF T
  <2> QED
    BY <1>1, <1>3, SumsAgree
<1>6. ValueOf(S) = SumOver(S)[S] /\ ValueOf(T) = SumOver(T)[T]
  BY ValueIsASum
<1> QED
  BY <1>4, <1>5, <1>6

LEMMA ValueOfNone == ValueOf({}) = 0
<1>1. Sums(SumOver({}), {}) /\ {} \in SUBSET {}
  BY SumsExist, FS_EmptySet
<1> QED
  BY <1>1, SumsOf, ValueIsASum

\* The value of finitely many coins is a natural number.
LEMMA ValueType ==
  ASSUME NEW S, IsFiniteSet(S), \A c \in S : c.value \in Nat
  PROVE  ValueOf(S) \in Nat
<1> DEFINE Bad == {T \in SUBSET S : ValueOf(T) \notin Nat}
<1> SUFFICES ASSUME Bad # {} PROVE FALSE
  OBVIOUS
<1>1. PICK T \in Bad : \A U \in Bad : U \subseteq T => U = T
  <2>1. Bad \in SUBSET (SUBSET S)
    OBVIOUS
  <2> HIDE DEF Bad
  <2> QED
    BY <2>1, SmallestOne
<1>2. T \in SUBSET S /\ ValueOf(T) \notin Nat
  OBVIOUS
<1>3. T # {}
  BY <1>2, ValueOfNone
<1>4. First(T) \in T /\ IsFiniteSet(T)
  BY <1>2, <1>3, FirstIsIn, FS_Subset
<1>5. ValueOf(T \ {First(T)}) \in Nat
  BY <1>1, <1>4
<1>6. ValueOf(T) = First(T).value + ValueOf(T \ {First(T)})
  BY <1>3, <1>4, ValueOfFirst
<1> QED
  BY <1>2, <1>4, <1>5, <1>6

\* Any of the coins can be taken out first.
LEMMA ValueOfOne ==
  ASSUME NEW S, IsFiniteSet(S), \A c \in S : c.value \in Nat, NEW c \in S
  PROVE  ValueOf(S) = c.value + ValueOf(S \ {c})
<1> DEFINE Bad == {T \in SUBSET S : \E d \in T : ValueOf(T) # d.value + ValueOf(T \ {d})}
<1> SUFFICES ASSUME Bad # {} PROVE FALSE
  <2> S \in SUBSET S
    OBVIOUS
  <2> QED
    OBVIOUS
<1>1. PICK T \in Bad : \A U \in Bad : U \subseteq T => U = T
  <2>1. Bad \in SUBSET (SUBSET S)
    OBVIOUS
  <2> HIDE DEF Bad
  <2> QED
    BY <2>1, SmallestOne
<1>2. PICK d \in T : ValueOf(T) # d.value + ValueOf(T \ {d})
  OBVIOUS
<1>3. PICK f : f = First(T) /\ f \in T /\ ValueOf(T) = f.value + ValueOf(T \ {f})
  BY <1>2, FirstIsIn, FS_Subset, ValueOfFirst
<1>4. d # f
  BY <1>2, <1>3
<1>5. /\ ValueOf(T \ {f}) = d.value + ValueOf((T \ {f}) \ {d})
      /\ ValueOf(T \ {d}) = f.value + ValueOf((T \ {d}) \ {f})
  <2>1. T \ {f} \in SUBSET S /\ T \ {f} \notin Bad /\ d \in T \ {f}
    BY <1>1, <1>3, <1>4
  <2>2. T \ {d} \in SUBSET S /\ T \ {d} \notin Bad /\ f \in T \ {d}
    BY <1>1, <1>3, <1>4
  <2> QED
    BY <2>1, <2>2
<1>6. PICK R \in SUBSET S : R = (T \ {f}) \ {d} /\ R = (T \ {d}) \ {f}
  OBVIOUS
<1>7. ValueOf(R) \in Nat /\ d.value \in Nat /\ f.value \in Nat
  BY <1>3, FS_Subset, ValueType
<1>8. ValueOf(T) = f.value + (d.value + ValueOf(R)) /\ ValueOf(T \ {d}) = f.value + ValueOf(R)
  BY <1>3, <1>5, <1>6
<1> HIDE DEF Bad
<1> QED
  BY <1>2, <1>7, <1>8

\* What is added to coins adds to their value.
LEMMA ValueOfMore ==
  ASSUME NEW S, IsFiniteSet(S), \A c \in S : c.value \in Nat,
         NEW c, c \notin S, c.value \in Nat
  PROVE  ValueOf(S \cup {c}) = ValueOf(S) + c.value
<1> DEFINE T == S \cup {c}
<1>1. IsFiniteSet(T) /\ T \ {c} = S /\ c \in T /\ \A d \in T : d.value \in Nat
  BY FS_AddElement
<1>2. ValueOf(S) \in Nat
  BY ValueType
<1> HIDE DEF T
<1>3. ValueOf(T) = c.value + ValueOf(T \ {c})
  BY <1>1, ValueOfOne
<1>4. ValueOf(T) = c.value + ValueOf(S)
  BY <1>1, <1>3
<1> QED
  BY <1>2, <1>4 DEF T

\* The value of coins is that of some of them and that of the others.
LEMMA ValueOfParts ==
  ASSUME NEW S, IsFiniteSet(S), \A c \in S : c.value \in Nat, NEW A \in SUBSET S
  PROVE  ValueOf(S) = ValueOf(A) + ValueOf(S \ A)
<1> DEFINE Bad == {T \in SUBSET A : ValueOf(S) # ValueOf(T) + ValueOf(S \ T)}
<1> SUFFICES ASSUME Bad # {} PROVE FALSE
  <2> A \in SUBSET A
    OBVIOUS
  <2> QED
    OBVIOUS
<1>0. IsFiniteSet(A)
  BY FS_Subset
<1>1. PICK T \in Bad : \A U \in Bad : U \subseteq T => U = T
  <2>1. Bad \in SUBSET (SUBSET A)
    OBVIOUS
  <2> HIDE DEF Bad
  <2> QED
    BY <1>0, <2>1, SmallestOne
<1>2. T \in SUBSET A /\ ValueOf(S) # ValueOf(T) + ValueOf(S \ T)
  OBVIOUS
<1>3. T # {}
  <2>1. S \ {} = S /\ ValueOf(S) \in Nat
    BY ValueType
  <2> QED
    BY <1>2, <2>1, ValueOfNone
<1>4. PICK c \in T : TRUE
  BY <1>3
<1> DEFINE U == T \ {c}
<1>5. U \in SUBSET A /\ U \notin Bad /\ c \in S \ U /\ (S \ U) \ {c} = S \ T
  BY <1>1, <1>4
<1>6. ValueOf(S) = ValueOf(U) + ValueOf(S \ U)
  BY <1>5
<1>7. \A V \in SUBSET S : IsFiniteSet(V) /\ ValueOf(V) \in Nat
  BY FS_Subset, ValueType
<1>8. ValueOf(T) = c.value + ValueOf(U)
  BY <1>2, <1>7, ValueOfOne
<1>9. ValueOf(S \ U) = c.value + ValueOf(S \ T)
  <2> HIDE DEF U
  <2>1. S \ U \in SUBSET S
    OBVIOUS
  <2> QED
    BY <1>5, <1>7, <2>1, ValueOfOne
<1>10. ValueOf(U) \in Nat /\ ValueOf(S \ T) \in Nat /\ c.value \in Nat
  <2>1. U \in SUBSET S /\ S \ T \in SUBSET S /\ c \in S
    BY <1>2, <1>4
  <2> QED
    BY <1>7, <2>1
<1> QED
  BY <1>2, <1>6, <1>8, <1>9, <1>10
------------------------------------------------------------------------------
(* The types that the other proofs do not need: those of the coins, which  *)
(* rest on the sums above, and of the ranks, which count the rows.         *)
Enqueued == {q \in Refunds : status[q] # "none"}

CoinTypes ==
  /\ coins \subseteq Coin /\ listed \subseteq Coin /\ late \subseteq LateCoins
  /\ inputs \subseteq Coin
  /\ IsFiniteSet(Enqueued) /\ born \in [Refunds -> Nat]

\* What is left of the inputs is a coin of the source.
LEMMA ChangeIsACoin ==
  ASSUME RefundInv, CoinTypes, NEW S, Send(S)
  PROVE  coins' \subseteq Coin
<1>1. Accept(cur, S) /\ S \in Spendable(cur) /\ S \subseteq coins
  BY DEF Send
<1>2. IsFiniteSet(S) /\ \A c \in S : c.value \in Nat
  BY <1>1, FS_Subset DEF RefundInv, Types, WorkerTypes, CoinTypes, Coin
<1>3. ValueOf(S) \in Nat
  BY <1>2, ValueType
<1>4. Len(payouts) + 1 \in Int /\ SourceOf[cur] \in Sources /\ cur \in Refunds
  BY DEF RefundInv, Types, RowTypes, WorkerTypes, Sources
<1>5. amount[cur] \in Nat /\ BuilderFee(cur, Cardinality(S)) \in Nat
  BY <1>2, <1>4, FeeTypes, FS_CardinalityType DEF RefundInv, Types, RowTypes
<1>6. Change(cur, S).value > 0 => Change(cur, S) \in Coin
  BY <1>3, <1>4, <1>5 DEF Change, Coin
<1>7. coins' = (coins \ S)
               \cup (IF Change(cur, S).value > 0 THEN {Change(cur, S)} ELSE {})
  BY <1>1 DEF Accept
<1> QED
  BY <1>6, <1>7 DEF CoinTypes

\* A row more, and the rows are still finitely many.
LEMMA OneMoreRow ==
  ASSUME RowTypes, CoinTypes, NEW r \in Refunds, NEW gross, EnqueueRefund(r, gross)
  PROVE  IsFiniteSet(Enqueued') /\ born' \in [Refunds -> Nat]
<1>1. status' = [status EXCEPT ![r] = "pending"]
  BY DEF EnqueueRefund
<1>2. Enqueued' = Enqueued \cup {r}
  BY <1>1 DEF Enqueued, RowTypes
<1>3. born' = [born EXCEPT ![r] = 1 + Cardinality(Enqueued)]
  BY DEF EnqueueRefund, Enqueued
<1>4. IsFiniteSet(Enqueued) /\ Cardinality(Enqueued) \in Nat
  BY FS_CardinalityType DEF CoinTypes
<1>5. IsFiniteSet(Enqueued \cup {r})
  BY <1>4, FS_AddElement
<1>6. born' \in [Refunds -> Nat]
  BY <1>3, <1>4 DEF CoinTypes
<1> QED
  BY <1>2, <1>5, <1>6

LEMMA CoinStep == RefundInv /\ CoinTypes /\ [Next]_vars => CoinTypes'
<1> SUFFICES ASSUME RefundInv, CoinTypes, [Next]_vars PROVE CoinTypes'
  OBVIOUS
<1> USE DEF rowVars, chain, worker
<1>t. Types /\ RowTypes
  BY DEF RefundInv, Types
\* Most steps count no row, write one status at most, and add no coin.
<1>s. ASSUME coins' \subseteq Coin, listed' \subseteq Coin, late' \subseteq LateCoins,
             inputs' \subseteq Coin, UNCHANGED born,
             NEW r, NEW s, status' \in {status, [status EXCEPT ![r] = s]}
      PROVE  CoinTypes'
  <2>1. Enqueued' \in SUBSET (Enqueued \cup {r})
    BY <1>s, <1>t DEF Enqueued, RowTypes
  <2>2. IsFiniteSet(Enqueued \cup {r})
    BY FS_AddElement DEF CoinTypes
  <2> QED
    BY <1>s, <2>1, <2>2, FS_Subset DEF CoinTypes
<1>1. CASE Tick \/ TickEnds \/ (\E r \in Refunds : Take(r)) \/ Fetch
  <2>1. UNCHANGED <<coins, listed, late, born, status>> /\ inputs' \subseteq inputs \cup listed
    BY <1>1 DEF Tick, TickEnds, Take, Fetch
  <2> QED
    BY <1>s, <2>1 DEF CoinTypes
<1>2. CASE FetchFails \/ SendFails \/ WriteFails \/ Crash
  <2>1. UNCHANGED <<coins, listed, late, born, status>> /\ inputs' = {}
    BY <1>2 DEF FetchFails, SendFails, WriteFails, Crash, NextRow
  <2> QED
    BY <1>s, <2>1 DEF CoinTypes
<1>3. CASE Refine \/ MarkBroadcast
  <2>1. /\ UNCHANGED <<coins, listed, late, born>> /\ inputs' \in {inputs, {}}
        /\ \E s : status' \in {status, [status EXCEPT ![cur] = s]}
    BY <1>3 DEF Refine, MarkBroadcast, NextRow
  <2> QED
    BY <1>s, <2>1 DEF CoinTypes
<1>4. ASSUME NEW S, Send(S) PROVE CoinTypes'
  <2>1. UNCHANGED <<listed, late, born, status>> /\ inputs' \in {inputs, {}}
    BY <1>4 DEF Send, NextRow
  <2>2. coins' \subseteq Coin
    BY <1>4, ChangeIsACoin
  <2> QED
    BY <1>s, <2>1, <2>2 DEF CoinTypes
<1>5. CASE OperatorStep
  <2>1. PICK h \in Operators : MarkWrite(h) \/ \E r \in Refunds : MarkRead(h, r)
    BY <1>5 DEF OperatorStep
  <2>2. /\ UNCHANGED <<coins, listed, late, born, inputs>>
        /\ \E r : status' \in {status, [status EXCEPT ![r] = "broadcast"]}
    BY <2>1 DEF MarkWrite, MarkRead
  <2> QED
    BY <1>s, <2>2 DEF CoinTypes
<1>6. CASE ViewCatchesUp \/ (\E c \in LateCoins : LatePayment(c))
  <2>1. /\ UNCHANGED <<born, inputs, status>>
        /\ coins' \subseteq coins \cup LateCoins
        /\ listed' \in {listed, coins} /\ late' \subseteq late
    BY <1>6 DEF ViewCatchesUp, LatePayment
  <2> QED
    BY <1>s, <2>1, CoinsAssumption DEF CoinTypes
<1>7. ASSUME NEW r \in Refunds, NEW gross \in Gross[r], EnqueueRefund(r, gross)
      PROVE  CoinTypes'
  <2>1. UNCHANGED <<coins, listed, late, inputs>>
    BY <1>7 DEF EnqueueRefund
  <2> QED
    BY <1>7, <1>t, <2>1, OneMoreRow DEF CoinTypes
<1>8. CASE UNCHANGED vars
  <2>1. UNCHANGED <<coins, listed, late, inputs, born, status>>
    BY <1>8 DEF vars
  <2> QED
    BY <1>s, <2>1 DEF CoinTypes
<1> QED
  BY <1>1, <1>2, <1>3, <1>4, <1>5, <1>6, <1>7, <1>8 DEF Next, WorkerStep

LEMMA CoinInit == Init => CoinTypes
<1> SUFFICES ASSUME Init PROVE CoinTypes
  OBVIOUS
<1>1. Enqueued = {}
  BY DEF Init, Enqueued
<1> QED
  BY <1>1, FS_EmptySet, CoinsAssumption DEF Init, CoinTypes

LEMMA CoinTypesShow == RefundInv /\ CoinTypes => TypeOK
BY DEF RefundInv, Types, RowTypes, WorkerTypes, CoinTypes, TypeOK, Payouts, Calls

\* The types hold of every behaviour, and with them that what is left of a
\* payment is an output above 0 (src/refunds/worker.rs, broadcast_one).
THEOREM TypeCorrect == Spec => []TypeOK
BY CoinTypesShow, CoinInit, CoinStep, RefundAlways, PTL DEF Spec
------------------------------------------------------------------------------
(* What customers sent to an address is still there or was paid back, to   *)
(* the last unit: the inputs of a transaction are coins of the source, and *)
(* its change is a coin that was not there before.                         *)
At(S, s) == {c \in S : c.at = s}
Came == InitialCoins \cup (LateCoins \ late)
PaidFrom(s) == {k \in DOMAIN payouts : SourceOf[payouts[k].refund] = s}
Bill(k) == [id |-> k, value |-> payouts[k].amount + payouts[k].fee]
Spent(s) == {Bill(k) : k \in PaidFrom(s)}

MoneyInv ==
  /\ late \cap coins = {}
  /\ \A c \in coins : c.id <= Len(payouts)
  /\ pc \in {"idle", "next", "fetch"} => inputs = {}
  /\ \A c \in inputs : c.at = SourceOf[cur]
  /\ \A s \in Sources : ValueOf(At(coins, s)) + ValueOf(Spent(s)) = ValueOf(At(Came, s))

\* All these sums are of finitely many coins.
LEMMA MoneyTypes ==
  ASSUME RefundInv, CoinTypes, NEW s
  PROVE  /\ IsFiniteSet(coins) /\ IsFiniteSet(At(coins, s)) /\ IsFiniteSet(At(Came, s))
         /\ \A c \in coins \cup Came : c.value \in Nat /\ c.value > 0 /\ c.id \in Int
         /\ IsFiniteSet(Spent(s)) /\ \A b \in Spent(s) : b.value \in Nat /\ b.id \in 1..Len(payouts)
         /\ ValueOf(At(coins, s)) \in Nat /\ ValueOf(At(Came, s)) \in Nat
         /\ ValueOf(Spent(s)) \in Nat
<1>1. /\ IsFiniteSet(coins) /\ IsFiniteSet(At(coins, s))
      /\ \A c \in coins : c.value \in Nat /\ c.value > 0 /\ c.id \in Int
  <2>1. At(coins, s) \in SUBSET coins
    BY DEF At
  <2> QED
    BY <2>1, FS_Subset DEF RefundInv, Types, WorkerTypes, CoinTypes, Coin
<1>2. IsFiniteSet(At(Came, s)) /\ \A c \in Came : c.value \in Nat /\ c.value > 0 /\ c.id \in Int
  <2>1. IsFiniteSet(InitialCoins \cup LateCoins)
    BY CoinsAssumption, FS_Union
  <2>2. At(Came, s) \in SUBSET (InitialCoins \cup LateCoins)
    BY DEF At, Came
  <2>3. \A c \in Came : c \in Coin
    BY CoinsAssumption DEF Came
  <2>4. \A c \in Coin : c.value \in Nat /\ c.value > 0 /\ c.id \in Int
    BY DEF Coin
  <2> QED
    BY <2>1, <2>2, <2>3, <2>4, FS_Subset
<1>3. IsFiniteSet(Spent(s)) /\ \A b \in Spent(s) : b.value \in Nat /\ b.id \in 1..Len(payouts)
  <2>1. payouts \in Seq(Payouts) /\ DOMAIN payouts = 1..Len(payouts) /\ Len(payouts) \in Nat
    BY DEF RefundInv, Types, RowTypes
  <2>2. IsFiniteSet(PaidFrom(s)) /\ PaidFrom(s) \subseteq 1..Len(payouts)
    <3>1. IsFiniteSet(1..Len(payouts)) /\ PaidFrom(s) \in SUBSET (1..Len(payouts))
      BY <2>1, FS_Interval DEF PaidFrom
    <3> QED
      BY <3>1, FS_Subset
  <2>3. IsFiniteSet({Bill(k) : k \in PaidFrom(s)})
    <3> DEFINE f == [k \in PaidFrom(s) |-> Bill(k)]
    <3>1. f \in Surjection(PaidFrom(s), {Bill(k) : k \in PaidFrom(s)})
      BY DEF Surjection
    <3> HIDE DEF f
    <3> QED
      BY <2>2, <3>1, FS_Surjection
  <2>4. \A k \in PaidFrom(s) : Bill(k).value \in Nat /\ Bill(k).id \in 1..Len(payouts)
    <3>1. \A k \in 1..Len(payouts) : payouts[k].amount \in Nat /\ payouts[k].fee \in Nat
      <4>1. \A k \in 1..Len(payouts) : payouts[k] \in Payouts
        BY <2>1
      <4> QED
        BY <4>1 DEF Payouts
    <3> QED
      BY <2>2, <3>1 DEF Bill
  <2> HIDE DEF Bill, PaidFrom
  <2> QED
    BY <2>3, <2>4 DEF Spent
<1>4. \A c \in At(coins, s) \cup At(Came, s) : c.value \in Nat
  BY <1>1, <1>2 DEF At
<1> QED
  BY <1>1, <1>2, <1>3, <1>4, ValueType

\* A transaction takes its inputs from the source and leaves there what is
\* above the gross amount.
LEMMA MoneySent ==
  ASSUME RefundInv, CoinTypes, MoneyInv, NEW S, Send(S)
  PROVE  MoneyInv'
<1> DEFINE rec == Transaction(cur, S)
<1>0. PICK s, taken, gross, n, change :
        /\ s = SourceOf[cur] /\ taken = BuilderFee(cur, Cardinality(S))
        /\ gross = amount[cur] + taken /\ n = Len(payouts) + 1 /\ change = Change(cur, S)
  OBVIOUS
<1>1. /\ payouts' = Append(payouts, rec)
      /\ UNCHANGED <<late, cur>> /\ inputs' \in {inputs, {}}
      /\ pc' = "next" => inputs' = {}
      /\ pc' \in {"mark", "next"}
      /\ coins' = (coins \ S) \cup (IF change.value > 0 THEN {change} ELSE {})
  BY <1>0 DEF Send, Accept, NextRow
<1>n. Cardinality(S) \in Nat
  BY SpendsFinite, FS_CardinalityType DEF Send
<1>b. cur \in Refunds /\ taken \in Nat /\ amount[cur] \in Nat
  BY <1>0, <1>n, FeeTypes DEF RefundInv, Types, RowTypes, WorkerTypes
<1>2. /\ cur \in Refunds /\ amount[cur] \in Nat /\ taken \in Nat /\ s \in Sources
      /\ payouts \in Seq(Payouts) /\ DOMAIN payouts = 1..Len(payouts) /\ Len(payouts) \in Nat
      /\ rec \in Payouts /\ gross \in Nat /\ n \in Nat
  BY <1>0, <1>b, <1>n DEF RefundInv, Types, RowTypes, WorkerTypes, Sources, Payouts, Transaction
<1>3. /\ DOMAIN payouts' = DOMAIN payouts \cup {n} /\ n \notin DOMAIN payouts /\ payouts'[n] = rec
      /\ \A k \in DOMAIN payouts : payouts'[k] = payouts[k]
      /\ Len(payouts') = n
  BY <1>0, <1>1, <1>2
\* The inputs are coins of the source, and cover the gross amount.
<1>4. S \subseteq At(coins, s) /\ ValueOf(S) >= gross
  <2>1. S \in Spendable(cur) /\ S \subseteq coins
    BY DEF Send
  <2>2. \A c \in S : c.at = s
    BY <1>0, <2>1 DEF Spendable, MoneyInv
  <2> QED
    BY <1>0, <2>1, <2>2 DEF Spendable, At
<1>5. /\ IsFiniteSet(At(coins, s)) /\ \A c \in At(coins, s) : c.value \in Nat
      /\ IsFiniteSet(Spent(s)) /\ \A b \in Spent(s) : b.value \in Nat /\ b.id # n
      /\ ValueOf(At(coins, s)) \in Nat /\ ValueOf(Spent(s)) \in Nat
      /\ ValueOf(S) \in Nat
  <2>1. /\ IsFiniteSet(At(coins, s)) /\ \A c \in At(coins, s) : c.value \in Nat
    BY MoneyTypes DEF At
  <2>2. IsFiniteSet(S) /\ \A c \in S : c.value \in Nat
    BY <1>4, <2>1, FS_Subset
  <2>3. ValueOf(S) \in Nat
    BY <2>2, ValueType
  <2>4. \A b \in Spent(s) : b.id # n
    <3>1. \A b \in Spent(s) : b.id \in 1..Len(payouts)
      BY MoneyTypes
    <3> QED
      BY <1>0, <1>2, <3>1
  <2> QED
    BY <2>1, <2>3, <2>4, MoneyTypes
<1>c. change.at = s /\ change.id = n /\ change.value = ValueOf(S) - gross /\ rec.refund = cur
      /\ rec.amount + rec.fee = gross
  BY <1>0, <1>2, <1>5 DEF Change, Transaction
<1> HIDE DEF rec
\* The change was not there before.
<1>6. change \notin coins
  BY <1>0, <1>2, <1>c DEF MoneyInv
<1>7. \A c \in coins' : c.id <= Len(payouts')
  <2>1. \A c \in coins : c.id \in Int
    BY MoneyTypes
  <2> QED
    BY <1>0, <1>1, <1>2, <1>3, <1>c, <2>1 DEF MoneyInv
<1>8. late' \cap coins' = {}
  <2>1. \A c \in late : c.id <= 0 /\ c.id \in Int
    BY CoinsAssumption DEF CoinTypes, Coin
  <2>2. change \notin late
    BY <1>0, <1>2, <1>c, <2>1
  <2> QED
    BY <1>1, <2>2 DEF MoneyInv
<1>9. \A t : At(coins', t) = IF t # s THEN At(coins, t)
                             ELSE (At(coins, s) \ S)
                                    \cup (IF change.value > 0 THEN {change} ELSE {})
  BY <1>1, <1>4, <1>c DEF At
<1>10. ValueOf(At(coins', s)) = ValueOf(At(coins, s)) - gross
  <2> DEFINE rest == At(coins, s) \ S
  <2>1. ValueOf(At(coins, s)) = ValueOf(S) + ValueOf(rest)
    BY <1>4, <1>5, ValueOfParts
  <2>2. rest \in SUBSET At(coins, s)
    OBVIOUS
  <2>3. IsFiniteSet(rest) /\ (\A c \in rest : c.value \in Nat) /\ change \notin rest
    BY <1>5, <1>6, <2>2, FS_Subset DEF At
  <2>4. ValueOf(rest) \in Nat
    BY <2>3, ValueType
  <2> HIDE DEF rest
  <2>5. CASE change.value > 0
    <3>1. change.value \in Nat
      BY <1>2, <1>5, <1>c, <2>5
    <3>3. ValueOf(rest \cup {change}) = ValueOf(rest) + change.value
      BY <2>3, <3>1, ValueOfMore
    <3>4. At(coins', s) = rest \cup {change}
      BY <1>9, <2>5 DEF rest
    <3> QED
      BY <1>2, <1>5, <1>c, <2>1, <2>4, <3>3, <3>4
  <2>6. CASE ~(change.value > 0)
    <3>1. ValueOf(S) = gross
      BY <1>2, <1>4, <1>5, <1>c, <2>6
    <3>2. At(coins', s) = rest
      BY <1>9, <2>6 DEF rest
    <3> QED
      BY <1>5, <2>1, <2>4, <3>1, <3>2
  <2> QED
    BY <2>5, <2>6
<1>11. \A t : Spent(t)' = IF t # s THEN Spent(t) ELSE Spent(s) \cup {[id |-> n, value |-> gross]}
  <2>1. \A t : PaidFrom(t)' = IF t # s THEN PaidFrom(t) ELSE PaidFrom(s) \cup {n}
    BY <1>0, <1>3, <1>c DEF PaidFrom
  <2>2. \A t : \A k \in PaidFrom(t) : Bill(k)' = Bill(k)
    BY <1>3 DEF PaidFrom, Bill
  <2>3. Bill(n)' = [id |-> n, value |-> gross]
    BY <1>3, <1>c DEF Bill
  <2>4. \A t : Spent(t)' = {Bill(k)' : k \in PaidFrom(t)'}
    BY DEF Spent
  <2>5. ASSUME NEW t PROVE Spent(t)' = IF t # s THEN Spent(t)
                                       ELSE Spent(s) \cup {[id |-> n, value |-> gross]}
    <3> DEFINE b == [id |-> n, value |-> gross]
    <3> HIDE DEF b
    <3>1. CASE t # s
      BY <2>1, <2>2, <2>4, <3>1 DEF Spent
    <3>2. CASE t = s
      <4>1. Spent(t)' = {Bill(k)' : k \in PaidFrom(s) \cup {n}}
        BY <2>1, <2>4, <3>2
      <4>2. Spent(t)' = {Bill(k)' : k \in PaidFrom(s)} \cup {Bill(n)'}
        BY <4>1
      <4>3. {Bill(k)' : k \in PaidFrom(s)} = Spent(s)
        BY <2>2 DEF Spent
      <4> QED
        BY <2>3, <3>2, <4>2, <4>3
    <3> QED
      BY <3>1, <3>2 DEF b
  <2> QED
    BY <2>5
<1>12. ValueOf(Spent(s)') = ValueOf(Spent(s)) + gross
  <2> DEFINE b == [id |-> n, value |-> gross]
  <2>1. b.value = gross /\ b.value \in Nat /\ b \notin Spent(s)
    BY <1>2, <1>5
  <2>2. Spent(s)' = Spent(s) \cup {b}
    BY <1>11
  <2> HIDE DEF b
  <2> QED
    BY <1>5, <2>1, <2>2, ValueOfMore
<1>13. \A t : At(Came', t) = At(Came, t)
  BY <1>1 DEF Came, At
<1>14. ASSUME NEW t \in Sources
       PROVE  ValueOf(At(coins', t)) + ValueOf(Spent(t)') = ValueOf(At(Came', t))
  <2>1. ValueOf(At(coins, t)) + ValueOf(Spent(t)) = ValueOf(At(Came', t))
    BY <1>13 DEF MoneyInv
  <2>2. CASE t # s
    BY <1>9, <1>11, <2>1, <2>2
  <2>3. CASE t = s
    <3> QED
      BY <1>2, <1>5, <1>10, <1>12, <2>1, <2>3
  <2> QED
    BY <2>2, <2>3
<1>15. /\ pc' \in {"idle", "next", "fetch"} => inputs' = {}
       /\ \A c \in inputs' : c.at = SourceOf[cur']
  BY <1>0, <1>1 DEF MoneyInv
<1> QED
  BY <1>7, <1>8, <1>14, <1>15 DEF MoneyInv

\* The other steps of the worker send nothing; a coin that comes is new.
LEMMA MoneyStep == RefundInv /\ CoinTypes /\ MoneyInv /\ [Next]_vars => MoneyInv'
<1> SUFFICES ASSUME RefundInv, CoinTypes, MoneyInv, [Next]_vars PROVE MoneyInv'
  OBVIOUS
<1> USE DEF rowVars, chain, worker
<1>s. ASSUME UNCHANGED <<coins, late, payouts>>,
             /\ pc' \in {"idle", "next", "fetch"} => inputs' = {}
             /\ \A c \in inputs' : c.at = SourceOf[cur']
      PROVE  MoneyInv'
  <2>1. \A s : At(coins', s) = At(coins, s) /\ Spent(s)' = Spent(s) /\ At(Came', s) = At(Came, s)
    BY <1>s DEF At, Spent, PaidFrom, Bill, Came
  <2> QED
    BY <1>s, <2>1 DEF MoneyInv
<1>1. CASE Tick \/ TickEnds \/ (\E r \in Refunds : Take(r)) \/ Fetch
  BY <1>s, <1>1 DEF Tick, TickEnds, Take, Fetch, MoneyInv
<1>2. CASE FetchFails \/ SendFails \/ WriteFails \/ Crash \/ Refine \/ MarkBroadcast
  BY <1>s, <1>2
     DEF FetchFails, SendFails, WriteFails, Crash, Refine, MarkBroadcast, NextRow, MoneyInv
<1>3. CASE OperatorStep \/ ViewCatchesUp \/ UNCHANGED vars
            \/ \E r \in Refunds : \E gross \in Gross[r] : EnqueueRefund(r, gross)
  <2>1. UNCHANGED <<coins, late, payouts, pc, inputs, cur>>
    BY <1>3 DEF OperatorStep, MarkRead, MarkWrite, ViewCatchesUp, EnqueueRefund, vars
  <2> QED
    BY <1>s, <2>1 DEF MoneyInv
<1>4. ASSUME NEW S, Send(S) PROVE MoneyInv'
  BY <1>4, MoneySent
<1>5. ASSUME NEW c \in LateCoins, LatePayment(c) PROVE MoneyInv'
  <2>1. /\ c \in late /\ late' = late \ {c} /\ coins' = coins \cup {c}
        /\ UNCHANGED <<payouts, pc, inputs, cur>>
    BY <1>5 DEF LatePayment
  <2>2. c \notin coins /\ c \notin Came /\ c.value \in Nat /\ c.id <= Len(payouts)
    <3>1. Len(payouts) \in Nat /\ c.id <= 0 /\ c.id \in Int /\ c.value \in Nat
      BY CoinsAssumption DEF RefundInv, Types, RowTypes, Coin
    <3> QED
      BY <2>1, <3>1, CoinsAssumption DEF MoneyInv, Came
  <2>3. late' \cap coins' = {} /\ \A d \in coins' : d.id <= Len(payouts')
    BY <2>1, <2>2 DEF MoneyInv
  <2>4. \A s : /\ At(coins', s) = IF c.at = s THEN At(coins, s) \cup {c} ELSE At(coins, s)
               /\ At(Came', s) = IF c.at = s THEN At(Came, s) \cup {c} ELSE At(Came, s)
               /\ Spent(s)' = Spent(s)
    BY <2>1, CoinsAssumption DEF At, Came, Spent, PaidFrom, Bill
  <2>5. ASSUME NEW s \in Sources
        PROVE  ValueOf(At(coins', s)) + ValueOf(Spent(s)') = ValueOf(At(Came', s))
    <3>1. ValueOf(At(coins, s)) + ValueOf(Spent(s)) = ValueOf(At(Came, s))
      BY DEF MoneyInv
    <3>2. CASE c.at # s
      BY <2>4, <3>1, <3>2
    <3>3. CASE c.at = s
      <4>1. c \notin At(coins, s) /\ c \notin At(Came, s)
        BY <2>2 DEF At
      <4>2. (\A d \in At(coins, s) : d.value \in Nat) /\ (\A d \in At(Came, s) : d.value \in Nat)
        BY MoneyTypes DEF At
      <4>3. IsFiniteSet(At(coins, s)) /\ IsFiniteSet(At(Came, s))
        BY MoneyTypes
      <4>4. ValueOf(At(coins, s) \cup {c}) = ValueOf(At(coins, s)) + c.value
        BY <2>2, <4>1, <4>2, <4>3, ValueOfMore
      <4>5. ValueOf(At(Came, s) \cup {c}) = ValueOf(At(Came, s)) + c.value
        BY <2>2, <4>1, <4>2, <4>3, ValueOfMore
      <4>6. /\ ValueOf(At(coins, s)) \in Nat /\ ValueOf(At(Came, s)) \in Nat
            /\ ValueOf(Spent(s)) \in Nat
        BY MoneyTypes
      <4>7. /\ At(coins', s) = At(coins, s) \cup {c} /\ At(Came', s) = At(Came, s) \cup {c}
            /\ Spent(s)' = Spent(s)
        BY <2>4, <3>3
      <4>8. /\ ValueOf(At(coins', s)) = ValueOf(At(coins, s)) + c.value
            /\ ValueOf(At(Came', s)) = ValueOf(At(Came, s)) + c.value
            /\ ValueOf(Spent(s)') = ValueOf(Spent(s))
        BY <4>4, <4>5, <4>7
      <4> QED
        BY <2>2, <3>1, <4>6, <4>8
    <3> QED
      BY <3>2, <3>3
  <2> QED
    BY <2>1, <2>3, <2>5 DEF MoneyInv
<1> QED
  BY <1>1, <1>2, <1>3, <1>4, <1>5 DEF Next, WorkerStep

\* A chain that takes unspent coins back takes them from what came, too.
LEMMA MoneyTakenBack ==
  ASSUME RefundInv, CoinTypes, MoneyInv, NEW gone \in SUBSET LateCoins, gone \subseteq coins,
         coins' = coins \ gone, late' = late \cup gone,
         UNCHANGED <<rowVars, listed, payouts, worker, call, faults>>
  PROVE  RefundInv' /\ CoinTypes' /\ MoneyInv'
<1> USE DEF rowVars, worker
<1>1. RefundInv'
  <2>1. IsFiniteSet(coins')
    BY FS_Difference DEF RefundInv, Types, WorkerTypes
  <2>2. Types'
    BY <2>1 DEF RefundInv, Types, RowTypes, WorkerTypes
  <2>3. \A r : PayoutsOf(r)' = PayoutsOf(r) /\ Paid(r)' = Paid(r)
    BY SamePayouts
  <2> QED
    BY <2>2, <2>3
    DEF RefundInv, PaymentInv, TxidInv, GrossInv, Estimated, Working, Sent, Names
<1>2. CoinTypes'
  BY CoinsAssumption DEF CoinTypes, Enqueued
<1>3. gone \subseteq Came /\ gone \cap InitialCoins = {}
  BY CoinsAssumption DEF MoneyInv, Came
<1>4. \A s : /\ At(coins', s) = At(coins, s) \ At(gone, s)
             /\ At(Came', s) = At(Came, s) \ At(gone, s)
             /\ At(gone, s) \in SUBSET At(coins, s) /\ At(gone, s) \in SUBSET At(Came, s)
             /\ Spent(s)' = Spent(s)
  BY <1>3 DEF At, Came, Spent, PaidFrom, Bill
<1>5. ASSUME NEW s \in Sources
      PROVE  ValueOf(At(coins', s)) + ValueOf(Spent(s)') = ValueOf(At(Came', s))
  <2>1. ValueOf(At(coins, s)) + ValueOf(Spent(s)) = ValueOf(At(Came, s))
    BY DEF MoneyInv
  <2>2. /\ (\A d \in At(coins, s) : d.value \in Nat) /\ (\A d \in At(Came, s) : d.value \in Nat)
        /\ IsFiniteSet(At(coins, s)) /\ IsFiniteSet(At(Came, s))
    BY MoneyTypes DEF At
  <2>3. /\ ValueOf(At(coins, s)) = ValueOf(At(gone, s)) + ValueOf(At(coins, s) \ At(gone, s))
        /\ ValueOf(At(Came, s)) = ValueOf(At(gone, s)) + ValueOf(At(Came, s) \ At(gone, s))
    BY <1>4, <2>2, ValueOfParts
  <2>4. /\ ValueOf(At(gone, s)) \in Nat /\ ValueOf(At(coins, s) \ At(gone, s)) \in Nat
        /\ ValueOf(At(Came, s) \ At(gone, s)) \in Nat /\ ValueOf(Spent(s)) \in Nat
    <3>1. \A T \in SUBSET At(coins, s) : ValueOf(T) \in Nat
      BY <2>2, FS_Subset, ValueType
    <3>2. \A T \in SUBSET At(Came, s) : ValueOf(T) \in Nat
      BY <2>2, FS_Subset, ValueType
    <3> QED
      BY <1>4, <3>1, <3>2, MoneyTypes
  <2>5. /\ ValueOf(At(coins', s)) = ValueOf(At(coins, s) \ At(gone, s))
        /\ ValueOf(At(Came', s)) = ValueOf(At(Came, s) \ At(gone, s))
        /\ ValueOf(Spent(s)') = ValueOf(Spent(s))
    BY <1>4
  <2> QED
    BY <2>1, <2>3, <2>4, <2>5
<1> QED
  BY <1>1, <1>2, <1>5 DEF MoneyInv

\* Before anything is sent, all that came is there.
LEMMA MoneyInit == Init => MoneyInv
<1> SUFFICES ASSUME Init PROVE MoneyInv
  OBVIOUS
<1>1. /\ coins = InitialCoins /\ late = LateCoins /\ payouts = <<>> /\ inputs = {}
  BY DEF Init
<1>2. Came = coins /\ \A s : Spent(s) = {}
  BY <1>1 DEF Came, Spent, PaidFrom
<1>3. \A s : ValueOf(At(coins, s)) \in Nat
  <2> SUFFICES ASSUME NEW s PROVE ValueOf(At(coins, s)) \in Nat
    OBVIOUS
  <2>1. At(coins, s) \in SUBSET InitialCoins /\ \A c \in At(coins, s) : c.value \in Nat
    BY <1>1, CoinsAssumption DEF At, Coin
  <2> QED
    BY <2>1, FS_Subset, CoinsAssumption, ValueType
<1>4. \A c \in coins : c.id <= Len(payouts)
  BY <1>1, CoinsAssumption
<1>5. ASSUME NEW s PROVE ValueOf(At(coins, s)) + ValueOf(Spent(s)) = ValueOf(At(Came, s))
  <2>1. ValueOf(Spent(s)) = 0 /\ ValueOf(At(Came, s)) = ValueOf(At(coins, s))
    BY <1>2, ValueOfNone
  <2> QED
    BY <1>3, <2>1
<1> QED
  BY <1>1, <1>4, <1>5, CoinsAssumption DEF MoneyInv
==============================================================================
