--------------------------- MODULE SettlementProofs --------------------------
(***************************************************************************)
(* What Settlement guarantees for any invoices, outputs, amounts, windows, *)
(* thresholds and number of faults.  In this order: the types; that the    *)
(* sync loop decides an invoice once, refunds it at most once and          *)
(* announces it at most once, which all rest on one inductive invariant    *)
(* (DecidedOnce of Settlement); that it confirms only what is covered; and *)
(* that it implements InvoiceOutcome.                                      *)
(***************************************************************************)
EXTENDS Settlement, TLAPS
------------------------------------------------------------------------------

\* The types hold of a fresh database and a fresh chain.
LEMMA TypeInit == Init => TypeOK
<1> SUFFICES ASSUME Init PROVE TypeOK
  OBVIOUS
<1> USE SetsAssumption, AmountsAssumption, ConfigAssumption, BoundsAssumption
<1> USE DEF Init
<1>1. status \in [Invoices -> InvoiceStatuses \cup {"none"}]
  OBVIOUS
<1>2. /\ expiresAt \in [Invoices -> Nat] /\ height \in [Outputs -> Heights]
      /\ confs \in [Outputs -> Nat]
  BY DEF Heights
<1>3. refunds \in [Invoices -> Seq(Refunds)]
  OBVIOUS
<1>4. events \in [Invoices -> Seq(Events)]
  OBVIOUS
<1>5. chainHeight \in [Outputs -> Heights \cup {Unseen}]
  OBVIOUS
<1>6. tip \in 1..MaxTip /\ clock \in 0..MaxClock
  /\ lastBlock \in 1..MaxTip /\ savedBlock \in 1..MaxTip
  /\ now \in 0..MaxClock /\ chainTip \in Heights
  BY DEF Heights
<1>7. call \in [Handlers -> Calls]
  BY DEF Calls
<1>8. verdict \in [Invoices -> {"open", "confirmed", "expired"}]
  OBVIOUS
<1>9. recorded \subseteq Outputs /\ faults \in 0..MaxFaults /\ reorgs \in 0..faults
  OBVIOUS
<1>10. /\ watch \subseteq Invoices /\ found \subseteq Discovered
       /\ rows \subseteq Outputs /\ affected \subseteq Invoices
       /\ sweep \subseteq Invoices /\ onTime \subseteq Outputs /\ lost \subseteq Outputs
  OBVIOUS
<1>11. /\ created \in Seq(Invoices) /\ applied \subseteq Outputs
       /\ polled \subseteq Invoices /\ cut \subseteq Invoices
  OBVIOUS
<1> QED
  BY <1>1, <1>2, <1>3, <1>4, <1>5, <1>6, <1>7, <1>8, <1>9, <1>10, <1>11 DEF TypeOK

\* Discovering and applying payments keeps the types.
LEMMA TypeMatching == TypeOK /\ Matching => TypeOK'
<1> SUFFICES ASSUME TypeOK, Matching PROVE TypeOK'
  OBVIOUS
<1> USE SetsAssumption, AmountsAssumption, ConfigAssumption, BoundsAssumption
    DEF TypeOK, Heights, Unseen, Discovered, Fault,
        db, world, wallet, sync, locals, timing, trail, history, bounds
<1>1. ASSUME NEW t \in {0, tip}, TickStart(t) PROVE TypeOK'
  <2>1. chainTip' \in Heights /\ now' \in 0..MaxClock
    BY <1>1 DEF TickStart
  <2>2. faults' \in 0..MaxFaults /\ reorgs' \in 0..faults'
    BY <1>1 DEF TickStart
  <2> QED
    BY <1>1, <2>1, <2>2 DEF TickStart
<1>2. CASE WatchList
  <2>1. watch' \subseteq Invoices
    BY <1>2 DEF WatchList, Watched
  <2> QED
    BY <1>2, <2>1 DEF WatchList
<1>3. ASSUME NEW i \in Invoices, FetchUtxos(i) PROVE TypeOK'
  <2>1. found' \subseteq Discovered
    <3>1. \A o \in Outputs : chainHeight[o] # Unseen => chainHeight[o] \in Heights
      OBVIOUS
    <3>2. {[output |-> o, height |-> chainHeight[o]] :
             o \in {o \in OutputsOf(i) : Transparent(o) /\ chainHeight[o] # Unseen}}
            \subseteq Discovered
      BY <3>1 DEF OutputsOf
    <3> QED
      BY <1>3, <3>2 DEF FetchUtxos
  <2>2. UNCHANGED bounds \/ Fault("fetch")
    BY <1>3 DEF FetchUtxos
  <2>3. faults' \in 0..MaxFaults /\ reorgs' \in 0..faults'
    BY <2>2
  <2>4. watch' \subseteq Invoices /\ pc' \in {"match", "fetch"}
    BY <1>3 DEF FetchUtxos
  <2>5. UNCHANGED <<db, world, wallet, now, chainTip, stage, advanced, cur, seen,
                    rows, affected, sweep, call, verdict, onTime, lost, applied, cut>>
    BY <1>3 DEF FetchUtxos
  <2>6. polled' \subseteq Invoices
    BY <1>3 DEF FetchUtxos
  <2> QED
    BY <2>1, <2>3, <2>4, <2>5, <2>6
<1>4. ASSUME NEW d \in Discovered, Record(d) PROVE TypeOK'
  <2>0. d.output \in Outputs /\ d.height \in Heights
    OBVIOUS
  <2>1. /\ recorded' \subseteq Outputs /\ height' \in [Outputs -> Heights]
        /\ confs' \in [Outputs -> Nat]
    <3>1. CASE d.output \in recorded
      BY <1>4, <3>1 DEF Record
    <3>2. CASE d.output \notin recorded
      <4>1. /\ recorded' = recorded \cup {d.output}
            /\ height' = [height EXCEPT ![d.output] = d.height]
            /\ confs' = [confs EXCEPT ![d.output] = 0]
        BY <1>4, <3>2 DEF Record
      <4>2. height' \in [Outputs -> Heights]
        BY <2>0, <4>1
      <4> QED
        BY <2>0, <4>1, <4>2
    <3> QED
      BY <3>1, <3>2
  <2>2. cur' \in Invoices
    BY <1>4 DEF Record
  <2>3. found' \subseteq Discovered
    BY <1>4 DEF Record
  <2> QED
    BY <1>4, <2>1, <2>2, <2>3 DEF Record
<1>5. CASE ApplyRead
  BY <1>5 DEF ApplyRead
<1>6. CASE ApplyWrite
  <2>1. applied' \subseteq Outputs
    BY <1>6 DEF ApplyWrite, PaidRows
  <2>2. status' \in [Invoices -> InvoiceStatuses \cup {"none"}]
    BY <1>6 DEF ApplyWrite, next_status_on_payment, InvoiceStatuses, Terminal
  <2> QED
    BY <1>6, <2>1, <2>2 DEF ApplyWrite
<1>7. CASE ApplyExpiry
  <2>1. now + PartialReset \in Nat
    OBVIOUS
  <2>2. expiresAt' \in [Invoices -> Nat]
    BY <1>7, <2>1 DEF ApplyExpiry
  <2> QED
    BY <1>7, <2>2 DEF ApplyExpiry
<1>8. CASE ShieldTick
  BY <1>8 DEF ShieldTick, NewNotes
<1> QED
  BY <1>1, <1>2, <1>3, <1>4, <1>5, <1>6, <1>7, <1>8 DEF Matching, InsertUtxo, InsertNote

\* A depth is never negative, even of a row mined above the tip that was read.
LEMMA DepthType ==
  ASSUME NEW h \in Nat, NEW t \in Nat
  PROVE  Depth(h, t) \in Nat
BY DEF Depth

\* The sums of the rows of an invoice are natural numbers.
LEMMA PaidType ==
  ASSUME TypeOK, NEW i \in Invoices
  PROVE  Paid(i) \in Nat /\ ConfirmedPaid(i) \in Nat
<1>1. PaidRows(i) \in SUBSET Outputs /\ ConfirmedRows(i) \in SUBSET Outputs
  BY DEF PaidRows, ConfirmedRows, OutputsOf
<1> QED
  BY <1>1, AmountsAssumption DEF Paid, ConfirmedPaid

\* A refund that is enqueued is typed: its amount is above the fee.
LEMMA RefundType ==
  ASSUME TypeOK, NEW i \in Invoices, NEW gross \in Nat,
         NEW reason \in {"overpayment", "partial_expired"},
         EnqueueRefund(i, reason, gross)
  PROVE  refunds' \in [Invoices -> Seq(Refunds)]
<1>1. [reason |-> reason, gross |-> gross] \in Refunds
  BY DEF Refunds
<1> QED
  BY <1>1 DEF EnqueueRefund, TypeOK

\* A webhook that is enqueued is typed.
LEMMA WebhookType ==
  ASSUME TypeOK, NEW i \in Invoices,
         NEW event \in {"confirmed", "expired", "cancelled"},
         EnqueueWebhook(i, event)
  PROVE  events' \in [Invoices -> Seq(Events)]
BY DEF EnqueueWebhook, Events, TypeOK

\* A tick that ends, however it ends, leaves typed locals.
LEMMA EndTickType ==
  ASSUME TypeOK, EndTick
  PROVE  /\ pc' = "idle" /\ now' \in 0..MaxClock /\ chainTip' \in Heights
         /\ watch' \subseteq Invoices /\ found' \subseteq Discovered
         /\ stage' \in {"transparent", "shield"} /\ advanced' \in BOOLEAN
         /\ cur' \in Invoices /\ seen' \in InvoiceStatuses \cup {"none"}
         /\ rows' \subseteq Outputs /\ affected' \subseteq Invoices
         /\ sweep' \subseteq Invoices /\ polled' \subseteq Invoices
<1>1. now' \in 0..MaxClock /\ chainTip' \in Heights
  BY BoundsAssumption DEF EndTick, Heights
<1>2. cur' \in Invoices
  BY DEF TypeOK, EndTick
<1> QED
  BY <1>1, <1>2 DEF EndTick

\* So does the note that its decision was cut short.
LEMMA CutType ==
  ASSUME TypeOK, CutsShort
  PROVE  cut' \subseteq Invoices
BY DEF TypeOK, CutsShort

\* A fault is counted within its bound.
LEMMA FaultType ==
  ASSUME TypeOK, NEW kind \in Faults, Fault(kind)
  PROVE  faults' \in 0..MaxFaults /\ reorgs' \in 0..faults'
BY BoundsAssumption DEF TypeOK, Fault

\* Counting confirmations and confirming keeps the types.
LEMMA TypeConfirming == TypeOK /\ Confirming => TypeOK'
<1> SUFFICES ASSUME TypeOK, Confirming PROVE TypeOK'
  OBVIOUS
<1> USE SetsAssumption, AmountsAssumption, ConfigAssumption, BoundsAssumption
    DEF TypeOK, db, world, wallet, sync, locals, timing, trail, history, bounds
<1>1. CASE ConfirmsSelect
  BY <1>1 DEF ConfirmsSelect, InFlightRows
<1>2. ASSUME NEW o \in Outputs, ConfirmRow(o) PROVE TypeOK'
  <2>1. Depth(height[o], chainTip) \in Nat
    <3>1. height[o] \in Nat /\ chainTip \in Nat
      BY DEF Heights
    <3> QED
      BY <3>1, DepthType
  <2>2. confs' \in [Outputs -> Nat] /\ rows' \subseteq Outputs /\ affected' \subseteq Invoices
    BY <1>2, <2>1 DEF ConfirmRow
  <2> QED
    BY <1>2, <2>2 DEF ConfirmRow
<1>3. CASE ConfirmsZeroConf
  BY <1>3 DEF ConfirmsZeroConf
<1>4. ASSUME NEW i \in Invoices, ConfirmsEvaluate(i) PROVE TypeOK'
  BY <1>4 DEF ConfirmsEvaluate
<1>5. CASE ConfirmsWrite
  BY <1>5 DEF ConfirmsWrite, InvoiceStatuses
<1>6. CASE ConfirmsRefund
  <2>1. refunds' \in [Invoices -> Seq(Refunds)]
    <3>1. CASE RefundsEnabled /\ Excess(cur) > 0
      <4>1. Excess(cur) \in Nat
        BY <3>1, PaidType DEF Excess
      <4> QED
        BY <1>6, <3>1, <4>1, RefundType DEF ConfirmsRefund
    <3>2. CASE ~(RefundsEnabled /\ Excess(cur) > 0)
      BY <1>6, <3>2 DEF ConfirmsRefund
    <3> QED
      BY <3>1, <3>2
  <2> QED
    BY <1>6, <2>1 DEF ConfirmsRefund
<1>7. CASE ConfirmsWebhook
  <2>1. events' \in [Invoices -> Seq(Events)]
    BY <1>7, WebhookType DEF ConfirmsWebhook
  <2> QED
    BY <1>7, <2>1 DEF ConfirmsWebhook
<1> QED
  BY <1>1, <1>2, <1>3, <1>4, <1>5, <1>6, <1>7 DEF Confirming

\* Expiring invoices and saving the wallet keeps the types.
LEMMA TypeSweeping == TypeOK /\ Sweeping => TypeOK'
<1> SUFFICES ASSUME TypeOK, Sweeping PROVE TypeOK'
  OBVIOUS
<1> USE SetsAssumption, AmountsAssumption, ConfigAssumption, BoundsAssumption
    DEF TypeOK, db, world, wallet, sync, locals, timing, trail, history, bounds
<1>1. CASE SweepSelect
  BY <1>1 DEF SweepSelect, Expirable
<1>2. ASSUME NEW i \in Invoices, SweepWrite(i) PROVE TypeOK'
  BY <1>2 DEF SweepWrite, InvoiceStatuses
<1>3. CASE SweepRefund
  <2>1. refunds' \in [Invoices -> Seq(Refunds)]
    BY <1>3, PaidType, RefundType DEF SweepRefund
  <2> QED
    BY <1>3, <2>1 DEF SweepRefund
<1>4. CASE SweepWebhook
  <2>1. events' \in [Invoices -> Seq(Events)]
    BY <1>4, WebhookType DEF SweepWebhook
  <2> QED
    BY <1>4, <2>1 DEF SweepWebhook
<1>5. CASE SaveWallet
  BY <1>5, EndTickType DEF SaveWallet
<1> QED
  BY <1>1, <1>2, <1>3, <1>4, <1>5 DEF Sweeping

\* A request between its read and its end has an invoice.
LEMMA CallType ==
  ASSUME TypeOK, NEW h \in Handlers, call[h].at \in {"write", "webhook"}
  PROVE  call[h] \in [at : {"write", "webhook"}, invoice : Invoices]
<1>1. call \in [Handlers -> Calls]
  BY DEF TypeOK
<1>2. call[h] \in Calls /\ call[h] # Idle /\ call[h] # Done
  BY <1>1 DEF Idle, Done
<1> QED
  BY <1>2 DEF Calls

\* The handlers keep the types.
LEMMA TypeApi == TypeOK /\ Api => TypeOK'
<1> SUFFICES ASSUME TypeOK, Api PROVE TypeOK'
  OBVIOUS
<1> USE SetsAssumption, AmountsAssumption, ConfigAssumption, BoundsAssumption
    DEF TypeOK, db, world, wallet, sync, locals, timing, trail, history, bounds
<1>1. ASSUME NEW i \in Invoices, NEW w \in Windows, Create(i, w) PROVE TypeOK'
  <2>1. clock + w \in Nat
    OBVIOUS
  <2>2. expiresAt' \in [Invoices -> Nat]
    BY <1>1, <2>1 DEF Create
  <2>3. status' \in [Invoices -> InvoiceStatuses \cup {"none"}]
    BY <1>1 DEF Create, InvoiceStatuses
  <2>4. created' \in Seq(Invoices)
    BY <1>1 DEF Create
  <2>5. UNCHANGED <<recorded, height, confs, refunds, events, world, wallet, sync,
                    call, history, bounds>>
    BY <1>1 DEF Create
  <2> HIDE SetsAssumption, AmountsAssumption, ConfigAssumption
  <2> QED
    BY <2>2, <2>3, <2>4, <2>5
<1>2. ASSUME NEW h \in Handlers, NEW i \in Invoices, CancelRead(h, i) PROVE TypeOK'
  <2>1. call' \in [Handlers -> Calls]
    BY <1>2 DEF CancelRead, Calls
  <2> QED
    BY <1>2, <2>1 DEF CancelRead
<1>3. ASSUME NEW h \in Handlers, CancelWrite(h) PROVE TypeOK'
  <2>1. call[h] \in [at : {"write", "webhook"}, invoice : Invoices]
    BY <1>3, CallType DEF CancelWrite
  <2>2. [call[h] EXCEPT !.at = "webhook"] \in Calls
    BY <2>1 DEF Calls
  <2>3. call' \in [Handlers -> Calls]
    BY <1>3, <2>2 DEF CancelWrite
  <2>4. status' \in [Invoices -> InvoiceStatuses \cup {"none"}]
    BY <1>3 DEF CancelWrite, InvoiceStatuses
  <2> QED
    BY <1>3, <2>3, <2>4 DEF CancelWrite
<1>4. ASSUME NEW h \in Handlers, CancelWebhook(h) PROVE TypeOK'
  <2>1. call[h].invoice \in Invoices
    BY <1>4, CallType DEF CancelWebhook
  <2>2. events' \in [Invoices -> Seq(Events)]
    BY <1>4, <2>1, WebhookType DEF CancelWebhook
  <2>3. call' \in [Handlers -> Calls]
    BY <1>4 DEF CancelWebhook, Calls
  <2> QED
    BY <1>4, <2>2, <2>3 DEF CancelWebhook
<1> QED
  BY <1>1, <1>2, <1>3, <1>4 DEF Api, CancelStep

\* Failures and restarts keep the types.
LEMMA TypeFailures == TypeOK /\ Failures => TypeOK'
<1> SUFFICES ASSUME TypeOK, Failures PROVE TypeOK'
  OBVIOUS
<1> USE SetsAssumption, AmountsAssumption, ConfigAssumption, BoundsAssumption
    DEF TypeOK, Faults, db, world, wallet, sync, locals, timing, trail, history, bounds
<1>1. ASSUME NEW h \in Handlers, CancelAborts(h) PROVE TypeOK'
  <2>1. faults' \in 0..MaxFaults /\ reorgs' \in 0..faults'
    BY <1>1, FaultType DEF CancelAborts
  <2>2. call' \in [Handlers -> Calls]
    BY <1>1 DEF CancelAborts, Calls
  <2> QED
    BY <1>1, <2>1, <2>2 DEF CancelAborts
<1>2. CASE TickAborts
  <2>1. faults' \in 0..MaxFaults /\ reorgs' \in 0..faults'
    BY <1>2, FaultType DEF TickAborts
  <2>2. lost' \subseteq Outputs
    BY <1>2 DEF TickAborts
  <2> QED
    BY <1>2, <2>1, <2>2, EndTickType, CutType DEF TickAborts
<1>3. CASE Crash
  <2>1. faults' \in 0..MaxFaults /\ reorgs' \in 0..faults'
    BY <1>3, FaultType DEF Crash
  <2>2. call' \in [Handlers -> Calls]
    BY <1>3 DEF Crash, Calls
  <2> QED
    BY <1>3, <2>1, <2>2, EndTickType, CutType DEF Crash
<1>4. CASE Restart
  BY <1>4 DEF Restart
<1> QED
  BY <1>1, <1>2, <1>3, <1>4 DEF Failures, Interruptions

\* The chain and the clock keep the types.
LEMMA TypeWorld == TypeOK /\ World => TypeOK'
<1> SUFFICES ASSUME TypeOK, World PROVE TypeOK'
  OBVIOUS
<1> USE SetsAssumption, AmountsAssumption, ConfigAssumption, BoundsAssumption
    DEF TypeOK, Heights, Unseen, BecomesVisible, db, world, wallet, sync, locals,
        timing, trail, history, bounds
<1>1. ASSUME NEW o \in Outputs, Pay(o) PROVE TypeOK'
  <2>1. chainHeight' \in [Outputs -> Heights \cup {Unseen}]
    BY <1>1 DEF Pay
  <2>2. onTime' \subseteq Outputs
    BY <1>1 DEF Pay
  <2> QED
    BY <1>1, <2>1, <2>2 DEF Pay
<1>2. ASSUME NEW o \in Outputs, Evict(o) PROVE TypeOK'
  <2>1. chainHeight' \in [Outputs -> Heights \cup {Unseen}]
    BY <1>2 DEF Evict
  <2>2. faults' \in 0..MaxFaults /\ reorgs' \in 0..faults'
    BY <1>2, FaultType DEF Evict, Faults
  <2> QED
    BY <1>2, <2>1, <2>2 DEF Evict
<1>3. ASSUME NEW S \in SUBSET Outputs, NewBlock(S) PROVE TypeOK'
  <2>1. chainHeight' \in [Outputs -> Heights \cup {Unseen}] /\ tip' \in 1..MaxTip
    BY <1>3 DEF NewBlock
  <2>2. onTime' \subseteq Outputs
    BY <1>3 DEF NewBlock
  <2> QED
    BY <1>3, <2>1, <2>2 DEF NewBlock
<1>4. ASSUME NEW S \in SUBSET Outputs, Reorg(S) PROVE TypeOK'
  <2>1. chainHeight' \in [Outputs -> Heights \cup {Unseen}] /\ tip' \in 1..MaxTip
    BY <1>4 DEF Reorg
  <2>2. faults' \in 0..MaxFaults /\ reorgs' \in 0..faults'
    BY <1>4, FaultType DEF Reorg, Faults
  <2>3. onTime' \subseteq Outputs
    BY <1>4 DEF Reorg
  <2> QED
    BY <1>4, <2>1, <2>2, <2>3 DEF Reorg
<1>5. CASE TimePasses
  <2>1. clock' \in 0..MaxClock
    BY <1>5 DEF TimePasses
  <2>2. UNCHANGED <<db, chainHeight, tip, wallet, sync, call, history, bounds>>
    BY <1>5 DEF TimePasses
  <2> HIDE SetsAssumption, AmountsAssumption, ConfigAssumption
  <2> QED
    BY <2>1, <2>2
<1> QED
  BY <1>1, <1>2, <1>3, <1>4, <1>5 DEF World

\* Every step keeps the types.
LEMMA TypeStep == TypeOK /\ [Next]_vars => TypeOK'
<1> SUFFICES ASSUME TypeOK, [Next]_vars PROVE TypeOK'
  OBVIOUS
<1>1. CASE Next
  BY <1>1, TypeMatching, TypeConfirming, TypeSweeping, TypeApi, TypeFailures,
     TypeWorld DEF Next, SyncStep
<1>2. CASE UNCHANGED vars
  BY <1>2 DEF TypeOK, vars, db, world, wallet, sync, locals, timing, trail, history, bounds
<1> QED
  BY <1>1, <1>2

\* Every reachable state is well typed.
THEOREM TypeCorrect == Spec => []TypeOK
BY TypeInit, TypeStep, PTL DEF Spec

-----------------------------------------------------------------------------
(* One outcome for each invoice.  DecidedOnce is inductive together with   *)
(* TypeOK: what makes a decision safe although it is written from an older *)
(* look at the database is StaleWritesAreSafe, and what makes its refund   *)
(* and its webhook the only ones is DecidingIsOrdered.                     *)
Inv == TypeOK /\ DecidedOnce

\* Appending a webhook adds one announcement, or none when it is a cancel's.
LEMMA WebhookAnnounces ==
  ASSUME TypeOK, NEW i \in Invoices,
         NEW event \in {"confirmed", "expired", "cancelled"},
         EnqueueWebhook(i, event)
  PROVE  /\ \A j \in Invoices : j # i => Announcements(j)' = Announcements(j)
                                       /\ events'[j] = events[j]
         /\ event = "cancelled" => Announcements(i)' = Announcements(i)
         /\ \A k \in Announcements(i) :
              k \in Announcements(i)' /\ events'[i][k] = events[i][k]
         /\ event # "cancelled" =>
              Announcements(i)' = Announcements(i) \cup {Len(events[i]) + 1}
         /\ events'[i][Len(events[i]) + 1] = event
<1>1. events[i] \in Seq(Events) /\ event \in Events
  BY DEF TypeOK, Events
<1>2. events' = [events EXCEPT ![i] = Append(events[i], event)]
  BY DEF EnqueueWebhook
<1>3. events'[i] = Append(events[i], event) /\ \A j \in Invoices : j # i => events'[j] = events[j]
  BY <1>2 DEF TypeOK
<1> DEFINE n == Len(events[i])
<1>4. /\ n \in Nat
      /\ DOMAIN events[i] = 1..n /\ DOMAIN events'[i] = 1..(n + 1)
      /\ \A k \in 1..n : events'[i][k] = events[i][k]
      /\ events'[i][n + 1] = event
  BY <1>1, <1>3
<1>5. \A j \in Invoices : j # i => Announcements(j)' = Announcements(j)
  BY <1>3 DEF Announcements
<1>6. event = "cancelled" => Announcements(i)' = Announcements(i)
  BY <1>4 DEF Announcements
<1>7. event # "cancelled" => Announcements(i)' = Announcements(i) \cup {n + 1}
  BY <1>4 DEF Announcements
<1>8. \A k \in Announcements(i) : k \in Announcements(i)' /\ events'[i][k] = events[i][k]
  BY <1>4 DEF Announcements
<1> QED
  BY <1>3, <1>4, <1>5, <1>6, <1>7, <1>8

\* What a step that leaves these four alone keeps.
LEMMA QuietStep ==
  ASSUME DecidedOnce, UNCHANGED <<status, verdict, refunds, events>>
  PROVE  UndecidedIsClean' /\ OneRefund' /\ OneAnnouncement'
BY DEF DecidedOnce, UndecidedIsClean, OneRefund, OneAnnouncement, Announcements

\* What it keeps if it leaves the locals alone too.
LEMMA ForeignStep ==
  ASSUME DecidedOnce, UNCHANGED <<verdict, refunds, events, pc, cur, seen, sweep>>
  PROVE  StaleWritesAreSafe' /\ DecidingIsOrdered'
BY DEF DecidedOnce, StaleWritesAreSafe, DecidingIsOrdered, Deciding, Announcements

\* Nothing is decided of an invoice that does not exist yet.
LEMMA DecidedInit == Init => DecidedOnce
<1> SUFFICES ASSUME Init PROVE DecidedOnce
  OBVIOUS
<1>1. \A i \in Invoices : Announcements(i) = {} /\ refunds[i] = <<>>
  BY DEF Init, Announcements
<1> QED
  BY <1>1 DEF Init, DecidedOnce, UndecidedIsClean, StaleWritesAreSafe,
     DecidingIsOrdered, Deciding, OneRefund, OneAnnouncement

\* Discovering and applying payments decides nothing, and the status a tick is
\* about to apply concerns an invoice that was not decided.
LEMMA DecidedMatching == Inv /\ Matching => DecidedOnce'
<1> SUFFICES ASSUME Inv, Matching PROVE DecidedOnce'
  OBVIOUS
<1> USE DEF db, world, wallet, sync, locals, timing, trail, history, bounds
<1>0. DecidedOnce /\ cur \in Invoices
  BY DEF Inv, TypeOK
<1>1. ASSUME UNCHANGED <<status, verdict, refunds, events, sweep>>,
             pc \in {"idle", "watch", "fetch", "match", "applyExpiry"},
             pc' \in {"watch", "fetch", "match", "applyRead", "applyExpiry"}
      PROVE  DecidedOnce'
  <2>1. StaleWritesAreSafe' /\ DecidingIsOrdered'
    BY <1>0, <1>1 DEF DecidedOnce, StaleWritesAreSafe, DecidingIsOrdered, Deciding
  <2> QED
    BY <1>0, <1>1, <2>1, QuietStep DEF DecidedOnce
<1>2. ASSUME NEW t \in {0, tip}, TickStart(t) PROVE DecidedOnce'
  BY <1>1, <1>2 DEF TickStart
<1>3. CASE WatchList
  BY <1>1, <1>3 DEF WatchList
<1>4. ASSUME NEW i \in Invoices, FetchUtxos(i) PROVE DecidedOnce'
  BY <1>1, <1>4 DEF FetchUtxos
<1>5. ASSUME NEW d \in Discovered, Record(d) PROVE DecidedOnce'
  BY <1>1, <1>5 DEF Record
<1>6. CASE ApplyRead
  <2>1. seen' \notin Terminal => verdict'[cur'] = "open"
    BY <1>0, <1>6 DEF ApplyRead, DecidedOnce, UndecidedIsClean
  <2>2. StaleWritesAreSafe' /\ DecidingIsOrdered'
    BY <1>0, <1>6, <2>1 DEF ApplyRead, DecidedOnce, StaleWritesAreSafe,
       DecidingIsOrdered, Deciding
  <2> QED
    BY <1>0, <1>6, <2>2, QuietStep DEF ApplyRead, DecidedOnce
<1>7. CASE ApplyWrite
  <2>1. \/ status' = status
        \/ /\ verdict[cur] = "open"
           /\ \A i \in Invoices : i # cur => status'[i] = status[i]
    BY <1>0, <1>7 DEF ApplyWrite, next_status_on_payment, DecidedOnce, StaleWritesAreSafe
  <2>2. UNCHANGED <<verdict, refunds, events>>
    BY <1>7 DEF ApplyWrite
  <2>3. \A i \in Invoices : Announcements(i)' = Announcements(i)
    BY <2>2 DEF Announcements
  <2>4. UndecidedIsClean' /\ OneRefund' /\ OneAnnouncement'
    BY <1>0, <2>1, <2>2, <2>3 DEF DecidedOnce, UndecidedIsClean, OneRefund, OneAnnouncement
  <2>5. StaleWritesAreSafe' /\ DecidingIsOrdered'
    BY <1>0, <1>7 DEF ApplyWrite, DecidedOnce, StaleWritesAreSafe, DecidingIsOrdered, Deciding
  <2> QED
    BY <2>4, <2>5 DEF DecidedOnce
<1>8. CASE ApplyExpiry
  BY <1>1, <1>8 DEF ApplyExpiry
<1>9. CASE ShieldTick
  BY <1>1, <1>9 DEF ShieldTick
<1> QED
  BY <1>2, <1>3, <1>4, <1>5, <1>6, <1>7, <1>8, <1>9 DEF Matching, InsertUtxo, InsertNote

\* The two actions that queue a webhook, of the outcome just decided.
LEMMA AnnounceOutcome ==
  ASSUME Inv, NEW i \in Invoices, NEW v \in {"confirmed", "expired"},
         verdict[i] = v, Announcements(i) = {}, EnqueueWebhook(i, v),
         UNCHANGED <<status, verdict, refunds>>
  PROVE  UndecidedIsClean' /\ OneRefund' /\ OneAnnouncement'
<1>0. TypeOK /\ DecidedOnce
  BY DEF Inv
<1> DEFINE n == Len(events[i])
<1>1. /\ Announcements(i)' = {n + 1}
      /\ events'[i][n + 1] = v
      /\ \A j \in Invoices : j # i => Announcements(j)' = Announcements(j)
                                         /\ events'[j] = events[j]
  BY <1>0, WebhookAnnounces
<1> HIDE DEF n
<1>2. UndecidedIsClean'
  BY <1>0, <1>1 DEF DecidedOnce, UndecidedIsClean
<1>3. OneRefund'
  BY <1>0 DEF DecidedOnce, OneRefund
<1>4. OneAnnouncement'
  <2> SUFFICES ASSUME NEW j \in Invoices, NEW k \in Announcements(j)'
               PROVE  /\ events'[j][k] = verdict'[j]
                      /\ \A l \in Announcements(j)' : l = k
    BY DEF OneAnnouncement
  <2>1. CASE j = i
    BY <1>1, <2>1
  <2>2. CASE j # i
    BY <1>0, <1>1, <2>2 DEF DecidedOnce, OneAnnouncement
  <2> QED
    BY <2>1, <2>2
<1> QED
  BY <1>2, <1>3, <1>4

\* The two actions that may enqueue a refund, right after the decision.
LEMMA RefundOutcome ==
  ASSUME Inv, NEW i \in Invoices, NEW gross \in Nat,
         NEW reason \in {"overpayment", "partial_expired"},
         \/ verdict[i] = "confirmed" /\ reason = "overpayment"
         \/ verdict[i] = "expired" /\ reason = "partial_expired",
         refunds[i] = <<>>,
         EnqueueRefund(i, reason, gross) \/ UNCHANGED refunds,
         UNCHANGED <<status, verdict, events>>
  PROVE  UndecidedIsClean' /\ OneRefund' /\ OneAnnouncement'
<1>0. TypeOK /\ DecidedOnce
  BY DEF Inv
<1>1. \A j \in Invoices : Announcements(j)' = Announcements(j)
  BY DEF Announcements
<1>2. /\ \A j \in Invoices : j # i => refunds'[j] = refunds[j]
      /\ refunds'[i] = <<>> \/ refunds'[i] = <<[reason |-> reason, gross |-> gross]>>
  BY <1>0 DEF EnqueueRefund, TypeOK
<1>3. OneRefund'
  <2> SUFFICES ASSUME NEW j \in Invoices, refunds'[j] # <<>>
               PROVE  /\ Len(refunds'[j]) = 1
                      /\ \/ verdict'[j] = "confirmed" /\ refunds'[j][1].reason = "overpayment"
                         \/ verdict'[j] = "expired" /\ refunds'[j][1].reason = "partial_expired"
    BY DEF OneRefund
  <2>1. CASE j = i
    <3> DEFINE e == [reason |-> reason, gross |-> gross]
    <3>1. refunds'[i] = <<e>> /\ e.reason = reason
      BY <1>2, <2>1
    <3> HIDE DEF e
    <3>2. Len(refunds'[i]) = 1 /\ refunds'[i][1].reason = reason
      BY <3>1
    <3> QED
      BY <2>1, <3>2
  <2>2. CASE j # i
    BY <1>0, <1>2, <2>2 DEF DecidedOnce, OneRefund
  <2> QED
    BY <2>1, <2>2
<1>4. UndecidedIsClean'
  BY <1>0, <1>1, <1>2 DEF DecidedOnce, UndecidedIsClean
<1>5. OneAnnouncement'
  BY <1>0, <1>1 DEF DecidedOnce, OneAnnouncement
<1> QED
  BY <1>3, <1>4, <1>5

\* The two actions that decide.
LEMMA DecideOutcome ==
  ASSUME Inv, NEW i \in Invoices, NEW v \in {"confirmed", "expired"},
         verdict[i] = "open",
         status' = [status EXCEPT ![i] = v],
         verdict' = [verdict EXCEPT ![i] = v],
         UNCHANGED <<refunds, events>>
  PROVE  /\ UndecidedIsClean' /\ OneRefund' /\ OneAnnouncement'
         /\ refunds'[i] = <<>> /\ Announcements(i)' = {} /\ verdict'[i] = v
<1>0. TypeOK /\ DecidedOnce
  BY DEF Inv
<1>1. \A j \in Invoices : Announcements(j)' = Announcements(j)
  BY DEF Announcements
<1>2. refunds[i] = <<>> /\ Announcements(i) = {}
  BY <1>0 DEF DecidedOnce, UndecidedIsClean
<1>3. /\ status'[i] \in Terminal /\ verdict'[i] = v
      /\ \A j \in Invoices : j # i => status'[j] = status[j] /\ verdict'[j] = verdict[j]
  BY <1>0 DEF TypeOK, Terminal
<1>4. UndecidedIsClean'
  BY <1>0, <1>1, <1>2, <1>3 DEF DecidedOnce, UndecidedIsClean
<1>5. OneRefund'
  BY <1>0, <1>2, <1>3 DEF DecidedOnce, OneRefund
<1>6. OneAnnouncement'
  BY <1>0, <1>1, <1>2, <1>3 DEF DecidedOnce, OneAnnouncement
<1> QED
  BY <1>1, <1>2, <1>3, <1>4, <1>5, <1>6

\* Confirming decides an invoice that was open, refunds it and announces it in
\* this order.
LEMMA DecidedConfirming == Inv /\ Confirming => DecidedOnce'
<1> SUFFICES ASSUME Inv, Confirming PROVE DecidedOnce'
  OBVIOUS
<1> USE DEF db, world, wallet, sync, locals, timing, trail, history, bounds
<1>0. TypeOK /\ DecidedOnce /\ cur \in Invoices
  BY DEF Inv, TypeOK
<1>1. ASSUME UNCHANGED <<status, verdict, refunds, events, sweep, seen>>,
             pc \in {"match", "confirms", "evaluate"},
             pc' \in {"confirms", "evaluate"}
      PROVE  DecidedOnce'
  <2>1. StaleWritesAreSafe' /\ DecidingIsOrdered'
    BY <1>0, <1>1 DEF DecidedOnce, StaleWritesAreSafe, DecidingIsOrdered, Deciding
  <2> QED
    BY <1>0, <1>1, <2>1, QuietStep DEF DecidedOnce
<1>2. CASE ConfirmsSelect
  BY <1>1, <1>2 DEF ConfirmsSelect
<1>3. ASSUME NEW o \in Outputs, ConfirmRow(o) PROVE DecidedOnce'
  BY <1>1, <1>3 DEF ConfirmRow
<1>4. CASE ConfirmsZeroConf
  BY <1>1, <1>4 DEF ConfirmsZeroConf
<1>5. ASSUME NEW i \in Invoices, ConfirmsEvaluate(i) PROVE DecidedOnce'
  <2>1. CASE pc' = "evaluate"
    BY <1>1, <1>5, <2>1 DEF ConfirmsEvaluate
  <2>2. CASE pc' = "confirmWrite"
    <3>1. cur' = i /\ verdict'[i] = "open"
      BY <1>0, <1>5, <2>2 DEF ConfirmsEvaluate, DecidedOnce, UndecidedIsClean, Terminal
    <3>2. StaleWritesAreSafe' /\ DecidingIsOrdered'
      BY <1>0, <1>5, <2>2, <3>1 DEF ConfirmsEvaluate, DecidedOnce, StaleWritesAreSafe,
         DecidingIsOrdered, Deciding
    <3> QED
      BY <1>0, <1>5, <3>2, QuietStep DEF ConfirmsEvaluate, DecidedOnce
  <2> QED
    BY <1>5, <2>1, <2>2 DEF ConfirmsEvaluate
<1>6. CASE ConfirmsWrite
  <2>1. verdict[cur] = "open"
    BY <1>0, <1>6 DEF ConfirmsWrite, DecidedOnce, StaleWritesAreSafe
  <2>2. PICK i \in Invoices : i = cur
    BY <1>0
  <2>3. /\ UndecidedIsClean' /\ OneRefund' /\ OneAnnouncement'
        /\ refunds'[i] = <<>> /\ Announcements(i)' = {} /\ verdict'[i] = "confirmed"
    BY <1>0, <1>6, <2>1, <2>2, DecideOutcome DEF ConfirmsWrite
  <2>4. cur' = i /\ pc' = "confirmRefund" /\ sweep' = {}
    BY <1>0, <1>6, <2>2 DEF ConfirmsWrite, DecidedOnce, StaleWritesAreSafe
  <2>5. StaleWritesAreSafe' /\ DecidingIsOrdered'
    BY <2>3, <2>4 DEF StaleWritesAreSafe, DecidingIsOrdered, Deciding, Announcements
  <2> QED
    BY <2>3, <2>5 DEF DecidedOnce
<1>7. CASE ConfirmsRefund
  <2>1. verdict[cur] = "confirmed" /\ refunds[cur] = <<>> /\ Announcements(cur) = {}
    BY <1>0, <1>7 DEF ConfirmsRefund, DecidedOnce, DecidingIsOrdered, Deciding
  <2>2. \/ UNCHANGED refunds
        \/ Excess(cur) \in Nat /\ EnqueueRefund(cur, "overpayment", Excess(cur))
    BY <1>0, <1>7, PaidType, AmountsAssumption DEF ConfirmsRefund, Excess
  <2>3. UNCHANGED <<status, verdict, events, cur, sweep>> /\ pc' = "confirmWebhook"
    BY <1>7 DEF ConfirmsRefund
  <2>4. UndecidedIsClean' /\ OneRefund' /\ OneAnnouncement'
    <3>1. CASE UNCHANGED refunds
      BY <1>0, <2>3, <3>1, QuietStep
    <3>2. CASE Excess(cur) \in Nat /\ EnqueueRefund(cur, "overpayment", Excess(cur))
      <4>1. PICK i \in Invoices : i = cur
        BY <1>0
      <4>2. PICK gross \in Nat : gross = Excess(cur)
        BY <3>2
      <4> QED
        BY <2>1, <2>3, <3>2, <4>1, <4>2, RefundOutcome
    <3> QED
      BY <2>2, <3>1, <3>2
  <2>5. StaleWritesAreSafe' /\ DecidingIsOrdered'
    BY <1>0, <1>7, <2>1, <2>3 DEF ConfirmsRefund, DecidedOnce, StaleWritesAreSafe,
       DecidingIsOrdered, Deciding, Announcements
  <2> QED
    BY <2>4, <2>5 DEF DecidedOnce
<1>8. CASE ConfirmsWebhook
  <2>1. verdict[cur] = "confirmed" /\ Announcements(cur) = {}
    BY <1>0, <1>8 DEF ConfirmsWebhook, DecidedOnce, DecidingIsOrdered, Deciding
  <2>2. UndecidedIsClean' /\ OneRefund' /\ OneAnnouncement'
    <3>1. PICK i \in Invoices : i = cur
      BY <1>0
    <3> QED
      BY <1>8, <2>1, <3>1, AnnounceOutcome DEF ConfirmsWebhook
  <2>3. StaleWritesAreSafe' /\ DecidingIsOrdered'
    BY <1>0, <1>8 DEF ConfirmsWebhook, DecidedOnce, StaleWritesAreSafe,
       DecidingIsOrdered, Deciding
  <2> QED
    BY <2>2, <2>3 DEF DecidedOnce
<1> QED
  BY <1>2, <1>3, <1>4, <1>5, <1>6, <1>7, <1>8 DEF Confirming

\* So does expiring, for each invoice of the list the query returned.
LEMMA DecidedSweeping == Inv /\ Sweeping => DecidedOnce'
<1> SUFFICES ASSUME Inv, Sweeping PROVE DecidedOnce'
  OBVIOUS
<1> USE DEF db, world, wallet, sync, locals, timing, trail, history, bounds
<1>0. TypeOK /\ DecidedOnce /\ cur \in Invoices
  BY DEF Inv, TypeOK
<1>1. CASE SweepSelect
  <2>1. \A i \in sweep' : verdict'[i] = "open"
    BY <1>0, <1>1 DEF SweepSelect, Expirable, next_status_on_tick, Unpaid, Terminal,
       DecidedOnce, UndecidedIsClean
  <2>2. StaleWritesAreSafe' /\ DecidingIsOrdered'
    BY <1>0, <1>1, <2>1 DEF SweepSelect, DecidedOnce, StaleWritesAreSafe,
       DecidingIsOrdered, Deciding
  <2> QED
    BY <1>0, <1>1, <2>2, QuietStep DEF SweepSelect, DecidedOnce
<1>2. ASSUME NEW i \in Invoices, SweepWrite(i) PROVE DecidedOnce'
  <2>1. verdict[i] = "open"
    BY <1>0, <1>2 DEF SweepWrite, DecidedOnce, StaleWritesAreSafe
  <2>2. /\ UndecidedIsClean' /\ OneRefund' /\ OneAnnouncement'
        /\ refunds'[i] = <<>> /\ Announcements(i)' = {} /\ verdict'[i] = "expired"
    BY <1>0, <1>2, <2>1, DecideOutcome DEF SweepWrite
  <2>3. \A j \in sweep' : verdict'[j] = "open"
    BY <1>0, <1>2 DEF SweepWrite, DecidedOnce, StaleWritesAreSafe, TypeOK
  <2>4. cur' = i /\ pc' = "sweepRefund"
    BY <1>2 DEF SweepWrite
  <2>5. StaleWritesAreSafe' /\ DecidingIsOrdered'
    BY <2>2, <2>3, <2>4 DEF StaleWritesAreSafe, DecidingIsOrdered, Deciding, Announcements
  <2> QED
    BY <2>2, <2>5 DEF DecidedOnce
<1>3. CASE SweepRefund
  <2>1. verdict[cur] = "expired" /\ refunds[cur] = <<>> /\ Announcements(cur) = {}
    BY <1>0, <1>3 DEF SweepRefund, DecidedOnce, DecidingIsOrdered, Deciding
  <2>2. UNCHANGED <<status, verdict, events, cur, sweep>> /\ pc' = "sweepWebhook"
    BY <1>3 DEF SweepRefund
  <2>3. PICK i \in Invoices : i = cur
    BY <1>0
  <2>4. PICK gross \in Nat : gross = Paid(i)
    BY <1>0, PaidType
  <2>5. EnqueueRefund(i, "partial_expired", gross) \/ UNCHANGED refunds
    BY <1>3, <2>3, <2>4 DEF SweepRefund
  <2>6. UndecidedIsClean' /\ OneRefund' /\ OneAnnouncement'
    BY <2>1, <2>2, <2>3, <2>5, RefundOutcome
  <2>7. StaleWritesAreSafe' /\ DecidingIsOrdered'
    BY <1>0, <1>3, <2>1, <2>2 DEF DecidedOnce, SweepRefund, StaleWritesAreSafe,
       DecidingIsOrdered, Deciding, Announcements
  <2> QED
    BY <2>6, <2>7 DEF DecidedOnce
<1>4. CASE SweepWebhook
  <2>1. verdict[cur] = "expired" /\ Announcements(cur) = {}
    BY <1>0, <1>4 DEF SweepWebhook, DecidedOnce, DecidingIsOrdered, Deciding
  <2>2. PICK i \in Invoices : i = cur
    BY <1>0
  <2>3. UndecidedIsClean' /\ OneRefund' /\ OneAnnouncement'
    BY <1>4, <2>1, <2>2, AnnounceOutcome DEF SweepWebhook
  <2>4. StaleWritesAreSafe' /\ DecidingIsOrdered'
    BY <1>0, <1>4 DEF SweepWebhook, DecidedOnce, StaleWritesAreSafe,
       DecidingIsOrdered, Deciding
  <2> QED
    BY <2>3, <2>4 DEF DecidedOnce
<1>5. CASE SaveWallet
  <2>1. StaleWritesAreSafe' /\ DecidingIsOrdered'
    BY <1>5 DEF SaveWallet, EndTick, StaleWritesAreSafe, DecidingIsOrdered, Deciding
  <2> QED
    BY <1>0, <1>5, <2>1, QuietStep DEF SaveWallet, DecidedOnce
<1> QED
  BY <1>1, <1>2, <1>3, <1>4, <1>5 DEF Sweeping

\* A cancel announces no outcome, and what it writes makes no invoice open that
\* the loop had decided.
LEMMA DecidedApi == Inv /\ Api => DecidedOnce'
<1> SUFFICES ASSUME Inv, Api PROVE DecidedOnce'
  OBVIOUS
<1> USE DEF db, world, wallet, sync, locals, timing, trail, history, bounds
<1>0. TypeOK /\ DecidedOnce
  BY DEF Inv
<1>1. ASSUME NEW i \in Invoices, status[i] \notin Terminal \/ status'[i] \in Terminal,
             \A j \in Invoices : j # i => status'[j] = status[j],
             UNCHANGED <<verdict, refunds, events, pc, cur, seen, sweep>>
      PROVE  DecidedOnce'
  <2>1. \A j \in Invoices : Announcements(j)' = Announcements(j)
    BY <1>1 DEF Announcements
  <2>2. UndecidedIsClean' /\ OneRefund' /\ OneAnnouncement'
    BY <1>0, <1>1, <2>1 DEF DecidedOnce, UndecidedIsClean, OneRefund, OneAnnouncement
  <2> QED
    BY <1>0, <1>1, <2>2, ForeignStep DEF DecidedOnce
<1>2. ASSUME NEW i \in Invoices, NEW w \in Windows, Create(i, w) PROVE DecidedOnce'
  <2>1. \A j \in Invoices : j # i => status'[j] = status[j]
    BY <1>0, <1>2 DEF Create, TypeOK
  <2> QED
    BY <1>1, <1>2, <2>1 DEF Create, Exists, Terminal
<1>3. ASSUME NEW h \in Handlers, NEW i \in Invoices, CancelRead(h, i) PROVE DecidedOnce'
  BY <1>0, <1>3, QuietStep, ForeignStep DEF CancelRead, DecidedOnce
<1>4. ASSUME NEW h \in Handlers, CancelWrite(h) PROVE DecidedOnce'
  <2>1. call[h].invoice \in Invoices
    BY <1>0, <1>4, CallType DEF CancelWrite
  <2>2. PICK i \in Invoices : i = call[h].invoice
    BY <2>1
  <2>3. status'[i] \in Terminal /\ \A j \in Invoices : j # i => status'[j] = status[j]
    BY <1>0, <1>4, <2>2 DEF CancelWrite, TypeOK, Terminal
  <2> QED
    BY <1>1, <1>4, <2>3 DEF CancelWrite
<1>5. ASSUME NEW h \in Handlers, CancelWebhook(h) PROVE DecidedOnce'
  <2>1. call[h].invoice \in Invoices
    BY <1>0, <1>5, CallType DEF CancelWebhook
  <2>2. PICK i \in Invoices : i = call[h].invoice
    BY <2>1
  <2>3. UNCHANGED <<status, verdict, refunds, pc, cur, seen, sweep>>
    BY <1>5 DEF CancelWebhook
  <2>4. \A j \in Invoices :
          /\ Announcements(j)' = Announcements(j)
          /\ \A k \in Announcements(j) : events'[j][k] = events[j][k]
    BY <1>0, <1>5, <2>2, WebhookAnnounces DEF CancelWebhook
  <2>5. UndecidedIsClean' /\ OneRefund' /\ OneAnnouncement'
    BY <1>0, <2>3, <2>4 DEF DecidedOnce, UndecidedIsClean, OneRefund, OneAnnouncement
  <2>6. cur \in Invoices /\ Announcements(cur)' = Announcements(cur)
    BY <1>0, <2>3, <2>4 DEF TypeOK, Announcements
  <2>7. StaleWritesAreSafe' /\ DecidingIsOrdered'
    BY <1>0, <2>3, <2>6 DEF DecidedOnce, StaleWritesAreSafe, DecidingIsOrdered, Deciding
  <2> QED
    BY <2>5, <2>7 DEF DecidedOnce
<1> QED
  BY <1>2, <1>3, <1>4, <1>5 DEF Api, CancelStep

\* A failure drops what the loop was about to write; the world writes nothing.
LEMMA DecidedElsewhere == Inv /\ (Failures \/ World) => DecidedOnce'
<1> SUFFICES ASSUME Inv, Failures \/ World PROVE DecidedOnce'
  OBVIOUS
<1> USE DEF db, world, wallet, sync, locals, timing, trail, history, bounds
<1>0. DecidedOnce
  BY DEF Inv
<1>1. UNCHANGED <<status, verdict, refunds, events>>
  BY DEF Failures, Interruptions, World, CancelAborts, TickAborts, Crash, Restart, Pay, Evict,
     NewBlock, Reorg, TimePasses
<1>2. EndTick \/ UNCHANGED <<pc, cur, seen, sweep>>
  BY DEF Failures, Interruptions, World, CancelAborts, TickAborts, Crash, Restart, Pay, Evict,
     NewBlock, Reorg, TimePasses
<1>3. StaleWritesAreSafe' /\ DecidingIsOrdered'
  <2>1. CASE EndTick
    BY <2>1 DEF EndTick, StaleWritesAreSafe, DecidingIsOrdered, Deciding
  <2>2. CASE UNCHANGED <<pc, cur, seen, sweep>>
    BY <1>0, <1>1, <2>2, ForeignStep
  <2> QED
    BY <1>2, <2>1, <2>2
<1> QED
  BY <1>0, <1>1, <1>3, QuietStep DEF DecidedOnce

\* The invariant is inductive.
LEMMA InvStep == Inv /\ [Next]_vars => Inv'
<1> SUFFICES ASSUME Inv, [Next]_vars PROVE Inv'
  OBVIOUS
<1>1. TypeOK'
  BY TypeStep DEF Inv
<1>2. DecidedOnce'
  <2>1. CASE Next
    BY <2>1, DecidedMatching, DecidedConfirming, DecidedSweeping, DecidedApi,
       DecidedElsewhere DEF Next, SyncStep
  <2>2. CASE UNCHANGED vars
    BY <2>2, QuietStep, ForeignStep DEF Inv, DecidedOnce, vars, db, sync, locals, history
  <2> QED
    BY <2>1, <2>2
<1> QED
  BY <1>1, <1>2 DEF Inv

\* The invariant holds in every state of every behaviour.
LEMMA Invariance == Spec => []Inv
<1>1. Init => Inv
  BY TypeInit, DecidedInit DEF Inv
<1> QED
  BY <1>1, InvStep, PTL DEF Spec

\* The inductive invariant of the sync loop's decisions.
THEOREM DecidesOnce == Spec => []DecidedOnce
<1>1. Inv => DecidedOnce
  BY DEF Inv
<1> QED
  BY <1>1, Invariance, PTL

\* However ticks, requests, failures and crashes interleave, an invoice is
\* never given more than one refund row, nor one of the wrong kind.
THEOREM RefundsOnce == Spec => []OneRefund
<1>1. Inv => OneRefund
  BY DEF Inv, DecidedOnce
<1> QED
  BY <1>1, Invariance, PTL

\* Nor does the merchant ever hear two outcomes of it, or one twice.
THEOREM AnnouncesOnce == Spec => []OneAnnouncement
<1>1. Inv => OneAnnouncement
  BY DEF Inv, DecidedOnce
<1> QED
  BY <1>1, Invariance, PTL

\* The steps of the sync loop that change what InvoiceOutcome sees.
OutcomeStep ==
  ConfirmsWrite \/ ConfirmsRefund \/ ConfirmsWebhook \/ SweepRefund \/ SweepWebhook
  \/ \E i \in Invoices : SweepWrite(i)

\* No other step decides, refunds or announces: a cancel only adds its own webhook.
LEMMA OtherSteps ==
  ASSUME Inv, Next, ~OutcomeStep
  PROVE  /\ UNCHANGED <<verdict, refunds>>
         /\ \A i \in Invoices : Announcements(i)' = Announcements(i)
<1> USE DEF db, world, wallet, sync, locals, timing, trail, history, bounds
<1>1. CASE \E h \in Handlers : CancelWebhook(h)
  <2> PICK h \in Handlers : CancelWebhook(h)
    BY <1>1
  <2>1. PICK i \in Invoices : i = call[h].invoice
    BY CallType DEF CancelWebhook, Inv
  <2>2. \A j \in Invoices : Announcements(j)' = Announcements(j)
    BY <2>1, WebhookAnnounces DEF CancelWebhook, Inv
  <2> QED
    BY <2>2 DEF CancelWebhook
<1>2. CASE ~\E h \in Handlers : CancelWebhook(h)
  <2>1. UNCHANGED <<verdict, refunds, events>>
    <3>1. CASE Matching
      BY <3>1 DEF Matching, TickStart, WatchList, FetchUtxos, InsertUtxo,
         InsertNote, Record, ApplyRead,
         ApplyWrite, ApplyExpiry, ShieldTick
    <3>2. CASE Confirming \/ Sweeping
      BY <3>2 DEF OutcomeStep, Confirming, Sweeping, ConfirmsSelect, ConfirmRow,
         ConfirmsZeroConf, ConfirmsEvaluate, SweepSelect, SaveWallet
    <3>3. CASE Api
      BY <1>2, <3>3 DEF Api, CancelStep, Create, CancelRead, CancelWrite
    <3>4. CASE Failures \/ World
      BY <3>4 DEF Failures, Interruptions, World, CancelAborts, TickAborts, Crash, Restart, Pay,
         Evict, NewBlock, Reorg, TimePasses
    <3> QED
      BY <3>1, <3>2, <3>3, <3>4 DEF Next, SyncStep
  <2> QED
    BY <2>1 DEF Announcements
<1> QED
  BY <1>1, <1>2

\* No step of the system takes a decision back.
LEMMA VerdictStep ==
  ASSUME Inv, Next, NEW i \in Invoices, verdict[i] # "open"
  PROVE  verdict'[i] = verdict[i]
<1> USE DEF Inv, TypeOK, DecidedOnce, StaleWritesAreSafe
<1>1. CASE ConfirmsWrite
  BY <1>1 DEF ConfirmsWrite
<1>2. ASSUME NEW j \in Invoices, SweepWrite(j) PROVE verdict'[i] = verdict[i]
  BY <1>2 DEF SweepWrite
<1>3. CASE OutcomeStep /\ ~ConfirmsWrite /\ ~\E j \in Invoices : SweepWrite(j)
  BY <1>3 DEF OutcomeStep, ConfirmsRefund, ConfirmsWebhook, SweepRefund, SweepWebhook, history
<1>4. CASE ~OutcomeStep
  BY <1>4, OtherSteps
<1> QED
  BY <1>1, <1>2, <1>3, <1>4 DEF OutcomeStep

\* What the sync loop decided of an invoice it never decides again.
THEOREM VerdictsStay == Spec => VerdictIsFinal
<1>1. Inv /\ [Next]_vars =>
        [\A i \in Invoices : verdict[i] # "open" => verdict'[i] = verdict[i]]_vars
  BY VerdictStep
<1> QED
  BY <1>1, Invariance, PTL DEF Spec, VerdictIsFinal

-----------------------------------------------------------------------------
(* Goods are released only against payment.  ConfirmedIsCovered alone is   *)
(* not inductive: between the evaluation of an invoice and the write of    *)
(* its status the rows must stay as they were counted, and a later tick    *)
(* must not lower the confirmations of a row whose invoice was confirmed.  *)
CoveredInv ==
  /\ ConfirmedIsCovered
  /\ pc = "confirmWrite" => ConfirmedPaid(cur) >= Due[cur]
  /\ pc = "confirms" => \A o \in rows : verdict[InvoiceOf[o]] = "open"

\* The steps that touch what CoveredInv speaks of; the others keep it.
CoverStep ==
  \/ \E d \in Discovered : Record(d)
  \/ \E o \in Outputs : ConfirmRow(o)
  \/ \E i \in Invoices : ConfirmsEvaluate(i) \/ SweepWrite(i)
  \/ ConfirmsSelect \/ ConfirmsWrite

\* No other step of the system touches the rows, their confirmations or the
\* verdicts, or gets to where the rows are written or the verdict is.
LEMMA UncoveredSteps ==
  ASSUME Next, ~CoverStep
  PROVE  /\ UNCHANGED <<recorded, confs, verdict>>
         /\ pc' = "confirmWrite" => UNCHANGED <<pc, cur>>
         /\ pc' = "confirms" => UNCHANGED <<pc, rows>>
<1> USE DEF db, world, wallet, sync, locals, timing, trail, history, bounds
<1>1. CASE Matching
  BY <1>1 DEF CoverStep, Matching, InsertUtxo, InsertNote, TickStart, WatchList, FetchUtxos,
     ApplyRead,
     ApplyWrite, ApplyExpiry, ShieldTick
<1>2. CASE Confirming
  BY <1>2 DEF CoverStep, Confirming, ConfirmsZeroConf, ConfirmsRefund, ConfirmsWebhook
<1>3. CASE Sweeping
  BY <1>3 DEF CoverStep, Sweeping, SweepSelect, SweepRefund, SweepWebhook,
     SaveWallet, EndTick
<1>4. CASE Api
  BY <1>4 DEF Api, CancelStep, Create, CancelRead, CancelWrite, CancelWebhook
<1>5. CASE Failures
  BY <1>5 DEF Failures, Interruptions, CancelAborts, TickAborts, Crash, Restart, EndTick
<1>6. CASE World
  BY <1>6 DEF World, Pay, Evict, NewBlock, Reorg, TimePasses
<1> QED
  BY <1>1, <1>2, <1>3, <1>4, <1>5, <1>6 DEF Next, SyncStep

\* Rows that only grow at the threshold cover no less.
LEMMA CoverGrows ==
  ASSUME NEW i \in Invoices, TypeOK, TypeOK',
         ConfirmedRows(i) \subseteq ConfirmedRows(i)'
  PROVE  ConfirmedPaid(i)' >= ConfirmedPaid(i)
<1>1. ConfirmedRows(i) \in SUBSET Outputs /\ ConfirmedRows(i)' \in SUBSET Outputs
  BY DEF ConfirmedRows, PaidRows, OutputsOf
<1>2. /\ Total[ConfirmedRows(i)] <= Total[ConfirmedRows(i)']
      /\ Total[ConfirmedRows(i)] \in Nat /\ Total[ConfirmedRows(i)'] \in Nat
  BY <1>1, AmountsAssumption, SumAssumption
<1> QED
  BY <1>2 DEF ConfirmedPaid

\* CoveredInv is inductive, relative to the invariant of the decisions.
LEMMA CoveredStep == Inv /\ CoveredInv /\ [Next]_vars => CoveredInv'
<1> SUFFICES ASSUME Inv, CoveredInv, [Next]_vars PROVE CoveredInv'
  OBVIOUS
<1>t. TypeOK /\ TypeOK'
  BY TypeStep DEF Inv
<1> USE DEF CoveredInv, ConfirmedIsCovered
<1>n. \A i \in Invoices : ConfirmedPaid(i) \in Nat /\ ConfirmedPaid(i)' \in Nat
                           /\ Due[i] \in Nat
  <2>1. \A i \in Invoices : ConfirmedRows(i) \in SUBSET Outputs
                             /\ ConfirmedRows(i)' \in SUBSET Outputs
    BY DEF ConfirmedRows, PaidRows, OutputsOf
  <2> QED
    BY <2>1, AmountsAssumption DEF ConfirmedPaid
<1>s. ASSUME UNCHANGED <<recorded, confs>>
      PROVE  \A i \in Invoices : ConfirmedPaid(i)' = ConfirmedPaid(i)
  BY <1>s DEF ConfirmedPaid, ConfirmedRows, PaidRows
<1>1. ASSUME NEW d \in Discovered, Record(d) PROVE CoveredInv'
  <2>1. \A i \in Invoices : ConfirmedRows(i) \subseteq ConfirmedRows(i)'
    <3>1. \A o \in recorded : o \in recorded' /\ confs'[o] = confs[o]
      <4>1. confs \in [Outputs -> Nat] /\ recorded \subseteq Outputs
        BY <1>t DEF TypeOK
      <4>2. \/ UNCHANGED <<recorded, confs>>
            \/ /\ d.output \notin recorded
               /\ recorded' = recorded \cup {d.output}
               /\ confs' = [confs EXCEPT ![d.output] = 0]
        BY <1>1 DEF Record
      <4> QED
        BY <4>1, <4>2
    <3> QED
      BY <3>1 DEF ConfirmedRows, PaidRows
  <2>2. \A i \in Invoices : ConfirmedPaid(i)' >= ConfirmedPaid(i)
    BY <2>1, <1>t, CoverGrows
  <2>3. verdict' = verdict /\ pc' \in {"match", "applyRead"}
    BY <1>1 DEF Record, history
  <2> QED
    BY <2>2, <2>3, <1>n
<1>2. CASE ConfirmsSelect
  <2>1. \A o \in rows' : verdict'[InvoiceOf[o]] = "open"
    <3>1. \A i \in Invoices : status[i] \in Unpaid \cup {"confirming"} => verdict[i] = "open"
      BY DEF Inv, DecidedOnce, UndecidedIsClean, Unpaid, Terminal
    <3>2. \A o \in rows' : InvoiceOf[o] \in Invoices
                          /\ status[InvoiceOf[o]] \in Unpaid \cup {"confirming"}
      BY <1>2, <1>t, SetsAssumption DEF ConfirmsSelect, InFlightRows, TypeOK
    <3> QED
      BY <1>2, <3>1, <3>2 DEF ConfirmsSelect, history
  <2> QED
    BY <1>2, <1>s, <2>1 DEF ConfirmsSelect, db, history
<1>3. ASSUME NEW o \in Outputs, ConfirmRow(o) PROVE CoveredInv'
  <2>1. verdict[InvoiceOf[o]] = "open" /\ rows' \subseteq rows
    BY <1>3 DEF ConfirmRow
  <2>2. \A i \in Invoices : verdict[i] = "confirmed" =>
          ConfirmedRows(i)' = ConfirmedRows(i)
    <3>1. /\ recorded' = recorded /\ recorded \subseteq Outputs
          /\ confs \in [Outputs -> Nat]
          /\ confs' = [confs EXCEPT ![o] = Depth(height[o], chainTip)]
      BY <1>3, <1>t DEF ConfirmRow, TypeOK
    <3>2. \A p \in Outputs : p # o => confs'[p] = confs[p]
      BY <3>1
    <3>3. \A i \in Invoices : verdict[i] = "confirmed" => o \notin OutputsOf(i)
      BY <2>1 DEF OutputsOf
    <3> QED
      BY <3>1, <3>2, <3>3 DEF ConfirmedRows, PaidRows, OutputsOf
  <2> QED
    BY <1>3, <2>1, <2>2 DEF ConfirmRow, ConfirmedPaid, history
<1>4. ASSUME NEW i \in Invoices, ConfirmsEvaluate(i) PROVE CoveredInv'
  <2>1. pc' = "confirmWrite" => cur' = i /\ ConfirmedPaid(i) >= Due[i]
    BY <1>4 DEF ConfirmsEvaluate, next_status_on_confirmation
  <2>2. pc' \in {"evaluate", "confirmWrite"}
    BY <1>4 DEF ConfirmsEvaluate
  <2> QED
    BY <1>4, <1>s, <2>1, <2>2 DEF ConfirmsEvaluate, db, history
<1>5. CASE ConfirmsWrite
  <2>1. \A i \in Invoices : verdict'[i] = "confirmed" => i = cur \/ verdict[i] = "confirmed"
    BY <1>5, <1>t DEF ConfirmsWrite, TypeOK
  <2> QED
    BY <1>5, <1>s, <2>1 DEF ConfirmsWrite
<1>6. ASSUME NEW i \in Invoices, SweepWrite(i) PROVE CoveredInv'
  <2>1. \A j \in Invoices : verdict'[j] = "confirmed" => verdict[j] = "confirmed"
    BY <1>6, <1>t DEF SweepWrite, TypeOK
  <2> QED
    BY <1>6, <1>s, <2>1 DEF SweepWrite
<1>7. CASE (Next /\ ~CoverStep) \/ UNCHANGED vars
  <2>1. /\ UNCHANGED <<recorded, confs, verdict>>
        /\ pc' = "confirmWrite" => pc = "confirmWrite" /\ cur' = cur
        /\ pc' = "confirms" => pc = "confirms" /\ rows' = rows
    BY <1>7, UncoveredSteps DEF vars, db, sync, locals, history
  <2>2. \A i \in Invoices : ConfirmedPaid(i)' = ConfirmedPaid(i)
    BY <1>s, <2>1
  <2>3. pc' = "confirmWrite" => ConfirmedPaid(cur)' = ConfirmedPaid(cur)
    BY <2>1 DEF ConfirmedPaid, ConfirmedRows, PaidRows
  <2> QED
    BY <2>1, <2>2, <2>3
<1> QED
  BY <1>1, <1>2, <1>3, <1>4, <1>5, <1>6, <1>7 DEF CoverStep

\* It is so in every behaviour.
LEMMA CoveredInvariance == Spec => []CoveredInv
<1>1. Init => CoveredInv
  <2>1. ASSUME Init, NEW i \in Invoices PROVE verdict[i] = "open"
    BY <2>1 DEF Init
  <2> QED
    BY <2>1 DEF Init, CoveredInv, ConfirmedIsCovered
<1> QED
  BY <1>1, Invariance, CoveredStep, PTL DEF Spec

\* Goods are released only against payment: whatever the chain takes back and
\* whoever cancels, an invoice that was confirmed has rows at the threshold for
\* all of its price (matcher/confirms.rs), for any amounts and any threshold.
THEOREM ConfirmsOnlyPaid == Spec => []ConfirmedIsCovered
<1>1. CoveredInv => ConfirmedIsCovered
  BY DEF CoveredInv
<1> QED
  BY <1>1, CoveredInvariance, PTL

-----------------------------------------------------------------------------
(* The refinement of InvoiceOutcome: three kinds of step of the sync loop  *)
(* are steps of it, and every other step of the system is none of it.      *)
Promised(i) == IF refunds[i] = <<>> THEN "none" ELSE refunds[i][1].reason

\* Initially no outcome is promised.
LEMMA OutcomeInit == Init => Outcome!Init
<1> SUFFICES ASSUME Init PROVE Outcome!Init
  OBVIOUS
<1>1. \A i \in Invoices : Announcements(i) = {} /\ refunds[i] = <<>>
  BY DEF Init, Announcements
<1> QED
  BY <1>1 DEF Init, Outcome!Init

\* A write of the status "confirmed" or "expired" is the decision of the
\* abstract specification.
LEMMA OutcomeDecides ==
  ASSUME Inv, NEW i \in Invoices, NEW v \in {"confirmed", "expired"},
         verdict[i] = "open", verdict' = [verdict EXCEPT ![i] = v],
         UNCHANGED <<refunds, events>>
  PROVE  Outcome!Next
<1>1. \A j \in Invoices : Announcements(j)' = Announcements(j)
  BY DEF Announcements
<1>2. Outcome!Decide(i, v)
  BY <1>1 DEF Outcome!Decide
<1> QED
  BY <1>2 DEF Outcome!Next, Outcome!Verdicts

\* A refund row is the abstract promise of the kind that was decided, and a
\* refund that the fee would eat is a stutter.
LEMMA OutcomeRefunds ==
  ASSUME Inv, NEW i \in Invoices, NEW gross \in Nat,
         NEW reason \in {"overpayment", "partial_expired"},
         \/ verdict[i] = "confirmed" /\ reason = "overpayment"
         \/ verdict[i] = "expired" /\ reason = "partial_expired",
         refunds[i] = <<>>, Announcements(i) = {},
         EnqueueRefund(i, reason, gross), UNCHANGED <<verdict, events>>
  PROVE  Outcome!Next \/ UNCHANGED Outcome!vars
<1>1. \A j \in Invoices : Announcements(j)' = Announcements(j)
  BY DEF Announcements
<1> DEFINE e == [reason |-> reason, gross |-> gross]
<1>2. CASE UNCHANGED refunds
  BY <1>1, <1>2 DEF Outcome!vars
<1>3. CASE refunds' = [refunds EXCEPT ![i] = Append(@, e)]
  <2>1. refunds'[i] = <<e>> /\ e.reason = reason
    BY <1>3 DEF Inv, TypeOK
  <2> HIDE DEF e
  <2>2. refunds'[i] # <<>> /\ refunds'[i][1].reason = reason
    BY <2>1
  <2>3. \A j \in Invoices : j # i => refunds'[j] = refunds[j]
    BY <1>3 DEF Inv, TypeOK
  <2>4. [j \in Invoices |-> Promised(j)]'
          = [[j \in Invoices |-> Promised(j)] EXCEPT ![i] = reason]
    BY <2>2, <2>3 DEF Promised
  <2>5. reason = Outcome!RefundFor(verdict[i]) /\ verdict[i] \in Outcome!Verdicts
    BY DEF Outcome!RefundFor, Outcome!Verdicts
  <2>6. Outcome!Refund(i)
    BY <1>1, <2>4, <2>5 DEF Outcome!Refund, Promised
  <2> QED
    BY <2>6 DEF Outcome!Next
<1> QED
  BY <1>2, <1>3 DEF EnqueueRefund

\* The webhook of the outcome is the abstract announcement.
LEMMA OutcomeAnnounces ==
  ASSUME Inv, NEW i \in Invoices, NEW v \in {"confirmed", "expired"},
         verdict[i] = v, Announcements(i) = {}, EnqueueWebhook(i, v),
         UNCHANGED <<verdict, refunds>>
  PROVE  Outcome!Next
<1>1. /\ Announcements(i)' # {}
      /\ \A j \in Invoices : j # i => Announcements(j)' = Announcements(j)
  BY WebhookAnnounces DEF Inv
<1>2. Outcome!Announce(i)
  BY <1>1 DEF Outcome!Announce, Outcome!Verdicts
<1> QED
  BY <1>2 DEF Outcome!Next

\* Every step is a step of InvoiceOutcome or a stutter.
LEMMA OutcomeNext == Inv /\ [Next]_vars => Outcome!Next \/ UNCHANGED Outcome!vars
<1> SUFFICES ASSUME Inv, [Next]_vars PROVE Outcome!Next \/ UNCHANGED Outcome!vars
  OBVIOUS
<1> USE DEF db, locals, history
<1>0. TypeOK /\ DecidedOnce /\ cur \in Invoices
  BY DEF Inv, TypeOK
<1>1. PICK c \in Invoices : c = cur
  BY <1>0
<1>2. CASE ConfirmsWrite
  BY <1>0, <1>1, <1>2, OutcomeDecides DEF ConfirmsWrite, DecidedOnce, StaleWritesAreSafe
<1>3. ASSUME NEW i \in Invoices, SweepWrite(i)
      PROVE  Outcome!Next \/ UNCHANGED Outcome!vars
  BY <1>0, <1>3, OutcomeDecides DEF SweepWrite, DecidedOnce, StaleWritesAreSafe
<1>4. ASSUME UNCHANGED <<verdict, refunds>>,
             \A i \in Invoices : Announcements(i)' = Announcements(i)
      PROVE  UNCHANGED Outcome!vars
  BY <1>4 DEF Outcome!vars
<1>5. ASSUME UNCHANGED <<verdict, refunds, events>> PROVE UNCHANGED Outcome!vars
  BY <1>4, <1>5 DEF Announcements
<1>6. CASE ConfirmsRefund
  <2>1. verdict[c] = "confirmed" /\ refunds[c] = <<>> /\ Announcements(c) = {}
    BY <1>0, <1>1, <1>6 DEF ConfirmsRefund, DecidedOnce, DecidingIsOrdered, Deciding
  <2>2. \/ UNCHANGED refunds
        \/ Excess(c) \in Nat /\ EnqueueRefund(c, "overpayment", Excess(c))
    BY <1>0, <1>1, <1>6, PaidType, AmountsAssumption DEF ConfirmsRefund, Excess
  <2>3. CASE Excess(c) \in Nat /\ EnqueueRefund(c, "overpayment", Excess(c))
    <3>1. PICK gross \in Nat : gross = Excess(c)
      BY <2>3
    <3> QED
      BY <1>6, <2>1, <2>3, <3>1, OutcomeRefunds DEF ConfirmsRefund
  <2> QED
    BY <1>5, <1>6, <2>2, <2>3 DEF ConfirmsRefund
<1>7. CASE SweepRefund
  <2>1. verdict[c] = "expired" /\ refunds[c] = <<>> /\ Announcements(c) = {}
    BY <1>0, <1>1, <1>7 DEF SweepRefund, DecidedOnce, DecidingIsOrdered, Deciding
  <2>2. PICK gross \in Nat : gross = Paid(c)
    BY <1>0, PaidType
  <2>3. UNCHANGED refunds \/ EnqueueRefund(c, "partial_expired", gross)
    BY <1>1, <1>7, <2>2 DEF SweepRefund
  <2> QED
    BY <1>5, <1>7, <2>1, <2>3, OutcomeRefunds DEF SweepRefund
<1>8. CASE ConfirmsWebhook
  BY <1>0, <1>1, <1>8, OutcomeAnnounces DEF ConfirmsWebhook, DecidedOnce,
     DecidingIsOrdered, Deciding
<1>9. CASE SweepWebhook
  BY <1>0, <1>1, <1>9, OutcomeAnnounces DEF SweepWebhook, DecidedOnce,
     DecidingIsOrdered, Deciding
<1>10. CASE Next /\ ~OutcomeStep
  BY <1>4, <1>10, OtherSteps
<1>11. CASE UNCHANGED vars
  BY <1>5, <1>11 DEF vars
<1> QED
  BY <1>2, <1>3, <1>6, <1>7, <1>8, <1>9, <1>10, <1>11 DEF OutcomeStep

\* Whatever fails or races with it, the sync loop implements InvoiceOutcome.
THEOREM OutcomeIsKept == Spec => KeepsOutcome
BY OutcomeInit, OutcomeNext, Invariance, PTL DEF Spec, KeepsOutcome, Outcome!Spec
==============================================================================
