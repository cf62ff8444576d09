----------------------------- MODULE Settlement ------------------------------
(***************************************************************************)
(* How an invoice is settled: the sync loop of src/sync/mod.rs, which      *)
(* discovers payments, counts confirmations, confirms and expires, and     *)
(* enqueues refunds and webhooks, against the API's create and cancel      *)
(* handlers, a chain that can reorganise, a clock, and a daemon that can   *)
(* fail or crash between any two database statements.                      *)
(*                                                                         *)
(* Every SQL statement autocommits, so an action is one statement (or a    *)
(* read and the reads after it of rows that only the same task writes).    *)
(* There is one sync task; the handlers run concurrently with it.          *)
(*                                                                         *)
(* An operator whose name has an _x is a mutated form of the one after it: *)
(* a plausible bug that some property below has to catch.                  *)
(***************************************************************************)
EXTENDS InvoiceStatus, Sequences, FiniteSets

CONSTANTS
  Invoices,        \* the invoices the merchant may create
  Outputs,         \* transparent outputs and shield notes customers may send
  InvoiceOf,       \* the invoice whose address an output pays
  ShieldInvoices,  \* the invoices of the shield channel
  Total,           \* SUM(amount_sat) of a set of payment rows
  Due,             \* amount_due_sat of an invoice
  Threshold,       \* payments.confirmations
  RefundsEnabled,  \* refunds.enabled
  Fee,             \* the one-input fee estimate of refunds::enqueue
  PartialReset,    \* payments.partial_reset_secs
  Windows,         \* the expires_in_secs a merchant may ask for
  WatchLimit,      \* the invoices of a status that are polled in a tick
  Handlers,        \* the cancel requests that are made
  \* Bounds of the model
  MaxClock, MaxTip,
  FaultKinds,      \* the failures considered, a subset of Faults
  MaxFaults        \* how many of them

\* What can fail: reading the tip, an explorer fetch, a request, the rest of a
\* tick, the whole daemon; and the chain may take back its tip or a mempool
\* transaction.
Faults == {"tip", "fetch", "handler", "abort", "crash", "reorg", "evict"}

ASSUME SetsAssumption ==
  /\ ShieldInvoices \subseteq Invoices
  /\ InvoiceOf \in [Outputs -> Invoices]
ASSUME AmountsAssumption ==
  /\ Total \in [SUBSET Outputs -> Nat]
  /\ Due \in [Invoices -> Nat \ {0}]
  /\ Fee \in Nat
ASSUME SumAssumption ==
  /\ Total[{}] = 0
  /\ \A S, T \in SUBSET Outputs : S \subseteq T => Total[S] <= Total[T]
ASSUME ConfigAssumption ==
  /\ Threshold \in Nat
  /\ RefundsEnabled \in BOOLEAN
  /\ PartialReset \in Nat
  /\ Windows \subseteq Nat \ {0}
  /\ WatchLimit \in Nat \ {0}
ASSUME BoundsAssumption ==
  /\ MaxClock \in Nat /\ MaxTip \in Nat \ {0}
  /\ FaultKinds \subseteq Faults
  /\ MaxFaults \in Nat

VARIABLES
  \* the database
  status,      \* invoices.status, "none" before the row exists
  expiresAt,   \* invoices.expires_at
  created,     \* the rows of invoices, by created_at
  recorded,    \* the rows of payments, one per output: UNIQUE(txid, vout)
  height,      \* payments.block_height, 0 = mempool
  confs,       \* payments.confirmations
  refunds,     \* the refund rows of an invoice, oldest first
  events,      \* the webhook rows of an invoice, oldest first
  \* the world
  chainHeight, \* the block an output is in, 0 = mempool, Unseen = not sent
  tip,         \* the height of the chain
  clock,
  \* the wallet
  lastBlock,   \* the last block scanned for notes, in memory
  savedBlock,  \* the same in the wallet file
  \* locals of run_tick and of the functions it calls
  pc, now, chainTip, watch, found, stage, advanced, cur, seen, rows, affected,
  sweep,
  \* the cancel handlers
  call,
  \* history
  verdict,     \* what the sync loop decided of an invoice
  onTime,      \* outputs the daemon could see before their invoice expired,
               \* and still can
  lost,        \* notes a tick had found when it ended before their insertion
  polled,      \* invoices whose address this tick has fetched
  applied,     \* rows that were part of a sum applied to their invoice
  cut,         \* invoices whose decision was cut short by a failure
  faults, reorgs

timing == <<expiresAt, created>>
db == <<status, timing, recorded, height, confs, refunds, events>>
world == <<chainHeight, tip, clock>>
wallet == <<lastBlock, savedBlock>>
locals == <<now, chainTip, watch, found, stage, advanced, cur, seen, rows,
            affected, sweep>>
sync == <<pc, locals>>
trail == <<onTime, lost, polled, applied, cut>>
history == <<verdict, trail>>
bounds == <<faults, reorgs>>
vars == <<db, world, wallet, sync, call, history, bounds>>

Unseen == -1
Heights == 0..MaxTip
\* DiscoveredUtxo, or a note with the height of its block
Discovered == [output : Outputs, height : Heights]
Idle == [at |-> "idle"]
Done == [at |-> "done"]

OutputsOf(i) == {o \in Outputs : InvoiceOf[o] = i}
Transparent(o) == InvoiceOf[o] \notin ShieldInvoices
Exists(i) == status[i] # "none"

\* payments::total_amount_for_invoice and payments::confirmed_amount_for_invoice
PaidRows(i) == recorded \cap OutputsOf(i)
ConfirmedRows(i) == {o \in PaidRows(i) : confs[o] >= Threshold}
Paid(i) == Total[PaidRows(i)]
ConfirmedPaid(i) == Total[ConfirmedRows(i)]

Depth_xUnguarded(h, t) == IF h = 0 THEN 0 ELSE t - h + 1
Depth_xMempool(h, t) == IF t < h THEN 0 ELSE t - h + 1

\* The depth of a row mined at h under a tip of t.
Depth(h, t) == IF h = 0 \/ t < h THEN 0 ELSE t - h + 1
------------------------------------------------------------------------------
Init ==
  /\ status = [i \in Invoices |-> "none"]
  /\ expiresAt = [i \in Invoices |-> 0]
  /\ created = <<>>
  /\ recorded = {}
  /\ height = [o \in Outputs |-> 0]
  /\ confs = [o \in Outputs |-> 0]
  /\ refunds = [i \in Invoices |-> <<>>]
  /\ events = [i \in Invoices |-> <<>>]
  /\ chainHeight = [o \in Outputs |-> Unseen]
  /\ tip = 1 /\ clock = 0
  /\ lastBlock = 1 /\ savedBlock = 1
  /\ pc = "idle" /\ now = 0 /\ chainTip = 0
  /\ watch = {} /\ found = {} /\ stage = "transparent" /\ advanced = FALSE
  /\ cur \in Invoices /\ seen = "none"
  /\ rows = {} /\ affected = {} /\ sweep = {}
  /\ call = [h \in Handlers |-> Idle]
  /\ verdict = [i \in Invoices |-> "open"]
  /\ onTime = {} /\ lost = {} /\ polled = {} /\ applied = {} /\ cut = {}
  /\ faults = 0 /\ reorgs = 0

\* The sync task is between its decision on an invoice and the webhook of it.
Deciding(i) ==
  cur = i /\ pc \in {"confirmRefund", "confirmWebhook",
                      "sweepRefund", "sweepWebhook"}

\* The locals die with the tick.
EndTick ==
  /\ pc' = "idle" /\ polled' = {}
  /\ now' = 0 /\ chainTip' = 0
  /\ watch' = {} /\ found' = {} /\ stage' = "transparent" /\ advanced' = FALSE
  /\ seen' = "none" /\ rows' = {} /\ affected' = {} /\ sweep' = {}
  /\ UNCHANGED cur

Fault(kind) ==
  /\ kind \in FaultKinds /\ faults < MaxFaults
  /\ faults' = faults + 1
  /\ reorgs' = IF kind \in {"reorg", "evict"} THEN reorgs + 1 ELSE reorgs

EnqueueRefund_xReason(i, reason, gross) ==
  refunds' = IF gross > Fee
             THEN [refunds EXCEPT ![i] =
                     Append(@, [reason |-> "overpayment", gross |-> gross])]
             ELSE refunds

EnqueueRefund_xDust(i, reason, gross) ==
  refunds' = IF gross > Fee + Fee
             THEN [refunds EXCEPT ![i] =
                     Append(@, [reason |-> reason, gross |-> gross])]
             ELSE refunds

\* refunds::enqueue: a refund that the fee would eat is skipped.
EnqueueRefund(i, reason, gross) ==
  refunds' = IF gross > Fee
             THEN [refunds EXCEPT ![i] =
                     Append(@, [reason |-> reason, gross |-> gross])]
             ELSE refunds

\* webhooks::enqueue; of the payload, a snapshot of the invoice, only the event
\* is kept.
EnqueueWebhook(i, event) == events' = [events EXCEPT ![i] = Append(@, event)]
------------------------------------------------------------------------------
(* The tick: the time and the tip are read once; a failing node counts as  *)
(* a tip of 0.                                                             *)
TickStart(t) ==
  /\ pc = "idle"
  /\ \/ t = tip /\ UNCHANGED bounds
     \/ t = 0 /\ Fault("tip")
  /\ chainTip' = t /\ now' = clock
  /\ pc' = "watch"
  /\ UNCHANGED <<db, world, wallet, watch, found, stage, advanced, cur, seen,
                 rows, affected, sweep, call, history>>

\* watch_list: one page of each status, of the newest invoices.
Newer(i) ==
  {k \in DOMAIN created :
     /\ status[created[k]] = status[i]
     /\ \E l \in DOMAIN created : l < k /\ created[l] = i}

Watched_xAll == {i \in Invoices : Exists(i)}

Watched == {i \in Invoices : status[i] \in Unpaid /\ Cardinality(Newer(i)) < WatchLimit}

WatchList ==
  /\ pc = "watch"
  /\ watch' = Watched
  /\ pc' = IF watch' = {} THEN "match" ELSE "fetch"
  /\ UNCHANGED <<db, world, wallet, now, chainTip, found, stage, advanced, cur,
                 seen, rows, affected, sweep, call, history, bounds>>

\* One address.  The explorer lists mempool outputs too, at height 0, and
\* knows nothing of shield addresses.  A failed fetch is logged and skipped.
FetchUtxos(i) ==
  /\ pc = "fetch" /\ i \in watch
  /\ \/ /\ found' = found \cup
             {[output |-> o, height |-> chainHeight[o]] :
                o \in {o \in OutputsOf(i) : Transparent(o) /\ chainHeight[o] # Unseen}}
        /\ polled' = polled \cup {i}
        /\ UNCHANGED bounds
     \/ UNCHANGED <<found, polled>> /\ Fault("fetch")
  /\ watch' = watch \ {i}
  /\ pc' = IF watch' = {} THEN "match" ELSE "fetch"
  /\ UNCHANGED <<db, world, wallet, now, chainTip, stage, advanced, cur, seen,
                 rows, affected, sweep, call, verdict, onTime, lost, applied,
                 cut>>

\* payments::insert, with no confirmations.  An output that is already recorded
\* violates UNIQUE(txid, vout) and is skipped.
Record(d) ==
  /\ pc = "match" /\ d \in found
  /\ found' = found \ {d}
  /\ IF d.output \in recorded
     THEN UNCHANGED <<recorded, height, confs, cur, pc>>
     ELSE /\ recorded' = recorded \cup {d.output}
          /\ height' = [height EXCEPT ![d.output] = d.height]
          /\ confs' = [confs EXCEPT ![d.output] = 0]
          /\ cur' = InvoiceOf[d.output]
          /\ pc' = "applyRead"
  /\ UNCHANGED <<status, timing, refunds, events, world, wallet, now,
                 chainTip, watch, stage, advanced, seen, rows, affected, sweep,
                 call, history, bounds>>

\* The matcher of each channel takes its discoveries one by one; the notes
\* come after the outputs of the explorer.
InsertUtxo(d) == stage = "transparent" /\ Record(d)
InsertNote(d) == stage = "shield" /\ Record(d)

\* apply_payment_to_invoice reads the invoice (and the rows, which only this
\* task writes) ...
ApplyRead ==
  /\ pc = "applyRead"
  /\ seen' = status[cur]
  /\ pc' = "applyWrite"
  /\ UNCHANGED <<db, world, wallet, now, chainTip, watch, found, stage,
                 advanced, cur, rows, affected, sweep, call, history, bounds>>

\* ... and writes the status that follows from what it read.
ApplyWrite ==
  LET next == next_status_on_payment(seen, Due[cur], Paid(cur)) IN
  /\ pc = "applyWrite"
  /\ status' = IF next # seen THEN [status EXCEPT ![cur] = next] ELSE status
  /\ pc' = IF next = "partially_paid" /\ now + PartialReset > expiresAt[cur]
           THEN "applyExpiry" ELSE "match"
  /\ seen' = "none"
  /\ applied' = applied \cup PaidRows(cur)
  /\ UNCHANGED <<timing, recorded, height, confs, refunds, events, world,
                 wallet, now, chainTip, watch, found, stage, advanced, cur,
                 rows, affected, sweep, call, verdict, onTime, lost, polled,
                 cut, bounds>>

ApplyExpiry ==
  /\ pc = "applyExpiry"
  /\ expiresAt' = [expiresAt EXCEPT ![cur] = now + PartialReset]
  /\ pc' = "match"
  /\ UNCHANGED <<status, created, recorded, height, confs, refunds, events,
                 world, wallet, locals, call, history, bounds>>

NewNotes_xSkipsOne ==
  {o \in Outputs : ~Transparent(o) /\ chainHeight[o] > lastBlock + 1}

NewNotes == {o \in Outputs : ~Transparent(o) /\ chainHeight[o] > lastBlock}

\* shield::tick scans the blocks after last_block and moves last_block to the
\* end of the stream; the notes it returns are never returned again.
ShieldTick ==
  /\ pc = "match" /\ found = {} /\ stage = "transparent"
  /\ found' = {[output |-> o, height |-> chainHeight[o]] : o \in NewNotes}
  /\ lastBlock' = IF tip > lastBlock THEN tip ELSE lastBlock
  /\ advanced' = (tip > lastBlock)
  /\ stage' = "shield"
  /\ UNCHANGED <<db, world, savedBlock, pc, now, chainTip, watch, cur, seen,
                 rows, affected, sweep, call, history, bounds>>
------------------------------------------------------------------------------
(* Confirmations.                                                          *)
InFlightRows_xAll == recorded

InFlightRows ==
  {o \in recorded : status[InvoiceOf[o]] \in Unpaid \cup {"confirming"}}

ConfirmsSelect ==
  /\ pc = "match" /\ found = {} /\ stage = "shield"
  /\ rows' = InFlightRows
  /\ pc' = "confirms"
  /\ UNCHANGED <<db, world, wallet, now, chainTip, watch, found, stage,
                 advanced, cur, seen, affected, sweep, call, history, bounds>>

Reevaluated_xChanged(o, depth) == depth # confs[o]

\* The parents of the rows that change, or that are deep enough already, are
\* evaluated once all rows are written.
Reevaluated(o, depth) ==
  \/ depth # confs[o]
  \/ confs[o] > 0 /\ Threshold > 0 /\ depth >= Threshold

ConfirmRow(o) ==
  LET depth == Depth(height[o], chainTip) IN
  /\ pc = "confirms" /\ o \in rows
  /\ rows' = rows \ {o}
  /\ confs' = [confs EXCEPT ![o] = depth]
  /\ affected' = IF Reevaluated(o, depth) THEN affected \cup {InvoiceOf[o]}
                 ELSE affected
  /\ UNCHANGED <<status, timing, recorded, height, refunds, events, world,
                 wallet, pc, now, chainTip, watch, found, stage, advanced, cur,
                 seen, sweep, call, history, bounds>>

\* With a threshold of 0 every confirming invoice with a payment is evaluated.
ConfirmsZeroConf ==
  /\ pc = "confirms" /\ rows = {}
  /\ affected' = IF Threshold = 0
                 THEN affected \cup {i \in Invoices : status[i] = "confirming"
                                                      /\ PaidRows(i) # {}}
                 ELSE affected
  /\ pc' = "evaluate"
  /\ UNCHANGED <<db, world, wallet, now, chainTip, watch, found, stage,
                 advanced, cur, seen, rows, sweep, call, history, bounds>>

ConfirmsEvaluate(i) ==
  LET next == next_status_on_confirmation(status[i], Due[i], ConfirmedPaid(i)) IN
  /\ pc = "evaluate" /\ i \in affected
  /\ affected' = affected \ {i}
  /\ IF status[i] = "confirming" /\ next = "confirmed"
     THEN cur' = i /\ pc' = "confirmWrite"
     ELSE UNCHANGED <<cur, pc>>
  /\ UNCHANGED <<db, world, wallet, now, chainTip, watch, found, stage,
                 advanced, seen, rows, sweep, call, history, bounds>>

ConfirmsWrite ==
  /\ pc = "confirmWrite"
  /\ status' = [status EXCEPT ![cur] = "confirmed"]
  /\ verdict' = [verdict EXCEPT ![cur] = "confirmed"]
  /\ pc' = "confirmRefund"
  /\ UNCHANGED <<timing, recorded, height, confs, refunds, events, world,
                 wallet, locals, call, trail, bounds>>

Excess_xGross(i) == ConfirmedPaid(i)

Excess(i) == ConfirmedPaid(i) - Due[i]

\* maybe_enqueue_overpayment: the excess of the confirmed rows.
ConfirmsRefund ==
  /\ pc = "confirmRefund"
  /\ IF RefundsEnabled /\ Excess(cur) > 0
     THEN EnqueueRefund(cur, "overpayment", Excess(cur))
     ELSE UNCHANGED refunds
  /\ pc' = "confirmWebhook"
  /\ UNCHANGED <<status, timing, recorded, height, confs, events, world,
                 wallet, locals, call, history, bounds>>

ConfirmsWebhook ==
  /\ pc = "confirmWebhook"
  /\ EnqueueWebhook(cur, "confirmed")
  /\ pc' = "evaluate"
  /\ UNCHANGED <<status, timing, recorded, height, confs, refunds, world,
                 wallet, locals, call, history, bounds>>
------------------------------------------------------------------------------
(* The sweeper.  list_expirable filters by status and time; the rows it    *)
(* returns are then expired without another look at the database.          *)
Expirable_xClock(t) ==
  {i \in Invoices : Exists(i) /\ next_status_on_tick(status[i], clock, expiresAt[i])
                                  # status[i]}

\* list_expirable, whose query repeats next_status_on_tick.
Expirable(t) ==
  {i \in Invoices : Exists(i) /\ next_status_on_tick(status[i], t, expiresAt[i])
                                  # status[i]}

SweepSelect ==
  /\ pc = "evaluate" /\ affected = {}
  /\ sweep' = Expirable(now)
  /\ pc' = "sweep"
  /\ UNCHANGED <<db, world, wallet, now, chainTip, watch, found, stage,
                 advanced, cur, seen, rows, affected, call, history, bounds>>

SweepWrite(i) ==
  /\ pc = "sweep" /\ i \in sweep
  /\ sweep' = sweep \ {i}
  /\ status' = [status EXCEPT ![i] = "expired"]
  /\ verdict' = [verdict EXCEPT ![i] = "expired"]
  /\ cur' = i /\ pc' = "sweepRefund"
  /\ UNCHANGED <<timing, recorded, height, confs, refunds, events, world,
                 wallet, now, chainTip, watch, found, stage, advanced, seen,
                 rows, affected, call, trail, bounds>>

\* maybe_enqueue_partial_expired: everything recorded, confirmed or not.
SweepRefund ==
  /\ pc = "sweepRefund"
  /\ IF RefundsEnabled /\ Paid(cur) # 0
     THEN EnqueueRefund(cur, "partial_expired", Paid(cur))
     ELSE UNCHANGED refunds
  /\ pc' = "sweepWebhook"
  /\ UNCHANGED <<status, timing, recorded, height, confs, events, world,
                 wallet, locals, call, history, bounds>>

SweepWebhook ==
  /\ pc = "sweepWebhook"
  /\ EnqueueWebhook(cur, "expired")
  /\ pc' = "sweep"
  /\ UNCHANGED <<status, timing, recorded, height, confs, refunds, world,
                 wallet, locals, call, history, bounds>>

\* The wallet is written only by a tick whose scan advanced.
SaveWallet ==
  /\ pc = "sweep" /\ sweep = {}
  /\ savedBlock' = IF advanced THEN lastBlock ELSE savedBlock
  /\ EndTick
  /\ UNCHANGED <<db, world, lastBlock, call, verdict, onTime, lost, applied,
                 cut, bounds>>
------------------------------------------------------------------------------
(* The API.                                                                *)
Create(i, w) ==
  /\ ~Exists(i)
  /\ status' = [status EXCEPT ![i] = "pending"]
  /\ expiresAt' = [expiresAt EXCEPT ![i] = clock + w]
  /\ created' = Append(created, i)
  /\ UNCHANGED <<recorded, height, confs, refunds, events, world, wallet, sync,
                 call, history, bounds>>

InFlight(h) == call[h] \notin {Idle, Done}

CancelRead(h, i) ==
  /\ call[h] = Idle
  /\ status[i] \in Unpaid
  /\ call' = [call EXCEPT ![h] = [at |-> "write", invoice |-> i]]
  /\ UNCHANGED <<db, world, wallet, sync, history, bounds>>

CancelWrite(h) ==
  /\ call[h].at = "write"
  /\ status' = [status EXCEPT ![call[h].invoice] = "cancelled"]
  /\ call' = [call EXCEPT ![h].at = "webhook"]
  /\ UNCHANGED <<timing, recorded, height, confs, refunds, events, world,
                 wallet, sync, history, bounds>>

CancelWebhook(h) ==
  /\ call[h].at = "webhook"
  /\ EnqueueWebhook(call[h].invoice, "cancelled")
  /\ call' = [call EXCEPT ![h] = Done]
  /\ UNCHANGED <<status, timing, recorded, height, confs, refunds, world,
                 wallet, sync, history, bounds>>
------------------------------------------------------------------------------
(* Failures.  A handler is dropped when its client disconnects or a        *)
(* statement fails; a statement or an RPC that fails ends the tick, and    *)
(* what it did stays done; a crash loses every task and the wallet's memory. *)
CancelAborts(h) ==
  /\ InFlight(h)
  /\ Fault("handler")
  /\ call' = [call EXCEPT ![h] = Done]
  /\ UNCHANGED <<db, world, wallet, sync, history>>

CutsShort == cut' = IF Deciding(cur) THEN cut \cup {cur} ELSE cut

TickAborts ==
  /\ pc # "idle"
  /\ Fault("abort")
  /\ EndTick /\ CutsShort
  /\ lost' = lost \cup {o \in Outputs : ~Transparent(o) /\ \E d \in found : d.output = o}
  /\ UNCHANGED <<db, world, wallet, call, verdict, onTime, applied>>

Crash ==
  /\ Fault("crash")
  /\ EndTick /\ CutsShort
  /\ call' = [h \in Handlers |-> IF InFlight(h) THEN Done ELSE call[h]]
  /\ lastBlock' = savedBlock
  /\ UNCHANGED <<db, world, savedBlock, verdict, onTime, lost, applied>>

\* A clean shutdown lets the tick and the requests finish, then writes the
\* wallet.
Restart ==
  /\ pc = "idle" /\ \A h \in Handlers : ~InFlight(h)
  /\ savedBlock' = lastBlock
  /\ UNCHANGED <<db, world, lastBlock, sync, call, history, bounds>>
------------------------------------------------------------------------------
(* The world.  A customer can pay an address once the invoice exists.  An  *)
(* output is visible to the daemon when the explorer lists it, or, for a   *)
(* note, when the stream has its block: the one that replaces a block that *)
(* was scanned is never asked for.                                         *)
BecomesVisible(S) ==
  onTime' = onTime \cup {o \in S : clock < expiresAt[InvoiceOf[o]]}

Pay(o) ==
  /\ chainHeight[o] = Unseen /\ Exists(InvoiceOf[o])
  /\ chainHeight' = [chainHeight EXCEPT ![o] = 0]
  /\ BecomesVisible({o} \cap {p \in Outputs : Transparent(p)})
  /\ UNCHANGED <<db, tip, clock, wallet, sync, call, verdict, lost, polled,
                 applied, cut, bounds>>

NewBlock(S) ==
  /\ tip < MaxTip
  /\ \A o \in S : chainHeight[o] = 0
  /\ tip' = tip + 1
  /\ chainHeight' = [o \in Outputs |-> IF o \in S THEN tip' ELSE chainHeight[o]]
  /\ BecomesVisible({o \in S : ~Transparent(o) /\ tip' > lastBlock})
  /\ UNCHANGED <<db, clock, wallet, sync, call, verdict, lost, polled,
                 applied, cut, bounds>>

\* The tip is taken back; its transactions return to the mempool, or, for
\* those in S, are replaced by conflicting ones.
Reorg(S) ==
  /\ tip > 1 /\ Fault("reorg")
  /\ \A o \in S : chainHeight[o] = tip
  /\ tip' = tip - 1
  /\ chainHeight' = [o \in Outputs |-> IF o \in S THEN Unseen
                                       ELSE IF chainHeight[o] = tip THEN 0
                                       ELSE chainHeight[o]]
  /\ onTime' = {o \in onTime \ S : Transparent(o) \/ chainHeight[o] # tip}
  /\ UNCHANGED <<db, clock, wallet, sync, call, verdict, lost, polled,
                 applied, cut>>

\* A mempool transaction is dropped or replaced.
Evict(o) ==
  /\ chainHeight[o] = 0 /\ Fault("evict")
  /\ chainHeight' = [chainHeight EXCEPT ![o] = Unseen]
  /\ onTime' = onTime \ {o}
  /\ UNCHANGED <<db, tip, clock, wallet, sync, call, verdict, lost, polled,
                 applied, cut>>

TimePasses ==
  /\ clock < MaxClock
  /\ clock' = clock + 1
  /\ UNCHANGED <<db, chainHeight, tip, wallet, sync, call, history, bounds>>
------------------------------------------------------------------------------
Matching ==
  \/ \E t \in {0, tip} : TickStart(t)
  \/ WatchList
  \/ \E i \in Invoices : FetchUtxos(i)
  \/ \E d \in Discovered : InsertUtxo(d) \/ InsertNote(d)
  \/ ApplyRead \/ ApplyWrite \/ ApplyExpiry
  \/ ShieldTick

Confirming ==
  \/ ConfirmsSelect
  \/ \E o \in Outputs : ConfirmRow(o)
  \/ ConfirmsZeroConf
  \/ \E i \in Invoices : ConfirmsEvaluate(i)
  \/ ConfirmsWrite \/ ConfirmsRefund \/ ConfirmsWebhook

Sweeping ==
  \/ SweepSelect
  \/ \E i \in Invoices : SweepWrite(i)
  \/ SweepRefund \/ SweepWebhook
  \/ SaveWallet

SyncStep == Matching \/ Confirming \/ Sweeping

CancelStep(h) ==
  CancelWrite(h) \/ CancelWebhook(h)

Api ==
  \/ \E i \in Invoices, w \in Windows : Create(i, w)
  \/ \E h \in Handlers : (\E i \in Invoices : CancelRead(h, i)) \/ CancelStep(h)

Interruptions == TickAborts \/ \E h \in Handlers : CancelAborts(h)

Failures == Interruptions \/ Crash \/ Restart

World ==
  \/ \E o \in Outputs : Pay(o) \/ Evict(o)
  \/ \E S \in SUBSET Outputs : NewBlock(S) \/ Reorg(S)
  \/ TimePasses

Next == SyncStep \/ Api \/ Failures \/ World

Spec == Init /\ [][Next]_vars
------------------------------------------------------------------------------
(* The sync task is always scheduled, a request that was accepted is       *)
(* served, blocks keep coming and time passes.  Nothing is assumed of the  *)
(* merchant, of the customers, or of what a block contains.                *)
Fairness ==
  /\ WF_vars(SyncStep)
  /\ \A h \in Handlers : WF_vars(CancelStep(h))
  /\ WF_vars(\E S \in SUBSET Outputs : NewBlock(S))
  /\ WF_vars(TimePasses)

FairSpec == Spec /\ Fairness
------------------------------------------------------------------------------
Calls == {Idle, Done} \cup [at : {"write", "webhook"}, invoice : Invoices]
Refunds == [reason : {"overpayment", "partial_expired"}, gross : Nat]
Events == {"confirmed", "expired", "cancelled"}

\* The types of the state.
TypeOK ==
  /\ status \in [Invoices -> InvoiceStatuses \cup {"none"}]
  /\ expiresAt \in [Invoices -> Nat] /\ created \in Seq(Invoices)
  /\ recorded \subseteq Outputs
  /\ height \in [Outputs -> Heights]
  /\ confs \in [Outputs -> Nat]
  /\ refunds \in [Invoices -> Seq(Refunds)]
  /\ events \in [Invoices -> Seq(Events)]
  /\ chainHeight \in [Outputs -> Heights \cup {Unseen}]
  /\ tip \in 1..MaxTip /\ clock \in 0..MaxClock
  /\ lastBlock \in 1..MaxTip /\ savedBlock \in 1..MaxTip
  /\ pc \in {"idle", "watch", "fetch", "match", "applyRead", "applyWrite",
             "applyExpiry", "confirms", "evaluate", "confirmWrite",
             "confirmRefund", "confirmWebhook", "sweep", "sweepRefund",
             "sweepWebhook"}
  /\ now \in 0..MaxClock /\ chainTip \in Heights
  /\ watch \subseteq Invoices /\ found \subseteq Discovered
  /\ stage \in {"transparent", "shield"} /\ advanced \in BOOLEAN
  /\ cur \in Invoices /\ seen \in InvoiceStatuses \cup {"none"}
  /\ rows \subseteq Outputs /\ affected \subseteq Invoices
  /\ sweep \subseteq Invoices
  /\ call \in [Handlers -> Calls]
  /\ verdict \in [Invoices -> {"open", "confirmed", "expired"}]
  /\ onTime \subseteq Outputs /\ lost \subseteq Outputs /\ applied \subseteq Outputs
  /\ polled \subseteq Invoices /\ cut \subseteq Invoices
  /\ faults \in 0..MaxFaults /\ reorgs \in 0..faults

\* An invoice gets at most one refund row, of the kind its outcome calls for:
\* the merchant never both keeps the sale and gives all the money back, nor
\* pays twice, however ticks, cancels, aborts and crashes interleave
\* (src/matcher/confirms.rs, src/matcher/sweeper.rs).
OneRefund ==
  \A i \in Invoices :
    refunds[i] # <<>> =>
      /\ Len(refunds[i]) = 1
      /\ \/ verdict[i] = "confirmed" /\ refunds[i][1].reason = "overpayment"
         \/ verdict[i] = "expired" /\ refunds[i][1].reason = "partial_expired"

\* The merchant hears one outcome of an invoice, and hears it once: of the
\* confirmed and expired webhooks of an invoice there is at most one row.
Announcements(i) ==
  {k \in DOMAIN events[i] : events[i][k] # "cancelled"}
OneAnnouncement ==
  \A i \in Invoices : \A k \in Announcements(i) :
    /\ events[i][k] = verdict[i]
    /\ \A l \in Announcements(i) : l = k

\* Why both hold: an invoice without a terminal status was never decided, and
\* what the sync task is about to write from an earlier look at the database
\* (the status it applies, confirms or sweeps) still concerns an invoice that
\* was not decided, whatever a handler wrote in between.
UndecidedIsClean ==
  \A i \in Invoices :
    /\ status[i] \notin Terminal => verdict[i] = "open"
    /\ verdict[i] = "open" => refunds[i] = <<>> /\ Announcements(i) = {}
StaleWritesAreSafe ==
  /\ pc = "applyWrite" /\ seen \notin Terminal => verdict[cur] = "open"
  /\ pc = "confirmWrite" => verdict[cur] = "open"
  /\ \A i \in sweep : verdict[i] = "open"
  /\ pc \notin {"sweep", "sweepRefund", "sweepWebhook"} => sweep = {}
DecidingIsOrdered ==
  /\ pc \in {"confirmRefund", "confirmWebhook"} => verdict[cur] = "confirmed"
  /\ pc \in {"sweepRefund", "sweepWebhook"} => verdict[cur] = "expired"
  /\ pc \in {"confirmRefund", "sweepRefund"} => refunds[cur] = <<>>
  /\ Deciding(cur) => Announcements(cur) = {}
DecidedOnce ==
  /\ UndecidedIsClean /\ StaleWritesAreSafe /\ DecidingIsOrdered
  /\ OneRefund /\ OneAnnouncement

\* Goods are released only against payment: an invoice the sync loop decided
\* to confirm has rows at the threshold for all of its price, then and ever
\* after, whatever a late cancel, a reorg or a crash does to it.
ConfirmedIsCovered ==
  \A i \in Invoices : verdict[i] = "confirmed" => ConfirmedPaid(i) >= Due[i]

\* The same of the chain itself, while nothing is taken back: at the threshold
\* on chain, not only in the table.
OnChain(i, depth) ==
  {o \in OutputsOf(i) :
     \/ depth = 0 /\ chainHeight[o] # Unseen
     \/ chainHeight[o] \in 1..tip /\ tip - chainHeight[o] + 1 >= depth}
ConfirmedIsOnChain ==
  \A i \in Invoices :
    verdict[i] = "confirmed" /\ reorgs = 0 => Total[OnChain(i, Threshold)] >= Due[i]

\* A refund row never promises more than the customer sent, less the price
\* when the goods were released (src/refunds/mod.rs), while nothing is taken
\* back.
RefundsAreBacked ==
  reorgs = 0 => \A i \in Invoices : \A k \in DOMAIN refunds[i] :
    refunds[i][k].gross + (IF verdict[i] = "confirmed" THEN Due[i] ELSE 0)
      <= Total[OnChain(i, 0)]

\* The sync loop decides an invoice once.
VerdictIsFinal ==
  [][\A i \in Invoices : verdict[i] # "open" => verdict'[i] = verdict[i]]_vars

\* An invoice expires only after the window the customer was last shown, and
\* never once the loop has taken it to Confirming (src/invoice.rs,
\* next_status_on_tick).
Expires(i) == verdict[i] = "open" /\ verdict'[i] = "expired"
ExpiresOnlyWhenDue ==
  [][\A i \in Invoices : Expires(i) => /\ clock >= expiresAt[i]
                                       /\ status[i] # "confirming"]_vars

\* "Once the customer has paid the full amount, they're entitled to the goods"
\* (src/invoice.rs, next_status_on_tick): an invoice whose rows cover its
\* price does not expire, whatever fails, if these rows were ever applied: a
\* tick that ends between the insertion of a row and its application leaves
\* the row out until another one arrives (src/matcher/transparent.rs, apply).
PaidInFullNeverExpires ==
  [][\A i \in Invoices :
       Expires(i) => Total[applied \cap OutputsOf(i)] < Due[i]]_vars

\* A payment the daemon could see before the invoice expired is in the table
\* when it expires, so it counts for the status and for the refund: the tick
\* reads the time before it looks for payments (src/sync/mod.rs, run_tick).
\* This is so unless the very tick that expires it could not fetch its address,
\* or left it out of its page, or a tick that failed dropped the note.
OnTimePaymentsAreCounted ==
  [][\A i \in Invoices :
       Expires(i) /\ i \in polled \cup ShieldInvoices =>
         (onTime \ lost) \cap OutputsOf(i) \subseteq recorded]_vars

\* The wallet file never runs ahead of the payments table, so that a restart
\* from it scans every note again that has no row yet (src/sync/mod.rs,
\* run_tick: the wallet is saved last).  What is left out is what a tick had
\* found when it failed, and the note of a block that was replaced: the scan
\* never goes back.
SavedNotesAreRecorded ==
  reorgs = 0 => \A o \in Outputs :
    ~Transparent(o) /\ chainHeight[o] \in 2..savedBlock => o \in recorded \cup lost

\* When the loop is done with an invoice, the webhook of its outcome is queued
\* and the money is on its way back: what was found in time for an invoice that
\* expired, the excess of one that was confirmed.  Only a failure between the
\* decision and its consequences leaves them out.  Notes are recorded of a
\* decided invoice too (src/matcher/shield.rs), and are kept: with a threshold
\* of 0 they count as confirmed at once.
OwedBack(i) ==
  IF verdict[i] = "expired" THEN Total[(onTime \ lost) \cap PaidRows(i)]
  ELSE ConfirmedPaid(i) - Due[i]
CountsLateNotes(i) ==
  verdict[i] = "confirmed" /\ i \in ShieldInvoices /\ Threshold = 0
RefundIsCompleted(i) ==
  RefundsEnabled /\ OwedBack(i) > Fee /\ ~CountsLateNotes(i) =>
    refunds[i] # <<>> /\ refunds[i][1].gross >= OwedBack(i)
OutcomeIsCompleted ==
  \A i \in Invoices :
    verdict[i] # "open" /\ ~Deciding(i) /\ i \notin cut =>
      Announcements(i) # {} /\ RefundIsCompleted(i)

\* "Terminal states never transition again" (src/invoice.rs, is_terminal).
TerminalIsFinal ==
  [][\A i \in Invoices : status[i] \in Terminal => status'[i] = status[i]]_vars

\* Every invoice leaves the unpaid statuses: it is paid, cancelled or expires,
\* unless its window was moved beyond the bound of the clock.
UnpaidIsSettled ==
  \A i \in Invoices :
    status[i] \in Unpaid ~> status[i] \notin Unpaid \/ expiresAt[i] > MaxClock

\* A covered invoice whose payments were recorded from blocks, deep enough
\* below the bound of the chain, is confirmed, or was cancelled.
Deepest == MaxTip + 1 - Threshold
ConfirmingIsConfirmed ==
  \A i \in Invoices :
    /\ status[i] = "confirming"
    /\ \A o \in PaidRows(i) : height[o] \in 1..Deepest
    ~> status[i] # "confirming"

\* The same of the chain: payments that were seen in the mempool and then got
\* into blocks confirm the invoice too (src/storage/payments.rs,
\* update_block_height).
MinedIsConfirmed ==
  \A i \in Invoices :
    /\ status[i] = "confirming"
    /\ \A o \in PaidRows(i) : chainHeight[o] \in 1..Deepest
    ~> status[i] # "confirming"

\* Whatever races with it, the sync loop keeps its promise of one outcome.
Outcome == INSTANCE InvoiceOutcome WITH
  refund <- [i \in Invoices |->
               IF refunds[i] = <<>> THEN "none" ELSE refunds[i][1].reason],
  announced <- [i \in Invoices |-> Announcements(i) # {}]
KeepsOutcome == Outcome!Spec

\* Without a racing cancel, the statuses follow the documented lifecycle.
Lifecycle == INSTANCE InvoiceLifecycle
FollowsLifecycle == Lifecycle!Spec
==============================================================================
