# pivx-merchant-kit in TLA+

A verification project for the payment daemon in `src/`: TLA+ modules of the parts
where the order of steps decides whether money and goods match, TLC runs that check
them on small instances, and TLAPS proofs of the central properties for all values of
the constants. Paths below are relative to `src/src/` unless they start with `README`
or `migrations/`, which are in `src/`.

1. [The system](#1-the-system)
2. [The modules](#2-the-modules)
3. [The runs](#3-the-runs)
4. [Where the code departs from what it says](#4-where-the-code-departs-from-what-it-says)
5. [The proofs](#5-the-proofs)
6. [What is not modelled](#6-what-is-not-modelled)

## 1. The system

One process, one SQLite database in WAL mode, one encrypted wallet file. `cli.rs:
run_daemon` loads the wallet, opens the database and spawns four tasks that run until
a signal: the sync loop, the webhook worker, the refund worker, and the HTTP API with
a task per request. They share the database (every statement commits by itself; there
are no explicit transactions) and the wallet behind a tokio mutex. Outside are an
explorer (transparent outputs), a PIVX node (tip, shield block stream, sending), the
merchant's server (webhooks) and the customers.

| Part | State | Operations | What makes it correct |
|---|---|---|---|
| Invoice state machine (`invoice.rs`) | none, it is pure | next status on a payment, a confirmation, a tick | never goes back; terminal is terminal; Confirming does not expire |
| Sync loop (`sync/mod.rs`) | time and tip of the tick | the stages below, in order; errors end the tick, not the loop | each stage may be the last one of its tick |
| Payment discovery (`sync/transparent.rs`, `sync/shield.rs`) | wallet: last block, tree, notes | poll the watch list; scan blocks in chunks | what is visible in time is found; a note is not lost |
| Matcher (`matcher/mod.rs`, `transparent.rs`, `shield.rs`) | rows of `payments` | insert, apply to the invoice, move the expiry | a row is applied |
| Confirmation tracker (`matcher/confirms.rs`) | `payments.confirmations` | depth of each row, confirm, refund the excess, announce | goods only when covered at the threshold |
| Sweeper (`matcher/sweeper.rs`) | `invoices.status` | expire, refund what was paid, announce | only when due, never what is paid in full |
| Refund policy and worker (`refunds/`) | rows of `refunds` | enqueue; refine the fee, sign, send, mark | paid, once, the gross amount |
| Webhook queue and worker (`webhooks/`) | rows of `webhook_deliveries` | enqueue; post, mark, back off, dead-letter | delivered at least once or dead; bounded attempts |
| Invoice API (`api/invoices.rs`) | rows of `invoices` | create (idempotent by external_id), cancel, get, list | one invoice per id; no cancel of what is paid |
| Refund API (`api/refunds.rs`) | rows of `refunds` | list, get, mark broadcast by hand | a recorded txid stays |
| Address derivation (`wallet/derive.rs`, `storage/hd_cursor.rs`) | `hd_cursor` | claim an index, derive, skip invalid diversifiers | no address twice |
| Wallet file (`wallet/mod.rs`) | the file | load; replace atomically | never torn, never ahead of the payments table |
| Commands (`cli.rs`: `init`, `import`, `run`) | wallet file, database, parameter cache | create, import, load, open, fetch, serve | what is in use can be restored from paper; no address twice |
| Start and shutdown (`cli.rs`) | the tasks | spawn, bind, signal, join, last save | stops, and stops with everything saved |
| Prover loading (`prover.rs`) | two cached files | load or download, cache, verify | a half-filled cache is filled again |
| Configuration, unlock key (`config.rs`, `wallet/unlock.rs`) | none | validate; read the passphrase | a wrong start changes nothing |
| Routing, authentication, errors, RPC clients (`api/mod.rs`, `sync/http.rs`, ...) | none | | pure or I/O |

How they interact: discovery hands lists of outputs and notes to the matcher inside a
tick; the matcher, the tracker, the sweeper and the cancel handler all write
`invoices.status` without looking at its current value; the tracker and the sweeper add
rows to `refunds` and `webhook_deliveries`, which the two workers poll; the operator's
endpoint writes the same refund rows as the worker; create, the shield scan and the
refund worker queue for the wallet's mutex.

What is hard, and hard to test, is in the order of these steps: a handler between two
statements of the sync loop; a tick that ends half-way because one statement or one RPC
fails; a crash between sending and recording; a chain that takes blocks back; a scan
that fails in its second chunk; a signal at a moment when nobody listens. PROJECT.json
lists each hazard at its line, with the properties that cover it or why none does.

## 2. The modules

    InvoiceStatus        the pure transition functions
      |-- InvoiceLifecycle   abstract: the lifecycle that the comments promise
      `-- Settlement         the sync loop against API, chain, clock, failures
            |-- refines InvoiceOutcome     abstract: one decision, refund, announcement
            |-- refines InvoiceLifecycle   when no cancel races
            |-- MCSettlement               instances
            |-- SettlementProofs          and SettlementChainProofs
            `-- EndToEnd                   composed with RefundWorker
                  |-- MCEndToEnd
                  `-- EndToEndProofs       on SettlementChainProofs, RefundWorkerProofs
    InvoiceCreation      create, cursor and mutex
      |-- MCInvoiceCreation
      `-- InvoiceCreationProofs
    RefundWorker         worker, operator, node
      |-- MCRefundWorker
      `-- RefundWorkerProofs
    WebhookDelivery      worker and server, refines Outbox
      `-- WebhookDeliveryProofs
    Daemon               tasks, mutex, scan, file, signal
      `-- DaemonProofs
    Provisioning         init, import, run, and the files they share
      |-- MCProvisioning
      `-- ProvisioningProofs

The modules meet at rows: `Settlement` appends to `refunds` and `events`, and those
rows are what `RefundWorker!EnqueueRefund` and `WebhookDelivery!Enqueue` start from;
`Settlement!Create` is the last step of `InvoiceCreation`; a tick of `Daemon` is
its use of the wallet, whose contents `Settlement` models; `Provisioning` starts and
kills what `Daemon` calls a process. `EndToEnd` is the composition that matters for money:
the loop and the worker over one database, one chain and one process.

An operator with `_x` in its name is a mutated form of the operator after it: a
plausible bug (a dropped guard, an off-by-one, a swapped order) which the property
listed with it in PROJECT.json must catch. Nothing else refers to them.

**Settlement.** One action per SQL statement of the sync loop, together with the reads
that only the sync task's own writes could change. `pc` is where `run_tick` is:
`watch` and `fetch` (`sync/transparent.rs`), `match`, `applyRead`, `applyWrite`,
`applyExpiry` (`matcher/`), `confirms`, `evaluate`, `confirmWrite`, `confirmRefund`,
`confirmWebhook` (`matcher/confirms.rs`), `sweep`, `sweepRefund`, `sweepWebhook`
(`matcher/sweeper.rs`). `seen`, `rows`, `affected` and `sweep` are the copies of the
database that the code goes on working with after other tasks may have written; that
is what the cancel handlers (`call`) race with. `chainHeight` and `tip` are the real
chain, `height` and `confs` what the table says of it. `verdict` and `onTime` are
history variables: what the sync loop decided of an invoice, and which outputs the
daemon could have seen before their invoice expired. So are `applied` (rows that were
counted once), `polled` (addresses fetched in this tick) and `cut` (invoices whose
decision a failure separated from its consequences): the properties use them to say
exactly which failure excuses what. The watch list is a page of `WatchLimit` rows per
status (1000 in the code), newest first. A block may be taken back (`Reorg`), with or without
its outputs returning later, and a mempool output may be evicted (`Evict`). Amounts are abstracted to a
function from sets of rows to their sum (`Total`), of which the proofs use that it is
monotone. One simplification: the two queries of the watch
list (pending, partially paid) are one read. Of a webhook's payload, a snapshot of the
invoice, only the event is kept. The refund
address, which the API requires when refunds are enabled, is part of `RefundsEnabled`.

**InvoiceCreation.** A request looks its `external_id` up, waits for the mutex, claims
an index with one UPDATE, derives (a shield index may be skipped, `UsedIndex`), advances
the cursor past the index used, releases the mutex and inserts under the UNIQUE
constraints on `external_id` and `address`. The model's rows are named by the request
that inserted them. Requests can be dropped and the daemon can crash at each step.

**RefundWorker.** A tick reads a page of rows, keeps the pending ones and works through
these copies: fetch inputs, refine fee and amount, build and send, mark. Between
any two of them the operator may mark the row, the explorer's view (`listed`) may lag
behind the unspent coins, an answer may be lost, the daemon may crash. `payouts` is
what the network accepted, with the amount sent, the fee paid and the number of inputs. A row keeps the
worker's estimate (`ExactFee`); the transaction pays what its builder computes from the inputs
(`BuilderFee`). The two differ for a shield refund, which is estimated as one spend
(`refunds/worker.rs:268`) and for which the builder takes as many notes as it likes.

**EndToEnd.** `Settlement` extended by an instance of `RefundWorker` whose rows are the
invoices. The loop's enqueueing step is the worker's; an output that a customer sends is a
coin of the invoice's address (`CoinOf`); the change of a refund is an output of the same address
(`ChangeOf`), which the loop would record if it polled there. A crash hits both, a clean restart
waits for both, and each counts its own failures, because the bound on second payments depends on
the worker's only. A reorg takes back only what no refund has spent. Every invoice is transparent.
Change that is no output of `ChangeOf` any more, when a refund was paid more often than the model
has outputs for, stays a coin that the loop does not see.

**WebhookDelivery.** Times are relative: `wait` counts down to `next_attempt_at`, which
may be overdue by up to `MaxOverdue`. The server may take an event and its answer may
still be lost or late; without an HTTP client no request is made and no attempt is counted.

**Daemon.** The tick of each worker, its pause (`asleep`), the mutex (`holder`), the scan
chunk by chunk, the file, and `run_daemon` (`main`). The wallet is its last block and
the sequence of blocks appended to the commitment tree, so that a block that is missing
or appended twice shows. `torn` is a history variable: a scan failed after some chunk of
it had been merged. The stream is capped (`StreamCap` blocks for the 256 MiB of
`sync/http.rs`): above the cap no tick ever ends well. The address is bound while the
workers are at work, and if it cannot be, the process ends where they are.

**Provisioning.** Two processes, the `cli` (`init`, `init --force`, `import`) and the
`daemon`, over four files: the wallet, the temporary file that every saver shares, the
database (its cursor) and the two cached parameter files. A save is a write and a rename.
Processes are killed between any two steps; the wallet file or the whole host is lost; mirrors
fail or serve other bytes. `known` are the seeds whose words the operator has on paper,
`unshown` those of an `init` that was killed before it printed them, and `overlapped` says that
a command saved a wallet while the daemon was up. The configuration is a constant: a
wrong one ends a command before it changes anything. `key` is the passphrase of each wallet: `init` and
`run` read theirs in the same way (`Unlock`), `import` takes what the environment has
(`EnvPassphrases`), and a wallet under another one than `run` is given is never opened.

## 3. The runs

Twelve runs; the first eight pass, the last four are expected violations (section 4).

| Run | Question | Bounds |
|---|---|---|
| `settlement_race` | Does the sync loop decide, refund and announce once, on payments that are there, when a cancel races and something fails? | 1 invoice of price 4, outputs of 2 and 4, threshold 1, 1 cancel request, tip 2, clock 2, 1 fault of any kind |
| `settlement_live` | Are notes found again after a crash, do statuses follow the lifecycle, do invoices reach an end? | 1 transparent and 1 shield invoice, 1 output each, page of 1, 1 crash, fair |
| `end_to_end` | Who ends up with the money? Does the loop still keep its outcomes? | 1 invoice of price 4, payments of 3 and 7 and a change, page of 1, tip 2, clock 1; 1 failure of the process, the chain or the worker |
| `creation` | No address twice, one invoice per id, every request ends? | 3 shield requests, two of them with one id, and a transparent one; indices 0..4 of which diversifiers 0 and 2 are skipped; 2 drops or crashes |
| `refunds` | Is a refund paid once, with its gross amount, and in the end? | 1 transparent and 1 shield refund, 3 coins and 1 late one, 1 operator, page 2, 2 faults of any kind |
| `webhooks` | Are requests bounded, is each row settled, are the rows an outbox? | 2 deliveries, page 1, 2 attempts, 2 faults |
| `daemon` | Is the wallet whole for whoever sees, saves or loads it? Does the scan catch up? | tip 4, chunks of 2, a cap of 3 blocks, 3 faults of any kind, all four tasks |
| `provisioning` | Can what is in use be restored, is no address issued twice, does the daemon come up again? | 2 seeds, 2 passphrases, 2 addresses, 2 faults of any kind, one command at a time beside the daemon |

Why the bounds are enough to be interesting. Outputs of 2 and 4 against a price of 4
give every class of sum: nothing, partial (2), exact (4), over (6), and an excess that
is more than the fee; two outputs of one invoice can be in different stages of the same tick, which
is the smallest case in which the evaluation of an invoice depends on more than the row
that changed. A clock of 2 with a window of 1 has ticks before, at and after expiry, and one
extension by a partial payment. A tip of 2 has outputs in the mempool, in a block, and in
a block below the tip. One fault between any two statements of a tick is every partial
tick; two faults are a failure while recovering from another. In `end_to_end` a payment of 3
is partial, of 7 an excess of 3, and both together one that can be refunded from either
output; a failure is a payment that is repeated, or a decision that is cut short, or both when the
process crashes. (The theorems of section 5 have no such bounds.) Its states are counted without
`trail` (the `VIEW` of its cfg), history that no guard and none of its properties reads.
Three shield requests have a duplicate id and a third that claims after either, over a gap that was
skipped; the transparent one shows that the two cursors are apart. A page of one with two
deliveries or two invoices has a row that waits while the other is served. Chunks of 2, a cap of
3 and a tip of 4 have a scan of one chunk, of two, one that fails between them, and a process
that restarts from a file too old to catch up. Two seeds are a wallet and the one that replaces it.

CHECK_DEADLOCK is on in every run but `provisioning`: some step of the sync loop, a worker or the
world is always possible. (A loop that ticks is never deadlocked; where one could be
stuck behind another, the liveness properties say so.) In `provisioning` an operator who has no
words left to import, no seed left to draw and a wallet that is gone can do nothing more.

### Fairness

- `Settlement`: weak fairness of the sync loop (a tokio task that always has a next
  step), of a request that was accepted, of time, and of new blocks. None of
  creating, cancelling or paying, none of what a block contains, none of restarts. A
  fault is never fair and there is a bounded number of them: the properties speak about
  an invoice after the failures have stopped.
- `InvoiceCreation`: weak fairness per request and of the sync loop's release, and strong fairness of
  taking the mutex, because tokio's mutex is granted in the order of requests.
- `RefundWorker`, `WebhookDelivery`: weak fairness of the worker, of the explorer's
  index reaching the tip, and of time. The merchant's server may refuse for ever; the
  operator may do nothing.
- `Daemon`: weak fairness of binding, of ticks ending, of the tasks that are woken returning and of new
  blocks; strong fairness of the sync loop's steps, again for the mutex. No one has to
  send a signal, and no one has to start a stopped daemon again.
- `Provisioning`: weak fairness of the steps of a start (a supervisor starts the daemon
  again and again) and of a save that has begun. Nobody has to run a command.
- `EndToEnd` has no liveness: its parts have theirs.

### The properties

Each is defined, with the behaviour of the code it is about, at the end of its module.
The central ones:

- `DecidedOnce`: one outcome per invoice, one refund, one announcement; what the sync loop is
  about to write from a stale read never concerns a decided invoice. `KeepsOutcome`: the
  refinement of `InvoiceOutcome`, refund before announcement, both of the kind decided.
- `ConfirmedIsCovered` and `ConfirmedIsOnChain`: goods only against rows, and against the
  chain, at the threshold. `RefundsAreBacked`, `OutcomeIsCompleted`: what is promised was
  received, and what is owed is promised.
- `PaidInFullNeverExpires`, `OnTimePaymentsAreCounted` (the reason that `run_tick` reads the time
  before it polls), `SavedNotesAreRecorded` (the reason that the wallet is saved last).
- `ChangeIsNoPayment`, `PriceIsKept`, `NeverBoth`: the loop and the worker together never take
  the merchant's own change for a payment, never refund out of the price of what was sold,
  and never pay back more than came in.
- `PaidOncePerFault`, `GrossIsKept`, `RowsTellTheTruth`: a second payment needs a failure,
  retries do not erode what a customer is owed, and the refund rows agree with the network.
  `GrossIsKept` says who bears the fee: the customer that of the inputs at the address, or of one note;
  the merchant that of a shield refund's further notes.
- `RequestsAreBounded`, `KeepsOutbox`, `EveryRowIsSettled`: the webhook queue.
- `AddressesAreDistinct`, `IssuedOnce`: no address twice, among concurrent requests and
  across losses of files. `SeedsAreKnown`, `ReplacedOnPurpose`: no wallet in use that nobody
  can restore, and none that is replaced by accident.
- `WholeWhenUsed`, `CatchesUp`, `ComesUpAgain`, `ProverComesUp`; and `ProgressStays`: no save takes
  the wallet file back, because nobody scans while the last one is made or after it, so that a
  daemon which was stopped goes on where it was, and begins at an earlier block only after a failure.

Where a failure is known to break a promise, the property says which, in terms of a history
variable, and holds of everything else: `i \notin cut`, `applied`, `polled`, `reorgs = 0`,
`~torn`, `overlapped`, `key["wallet"]`. Section 4 lists what is behind each of these exceptions.

## 4. Where the code departs from what it says

Four runs, each a short counterexample:

- `terminal_reopens`: cancel checks a status it has read and writes `Cancelled`
  unconditionally (`api/invoices.rs:137-144`), and the sync loop's writes are unconditional
  too. A confirmed or expired invoice becomes Cancelled, or a cancelled one Confirming
  and then Confirmed, against "Terminal states never transition again"
  (`invoice.rs:64`). The sync loop's own decisions stay unique all the same (`DecidedOnce`).
- `mempool_first`: a payment seen first in the mempool keeps height 0, because a known
  output is skipped (`matcher/transparent.rs:51`) and `update_block_height` has no
  caller; with a threshold of 1 or more its invoice stays Confirming for ever.
- `refund_overwritten`: the operator's endpoint and the worker both write a refund row
  they read earlier (`api/refunds.rs:105`, `refunds/worker.rs:69`), so a recorded txid can
  be replaced and a refund paid by hand can be paid again.
- `signal_missed`: `notify_waiters` (`cli.rs:302`) wakes only tasks that wait; a worker
  inside a tick misses the signal and `run_daemon` waits for it for ever.

What the exceptions in the properties stand for:

- `applied` in `PaidInFullNeverExpires`: a tick that ends between inserting a payment and
  applying it (`matcher/transparent.rs:51`) is not repaired, because a known row is skipped; the
  invoice expires though its rows cover the price, unless another payment comes.
- `cut` in `OutcomeIsCompleted`: the terminal status is written before the refund and the
  webhook, and nothing makes up for them (`matcher/confirms.rs:132`, `matcher/sweeper.rs:25`).
- `polled` in `OnTimePaymentsAreCounted`: a fetch that fails, or a page that is full, in the very
  tick that expires the invoice loses what it would have found (`sync/transparent.rs:76`, 106).
- `reorgs = 0` in `ConfirmedIsOnChain` and `RefundsAreBacked`: the depth is computed from the
  height at insertion, so a transaction that a reorg dropped goes on counting when the tip
  is back ("Reorg safety", `matcher/confirms.rs:15-17`). In `SavedNotesAreRecorded`: `last_block`
  never goes back, so the note of a block that replaces a scanned one is not found.
- `lost` in `SavedNotesAreRecorded`, `OnTimePaymentsAreCounted` and `OutcomeIsCompleted`: the scan advances in
  memory before its notes are in the table; a tick that fails in between (`sync/shield.rs:115`)
  drops them, and a later tick saves the wallet past them. `lost` is exactly what such a tick held. The run of
  `SavedNotesAreRecorded` has no such tick (its state space with one takes too long); the proof has.
- `CountsLateNotes` in `OutcomeIsCompleted`: with `shield_confirmations = 0` a note counts as soon as it
  is recorded, also when its invoice is confirmed already, and nothing refunds what it adds.
- `~torn` in `WholeWhenUsed`: an error in the second chunk of a scan leaves the blocks of the
  first in the tree while `last_block` stays (`sync/shield.rs:90`); the next scan appends them again.
- `~Streamable` in `CatchesUp`: a wallet that is too far behind asks for a stream above the cap
  in every tick and never gets one (`sync/http.rs:25`).
- `overlapped`: every saver uses the same `wallet.tmp` (`wallet/mod.rs:107-121`), so a daemon and an
  `init --force` at the same time may rename each other's file, or a half-written one ("never a
  truncated one"); and the daemon's next save puts the old wallet back over the forced one.
- `unshown` in `SeedsAreKnown`: the wallet is saved before its words are printed (`cli.rs:144`).
- `bad` in `ProverComesUp`: bytes are cached before they are verified (`prover.rs:66-77`) and read
  from the cache ever after; "Restart the daemon to retry" (`cli.rs:261`) does not help.
- `key["wallet"] = Unlock` in `ComesUpAgain`: `import` does not compare its passphrase with anything
  (`cli.rs:190-205`); a wallet that was imported under another one than the daemon is given never starts.
- The bound of `PaidOncePerFault` is reached: after a lost answer to `sendrawtransaction`
  or a crash before the row is marked, a shield refund is paid once more.

Three constants of the runs, changed by one line, break `PendingIsSettled`: `PageSize = 1` in `refunds`
(the page is of rows of every status, so older pending rows can be hidden for
good by younger ones, `refunds/worker.rs:62`; the real page is 100), `HasProver = FALSE` (shield
refunds stay manual, as `sync/mod.rs:46` says), and a pool of two notes of 2 instead of 4 and 9
(`MCRefundWorker`): they are worth the gross amount, but not with the fee of the second note, so the
builder refuses the transaction in every tick and the refund stays pending until the pool changes.

Met while reading, and not run:

- A shield refund that spends more than one note costs the merchant the fee of the others on top of the gross
  amount, and `fee_sat` of its row is less than the fee paid: the estimate is of one spend
  (`refunds/worker.rs:268`), while the builder "computes its own fee" (line 308). `refunds/queue.rs`
  says that refining "keeps the persisted row truthful".
- "daemon stopped cleanly" is logged, and `Ok` returned, also after a last save that failed
  (`cli.rs:315-322`); what was scanned since the save before is scanned again.
- A partial payment only moves the expiry later (`matcher/mod.rs:75`); `config.rs:76-78`
  says "Reset (not extend)".
- A note for a terminal invoice is recorded (`matcher/shield.rs:71-90`); `matcher/shield.rs:4-6`
  says notes without an open invoice are skipped.
- Excess below the threshold when the invoice confirms, or later, is never refunded
  (`refunds/mod.rs:119`; lines 8-9 say the excess goes back). A cancelled invoice with a
  partial payment gets no refund (README.md:27 names auto-refund on cancellation).
- Of two concurrent requests with one `external_id`, the second is answered with an error of the
  database (README.md:96 says the existing invoice is returned).
- An explorer fetch that fails in the tick that expires an invoice loses the payments the
  fetch would have found (`sync/transparent.rs:76`).
- A tick whose tip read fails counts with a tip of 0 and takes the confirmation counts of
  open invoices to 0 until the next (`sync/mod.rs:117`).
- `last_block` never goes back, so a note that a reorg moves to a block already scanned
  is found only if it was found before.
- The change of a shield refund goes to the wallet's default address (`refunds/worker.rs:222-224`),
  which is the address of the first shield invoice if it took index 0; `matcher/shield.rs:33-35` says change
  matches no invoice.
- The unlock key never comes from the environment: what is not a terminal counts as a pipe and is
  read to its end (`wallet/unlock.rs:55-89`), against "fallback" (lines 3-9).
- `default_expiry_secs` above seven days passes the validation ("every footgun belongs here",
  `config.rs:152-154`), and then every create without `expires_in_secs` is rejected (`api/invoices.rs:52`).
- `poll_interval_secs` does not change the tick of the refund worker (INTEGRATION.md:370).
- The words of a wallet imported on a new host meet a fresh database, whose cursor starts at 0:
  addresses are issued again (`IssuedOnce` is per database). `init --force` leaves the invoices of the old
  wallet in the database.
- The status column of refunds is documented as "pending | broadcast | confirmed |
  failed" (`migrations/0001_initial.sql`); the code writes `dead` and never the last two.

## 5. The proofs

All proofs are checked by tlapm with Z3, Zenon and LS4, from the named assumptions of the
modules only: the constants have their types, the fee and the thresholds are natural
numbers, prices are positive, `Total` is monotone and 0 of no rows (`SumAssumption`), a diversifier
search never goes down (`IndexAssumption`), the initial and late coins are finitely many and apart
(`CoinsAssumption`), and `"none"` and `"torn"` are no seeds. `EndToEnd` says besides how the two
views of an amount fit: an output is a coin of its own, of positive value, at the address of its invoice, and
`Total` of a set of payments is the sum of their coins (`PaymentsAssumption`, `ChangeAssumption`). Bounds such as `MaxTip` or
`MaxFaults` are arbitrary natural numbers.

**SettlementProofs.** `TypeCorrect` first, one lemma per part of Next. Then `Inv == TypeOK
/\ DecidedOnce`. `OneRefund` and `OneAnnouncement` are not inductive: nothing in them
keeps the sweeper from expiring an invoice that it listed as unpaid and that has been
confirmed since. What excludes this is that only the sync loop decides and that between its read
and its write a handler can do nothing but cancel or create. `StaleWritesAreSafe` says so for each
local copy (the status it applies, the invoice it confirms, the list it sweeps),
`UndecidedIsClean` ties the statuses to the history, and `DecidingIsOrdered` orders
refund and announcement. Their conjunction is preserved, one step per action. From it follow
`DecidesOnce`, `RefundsOnce`, `AnnouncesOnce`, `VerdictsStay` (an action property) and
`OutcomeIsKept`: every step of Settlement is a step of `InvoiceOutcome` or a
stutter under the refinement mapping. `ConfirmsOnlyPaid` needs `CoveredInv`: an invoice
about to be confirmed is covered, and no step of the tick takes confirmations from a decided
invoice, because the rows it will still write belong to undecided ones.

**SettlementChainProofs.** More invariants, each relative to the ones above. `ChainInv`: while nothing is
taken back, what discovery found and what the table says of heights and depths agrees with the chain,
although the tip was read earlier; from it and `ConfirmedIsCovered` follow `ConfirmsOnChain` and
`RefundsBacked`. `DueInv`: what the sweeper listed stays due, for only a cancel can happen to
it; from it `ExpiresWhenDue`. `UncoveredInv`: what was counted of an invoice that may expire does not
cover it, also when the status is written from one that a cancel has overtaken, and nothing is
counted of an invoice that does not exist yet; from it `PaidNeverExpires`.

The rest of the module is about time and notes. `LoopInv` says what a tick holds in each of its phases. `NoteInv`: a
note that is not in the table nor lost is above the saved block (so a restart scans it again), and above the last
block unless the tick holds it; from it `SavedNotesHaveRows`, for every order of aborted ticks, crashes and restarts.
`TimeInv`: once a tick whose time is past an invoice's window has looked for its payments, all that came in time
are rows or in its hands. What makes this inductive is that the tick's time is read first, that the clock is
never behind it, and that a window is only moved forward, before the verdict: from it `OnTimeIsCounted`.
`QuietInv`: a tick polls, and holds transparent outputs of, undecided invoices only. With it nothing adds to what a decided
invoice is owed (`OwedKept`), so the refund that was enough when it was enqueued (`RefundCompletes`) stays
enough (`OwedStays`), which is `OutcomesAreCompleted`. Last, `LifeInv`: without handlers what the loop has read
of a status is still so when it writes, so every write is a move of the documented lifecycle.
`LifecycleIsFollowed` is the refinement of `InvoiceLifecycle` under the hypothesis `Handlers = {}`; it cannot
be dropped, as `terminal_reopens` shows.

**InvoiceCreationProofs.** The inductive invariant is `IndexInv`: the types, that inserted
requests are done, `CursorIsAhead` and `AddressesAreDistinct`. Distinct addresses alone are not inductive: what makes
a new one differ from all in use is that the cursor is past them, and that only the holder of the
mutex is between its claim and its leap over invalid diversifiers, so that no other claim
falls into the gap. `IdsAreUnique` rests on the UNIQUE constraint and on answers that name inserted rows.

**RefundWorkerProofs.** A bound on the payments of a row is not inductive either: a pending row
that was paid and not marked would be paid again. `PaymentInv` therefore counts sharper for the rows the worker may
still pay (listed, under way, or pending): those have been paid at most as often as
something failed, and only the row between its payment and its mark has one more. `TxidInv`
adds that a row with a txid of the worker's is never worked on again, so its amount
stays what was sent. `GrossInv` says that amount and fee of a row make the gross amount, and that a row which is about to
be sent has the estimate for the inputs in hand (`Estimated`): the fee of the builder is then the
row's, plus that of the notes beyond the first. `PaysOncePerFault`, `KeepsGross` and `TellsTheTruth` follow.

The types and the money are about sums of coins. The lemmas on `ValueOf` (the value of a coin more, of two
disjoint sets, of a subset) come from its definition, a fold, by the smallest set that would break them: a finite
set of subsets has one (`SmallestOne`), so no induction over an operator is needed. With them `CoinTypes`, that ids are
not used twice and inputs cover what they are for, gives `TypeCorrect`. `MoneyInv` keeps the books of each source: what came in less the coins left is
what the transactions paid out and their fees. It is no result of its own, but what `KeepsPrice` below adds up.

**EndToEndProofs.** Composition first. Every step of `EndToEnd` is for the loop a step of Settlement or a
stutter (`ComposedSettles`), so each theorem above carries over, among them `ComposedKeepsOutcome`. For the worker
it is a step of `RefundWorker`, except that the chain may take coins back that came late and are unspent: its
invariants are shown again for that step (`WorkerNeighbours`), which gives `WorkerIsUndisturbed`.
What neither part can say alone is a set of links. `RowInv`: a row of the worker is the loop's refund of the invoice,
of the same gross amount. `LateInv`: what is on the chain and what came to the worker's addresses is the
same. `ChangeInv`: change appears, and is found, only at addresses of decided invoices, which no tick polls
any more; `QuietInv` of the loop is what makes this inductive, and from it follows `ChangeIsNeverRecorded`.
`RowsBacked`: what a row promises is backed by recorded payments. With the worker's bound on payments, its gross
amounts and the links, `NobodyIsPaidTwice` follows. `KeepsPrice` adds up both sides: what came to an address
(`PaymentsAddUp`, between the loop's `Total` and the worker's fold over coins) less what was spent from it
is what is there, and covers the price. The loop's invariants are used as they are; nothing of them is proved twice.

**WebhookDeliveryProofs.** `WorkInv`: what is listed is pending and listed once, so the
request under way has attempts left. `AccountInv`: every request, and every event the server took, is
accounted for by a recorded attempt, by the one under way, or by a failure. From them `RequestsBounded`, and
`OutboxIsKept`: the refinement of `Outbox`, whose Done needs that an answer of success means the event was taken.

**DaemonProofs.** `WalletInv`: a scan holds the mutex, is between `last_block` and the end of its stream, and
the tree ends where the scan is; outside a scan it ends at `last_block`. The step that merges a chunk
rests on `UptoGrows`, a lemma about concatenated blocks. From it `UsedWhole`. `KeepsProgress` needs
`SavedInv`: the file is behind the wallet only where the sync loop is about to save, or after a failure, and
after the last save nobody scans, since the join waited for the loop.

**ProvisioningProofs.** `IssueInv`: whatever was issued from the living database is below its
cursor. `FileInv`: until a command overlaps with the daemon, the temporary file belongs to who saves, the wallet is the
daemon's, and a command other than a forced `init` saves only where there is no wallet. From them `IssuesOnce`,
`KnowsSeeds` and `ReplacesOnPurpose`.

Only model-checked: all liveness (fairness and ENABLED are out of the prover's
reach). Every invariant and every action property of the runs is a theorem.
No module declares a RECURSIVE operator, which the prover could not handle; the sums that
Settlement needs are a constant, `Total`, of which its proofs know `SumAssumption` and no more, and
those of `EndToEnd` that it adds up over payments.

## 6. What is not modelled

- API routing, the token comparison, the mapping of errors to answers: stateless.
- JSON, HMAC, encryption, address and transaction formats, note selection and signing: data,
  most of it in wallet-kit. The validation of requests changes nothing.
- The connection pool and the SQL of the migrations; a statement either takes effect or fails.
  `update_block_height` has no caller (section 4). `payments.confirmed_at` is written and never read.
- Two commands at the same time besides the daemon: one `cli` process is modelled; two concurrent
  `init`s are the overlap of `wallet.tmp` once more.
- In `EndToEnd`, shield refunds (their change and inputs are the wallet's pool, see section 4). Cancel
  requests are in its proofs and not in its run, which would be too large with one.

What could be added next: a fair `EndToEnd` (from a payment to the money at its destination), and the
operator's endpoint in it.
