------------------------------- MODULE Daemon --------------------------------
(***************************************************************************)
(* The process: the workers of src/cli.rs (run_daemon) and how a signal    *)
(* stops them, the wallet they share behind a mutex, the scan of the sync  *)
(* loop that updates it in place chunk by chunk (src/sync/shield.rs), and  *)
(* the file it is saved to (src/wallet/mod.rs).                            *)
(*                                                                         *)
(* What a tick does to the database is the business of the other modules;  *)
(* here a tick is its use of the wallet.  The chain only grows: the scan   *)
(* never goes back.                                                        *)
(* An operator whose name has an _x is a mutated form of the one after it. *)
(***************************************************************************)
EXTENDS Integers, Sequences

CONSTANTS
  RefundsEnabled,  \* else the refund worker returns at once
  ChunkSize,       \* MAX_BLOCKS_PER_CHUNK
  StreamCap,       \* MAX_BODY_BYTES, in blocks
  \* Bounds of the model
  MaxTip, FaultKinds, MaxFaults

\* What can fail: a tick before its scan or after it, the request for the
\* stream, a chunk, the writing of the wallet file, the binding of the address,
\* the process.
Faults == {"tick", "stream", "chunk", "save", "port", "crash"}

ASSUME DaemonAssumption ==
  /\ RefundsEnabled \in BOOLEAN
  /\ ChunkSize \in Nat \ {0} /\ StreamCap \in Nat \ {0}
  /\ MaxTip \in Nat /\ FaultKinds \subseteq Faults /\ MaxFaults \in Nat

Workers == {"sync", "webhooks", "refunds"}
Tasks == Workers \cup {"api"}
\* The tasks that use the wallet outside the scan: a refund is signed, an
\* address derived.
Users == {"refunds", "api"}

VARIABLES
  tip,     \* of the chain
  wallet,  \* in memory: the last block, the blocks in the commitment tree
  file,    \* the wallet file
  stream,  \* the last block of the stream that is being scanned
  merged,  \* the last block of it that is in the tree
  holder,  \* of the wallet's mutex
  at,      \* where each task is
  heard,   \* the tasks that the shutdown has woken
  main,    \* where run_daemon is
  faults

chain == <<tip>>
scan == <<stream, merged>>
vars == <<chain, wallet, file, scan, holder, at, heard, main, faults>>

Free == "free"
Upto(n) == [b \in 1..n |-> b]
Fresh == [last |-> 0, tree |-> <<>>, torn |-> FALSE]

\* The workers begin with a tick.
Started ==
  [w \in Tasks |-> CASE w = "api" -> "asleep"
                     [] w = "refunds" /\ ~RefundsEnabled -> "done"
                     [] OTHER -> "tick"]

Init ==
  /\ tip \in 0..MaxTip
  /\ wallet = Fresh /\ file = Fresh
  /\ stream = 0 /\ merged = 0
  /\ holder = Free
  /\ at = Started /\ heard = {}
  /\ main = "binding"
  /\ faults = 0

Fault(kind) ==
  /\ kind \in FaultKinds /\ faults < MaxFaults
  /\ faults' = faults + 1

Go(w, from, to) ==
  /\ at[w] = from
  /\ at' = [at EXCEPT ![w] = to]

Take(w) == holder = Free /\ holder' = w
Release(w) == holder = w /\ holder' = Free
------------------------------------------------------------------------------
(* The scan: shield::tick, under the mutex from its request to its end.    *)
Streamable == tip - wallet.last <= StreamCap

ScanStarts_xInclusive ==
  /\ Streamable
  /\ Go("sync", "tick", "scan") /\ Take("sync")
  /\ stream' = tip /\ merged' = wallet.last - 1
  /\ UNCHANGED <<chain, wallet, file, heard, main, faults>>

\* The stream holds the blocks after last_block, up to the tip at that time.
ScanStarts ==
  /\ Streamable
  /\ Go("sync", "tick", "scan") /\ Take("sync")
  /\ stream' = tip /\ merged' = wallet.last
  /\ UNCHANGED <<chain, wallet, file, heard, main, faults>>

\* The request fails, as it always does for more blocks than the cap allows.
StreamFails ==
  /\ holder = Free
  /\ Go("sync", "tick", "asleep")
  /\ IF Streamable THEN Fault("stream") ELSE UNCHANGED faults
  /\ UNCHANGED <<chain, wallet, file, scan, holder, heard, main>>

NextChunk == IF merged + ChunkSize < stream THEN merged + ChunkSize ELSE stream

Merge ==
  /\ at["sync"] = "scan" /\ merged < stream
  /\ wallet' = [wallet EXCEPT !.tree =
                  @ \o SubSeq(Upto(stream), merged + 1, NextChunk)]
  /\ merged' = NextChunk

Chunk_xYields ==
  /\ Merge
  /\ holder' = Free
  /\ UNCHANGED <<chain, file, stream, at, heard, main, faults>>

\* A chunk is merged into the wallet in place, last_block stays.
Chunk ==
  /\ Merge
  /\ UNCHANGED <<chain, file, stream, holder, at, heard, main, faults>>

\* A chunk that cannot be parsed or handled ends the tick.  What was merged
\* before it stays in the tree: torn is a history variable for that.
ChunkFails ==
  /\ at["sync"] = "scan" /\ merged < stream
  /\ Fault("chunk")
  /\ wallet' = [wallet EXCEPT !.torn = @ \/ merged > wallet.last]
  /\ Go("sync", "scan", "asleep") /\ Release("sync")
  /\ UNCHANGED <<chain, file, scan, heard, main>>

ScanEnds_xTip ==
  /\ at["sync"] = "scan" /\ merged = stream
  /\ wallet' = [wallet EXCEPT !.last = tip]
  /\ Go("sync", "scan", IF tip > wallet.last THEN "save" ELSE "asleep")
  /\ Release("sync")
  /\ UNCHANGED <<chain, file, scan, heard, main, faults>>

\* last_block moves to the last block of the stream.  The wallet is saved, at
\* the end of the tick, only if it moved.
ScanEnds ==
  /\ at["sync"] = "scan" /\ merged = stream
  /\ wallet' = [wallet EXCEPT !.last = stream]
  /\ Go("sync", "scan", IF stream > wallet.last THEN "save" ELSE "asleep")
  /\ Release("sync")
  /\ UNCHANGED <<chain, file, scan, heard, main, faults>>

\* The file is replaced by a rename: it is the old one or the new one.
SaveWallet ==
  /\ Go("sync", "save", "asleep") /\ holder = Free
  /\ \/ file' = wallet /\ UNCHANGED faults
     \/ UNCHANGED file /\ Fault("save")
  /\ UNCHANGED <<chain, wallet, scan, holder, heard, main>>

TickFails_xReturns ==
  /\ at["sync"] \in {"tick", "save"}
  /\ Go("sync", at["sync"], "done")
  /\ Fault("tick")
  /\ UNCHANGED <<chain, wallet, file, scan, holder, heard, main>>

\* A tick that fails before or after the scan is logged; the loop goes on.
TickFails ==
  /\ at["sync"] \in {"tick", "save"}
  /\ Go("sync", at["sync"], "asleep")
  /\ Fault("tick")
  /\ UNCHANGED <<chain, wallet, file, scan, holder, heard, main>>
------------------------------------------------------------------------------
(* The tasks.                                                              *)
\* The pause between two ticks is over; a worker that the shutdown wakes at
\* the same time may pick this branch of its select.
BeginTick(w) ==
  /\ Go(w, "asleep", "tick")
  /\ heard' = heard \ {w}
  /\ UNCHANGED <<chain, wallet, file, scan, holder, main, faults>>

\* A request, unless the server has been told to stop.
BeginRequest ==
  /\ main # "binding" /\ "api" \notin heard
  /\ Go("api", "asleep", "tick")
  /\ UNCHANGED <<chain, wallet, file, scan, holder, heard, main, faults>>

EndTick(w) ==
  /\ Go(w, "tick", "asleep")
  /\ UNCHANGED <<chain, wallet, file, scan, holder, heard, main, faults>>

UseWallet(w) ==
  /\ Go(w, "tick", "use") /\ Take(w)
  /\ UNCHANGED <<chain, wallet, file, scan, heard, main, faults>>

LeaveWallet(w) ==
  /\ Go(w, "use", "tick") /\ Release(w)
  /\ UNCHANGED <<chain, wallet, file, scan, heard, main, faults>>

\* A task that was woken returns.
Return(w) ==
  /\ w \in heard
  /\ Go(w, "asleep", "done")
  /\ UNCHANGED <<chain, wallet, file, scan, holder, heard, main, faults>>
------------------------------------------------------------------------------
(* run_daemon.                                                             *)
\* The address is bound while the workers are at work.
Bind ==
  /\ main = "binding" /\ main' = "running"
  /\ UNCHANGED <<chain, wallet, file, scan, holder, at, heard, faults>>

\* notify_waiters wakes those who wait: the workers between two ticks, and the
\* server, which has a task that waits from the start.
Signal ==
  /\ main = "running"
  /\ main' = "draining"
  /\ heard' = {w \in Workers : at[w] = "asleep"} \cup {"api"}
  /\ UNCHANGED <<chain, wallet, file, scan, holder, at, faults>>

Joined_xForgets == \A w \in Tasks \ {"sync"} : at[w] = "done"

Joined == \A w \in Tasks : at[w] = "done"

\* The last save.  That it failed is logged, and then that the daemon stopped
\* cleanly, as after one that worked.
FinalSave ==
  /\ main = "draining" /\ Joined
  /\ holder = Free
  /\ main' = "stopped"
  /\ \/ file' = wallet /\ UNCHANGED faults
     \/ UNCHANGED file /\ Fault("save")
  /\ UNCHANGED <<chain, wallet, scan, holder, at, heard>>

\* A process starts from the file.
Reload ==
  /\ wallet' = file
  /\ stream' = 0 /\ merged' = 0
  /\ holder' = Free
  /\ at' = Started /\ heard' = {}
  /\ main' = "binding"
  /\ UNCHANGED <<chain, file>>

Restart ==
  /\ main = "stopped"
  /\ Reload /\ UNCHANGED faults

\* An address that cannot be bound ends the process, wherever the workers are,
\* without the last save.
BindFails == main = "binding" /\ Fault("port") /\ Reload

Crash == Fault("crash") /\ Reload

NewBlock ==
  /\ tip < MaxTip
  /\ tip' = tip + 1
  /\ UNCHANGED <<wallet, file, scan, holder, at, heard, main, faults>>
------------------------------------------------------------------------------
SyncStep ==
  \/ ScanStarts \/ StreamFails \/ Chunk \/ ChunkFails \/ ScanEnds
  \/ SaveWallet \/ TickFails
UserStep(w) == UseWallet(w) \/ LeaveWallet(w)
Wakes(w) == BeginTick(w) \/ Return(w)

Next ==
  \/ SyncStep
  \/ \E w \in Users : UserStep(w)
  \/ \E w \in Tasks \ {"sync"} : EndTick(w)
  \/ \E w \in Workers : Wakes(w)
  \/ BeginRequest \/ Return("api")
  \/ Bind \/ BindFails \/ Signal \/ FinalSave \/ Restart \/ Crash
  \/ NewBlock

Spec == Init /\ [][Next]_vars

\* Tasks are scheduled, ticks and requests end, tokio's mutex is granted in the
\* order it was asked for, and blocks keep coming.  No one has to send a signal,
\* and a task that was stopped need not be started again.
FairSpec ==
  /\ Spec
  /\ SF_vars(SyncStep) /\ WF_vars(Wakes("sync"))
  /\ \A w \in Users : WF_vars(LeaveWallet(w))
  /\ \A w \in Tasks \ {"sync"} : WF_vars(EndTick(w))
  /\ \A w \in Tasks : WF_vars(Return(w))
  /\ WF_vars(Bind) /\ WF_vars(FinalSave) /\ WF_vars(NewBlock)
------------------------------------------------------------------------------
\* The types of the state.
Wallets == [last : 0..MaxTip, tree : Seq(1..MaxTip), torn : BOOLEAN]
TypeOK ==
  /\ tip \in 0..MaxTip
  /\ wallet \in Wallets /\ file \in Wallets
  /\ stream \in 0..MaxTip /\ merged \in 0..MaxTip
  /\ holder \in Tasks \cup {Free}
  /\ at \in [Tasks -> {"asleep", "tick", "scan", "save", "use", "done"}]
  /\ heard \subseteq Tasks
  /\ main \in {"binding", "running", "draining", "stopped"}
  /\ faults \in 0..MaxFaults

\* A wallet whose tree holds the blocks up to its last block, once each and in
\* order: witnesses of its notes are good.
Whole(w) == w.tree = Upto(w.last)

\* The file is whole, whenever the process dies, and whoever else gets the mutex
\* sees the wallet between two scans: a refund is not signed against a tree that
\* is ahead of last_block.  This is so until a scan fails after a part of its
\* stream had been merged (src/sync/shield.rs, tick).
WholeWhenUsed ==
  /\ ~file.torn => Whole(file)
  /\ holder \in Users /\ ~wallet.torn => Whole(wallet)

\* No save takes the file back, and a daemon that is stopped and started again
\* goes on where it was: nobody scans while the last save is made or after it.
\* Only a failure makes the scan begin again at an earlier block (src/cli.rs,
\* run_daemon, "re-sync from the last persisted last_block").
ProgressStays ==
  [][/\ file'.last >= file.last
     /\ wallet'.last < wallet.last => faults' > 0]_vars

\* The scan catches up with the chain, through failed ticks and crashes, as
\* long as no one stops the daemon, unless the file fell so far behind that the
\* stream is over the cap: then no tick ever ends (src/sync/http.rs,
\* shield_stream).
CatchesUp ==
  tip = MaxTip
    ~> wallet.last = MaxTip \/ ~Streamable \/ main \notin {"binding", "running"}

\* "Sync + webhook loops break out at their next sleep boundary"
\* (src/cli.rs, run_daemon): a signal stops the daemon.
SignalStops == main = "draining" ~> main # "draining"
==============================================================================
