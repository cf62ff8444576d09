---------------------------- MODULE DaemonProofs -----------------------------
(***************************************************************************)
(* What Daemon guarantees for any chain, any chunk size and cap, and any   *)
(* number of failures, signals and restarts: the wallet is whole wherever  *)
(* somebody uses or saves it, and only a failure costs what was scanned.   *)
(***************************************************************************)
EXTENDS Daemon, SequenceTheorems, TLAPS

\* The scan holds the mutex, and is somewhere in the stream.
ScanInv ==
  /\ at["sync"] = "scan" <=> holder = "sync"
  /\ at["sync"] = "scan" => wallet.last <= merged /\ merged <= stream /\ stream <= tip
  /\ wallet.last <= tip /\ file.last <= wallet.last

\* The file lags behind the wallet only until the end of the tick, unless
\* something failed; a process that ends has no sync loop any more.
SavedInv ==
  /\ faults = 0 => at["sync"] = "save" \/ file.last = wallet.last
  /\ main = "stopped" => at["sync"] = "done"

\* The inductive invariant: outside a scan the tree ends at last_block, and
\* inside one where the scan is.
WalletInv ==
  /\ TypeOK /\ ScanInv /\ SavedInv
  /\ ~wallet.torn =>
       wallet.tree = Upto(IF at["sync"] = "scan" THEN merged ELSE wallet.last)
  /\ ~file.torn => Whole(file)
------------------------------------------------------------------------------
\* The blocks up to one, and those after it up to another one.
LEMMA UptoType == ASSUME NEW n \in 0..MaxTip PROVE Upto(n) \in Seq(1..MaxTip)
<1>1. n \in Nat /\ \A b \in 1..n : b \in 1..MaxTip
  BY DaemonAssumption
<1> QED
  BY <1>1 DEF Upto

LEMMA UptoGrows ==
  ASSUME NEW s \in Nat, NEW n \in 0..s, NEW m \in n..s
  PROVE  Upto(n) \o SubSeq(Upto(s), n + 1, m) = Upto(m)
<1> DEFINE rest == SubSeq(Upto(s), n + 1, m)
           whole == Upto(n) \o rest
<1>1. Upto(n) \in Seq(Nat) /\ Upto(s) \in Seq(Nat) /\ Upto(m) \in Seq(Nat)
      /\ Len(Upto(n)) = n /\ Len(Upto(s)) = s /\ Len(Upto(m)) = m
  BY DEF Upto
<1>2. rest \in Seq(Nat) /\ Len(rest) = m - n
      /\ \A b \in 1..(m - n) : rest[b] = n + b
  <2>1. \A b \in (n + 1)..m : b \in 1..s /\ Upto(s)[b] = b
    BY DEF Upto
  <2> QED
    BY <1>1, <2>1
<1> HIDE DEF rest
<1>3. /\ whole \in Seq(Nat) /\ Len(whole) = m
      /\ \A b \in 1..m : whole[b] = IF b <= n THEN Upto(n)[b] ELSE rest[b - n]
  <2>1. Upto(n) \in Seq(Nat) /\ rest \in Seq(Nat)
        /\ Len(Upto(n)) = n /\ Len(rest) = m - n /\ n + (m - n) = m
    BY <1>1, <1>2
  <2>2. /\ whole \in Seq(Nat) /\ Len(whole) = Len(Upto(n)) + Len(rest)
        /\ \A b \in 1..(Len(Upto(n)) + Len(rest)) :
             whole[b] = IF b <= Len(Upto(n)) THEN Upto(n)[b] ELSE rest[b - Len(Upto(n))]
    BY ONLY <2>1, ConcatProperties
  <2> QED
    BY <2>1, <2>2
<1>4. \A b \in 1..n : Upto(n)[b] = b
  BY DEF Upto
<1>5. \A b \in 1..m : Upto(m)[b] = b
  BY DEF Upto
<1>6. \A b \in 1..m : whole[b] = Upto(m)[b]
  BY <1>2, <1>3, <1>4, <1>5
<1> QED
  BY <1>1, <1>3, <1>6, SeqEqual DEF rest
------------------------------------------------------------------------------
\* The invariant holds of a fresh process.
LEMMA WalletInit == Init => WalletInv
<1> SUFFICES ASSUME Init PROVE WalletInv
  OBVIOUS
<1>1. Upto(0) = <<>>
  BY DEF Upto
<1>2. TypeOK
  BY DaemonAssumption DEF Init, TypeOK, Wallets, Fresh, Started, Tasks, Workers, Free
<1> QED
  BY <1>1, <1>2, DaemonAssumption
  DEF Init, WalletInv, ScanInv, SavedInv, Whole, Fresh, Started, Tasks, Workers, Free

\* The steps of the sync loop but for the merging of a chunk touch the tree of
\* no wallet; the end of the scan moves last_block to where the tree ends.
LEMMA WalletSync == WalletInv /\ SyncStep => WalletInv'
<1> SUFFICES ASSUME WalletInv, SyncStep PROVE WalletInv'
  OBVIOUS
<1> USE DaemonAssumption
    DEF WalletInv, ScanInv, SavedInv, TypeOK, Wallets, Whole, Tasks, Workers, Free,
        Go, Take, Release, Fault, chain, scan
<1>1. CASE ScanStarts
  BY <1>1 DEF ScanStarts
<1>2. CASE StreamFails
  BY <1>2 DEF StreamFails
<1>3. CASE Chunk
  <2>1. /\ merged \in 0..stream /\ NextChunk \in merged..stream /\ stream \in Nat
        /\ NextChunk \in 0..MaxTip
    <3>1. at["sync"] = "scan" /\ merged < stream
      BY <1>3 DEF Chunk, Merge
    <3>2. merged \in 0..MaxTip /\ stream \in 0..MaxTip /\ MaxTip \in Nat /\ ChunkSize \in Nat \ {0}
      OBVIOUS
    <3> QED
      BY ONLY <3>1, <3>2 DEF NextChunk
  <2>2. Upto(merged) \o SubSeq(Upto(stream), merged + 1, NextChunk) = Upto(NextChunk)
    BY ONLY <2>1, UptoGrows
  <2>3. SubSeq(Upto(stream), merged + 1, NextChunk) \in Seq(1..MaxTip)
    <3>1. \A b \in (merged + 1)..NextChunk : Upto(stream)[b] \in 1..MaxTip
      BY <2>1 DEF Upto
    <3> QED
      BY <2>1, <3>1, SubSeqProperties
  <2>4. wallet.tree \o SubSeq(Upto(stream), merged + 1, NextChunk) \in Seq(1..MaxTip)
    BY <2>3, ConcatProperties
  <2>5. /\ wallet' = [wallet EXCEPT !.tree =
                        wallet.tree \o SubSeq(Upto(stream), merged + 1, NextChunk)]
        /\ merged' = NextChunk /\ at["sync"] = "scan"
        /\ UNCHANGED <<tip, file, stream, holder, at, heard, main, faults>>
    BY <1>3 DEF Chunk, Merge
  <2>6. wallet' \in Wallets /\ wallet'.last = wallet.last /\ wallet'.torn = wallet.torn
        /\ wallet'.tree = wallet.tree \o SubSeq(Upto(stream), merged + 1, NextChunk)
    BY <2>4, <2>5
  <2>7. ~wallet'.torn => wallet'.tree = Upto(merged')
    BY <2>2, <2>5, <2>6
  <2>8. TypeOK'
    BY <2>1, <2>5, <2>6
  <2>9. ScanInv'
    BY <2>1, <2>5, <2>6
  <2> QED
    BY <2>5, <2>7, <2>8, <2>9
<1>4. CASE ChunkFails
  <2>1. /\ wallet' \in Wallets /\ wallet'.last = wallet.last
        /\ wallet'.tree = wallet.tree
        /\ ~wallet'.torn => ~wallet.torn /\ ~(merged > wallet.last)
    BY <1>4 DEF ChunkFails
  <2>2. ~wallet'.torn => wallet'.tree = Upto(wallet'.last)
    BY <1>4, <2>1 DEF ChunkFails
  <2>3. TypeOK'
    BY <1>4, <2>1 DEF ChunkFails
  <2> QED
    BY <1>4, <2>1, <2>2, <2>3 DEF ChunkFails
<1>5. CASE ScanEnds
  <2>1. wallet.last \in Nat /\ stream \in Nat /\ wallet.last <= stream /\ stream <= tip
        /\ file.last \in Nat /\ file.last <= wallet.last /\ merged = stream
        /\ (faults = 0 => file.last = wallet.last)
    BY <1>5 DEF ScanEnds
  <2>2. /\ wallet' = [wallet EXCEPT !.last = stream] /\ holder' = "free"
        /\ at' = [at EXCEPT !["sync"] = IF stream > wallet.last THEN "save" ELSE "asleep"]
        /\ UNCHANGED <<tip, file, stream, merged, heard, main, faults>>
    BY <1>5 DEF ScanEnds
  <2>3. TypeOK'
    BY <2>2
  <2>4. ScanInv'
    BY <2>1, <2>2
  <2>5. SavedInv'
    BY <1>5, <2>1, <2>2 DEF ScanEnds
  <2> QED
    BY <1>5, <2>1, <2>2, <2>3, <2>4, <2>5 DEF ScanEnds
<1>6. CASE SaveWallet
  BY <1>6 DEF SaveWallet
<1>7. CASE TickFails
  BY <1>7 DEF TickFails
<1> QED
  BY <1>1, <1>2, <1>3, <1>4, <1>5, <1>6, <1>7 DEF SyncStep

\* A process starts from a file that is whole.
LEMMA WalletReload ==
  ASSUME WalletInv, Reload, faults' \in 0..MaxFaults
  PROVE  WalletInv'
BY DaemonAssumption
DEF WalletInv, ScanInv, SavedInv, TypeOK, Wallets, Whole, Tasks, Workers, Free, Reload,
    Started, chain

LEMMA WalletStep == WalletInv /\ [Next]_vars => WalletInv'
<1> SUFFICES ASSUME WalletInv, [Next]_vars PROVE WalletInv'
  OBVIOUS
<1> USE DaemonAssumption
    DEF WalletInv, ScanInv, SavedInv, TypeOK, Wallets, Whole, Tasks, Workers, Users, Free,
        Go, Take, Release, Fault, chain, scan
<1>1. CASE SyncStep
  BY <1>1, WalletSync
<1>2. ASSUME NEW w \in Users, UserStep(w) PROVE WalletInv'
  <2>1. CASE UseWallet(w)
    BY <1>2, <2>1 DEF UseWallet
  <2>2. CASE LeaveWallet(w)
    BY <1>2, <2>2 DEF LeaveWallet
  <2> QED
    BY <1>2, <2>1, <2>2 DEF UserStep
<1>3. ASSUME NEW w \in Tasks \ {"sync"}, EndTick(w) PROVE WalletInv'
  BY <1>3 DEF EndTick
<1>4. ASSUME NEW w \in Tasks, BeginTick(w) \/ Return(w) PROVE WalletInv'
  <2>1. CASE BeginTick(w)
    BY <2>1 DEF BeginTick
  <2>2. CASE Return(w)
    BY <2>2 DEF Return
  <2> QED
    BY <1>4, <2>1, <2>2
<1>5. CASE BeginRequest
  BY <1>5 DEF BeginRequest
<1>6. CASE Bind
  BY <1>6 DEF Bind
<1>7. CASE Signal
  BY <1>7 DEF Signal
<1>8. CASE FinalSave
  BY <1>8 DEF FinalSave, Joined
<1>9. CASE Restart \/ BindFails \/ Crash
  <2>1. Reload /\ faults' \in 0..MaxFaults
    BY <1>9 DEF Restart, BindFails, Crash
  <2> QED
    BY <2>1, WalletReload
<1>10. CASE NewBlock
  BY <1>10 DEF NewBlock
<1>11. CASE UNCHANGED vars
  BY <1>11 DEF vars
<1> QED
  BY <1>1, <1>2, <1>3, <1>4, <1>5, <1>6, <1>7, <1>8, <1>9, <1>10, <1>11
  DEF Next, Wakes

LEMMA WalletAlways == Spec => []WalletInv
  BY WalletInit, WalletStep, PTL DEF Spec

\* The types hold in every state.
THEOREM TypeCorrect == Spec => []TypeOK
<1>1. WalletInv => TypeOK
  BY DEF WalletInv
<1> QED
  BY <1>1, WalletAlways, PTL

\* The wallet file is whole whenever the process dies, and no refund is signed
\* and no address derived against a tree that is ahead of last_block, unless a
\* scan failed half-way (src/sync/shield.rs, tick; src/wallet/mod.rs, save).
THEOREM UsedWhole == Spec => []WholeWhenUsed
<1>1. WalletInv => WholeWhenUsed
  BY DEF WalletInv, ScanInv, WholeWhenUsed, Whole, Users
<1> QED
  BY <1>1, WalletAlways, PTL

\* No save takes the file back, and only a failure makes the scan begin again at
\* an earlier block, however often the daemon is stopped and started
\* (src/cli.rs, run_daemon; src/sync/shield.rs, tick).
THEOREM KeepsProgress == Spec => ProgressStays
<1> DEFINE Stays == file'.last >= file.last /\ (wallet'.last < wallet.last => faults' > 0)
<1>1. WalletInv /\ [Next]_vars => [Stays]_vars
  <2> SUFFICES ASSUME WalletInv, Next PROVE Stays
    BY DEF vars
  <2> USE DaemonAssumption DEF WalletInv, ScanInv, SavedInv, TypeOK, Wallets
  <2>1. wallet.last \in Nat /\ file.last \in Nat /\ faults \in Nat
    OBVIOUS
  <2>2. CASE UNCHANGED <<wallet, file>>
    BY <2>1, <2>2
  <2>3. CASE SyncStep
    <3>1. CASE ScanStarts \/ StreamFails \/ TickFails
      BY <2>2, <3>1 DEF ScanStarts, StreamFails, TickFails
    <3>2. CASE Chunk \/ ChunkFails
      <4>1. file' = file /\ wallet'.last = wallet.last
        BY <3>2 DEF Chunk, ChunkFails, Merge
      <4> QED
        BY <2>1, <4>1
    <3>3. CASE ScanEnds
      <4>1. file' = file /\ wallet'.last = stream /\ wallet.last <= stream /\ stream \in Nat
        BY <3>3 DEF ScanEnds
      <4> QED
        BY <2>1, <4>1
    <3>4. CASE SaveWallet
      BY <2>1, <3>4 DEF SaveWallet
    <3> QED
      BY <2>3, <3>1, <3>2, <3>3, <3>4 DEF SyncStep
  <2>4. CASE FinalSave
    BY <2>1, <2>4 DEF FinalSave
  <2>5. CASE Restart
    <3>1. file.last = wallet.last \/ faults > 0
      BY <2>1, <2>5 DEF Restart
    <3> QED
      BY <2>1, <2>5, <3>1 DEF Restart, Reload
  <2>6. CASE BindFails \/ Crash
    <3>1. file' = file /\ faults' = faults + 1
      BY <2>6 DEF BindFails, Crash, Reload, Fault
    <3> QED
      BY <2>1, <3>1
  <2>7. ASSUME NEW w \in Tasks, UserStep(w) \/ EndTick(w) \/ Wakes(w) \/ Return(w)
        PROVE  Stays
    BY <2>2, <2>7 DEF UserStep, UseWallet, LeaveWallet, EndTick, Wakes, BeginTick, Return
  <2>8. CASE BeginRequest \/ Bind \/ Signal \/ NewBlock
    BY <2>2, <2>8 DEF BeginRequest, Bind, Signal, NewBlock
  <2>9. Users \subseteq Tasks /\ Workers \subseteq Tasks /\ "api" \in Tasks
    BY DEF Users, Tasks, Workers
  <2> HIDE DEF Stays
  <2> QED
    BY ONLY Next, <2>3, <2>4, <2>5, <2>6, <2>7, <2>8, <2>9 DEF Next
<1> QED
  BY <1>1, WalletAlways, PTL DEF Spec, ProgressStays
==============================================================================
