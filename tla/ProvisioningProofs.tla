-------------------------- MODULE ProvisioningProofs -------------------------
(***************************************************************************)
(* What Provisioning guarantees for any seeds, any configuration and any   *)
(* failures: no address is issued twice from a database, the words of      *)
(* every wallet in use were shown, and a wallet is replaced only on        *)
(* purpose.                                                                *)
(***************************************************************************)
EXTENDS Provisioning, SequenceTheorems, TLAPS

\* A process that is at work holds a seed, and the cli one that was drawn.
ProcInv ==
  /\ at["cli"] \in {"idle", "save", "rename", "show"}
  /\ at["daemon"] # "show"
  /\ \A p \in Procs : at[p] # "idle" => mem[p] \in Seeds
  /\ at["cli"] # "idle" => mem["cli"] \in generated

\* The cursor of the living database is past every index issued from it.
IssueInv ==
  /\ \A k \in DOMAIN issued :
       /\ issued[k].database <= databases
       /\ issued[k].database = databases => cursor = NoDatabase \/ issued[k].index < cursor
  /\ IssuedOnce

\* Seeds that were shown, are about to be, or could not be.
Known == known \cup unshown \cup (IF at["cli"] = "show" THEN {mem["cli"]} ELSE {})

\* Until a command overlaps with the daemon, the temporary file belongs to the
\* process that saves, the wallet is the daemon's while there is one, and only a
\* forced command saves over a wallet.
FileInv ==
  overlapped \/
    /\ Saving("cli") => at["daemon"] = "idle"
    /\ \A p \in Procs : at[p] = "rename" => tmp = mem[p]
    /\ at["daemon"] # "idle" => wallet \in {"none", mem["daemon"]}
    /\ Saving("cli") /\ command # "force" => wallet = "none"
    /\ Saving("cli") /\ command = "import" => mem["cli"] \in known
    /\ InUse \subseteq Known

ProvisioningInv == TypeOK /\ ProcInv /\ IssueInv /\ FileInv
------------------------------------------------------------------------------
LEMMA ProvisioningInit == Init => ProvisioningInv
<1> SUFFICES ASSUME Init PROVE ProvisioningInv
  OBVIOUS
<1>1. TypeOK
  <2>1. issued \in Seq([seed : Seeds, index : Nat, database : Nat])
    BY DEF Init
  <2>2. /\ params \in [Params -> {"none", "good", "bad"}] /\ mem \in [Procs -> Seeds \cup {"none"}]
        /\ key \in [{"wallet", "tmp", "cli"} -> Passphrases]
    BY DEF Init, Passphrases
  <2>3. at \in [Procs -> {"idle", "save", "rename", "show", "open", "params", "output",
                         "spend", "verify", "bind", "serving"}]
    BY DEF Init
  <2>4. /\ wallet \in Seeds \cup {"none", "torn"} /\ tmp \in Seeds \cup {"none", "torn"}
        /\ cursor \in Nat \cup {NoDatabase} /\ faults \in 0..MaxFaults
    BY ProvisioningAssumption DEF Init
  <2> QED
    BY <2>1, <2>2, <2>3, <2>4 DEF Init, TypeOK
<1>2. ProcInv /\ IssueInv
  BY DEF Init, ProcInv, IssueInv, IssuedOnce, Procs
<1>3. FileInv
  BY ProvisioningAssumption DEF Init, FileInv, Saving, InUse, Known, Procs
<1> QED
  BY <1>1, <1>2, <1>3 DEF ProvisioningInv

\* The types, and who holds which seed.
LEMMA TypeStep == TypeOK /\ ProcInv /\ [Next]_vars => TypeOK' /\ ProcInv'
<1> SUFFICES ASSUME TypeOK, ProcInv, [Next]_vars PROVE TypeOK' /\ ProcInv'
  OBVIOUS
<1> USE ProvisioningAssumption
    DEF TypeOK, ProcInv, Params, Procs, NoDatabase, Go, Fault, files, disk, procs, history
<1>o. ASSUME Next PROVE overlapped' \in BOOLEAN
  BY <1>o DEF Next
<1>1. ASSUME Next, NEW force \in BOOLEAN, InitChecks(force) PROVE TypeOK' /\ ProcInv'
  <2>1. key' \in [{"wallet", "tmp", "cli"} -> Passphrases]
    BY <1>1 DEF InitChecks, Passphrases
  <2> QED
    BY <1>1, <1>o, <2>1 DEF InitChecks
<1>2. ASSUME Next, ImportChecks PROVE TypeOK' /\ ProcInv'
  BY <1>2, <1>o DEF ImportChecks
<1>3. ASSUME Next, NEW p \in Procs, SaveStarts(p) PROVE TypeOK' /\ ProcInv'
  <2>1. key["cli"] \in Passphrases /\ Unlock \in Passphrases
    BY DEF Passphrases
  <2>2. key' \in [{"wallet", "tmp", "cli"} -> Passphrases]
    BY <1>3, <2>1 DEF SaveStarts
  <2> QED
    BY <1>3, <1>o, <2>2 DEF SaveStarts
<1>4. ASSUME Next, NEW p \in Procs, SaveEnds(p) PROVE TypeOK' /\ ProcInv'
  BY <1>4, <1>o DEF SaveEnds, After
<1>5. ASSUME Next, Show PROVE TypeOK' /\ ProcInv'
  BY <1>5, <1>o DEF Show
<1>6. ASSUME Next, Load PROVE TypeOK' /\ ProcInv'
  BY <1>6, <1>o DEF Load
<1>7. ASSUME Next, Open PROVE TypeOK' /\ ProcInv'
  BY <1>7, <1>o DEF Open
<1>8. ASSUME Next, FindParams \/ Verify \/ Bind \/ DaemonSaves \/ DaemonStops
      PROVE  TypeOK' /\ ProcInv'
  <2>1. CASE FindParams
    BY <1>8, <1>o, <2>1 DEF FindParams
  <2>2. CASE Verify
    <3>1. prover' \in BOOLEAN
      BY <2>2 DEF Verify
    <3>2. /\ at["daemon"] = "verify" /\ at' = [at EXCEPT !["daemon"] = "bind"]
          /\ UNCHANGED <<files, command, mem, history, faults>>
      BY <2>2 DEF Verify
    <3> QED
      BY <1>o, <1>8, <3>1, <3>2
  <2>3. CASE Bind
    BY <1>8, <1>o, <2>3 DEF Bind
  <2>4. CASE DaemonSaves \/ DaemonStops
    BY <1>8, <1>o, <2>4 DEF DaemonSaves, DaemonStops
  <2> QED
    BY <1>8, <2>1, <2>2, <2>3, <2>4
<1>9. ASSUME Next, CacheParams("output", "spend") \/ CacheParams("spend", "verify")
      PROVE  TypeOK' /\ ProcInv'
  BY <1>9, <1>o DEF CacheParams
<1>10. ASSUME Next, Issue PROVE TypeOK' /\ ProcInv'
  BY <1>10, <1>o DEF Issue
<1>11. ASSUME Next, LoseWallet \/ LoseHost \/ \E p \in Procs : Kill(p)
       PROVE  TypeOK' /\ ProcInv'
  BY <1>11, <1>o DEF LoseWallet, LoseHost, Kill
<1>12. CASE UNCHANGED vars
  BY <1>12 DEF vars
<1> QED
  BY <1>1, <1>2, <1>3, <1>4, <1>5, <1>6, <1>7, <1>8, <1>9, <1>10, <1>11, <1>12
  DEF Next, Commands, Starting, Serving, Failures

LEMMA IssuedTypes ==
  ASSUME TypeOK
  PROVE  \A k \in DOMAIN issued : issued[k].index \in Nat /\ issued[k].database \in Nat
<1> DEFINE Issues == [seed : Seeds, index : Nat, database : Nat]
<1>1. issued \in Seq(Issues)
  BY DEF TypeOK
<1>2. \A k \in DOMAIN issued : issued[k] \in Issues
  <2> HIDE DEF Issues
  <2> QED
    BY <1>1
<1> QED
  BY <1>2

\* Only opening a database and issuing an address move the cursor forward; what
\* is issued is the cursor's value.
LEMMA IssueStep == TypeOK /\ ProcInv /\ IssueInv /\ [Next]_vars => IssueInv'
<1> SUFFICES ASSUME TypeOK, ProcInv, IssueInv, [Next]_vars PROVE IssueInv'
  OBVIOUS
<1> USE DEF IssueInv, IssuedOnce
<1>1. CASE UNCHANGED <<cursor, issued, databases>>
  BY <1>1
<1>2. CASE Open
  <2>1. /\ issued' = issued
        /\ \/ cursor = NoDatabase /\ cursor' = 0 /\ databases' = databases + 1
           \/ UNCHANGED <<cursor, databases>>
    BY <1>2 DEF Open
  <2>2. \A k \in DOMAIN issued : issued[k].database \in Nat
    BY IssuedTypes
  <2>3. databases \in Nat
    BY DEF TypeOK
  <2> QED
    BY <2>1, <2>2, <2>3
<1>3. CASE Issue
  <2> DEFINE new == [seed |-> mem["daemon"], index |-> cursor, database |-> databases]
             n == Len(issued) + 1
  <2>1. /\ cursor \in Nat /\ cursor' = cursor + 1 /\ databases' = databases
        /\ databases \in Nat /\ issued' = Append(issued, new) /\ cursor # NoDatabase
    BY <1>3 DEF Issue, TypeOK, NoDatabase
  <2>2. issued \in Seq([seed : Seeds, index : Nat, database : Nat])
    BY DEF TypeOK
  <2>3. /\ DOMAIN issued' = 1..n /\ DOMAIN issued = 1..(n - 1) /\ n \in Nat
        /\ issued'[n] = new /\ \A k \in 1..(n - 1) : issued'[k] = issued[k]
    BY <2>1, <2>2
  <2>4. \A k \in 1..(n - 1) : issued[k].index \in Nat /\ issued[k].database \in Nat
    BY <2>3, IssuedTypes
  <2>5. new.index = cursor /\ new.database = databases
    OBVIOUS
  <2> HIDE DEF new, n
  <2>6. \A k \in 1..(n - 1) : issued[k] # new
    BY <2>1, <2>3, <2>4, <2>5
  <2>7. \A k \in 1..n : k = n \/ k \in 1..(n - 1)
    BY <2>3
  <2>8. IssuedOnce'
    BY <2>3, <2>6, <2>7
  <2>9. \A k \in 1..n :
          /\ issued'[k].database <= databases'
          /\ issued'[k].database = databases' => issued'[k].index < cursor'
    <3>1. \A k \in 1..(n - 1) :
            /\ issued[k].database <= databases
            /\ issued[k].database = databases => issued[k].index < cursor
      BY <2>1, <2>3
    <3>2. \A k \in 1..(n - 1) :
            /\ issued'[k].database <= databases'
            /\ issued'[k].database = databases' => issued'[k].index < cursor'
      BY <2>1, <2>3, <2>4, <3>1
    <3>3. /\ issued'[n].database <= databases'
          /\ issued'[n].database = databases' => issued'[n].index < cursor'
      BY <2>1, <2>3, <2>5
    <3> QED
      BY <2>7, <3>2, <3>3
  <2> QED
    BY <2>3, <2>8, <2>9
<1>4. CASE LoseHost
  BY <1>4 DEF LoseHost
<1>5. ASSUME Next, ~Open, ~Issue, ~LoseHost PROVE UNCHANGED <<cursor, issued, databases>>
  BY <1>5
  DEF Next, Commands, Starting, Serving, Failures, InitChecks, ImportChecks, SaveStarts,
      SaveEnds, Show, Load, FindParams, CacheParams, Verify, Bind, DaemonSaves, DaemonStops,
      LoseWallet, Kill, files, disk, procs, history
<1>6. CASE UNCHANGED vars
  BY <1>1, <1>6 DEF vars, files, disk, history
<1> QED
  BY <1>1, <1>2, <1>3, <1>4, <1>5, <1>6

\* Files and seeds, step by step, as long as no command overlaps with the daemon.
LEMMA FileStep == TypeOK /\ ProcInv /\ FileInv /\ [Next]_vars => FileInv'
<1> SUFFICES ASSUME TypeOK, ProcInv, FileInv, [Next]_vars, ~overlapped' PROVE FileInv'
  BY DEF FileInv
<1> USE ProvisioningAssumption
    DEF FileInv, Saving, Procs, Go, files, disk, procs, history
<1>1. ~overlapped
  BY DEF Next, vars
<1>2. Saving("cli")' => at'["daemon"] = "idle"
  BY <1>1 DEF Next, vars
<1> USE <1>1, <1>2
<1>3. CASE UNCHANGED vars
  BY <1>3 DEF vars, InUse, Known
<1>4. ASSUME NEW force \in BOOLEAN, InitChecks(force) PROVE FileInv'
  BY <1>4 DEF InitChecks, ProcInv, TypeOK, InUse, Known
<1>5. CASE ImportChecks
  BY <1>5 DEF ImportChecks, ProcInv, TypeOK, InUse, Known
<1>6. ASSUME NEW p \in Procs, SaveStarts(p) PROVE FileInv'
  BY <1>6 DEF SaveStarts, ProcInv, TypeOK, InUse, Known
<1>7. CASE SaveEnds("daemon")
  BY <1>7 DEF SaveEnds, After, ProcInv, TypeOK, InUse, Known
<1>8. CASE SaveEnds("cli")
  BY <1>8 DEF SaveEnds, After, ProcInv, TypeOK, InUse, Known
<1>9. CASE Show
  BY <1>9 DEF Show, ProcInv, TypeOK, InUse, Known
<1>10. CASE Load
  BY <1>10 DEF Load, ProcInv, TypeOK, InUse, Known
<1>11. CASE Open
  BY <1>11 DEF Open, ProcInv, TypeOK, InUse, Known
<1>12. CASE FindParams \/ Verify \/ Bind \/ DaemonSaves \/ DaemonStops
  <2>1. CASE FindParams
    BY <2>1 DEF FindParams, ProcInv, TypeOK, InUse, Known
  <2>2. CASE Verify
    BY <2>2 DEF Verify, ProcInv, TypeOK, InUse, Known
  <2>3. CASE Bind
    BY <2>3 DEF Bind, ProcInv, TypeOK, InUse, Known
  <2>4. CASE DaemonSaves \/ DaemonStops
    BY <2>4 DEF DaemonSaves, DaemonStops, ProcInv, TypeOK, InUse, Known
  <2> QED
    BY <1>12, <2>1, <2>2, <2>3, <2>4
<1>13. CASE CacheParams("output", "spend") \/ CacheParams("spend", "verify")
  BY <1>13 DEF CacheParams, ProcInv, TypeOK, InUse, Known
<1>14. CASE Issue
  BY <1>14 DEF Issue, ProcInv, TypeOK, InUse, Known
<1>15. CASE LoseWallet
  BY <1>15 DEF LoseWallet, ProcInv, TypeOK, InUse, Known
<1>16. CASE LoseHost
  BY <1>16 DEF LoseHost, ProcInv, TypeOK, InUse, Known
<1>17. ASSUME NEW p \in Procs, Kill(p) PROVE FileInv'
  BY <1>17 DEF Kill, ProcInv, TypeOK, InUse, Known
<1> QED
  BY <1>3, <1>4, <1>5, <1>6, <1>7, <1>8, <1>9, <1>10, <1>11, <1>12, <1>13, <1>14, <1>15,
     <1>16, <1>17
  DEF Next, Commands, Starting, Serving, Failures

LEMMA ProvisioningAlways == Spec => []ProvisioningInv
<1>1. ProvisioningInv /\ [Next]_vars => ProvisioningInv'
  BY TypeStep, IssueStep, FileStep DEF ProvisioningInv
<1> QED
  BY <1>1, ProvisioningInit, PTL DEF Spec
------------------------------------------------------------------------------
\* The types hold in every state.
THEOREM TypeCorrect == Spec => []TypeOK
<1>1. ProvisioningInv => TypeOK
  BY DEF ProvisioningInv
<1> QED
  BY <1>1, ProvisioningAlways, PTL

\* A database never gives one address out twice, whatever happens to the wallet
\* file (src/storage/hd_cursor.rs, claim_next).
THEOREM IssuesOnce == Spec => []IssuedOnce
<1>1. ProvisioningInv => IssuedOnce
  BY DEF ProvisioningInv, IssueInv
<1> QED
  BY <1>1, ProvisioningAlways, PTL

\* The words of every seed in use were shown, are about to be, or could not be
\* because their init was killed (src/cli.rs, run_init).
THEOREM KnowsSeeds == Spec => []SeedsAreKnown
<1>1. ProvisioningInv => SeedsAreKnown
  BY DEF ProvisioningInv, FileInv, SeedsAreKnown, Known
<1> QED
  BY <1>1, ProvisioningAlways, PTL

\* A wallet is replaced only by `init --force`, or by a command that overlaps
\* with the daemon (src/cli.rs, run_init and run_import).
THEOREM ReplacesOnPurpose == Spec => ReplacedOnPurpose
<1>1. ProvisioningInv /\ [Next]_vars =>
        [(wallet # wallet' /\ {wallet, wallet'} \subseteq Seeds)
           => (overlapped \/ command = "force")]_vars
  <2> SUFFICES ASSUME ProvisioningInv, Next, ~overlapped, wallet # wallet',
                      wallet \in Seeds, wallet' \in Seeds
               PROVE  command = "force"
    BY DEF vars, files, disk
  <2>1. CASE \E p \in Procs : SaveEnds(p)
    BY <2>1, ProvisioningAssumption
    DEF SaveEnds, Go, ProvisioningInv, ProcInv, FileInv, Saving, Procs
  <2>2. CASE LoseWallet \/ LoseHost
    BY <2>2, ProvisioningAssumption DEF LoseWallet, LoseHost
  <2>3. ASSUME ~(LoseWallet \/ LoseHost), ~\E p \in Procs : SaveEnds(p)
        PROVE  wallet' = wallet
    BY <2>3
    DEF Next, Commands, Starting, Serving, Failures, InitChecks, ImportChecks, SaveStarts,
        Show, Load, Open, FindParams, CacheParams, Verify, Bind, Issue, DaemonSaves,
        DaemonStops, Kill, Procs, files, disk, procs, history
  <2> QED
    BY <2>1, <2>2, <2>3
<1> QED
  BY <1>1, ProvisioningAlways, PTL DEF Spec, ReplacedOnPurpose
==============================================================================
