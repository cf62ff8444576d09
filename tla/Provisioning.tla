---------------------------- MODULE Provisioning -----------------------------
(***************************************************************************)
(* The commands of src/cli.rs and the files they share: `init`, `init      *)
(* --force` and `import` write the wallet file, `run` loads it, opens the  *)
(* database with the HD cursor, fetches the Sapling parameters             *)
(* (src/prover.rs), serves, and writes the wallet again.  Every command    *)
(* may be killed between two steps, the wallet file or the whole host may  *)
(* be lost, and an operator may run a command while the daemon is up.      *)
(*                                                                         *)
(* A command that finds its configuration or its key wrong exits before it *)
(* changes anything.  What the daemon does while it serves is the business *)
(* of the other modules; here it issues addresses and saves its wallet.    *)
(* An operator whose name has an _x is a mutated form of the one after it. *)
(***************************************************************************)
EXTENDS Integers, Sequences

CONSTANTS
  Seeds,           \* the seeds that `init` may generate
  Config,          \* the values of the configuration that are validated
  Stdin,           \* "terminal", "pipe", or "nothing" to read from
  EnvPassphrases,  \* what MERCHANT_KIT_UNLOCK_PASSPHRASE may be set to
  \* Bounds of the model
  MaxIssued,       \* addresses issued
  FaultKinds, MaxFaults

\* What can fail: a process, the wallet file, the host, the mirrors of the
\* parameters, the disk when they are cached, and the binding of the address;
\* a mirror may serve other bytes.
Faults == {"kill", "file", "host", "mirror", "disk", "port", "bytes"}

Procs == {"cli", "daemon"}

\* The passphrase that `run` is given, and any other one.
Unlock == "unlock"
Passphrases == {Unlock, "other"}

ASSUME ProvisioningAssumption ==
  /\ Stdin \in {"terminal", "pipe", "nothing"} 
  /\ EnvPassphrases \subseteq Passphrases
  /\ {"none", "torn"} \cap Seeds = {}
  /\ MaxIssued \in Nat /\ FaultKinds \subseteq Faults /\ MaxFaults \in Nat
ASSUME ConfigurationAssumption ==
  /\ DOMAIN Config = {"network", "token", "secret", "maxAttempts", "expiry", "accept"}
  /\ Config.maxAttempts \in Nat /\ Config.expiry \in Nat

Params == {"output", "spend"}
Placeholder == "REPLACE_ME"

VARIABLES
  wallet,    \* wallet.json: "none", "torn", or the seed in it
  tmp,       \* wallet.tmp, which every process that saves a wallet shares
  key,       \* the passphrase of each of the two, and of the cli's command
  cursor,    \* hd_cursor in merchant.db, or NoDatabase
  params,    \* the cached parameter files: "none", "good" or "bad"
  at,        \* where a process is
  command,   \* what the cli does
  mem,       \* the seed a process holds
  prover,    \* the daemon could load the parameters
  \* history
  generated, \* the seeds drawn so far
  known,     \* the seeds the operator has written down
  unshown,   \* the seeds of an init that was killed before it showed them
  issued,    \* the addresses issued, with the database they came from
  databases, \* how many databases there were
  overlapped,\* a command saved a wallet while the daemon was up
  faults

disk == <<wallet, tmp, cursor, params>>
files == <<disk, key>>
procs == <<at, command, mem, prover>>
history == <<generated, known, unshown, issued, databases>>
vars == <<files, procs, history, overlapped, faults>>

NoDatabase == -1

Init ==
  /\ wallet = "none" /\ tmp = "none" /\ cursor = NoDatabase
  /\ key = [k \in {"wallet", "tmp", "cli"} |-> Unlock]
  /\ params = [f \in Params |-> "none"]
  /\ at = [p \in Procs |-> "idle"]
  /\ command = "none" /\ mem = [p \in Procs |-> "none"] /\ prover = FALSE
  /\ generated = {} /\ known = {} /\ unshown = {}
  /\ issued = <<>> /\ databases = 0
  /\ overlapped = FALSE /\ faults = 0

Fault(kind) ==
  /\ kind \in FaultKinds /\ faults < MaxFaults
  /\ faults' = faults + 1

Go(p, from, to) ==
  /\ at[p] = from
  /\ at' = [at EXCEPT ![p] = to]

\* Config::validate.
Valid ==
  /\ Config.network = "mainnet"
  /\ Config.token \notin {"", Placeholder}
  /\ Config.secret # Placeholder
  /\ Config.maxAttempts # 0
  /\ Config.expiry >= 60

\* load_unlock_key: what is not a terminal is read to its end; the variable is
\* never looked at.
UnlockKey == Stdin # "nothing"

ShieldEnabled == Config.accept \in {"shield", "both"}
------------------------------------------------------------------------------
(* init and import.                                                        *)
InitChecks(force) ==
  /\ Valid /\ UnlockKey
  /\ wallet = "none" \/ force
  /\ Go("cli", "idle", "save")
  /\ \E s \in Seeds \ generated :
       mem' = [mem EXCEPT !["cli"] = s] /\ generated' = generated \cup {s}
  /\ command' = IF force THEN "force" ELSE "init"
  /\ key' = [key EXCEPT !["cli"] = Unlock]
  /\ UNCHANGED <<disk, prover, known, unshown, issued, databases, faults>>

ImportChecks_xBlind ==
  /\ Valid
  /\ \E passphrase \in EnvPassphrases : key' = [key EXCEPT !["cli"] = passphrase]
  /\ Go("cli", "idle", "save")
  /\ \E s \in known : mem' = [mem EXCEPT !["cli"] = s]
  /\ command' = "import"
  /\ UNCHANGED <<disk, prover, history, faults>>

\* The words come from stdin and the passphrase from the variable, or not at
\* all: it need not be the one that `run` will be given.
ImportChecks ==
  /\ Valid
  /\ \E passphrase \in EnvPassphrases : key' = [key EXCEPT !["cli"] = passphrase]
  /\ wallet = "none"
  /\ Go("cli", "idle", "save")
  /\ \E s \in known : mem' = [mem EXCEPT !["cli"] = s]
  /\ command' = "import"
  /\ UNCHANGED <<disk, prover, history, faults>>

SaveStarts_xInPlace(p) ==
  /\ Go(p, "save", "rename")
  /\ wallet' = "torn" /\ tmp' = mem[p]
  /\ UNCHANGED <<key, cursor, params, command, mem, prover, history, faults>>

\* atomic_write: the temporary file, which may be another process's too ...
SaveStarts(p) ==
  /\ Go(p, "save", "rename")
  /\ tmp' = mem[p]
  /\ key' = [key EXCEPT !["tmp"] = IF p = "cli" THEN key["cli"] ELSE Unlock]
  /\ UNCHANGED <<wallet, cursor, params, command, mem, prover, history, faults>>

\* ... and the rename, which fails if the other one was first.
After(p) ==
  CASE p = "daemon" -> "serving"
    [] p = "cli" /\ (tmp = "none" \/ command = "import") -> "idle"
    [] OTHER -> "show"

SaveEnds(p) ==
  /\ Go(p, "rename", After(p))
  /\ IF tmp = "none" THEN UNCHANGED <<wallet, tmp, key>>
     ELSE wallet' = tmp /\ tmp' = "none" /\ key' = [key EXCEPT !["wallet"] = key["tmp"]]
  /\ UNCHANGED <<cursor, params, command, mem, prover, history, faults>>

Show_xFirstTime ==
  /\ Go("cli", "show", "idle")
  /\ known' = IF command = "force" THEN known ELSE known \cup {mem["cli"]}
  /\ UNCHANGED <<files, command, mem, prover, generated, unshown, issued, databases, faults>>

\* The words are shown once, after the wallet was saved.
Show ==
  /\ Go("cli", "show", "idle")
  /\ known' = known \cup {mem["cli"]}
  /\ UNCHANGED <<files, command, mem, prover, generated, unshown, issued, databases, faults>>
------------------------------------------------------------------------------
(* run.                                                                    *)
Load_xUnchecked ==
  /\ Valid /\ UnlockKey
  /\ Go("daemon", "idle", "open")
  /\ mem' = [mem EXCEPT !["daemon"] = wallet]
  /\ prover' = FALSE
  /\ UNCHANGED <<files, command, history, faults>>

\* A wallet that is missing, that is not whole, or that was encrypted with
\* another passphrase, is an error.
Load ==
  /\ Valid /\ UnlockKey
  /\ wallet \in Seeds /\ key["wallet"] = Unlock
  /\ Go("daemon", "idle", "open")
  /\ mem' = [mem EXCEPT !["daemon"] = wallet]
  /\ prover' = FALSE
  /\ UNCHANGED <<files, command, history, faults>>

Open_xResets ==
  /\ Go("daemon", "open", IF ShieldEnabled THEN "params" ELSE "bind")
  /\ cursor' = 0 /\ databases' = IF cursor = NoDatabase THEN databases + 1 ELSE databases
  /\ UNCHANGED <<wallet, tmp, key, params, command, mem, prover, generated, known,
                 unshown, issued, faults>>

\* Db::open creates the database, or finds the migrations done.
Open ==
  /\ Go("daemon", "open", IF ShieldEnabled THEN "params" ELSE "bind")
  /\ IF cursor = NoDatabase THEN cursor' = 0 /\ databases' = databases + 1
     ELSE UNCHANGED <<cursor, databases>>
  /\ UNCHANGED <<wallet, tmp, key, params, command, mem, prover, generated, known,
                 unshown, issued, faults>>

Cached_xEither == \E f \in Params : params[f] # "none"

Cached == \A f \in Params : params[f] # "none"

\* load_or_download: the cache, if it has both files, else the mirrors.
FindParams ==
  /\ \/ Go("daemon", "params", IF Cached THEN "verify" ELSE "output") /\ UNCHANGED faults
     \/ ~Cached /\ Fault("mirror") /\ Go("daemon", "params", "bind")
  /\ UNCHANGED <<files, command, mem, prover, history>>

\* The files are cached one after the other, each by a rename, before anyone
\* has looked at what is in them; an error ends the loading.
CacheParams(f, next) ==
  /\ \/ /\ Go("daemon", f, next)
        /\ \/ params' = [params EXCEPT ![f] = "good"] /\ UNCHANGED faults
           \/ params' = [params EXCEPT ![f] = "bad"] /\ Fault("bytes")
     \/ Go("daemon", f, "bind") /\ Fault("disk") /\ UNCHANGED params
  /\ UNCHANGED <<wallet, tmp, key, cursor, command, mem, prover, history>>

\* verify_and_load_params, against the hashes that are compiled in.
Verify ==
  /\ Go("daemon", "verify", "bind")
  /\ prover' = (\A f \in Params : params[f] = "good")
  /\ UNCHANGED <<files, command, mem, history, faults>>

\* The workers are started before the address is bound; if it cannot be, the
\* process exits.
Bind ==
  /\ \/ Go("daemon", "bind", "serving") /\ UNCHANGED faults
     \/ Go("daemon", "bind", "idle") /\ Fault("port")
  /\ UNCHANGED <<files, command, mem, prover, history>>

Issue ==
  /\ at["daemon"] = "serving" /\ cursor # NoDatabase
  /\ Len(issued) < MaxIssued
  /\ issued' = Append(issued, [seed |-> mem["daemon"], index |-> cursor,
                               database |-> databases])
  /\ cursor' = cursor + 1
  /\ UNCHANGED <<wallet, tmp, key, params, procs, generated, known, unshown,
                 databases, faults>>

\* A tick that advanced, or the end of the daemon, saves the wallet.
DaemonSaves ==
  /\ Go("daemon", "serving", "save")
  /\ UNCHANGED <<files, command, mem, prover, history, faults>>

DaemonStops ==
  /\ Go("daemon", "serving", "idle")
  /\ UNCHANGED <<files, command, mem, prover, history, faults>>
------------------------------------------------------------------------------
(* Failures.                                                               *)
\* A process dies; one that was writing the temporary file leaves a part.
Kill(p) ==
  /\ at[p] # "idle" /\ Fault("kill")
  /\ at' = [at EXCEPT ![p] = "idle"]
  /\ tmp' \in {tmp} \cup (IF at[p] = "save" THEN {"torn"} ELSE {})
  /\ unshown' = IF p = "cli" /\ at[p] = "show" THEN unshown \cup {mem[p]} ELSE unshown
  /\ UNCHANGED <<wallet, key, cursor, params, command, mem, prover, generated, known,
                 issued, databases>>

LoseWallet ==
  /\ wallet # "none" /\ Fault("file")
  /\ wallet' = "none"
  /\ UNCHANGED <<tmp, key, cursor, params, procs, history>>

\* All files are gone, and what ran.
LoseHost ==
  /\ Fault("host")
  /\ wallet' = "none" /\ tmp' = "none" /\ cursor' = NoDatabase
  /\ params' = [f \in Params |-> "none"]
  /\ at' = [p \in Procs |-> "idle"]
  /\ unshown' = IF at["cli"] = "show" THEN unshown \cup {mem["cli"]} ELSE unshown
  /\ UNCHANGED <<key, command, mem, prover, generated, known, issued, databases>>
------------------------------------------------------------------------------
Commands ==
  \/ \E force \in BOOLEAN : InitChecks(force)
  \/ ImportChecks \/ Show
  \/ SaveStarts("cli") \/ SaveEnds("cli")

Starting ==
  \/ Load \/ Open \/ FindParams
  \/ CacheParams("output", "spend") \/ CacheParams("spend", "verify")
  \/ Verify \/ Bind

Serving ==
  \/ Issue \/ DaemonSaves \/ DaemonStops
  \/ SaveStarts("daemon") \/ SaveEnds("daemon")

Failures == LoseWallet \/ LoseHost \/ \E p \in Procs : Kill(p)

Saving(p) == at[p] \in {"save", "rename"}

Next ==
  /\ Commands \/ Starting \/ Serving \/ Failures
  /\ overlapped' = (overlapped \/ (Saving("cli") /\ at["daemon"] # "idle")')

Spec == Init /\ [][Next]_vars

\* A supervisor starts the daemon again and again, and a save ends.  Nobody has
\* to run a command.
FairSpec ==
  /\ Spec /\ WF_vars(Next /\ Starting)
  /\ WF_vars(Next /\ (SaveStarts("daemon") \/ SaveEnds("daemon")))
------------------------------------------------------------------------------
\* The types of the state.
TypeOK ==
  /\ wallet \in Seeds \cup {"none", "torn"} /\ tmp \in Seeds \cup {"none", "torn"}
  /\ key \in [{"wallet", "tmp", "cli"} -> Passphrases]
  /\ cursor \in Nat \cup {NoDatabase}
  /\ params \in [Params -> {"none", "good", "bad"}]
  /\ at \in [Procs -> {"idle", "save", "rename", "show", "open", "params", "output",
                       "spend", "verify", "bind", "serving"}]
  /\ command \in {"none", "init", "force", "import"}
  /\ mem \in [Procs -> Seeds \cup {"none"}] /\ prover \in BOOLEAN
  /\ generated \subseteq Seeds /\ known \subseteq generated
  /\ unshown \subseteq generated
  /\ issued \in Seq([seed : Seeds, index : Nat, database : Nat])
  /\ databases \in Nat /\ overlapped \in BOOLEAN
  /\ faults \in 0..MaxFaults

\* What customers pay can be collected from the words on paper: the seed in the
\* wallet file, the one the daemon runs on and those it issued addresses from
\* have been shown, or are about to be, unless an init was killed between its
\* save and its output, or saved while the daemon was up (src/cli.rs, run_init).
InUse ==
  ({wallet} \cap Seeds) \cup {issued[k].seed : k \in DOMAIN issued}
    \cup (IF at["daemon"] # "idle" THEN {mem["daemon"]} ELSE {})
SeedsAreKnown ==
  overlapped
    \/ InUse \subseteq known \cup unshown
                 \cup (IF at["cli"] = "show" THEN {mem["cli"]} ELSE {})

\* No address is issued twice while its database lives, whatever happens to the
\* wallet file: not after a restart, nor after the same words are imported
\* again (src/storage/hd_cursor.rs).  On a new host the cursor starts over.
IssuedOnce ==
  \A j, k \in DOMAIN issued : j # k => issued[j] # issued[k]

\* The wallet is replaced only on purpose: by `init --force`, or by a command
\* that found no wallet; "`import` doesn't overwrite" (src/cli.rs, run_import).
ReplacedOnPurpose ==
  [][(wallet # wallet' /\ {wallet, wallet'} \subseteq Seeds)
       => (overlapped \/ command = "force")]_vars

\* Whatever was killed and wherever, the daemon comes up again from what is on
\* disk: a wallet that `run` can open stays one, whoever saves it, until it is
\* lost (src/cli.rs, run_daemon).  What was imported under another passphrase
\* never starts.
ComesUpAgain ==
  (wallet \in Seeds /\ key["wallet"] = Unlock /\ ~overlapped)
    ~> (at["daemon"] = "serving" \/ wallet = "none" \/ overlapped)

\* A start that nothing disturbs has the prover, whatever an earlier one that
\* was killed between the two files left in the cache, unless that is other
\* bytes: those are never fetched again (src/prover.rs, load_or_download).
ProverComesUp ==
  \A n \in 0..MaxFaults :
    (at["daemon"] = "params" /\ faults = n /\ \A f \in Params : params[f] # "bad")
      ~> (prover \/ faults > n)
==============================================================================
