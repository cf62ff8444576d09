--------------------------- MODULE InvoiceCreation ---------------------------
(***************************************************************************)
(* POST /v1/invoices (src/api/invoices.rs, create): concurrent requests    *)
(* look their external_id up, claim an index of the HD cursor under the    *)
(* wallet's mutex (src/wallet/derive.rs, src/storage/hd_cursor.rs), and    *)
(* insert the invoice.  The sync loop and the refund worker take the same  *)
(* mutex.  A request that fails validation changes nothing and is left     *)
(* out; a request may be dropped, and the daemon may crash, at any step.   *)
(* An operator whose name has an _x is a mutated form of the one after it. *)
(***************************************************************************)
EXTENDS Integers, FiniteSets

CONSTANTS
  Requests,
  ExternalId,   \* of a request, or NoId
  NoId,
  Shield,       \* the requests for a shield invoice; the rest are transparent
  UsedIndex,    \* the first valid diversifier at or after an index
  \* Bounds of the model
  MaxIndex, MaxFaults

Indices == 0..MaxIndex
Channels == {"transparent", "shield"}
ChannelOf(r) == IF r \in Shield THEN "shield" ELSE "transparent"

ASSUME RequestsAssumption ==
  /\ Shield \subseteq Requests
  /\ {"free", "sync", "none", "error"} \cap Requests = {}
ASSUME IndexAssumption ==
  /\ MaxIndex \in Nat /\ MaxFaults \in Nat
  /\ UsedIndex \in [Indices -> Nat]
  /\ \A n \in Indices : UsedIndex[n] >= n

VARIABLES
  invoices,   \* the rows, each named by the request that inserted it
  cursor,     \* table hd_cursor
  holder,     \* of the wallet's mutex
  at,         \* where a request is
  start,      \* the index it claimed
  index,      \* the index of its address
  reply,      \* what it answered: an invoice, or an error
  faults

vars == <<invoices, cursor, holder, at, start, index, reply, faults>>

Free == "free"
Syncing == "sync"

Init ==
  /\ invoices = {}
  /\ cursor = [c \in Channels |-> 0]
  /\ holder = Free
  /\ at = [r \in Requests |-> "lookup"]
  /\ start = [r \in Requests |-> 0]
  /\ index = [r \in Requests |-> 0]
  /\ reply = [r \in Requests |-> "none"]
  /\ faults = 0

Go(r, from, to) ==
  /\ at[r] = from
  /\ at' = [at EXCEPT ![r] = to]

SameId(r, q) == ExternalId[r] # NoId /\ ExternalId[r] = ExternalId[q]
------------------------------------------------------------------------------
\* get_by_external_id: a known external_id answers with its invoice.
Lookup(r) ==
  LET known == {q \in invoices : SameId(r, q)} IN
  /\ IF known # {}
     THEN /\ Go(r, "lookup", "done")
          /\ \E q \in known : reply' = [reply EXCEPT ![r] = q]
     ELSE Go(r, "lookup", "lock") /\ UNCHANGED reply
  /\ UNCHANGED <<invoices, cursor, holder, start, index, faults>>

Lock_xShared(r) ==
  /\ holder # Syncing
  /\ Go(r, "lock", "claim")
  /\ holder' = r
  /\ UNCHANGED <<invoices, cursor, start, index, reply, faults>>

Lock_xTry(r) ==
  /\ IF holder = Free THEN Go(r, "lock", "claim") /\ holder' = r
     ELSE Go(r, "lock", "lookup") /\ UNCHANGED holder
  /\ UNCHANGED <<invoices, cursor, start, index, reply, faults>>

Lock(r) ==
  /\ holder = Free
  /\ Go(r, "lock", "claim")
  /\ holder' = r
  /\ UNCHANGED <<invoices, cursor, start, index, reply, faults>>

Claim_xAfter(r) ==
  /\ cursor[ChannelOf(r)] <= MaxIndex
  /\ Go(r, "claim", "derive")
  /\ cursor' = [cursor EXCEPT ![ChannelOf(r)] = @ + 1]
  /\ start' = [start EXCEPT ![r] = cursor'[ChannelOf(r)]]
  /\ UNCHANGED <<invoices, holder, index, reply, faults>>

\* next_index is one UPDATE ... RETURNING.
Claim(r) ==
  /\ cursor[ChannelOf(r)] <= MaxIndex
  /\ Go(r, "claim", "derive")
  /\ start' = [start EXCEPT ![r] = cursor[ChannelOf(r)]]
  /\ cursor' = [cursor EXCEPT ![ChannelOf(r)] = @ + 1]
  /\ UNCHANGED <<invoices, holder, index, reply, faults>>

Advanced_xToUsed(used) == IF cursor["shield"] > used THEN cursor["shield"] ELSE used

\* advance_shield_cursor_to(used + 1) "only advances".
Advanced(used) == IF cursor["shield"] > used + 1 THEN cursor["shield"] ELSE used + 1

\* The rest of next_address: the address of the index, or of the next valid
\* diversifier, in which case the cursor follows it.  The guard goes.
Derive(r) ==
  LET used == IF r \in Shield THEN UsedIndex[start[r]] ELSE start[r] IN
  /\ Go(r, "derive", "insert")
  /\ index' = [index EXCEPT ![r] = used]
  /\ cursor' = IF used > start[r] THEN [cursor EXCEPT !["shield"] = Advanced(used)]
               ELSE cursor
  /\ holder' = Free
  /\ UNCHANGED <<invoices, start, reply, faults>>

Conflict_xAddress(r) ==
  \E q \in invoices : ChannelOf(q) = ChannelOf(r) /\ index[q] = index[r]

\* UNIQUE(external_id) and UNIQUE(address).
Conflict(r) ==
  \E q \in invoices :
    SameId(r, q) \/ (ChannelOf(q) = ChannelOf(r) /\ index[q] = index[r])

Insert(r) ==
  /\ Go(r, "insert", "done")
  /\ IF Conflict(r)
     THEN reply' = [reply EXCEPT ![r] = "error"] /\ UNCHANGED invoices
     ELSE reply' = [reply EXCEPT ![r] = r] /\ invoices' = invoices \cup {r}
  /\ UNCHANGED <<cursor, holder, start, index, faults>>

\* A client disconnects, a statement fails or a key cannot be derived: what
\* the request did stays, and its mutex guard is dropped with it.
Drop(r) ==
  /\ at[r] \in {"lock", "claim", "derive", "insert"}
  /\ faults < MaxFaults /\ faults' = faults + 1
  /\ at' = [at EXCEPT ![r] = "done"]
  /\ holder' = IF holder = r THEN Free ELSE holder
  /\ UNCHANGED <<invoices, cursor, start, index, reply>>

Crash ==
  /\ faults < MaxFaults /\ faults' = faults + 1
  /\ at' = [r \in Requests |-> IF at[r] = "lookup" THEN "lookup" ELSE "done"]
  /\ holder' = Free
  /\ UNCHANGED <<invoices, cursor, start, index, reply>>

\* The shield scan, the saving of the wallet and the signing of a refund.
SyncLocks ==
  /\ holder = Free
  /\ holder' = Syncing
  /\ UNCHANGED <<invoices, cursor, at, start, index, reply, faults>>

SyncUnlocks ==
  /\ holder = Syncing
  /\ holder' = Free
  /\ UNCHANGED <<invoices, cursor, at, start, index, reply, faults>>
------------------------------------------------------------------------------
HandlerStep(r) == Lookup(r) \/ Claim(r) \/ Derive(r) \/ Insert(r)

Next ==
  \/ \E r \in Requests : HandlerStep(r) \/ Lock(r) \/ Drop(r)
  \/ Crash \/ SyncLocks \/ SyncUnlocks

Spec == Init /\ [][Next]_vars

\* Tasks are scheduled, no scan takes forever, and tokio's mutex is granted in
\* the order it was asked for, so no one waits forever for it.
FairSpec ==
  /\ Spec
  /\ WF_vars(SyncUnlocks)
  /\ \A r \in Requests : WF_vars(HandlerStep(r)) /\ SF_vars(Lock(r))
------------------------------------------------------------------------------
\* The types of the state; no claim goes beyond the indices of the model.
TypeOK ==
  /\ invoices \subseteq Requests
  /\ cursor \in [Channels -> Nat]
  /\ holder \in Requests \cup {Free, Syncing}
  /\ at \in [Requests -> {"lookup", "lock", "claim", "derive", "insert", "done"}]
  /\ start \in [Requests -> Indices] /\ index \in [Requests -> Nat]
  /\ reply \in [Requests -> Requests \cup {"none", "error"}]
  /\ faults \in 0..MaxFaults

\* "Two concurrent invoice creates can't collide on the same HD index"
\* (src/wallet/derive.rs, next_address): requests that got as far as an
\* address have different ones, so an insert never fails on UNIQUE(address),
\* although a shield address may belong to a later index than the one that
\* was claimed.
Addressed(r) == r \in invoices \/ at[r] = "insert"
AddressesAreDistinct ==
  \A r, q \in Requests :
    /\ r # q /\ Addressed(r) /\ Addressed(q) /\ ChannelOf(r) = ChannelOf(q)
    => index[r] # index[q]

\* Why: only the holder of the mutex is between a claim and the address that
\* comes of it, and the cursor is past every index in use.
Deriving(r) == at[r] \in {"claim", "derive"}
CursorIsAhead ==
  /\ \A r \in Requests : Deriving(r) => holder = r
  /\ \A r \in Requests : Addressed(r) => index[r] < cursor[ChannelOf(r)]
  /\ \A r \in Requests : at[r] = "derive" =>
       /\ start[r] < cursor[ChannelOf(r)]
       /\ \A q \in Requests :
            Addressed(q) /\ ChannelOf(q) = ChannelOf(r) => index[q] < start[r]

\* An external_id stands for one invoice: whoever is answered with an invoice
\* is answered with the same one, and it is in the table.
OneInvoicePerId ==
  \A r, q \in Requests :
    /\ reply[r] \in Requests => reply[r] \in invoices
    /\ reply[r] \in Requests /\ reply[q] \in Requests /\ SameId(r, q) =>
         reply[r] = reply[q]

\* Every request is answered or was dropped: nothing holds the mutex for good.
EveryRequestEnds == \A r \in Requests : <>(at[r] = "done")
==============================================================================
