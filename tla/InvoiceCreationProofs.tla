----------------------- MODULE InvoiceCreationProofs -------------------------
(***************************************************************************)
(* What InvoiceCreation guarantees for any number of requests, any indices *)
(* and any diversifiers: no two invoices share an address, and an          *)
(* external_id stands for one invoice.                                     *)
(***************************************************************************)
EXTENDS InvoiceCreation, TLAPS

\* A request in the table is over: the address of a row is never derived anew.
InsertedIsDone == \A r \in invoices : at[r] = "done"

\* The inductive invariant of the addresses: the cursor is ahead of every
\* index in use, so what a request claims is new; and only the holder of the
\* mutex is between a claim and the leap over invalid diversifiers, so no
\* claim falls into a gap that is about to be leapt over.
IndexInv ==
  TypeOK /\ InsertedIsDone /\ CursorIsAhead /\ AddressesAreDistinct

\* What the table says of external_ids: one row each, and an answer is the
\* request's own row or the row of its id.
IdInv ==
  /\ TypeOK
  /\ \A r, q \in invoices : SameId(r, q) => r = q
  /\ \A r \in Requests : reply[r] \in Requests =>
       reply[r] \in invoices /\ (reply[r] = r \/ SameId(r, reply[r]))
------------------------------------------------------------------------------
\* The types hold initially and are kept by every step.
LEMMA TypeInit == Init => TypeOK
  BY RequestsAssumption, IndexAssumption
  DEF Init, TypeOK, Channels, Indices, Free

LEMMA TypeStep == TypeOK /\ [Next]_vars => TypeOK'
<1> SUFFICES ASSUME TypeOK, [Next]_vars PROVE TypeOK'
  OBVIOUS
<1> USE DEF TypeOK, Channels, Indices, Free, Syncing, Go
<1>1. ASSUME NEW r \in Requests, Lookup(r) PROVE TypeOK'
  BY <1>1 DEF Lookup
<1>2. ASSUME NEW r \in Requests, Lock(r) PROVE TypeOK'
  BY <1>2 DEF Lock
<1>3. ASSUME NEW r \in Requests, Claim(r) PROVE TypeOK'
  <2>1. ChannelOf(r) \in Channels /\ cursor[ChannelOf(r)] \in Nat
    BY DEF ChannelOf
  <2>2. cursor[ChannelOf(r)] \in Indices
    BY <1>3, <2>1, IndexAssumption DEF Claim
  <2>3. start' \in [Requests -> Indices]
    BY <1>3, <2>2 DEF Claim
  <2>4. cursor' \in [Channels -> Nat]
    BY <1>3, <2>1 DEF Claim
  <2> QED
    BY <1>3, <2>3, <2>4 DEF Claim
<1>4. ASSUME NEW r \in Requests, Derive(r) PROVE TypeOK'
  <2> DEFINE used == IF r \in Shield THEN UsedIndex[start[r]] ELSE start[r]
  <2>1. used \in Nat
    BY IndexAssumption
  <2>2. cursor' \in [Channels -> Nat]
    BY <1>4, <2>1 DEF Derive, Advanced
  <2> QED
    BY <1>4, <2>1, <2>2 DEF Derive
<1>5. ASSUME NEW r \in Requests, Insert(r) PROVE TypeOK'
  BY <1>5 DEF Insert
<1>6. ASSUME NEW r \in Requests, Drop(r) PROVE TypeOK'
  BY <1>6, IndexAssumption DEF Drop
<1>7. CASE Crash
  BY <1>7, IndexAssumption DEF Crash
<1>8. CASE SyncLocks \/ SyncUnlocks
  BY <1>8 DEF SyncLocks, SyncUnlocks
<1>9. CASE UNCHANGED vars
  BY <1>9 DEF vars
<1> QED
  BY <1>1, <1>2, <1>3, <1>4, <1>5, <1>6, <1>7, <1>8, <1>9 DEF Next, HandlerStep

\* The types hold in every state of every behaviour (storage/hd_cursor.rs: a
\* claim returns an index of the cursor).
THEOREM TypeCorrect == Spec => []TypeOK
  BY TypeInit, TypeStep, PTL DEF Spec
------------------------------------------------------------------------------
\* A step of a request touches no other request, and no row.
LEMMA IndexStep == IndexInv /\ [Next]_vars => IndexInv'
<1> SUFFICES ASSUME IndexInv, [Next]_vars PROVE IndexInv'
  OBVIOUS
<1>t. TypeOK /\ TypeOK'
  BY TypeStep DEF IndexInv
<1> USE DEF IndexInv, InsertedIsDone, CursorIsAhead, AddressesAreDistinct,
            Addressed, Deriving, Go
<1>1. ASSUME NEW r \in Requests, Lookup(r) PROVE IndexInv'
  BY <1>1, <1>t DEF Lookup, TypeOK
<1>2. ASSUME NEW r \in Requests, Lock(r) PROVE IndexInv'
  BY <1>2, <1>t, RequestsAssumption DEF Lock, TypeOK, Free
<1>3. ASSUME NEW r \in Requests, Claim(r) PROVE IndexInv'
  <2>1. \A q \in Requests : cursor[ChannelOf(q)] \in Nat
    BY <1>t DEF TypeOK, Channels, ChannelOf
  <2>2. \A q \in Requests :
          cursor'[ChannelOf(q)] =
            IF ChannelOf(q) = ChannelOf(r) THEN cursor[ChannelOf(q)] + 1
            ELSE cursor[ChannelOf(q)]
    BY <1>3, <1>t DEF Claim, TypeOK, Channels, ChannelOf
  <2>3. \A q \in Requests : index[q] \in Nat
    BY <1>t DEF TypeOK
  <2>4. \A q \in Requests : q # r => at'[q] = at[q] /\ start'[q] = start[q]
    BY <1>3, <1>t DEF Claim, TypeOK
  <2>5. /\ at[r] = "claim" /\ at'[r] = "derive"
        /\ start'[r] = cursor[ChannelOf(r)] /\ r \notin invoices
        /\ invoices' = invoices /\ index' = index /\ holder' = holder
    BY <1>3, <1>t DEF Claim, TypeOK
  <2>6. \A q \in Requests : q # r => ~Deriving(q)'
    BY <2>4, <2>5
  <2> QED
    BY <2>1, <2>2, <2>3, <2>4, <2>5, <2>6, <1>t DEF TypeOK
<1>4. ASSUME NEW r \in Requests, Derive(r) PROVE IndexInv'
  <2> DEFINE used == IF r \in Shield THEN UsedIndex[start[r]] ELSE start[r]
  <2>1. /\ at[r] = "derive" /\ at'[r] = "insert" /\ r \notin invoices
        /\ index'[r] = used /\ invoices' = invoices
    BY <1>4, <1>t DEF Derive, TypeOK
  <2>2. \A q \in Requests : q # r => at'[q] = at[q] /\ index'[q] = index[q]
    BY <1>4, <1>t DEF Derive, TypeOK
  <2>3. used \in Nat /\ used >= start[r] /\ start[r] \in Nat
    BY <1>t, IndexAssumption DEF TypeOK, Indices
  <2>4. \A q \in Requests : /\ cursor[ChannelOf(q)] \in Nat
                            /\ cursor'[ChannelOf(q)] \in Nat
                            /\ cursor'[ChannelOf(q)] >= cursor[ChannelOf(q)]
    BY <1>4, <1>t, <2>3 DEF Derive, TypeOK, Advanced, Channels, ChannelOf
  <2>5. used < cursor'[ChannelOf(r)]
    BY <1>4, <1>t, <2>1, <2>3 DEF Derive, TypeOK, Advanced, Channels, ChannelOf
  <2>6. \A q \in Requests : ~Deriving(q)'
    BY <2>1, <2>2
  <2>7. \A q \in Requests : Addressed(q)' => Addressed(q) \/ q = r
    BY <2>1, <2>2
  <2>8. \A q \in Requests : index[q] \in Nat
    BY <1>t DEF TypeOK
  <2>9. \A q \in Requests : q # r /\ Addressed(q)' /\ ChannelOf(q) = ChannelOf(r)
                              => index'[q] < index'[r]
    BY <2>1, <2>2, <2>3, <2>7, <2>8
  <2>10. AddressesAreDistinct'
    BY <2>2, <2>7, <2>8, <2>9, <2>1, <2>3
  <2>11. CursorIsAhead'
    BY <2>1, <2>2, <2>4, <2>5, <2>6, <2>7, <2>8
  <2> QED
    BY <2>1, <2>2, <2>10, <2>11, <1>t DEF TypeOK
<1>5. ASSUME NEW r \in Requests, Insert(r) PROVE IndexInv'
  BY <1>5, <1>t DEF Insert, TypeOK
<1>6. ASSUME NEW r \in Requests, Drop(r) PROVE IndexInv'
  BY <1>6, <1>t DEF Drop, TypeOK
<1>7. CASE Crash
  BY <1>7, <1>t DEF Crash, TypeOK
<1>8. CASE SyncLocks \/ SyncUnlocks
  BY <1>8, <1>t, RequestsAssumption
  DEF SyncLocks, SyncUnlocks, TypeOK, Free, Syncing
<1>9. CASE UNCHANGED vars
  BY <1>9, <1>t DEF vars
<1> QED
  BY <1>1, <1>2, <1>3, <1>4, <1>5, <1>6, <1>7, <1>8, <1>9 DEF Next, HandlerStep

\* "Two concurrent invoice creates can't collide on the same HD index"
\* (wallet/derive.rs, next_address), however many requests there are, in
\* whatever order they claim, derive, insert, fail or crash, and whichever
\* diversifiers are invalid.
THEOREM AddressesNeverCollide == Spec => []AddressesAreDistinct
<1>1. Init => IndexInv
  BY TypeInit DEF Init, IndexInv, InsertedIsDone, CursorIsAhead,
                  AddressesAreDistinct, Addressed, Deriving
<1>2. IndexInv => AddressesAreDistinct
  BY DEF IndexInv
<1> QED
  BY <1>1, <1>2, IndexStep, PTL DEF Spec

\* The mutex and the cursor keep every index in use behind the cursor
\* (wallet/derive.rs, advance_shield_cursor_to: "only advances").
THEOREM CursorStaysAhead == Spec => []CursorIsAhead
<1>1. Init => IndexInv
  BY TypeInit DEF Init, IndexInv, InsertedIsDone, CursorIsAhead,
                  AddressesAreDistinct, Addressed, Deriving
<1>2. IndexInv => CursorIsAhead
  BY DEF IndexInv
<1> QED
  BY <1>1, <1>2, IndexStep, PTL DEF Spec
------------------------------------------------------------------------------
\* Only an insert adds a row, and only a lookup or an insert answers.
LEMMA IdStep == IdInv /\ [Next]_vars => IdInv'
<1> SUFFICES ASSUME IdInv, [Next]_vars PROVE IdInv'
  OBVIOUS
<1>t. TypeOK /\ TypeOK'
  BY TypeStep DEF IdInv
<1>1. ASSUME NEW r \in Requests, Lookup(r) PROVE IdInv'
  BY <1>1, <1>t DEF Lookup, IdInv, TypeOK
<1>2. ASSUME NEW r \in Requests, Insert(r) PROVE IdInv'
  <2>1. CASE Conflict(r)
    BY <1>2, <1>t, <2>1, RequestsAssumption DEF Insert, IdInv, TypeOK
  <2>2. CASE ~Conflict(r)
    <3>1. \A q \in invoices : ~SameId(r, q) /\ ~SameId(q, r)
      BY <2>2 DEF Conflict, SameId
    <3>2. invoices' = invoices \cup {r} /\ reply' = [reply EXCEPT ![r] = r]
      BY <1>2, <2>2 DEF Insert
    <3> QED
      BY <1>t, <3>1, <3>2 DEF IdInv, TypeOK, SameId
  <2> QED
    BY <2>1, <2>2
<1>3. ASSUME UNCHANGED <<invoices, reply>> PROVE IdInv'
  BY <1>3, <1>t DEF IdInv
<1>4. \/ \E r \in Requests : Lookup(r) \/ Insert(r)
      \/ UNCHANGED <<invoices, reply>>
  BY DEF Next, HandlerStep, Lock, Claim, Derive, Drop, Crash, SyncLocks,
         SyncUnlocks, vars
<1> QED
  BY <1>1, <1>2, <1>3, <1>4

\* All answers to one external_id name the same invoice, and it is stored
\* (api/invoices.rs, create: the lookup, and UNIQUE(external_id) behind it).
THEOREM IdsAreUnique == Spec => []OneInvoicePerId
<1>1. Init => IdInv
  BY TypeInit, RequestsAssumption DEF Init, IdInv
<1>2. IdInv => OneInvoicePerId
  <2> SUFFICES ASSUME IdInv, NEW r \in Requests, NEW q \in Requests,
                      reply[r] \in Requests, reply[q] \in Requests, SameId(r, q)
               PROVE reply[r] = reply[q]
    BY DEF IdInv, OneInvoicePerId
  <2>1. /\ reply[r] \in invoices /\ (reply[r] = r \/ SameId(r, reply[r]))
        /\ reply[q] \in invoices /\ (reply[q] = q \/ SameId(q, reply[q]))
    BY DEF IdInv
  <2>2. SameId(reply[r], reply[q])
    BY <2>1 DEF SameId
  <2> QED
    BY <2>1, <2>2 DEF IdInv
<1> QED
  BY <1>1, <1>2, IdStep, PTL DEF Spec
==============================================================================
