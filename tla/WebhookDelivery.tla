--------------------------- MODULE WebhookDelivery ---------------------------
(***************************************************************************)
(* Delivering webhooks: the worker of src/webhooks/mod.rs, which POSTs the *)
(* due rows of webhook_deliveries to the merchant's server, and records    *)
(* each attempt after it has been made (src/webhooks/delivery.rs).  The    *)
(* server may refuse, be unreachable, or answer too late.                  *)
(* An operator whose name has an _x is a mutated form of the one after it. *)
(***************************************************************************)
EXTENDS Integers, FiniteSets

CONSTANTS
  Deliveries,
  MaxAttempts,   \* webhooks.max_attempts
  MaxRetry,      \* MAX_RETRY_SECS
  Timeout,       \* REQUEST_TIMEOUT
  PageSize,      \* the LIMIT of fetch_due
  \* Bounds of the model
  MaxOverdue,    \* rows that have been due for longer are due alike
  FaultKinds, MaxFaults

\* What can fail, besides the server's refusals: the answer of a server that
\* took the event (a timeout), a statement, the daemon.
Faults == {"reply", "client", "write", "crash"}

ASSUME DeliveryAssumption ==
  /\ MaxAttempts \in Nat \ {0} /\ MaxRetry \in Nat \ {0} /\ Timeout \in Nat
  /\ PageSize \in Nat \ {0}
ASSUME DeliveryBoundsAssumption ==
  /\ MaxOverdue \in Nat /\ FaultKinds \subseteq Faults /\ MaxFaults \in Nat

VARIABLES
  status, attempts,               \* table webhook_deliveries
  wait,                           \* next_attempt_at, counted from the present
  pc, batch, cur, result,         \* locals of the worker
  elapsed,                        \* since deliver_one read the time
  posted, accepted,               \* requests sent, and taken by the server
  faults

rowVars == <<status, attempts, wait>>
worker == <<pc, batch, cur, result, elapsed>>
server == <<posted, accepted>>
vars == <<rowVars, worker, server, faults>>

Init ==
  /\ status = [d \in Deliveries |-> "none"]
  /\ attempts = [d \in Deliveries |-> 0]
  /\ wait = [d \in Deliveries |-> 0]
  /\ pc = "idle" /\ batch = {} /\ cur \in Deliveries /\ result = "none" /\ elapsed = 0
  /\ posted = [d \in Deliveries |-> 0]
  /\ accepted = [d \in Deliveries |-> 0]
  /\ faults = 0

Fault(kind) ==
  /\ kind \in FaultKinds /\ faults < MaxFaults
  /\ faults' = faults + 1

\* backoff_secs: 2, 4, 8, ... up to MAX_RETRY_SECS.
Backoff(count) ==
  LET raw == 2 ^ (IF count < 20 THEN count ELSE 20)
  IN IF raw < MaxRetry THEN raw ELSE MaxRetry
------------------------------------------------------------------------------
\* webhooks::enqueue and queue::insert; steps EnqueueWebhook of Settlement.
Enqueue(d) ==
  /\ status[d] = "none"
  /\ status' = [status EXCEPT ![d] = "pending"]
  /\ UNCHANGED <<attempts, wait, worker, server, faults>>

Due_xRested == {d \in Deliveries : status[d] # "none" /\ wait[d] <= 0}

Due == {d \in Deliveries : status[d] = "pending" /\ wait[d] <= 0}

\* The first rows of a set by next_attempt_at; equal times in any order.
Pages(S) ==
  {P \in SUBSET S :
     /\ Cardinality(P) = IF Cardinality(S) < PageSize THEN Cardinality(S) ELSE PageSize
     /\ \A d \in P, e \in S \ P : wait[d] <= wait[e]}

\* A tick; most find nothing due.
FetchDue(P) ==
  /\ pc = "idle"
  /\ P \in Pages(Due)
  /\ batch' = P
  /\ pc' = "next"
  /\ UNCHANGED <<rowVars, cur, result, elapsed, server, faults>>

TickEnds ==
  /\ pc = "next" /\ batch = {}
  /\ pc' = "idle"
  /\ UNCHANGED <<rowVars, batch, cur, result, elapsed, server, faults>>

\* deliver_one: the time is read before the request is made.
Begin(d) ==
  /\ pc = "next" /\ d \in batch
  /\ \A e \in batch : wait[d] <= wait[e]
  /\ batch' = batch \ {d}
  /\ cur' = d
  /\ pc' = "post"
  /\ UNCHANGED <<rowVars, result, elapsed, server, faults>>

\* More requests than this are not told apart.
MaxPosted == MaxAttempts + MaxFaults + 1

Post(answer) ==
  /\ pc = "post"
  /\ posted' = [posted EXCEPT ![cur] = IF @ < MaxPosted THEN @ + 1 ELSE @]
  /\ \/ /\ answer = "ok"
        /\ accepted' = [accepted EXCEPT ![cur] = @ + 1]
        /\ UNCHANGED faults
     \/ answer = "failed" /\ UNCHANGED <<accepted, faults>>
     \/ /\ answer = "failed"
        /\ accepted' = [accepted EXCEPT ![cur] = @ + 1]
        /\ Fault("reply")
  /\ result' = answer
  /\ pc' = "record"
  /\ UNCHANGED <<rowVars, batch, cur, elapsed>>

NextDelivery ==
  /\ pc' = "next"
  /\ result' = "none" /\ elapsed' = 0
  /\ UNCHANGED <<batch, cur>>

MarkDelivered ==
  /\ pc = "record" /\ result = "ok"
  /\ status' = [status EXCEPT ![cur] = "delivered"]
  /\ attempts' = [attempts EXCEPT ![cur] = @ + 1]
  /\ NextDelivery
  /\ UNCHANGED <<wait, server, faults>>

Exhausted_xOff(count) == count > MaxAttempts

Exhausted(count) == count >= MaxAttempts

MarkDead ==
  /\ pc = "record" /\ result = "failed" /\ Exhausted(attempts[cur] + 1)
  /\ status' = [status EXCEPT ![cur] = "dead"]
  /\ attempts' = [attempts EXCEPT ![cur] = @ + 1]
  /\ NextDelivery
  /\ UNCHANGED <<wait, server, faults>>

ScheduleRetry_xUncounted ==
  /\ pc = "record" /\ result = "failed" /\ ~Exhausted(attempts[cur] + 1)
  /\ wait' = [wait EXCEPT ![cur] = Backoff(attempts[cur] + 1) - elapsed]
  /\ NextDelivery
  /\ UNCHANGED <<status, attempts, server, faults>>

ScheduleRetry ==
  /\ pc = "record" /\ result = "failed" /\ ~Exhausted(attempts[cur] + 1)
  /\ attempts' = [attempts EXCEPT ![cur] = @ + 1]
  /\ wait' = [wait EXCEPT ![cur] = Backoff(attempts[cur] + 1) - elapsed]
  /\ NextDelivery
  /\ UNCHANGED <<status, server, faults>>

\* Without a client there is no request and no attempt: an error that is logged,
\* as that of a failed statement, and the next delivery is tried.
ClientFails ==
  /\ pc = "post"
  /\ Fault("client")
  /\ NextDelivery
  /\ UNCHANGED <<rowVars, server>>

WriteFails ==
  /\ pc = "record"
  /\ Fault("write")
  /\ NextDelivery
  /\ UNCHANGED <<rowVars, server>>

Crash ==
  /\ Fault("crash")
  /\ pc' = "idle" /\ batch' = {} /\ result' = "none" /\ elapsed' = 0
  /\ UNCHANGED <<rowVars, cur, server>>

\* A request takes no longer than its timeout.
TimePasses ==
  /\ pc \in {"post", "record"} => elapsed < Timeout
  /\ elapsed' = IF pc \in {"post", "record"} THEN elapsed + 1 ELSE 0
  /\ wait' = [d \in Deliveries |->
                IF status[d] = "pending" /\ wait[d] > -MaxOverdue THEN wait[d] - 1
                ELSE wait[d]]
  /\ UNCHANGED <<status, attempts, pc, batch, cur, result, server, faults>>
------------------------------------------------------------------------------
WorkerStep ==
  \/ \E P \in SUBSET Deliveries : FetchDue(P)
  \/ TickEnds
  \/ \E d \in Deliveries : Begin(d)
  \/ \E answer \in {"ok", "failed"} : Post(answer)
  \/ MarkDelivered \/ MarkDead \/ ScheduleRetry \/ WriteFails
  \/ ClientFails

Next ==
  \/ WorkerStep \/ Crash \/ TimePasses
  \/ \E d \in Deliveries : Enqueue(d)

Spec == Init /\ [][Next]_vars

\* The worker runs as long as the daemon does, and time passes.  The server
\* may refuse forever.
FairSpec == Spec /\ WF_vars(WorkerStep) /\ WF_vars(TimePasses)
------------------------------------------------------------------------------
\* The types of the state.
TypeOK ==
  /\ status \in [Deliveries -> {"none", "pending", "delivered", "dead"}]
  /\ attempts \in [Deliveries -> 0..MaxAttempts]
  /\ wait \in [Deliveries -> Int]
  /\ pc \in {"idle", "next", "post", "record"}
  /\ batch \subseteq Deliveries /\ cur \in Deliveries
  /\ result \in {"none", "ok", "failed"} /\ elapsed \in 0..Timeout
  /\ posted \in [Deliveries -> Nat] /\ accepted \in [Deliveries -> Nat]
  /\ faults \in 0..MaxFaults

\* "After max_attempts failed attempts the row lands in the dead-letter state",
\* "X-Merchant-Delivery-Id hasn't been processed before" (src/webhooks/mod.rs):
\* the server is asked no more often than the attempts, but for requests whose
\* outcome a crash or a failed write kept from being counted, and it takes an
\* event again only after a fault.
RequestsAreBounded ==
  \A d \in Deliveries :
    /\ posted[d] <= MaxAttempts + faults
    /\ accepted[d] <= 1 + faults
    /\ status[d] = "dead" /\ faults = 0 => accepted[d] = 0

\* "Oldest-first so a long-stuck delivery doesn't get starved behind newer
\* ones" (src/webhooks/queue.rs, fetch_due): every row is delivered or
\* dead-lettered in the end.
EveryRowIsSettled ==
  \A d \in Deliveries : status[d] = "pending" ~> status[d] # "pending"

\* The rows are an outbox: taken by the server at least once before they are
\* marked delivered.
Rows == INSTANCE Outbox WITH
  Items <- Deliveries,
  state <- [d \in Deliveries |-> IF status[d] = "delivered" THEN "done" ELSE status[d]],
  sent <- accepted
KeepsOutbox == Rows!Spec
==============================================================================
