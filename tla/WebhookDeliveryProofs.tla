------------------------ MODULE WebhookDeliveryProofs ------------------------
(***************************************************************************)
(* What WebhookDelivery guarantees for any number of deliveries, attempts  *)
(* and failures: the server is asked no more often than the attempts, but  *)
(* for a failure, it takes an event again only after a failure, and the    *)
(* rows are an outbox.                                                     *)
(***************************************************************************)
EXTENDS WebhookDelivery, TLAPS

\* What the worker has listed is pending, and no row is listed twice, so the
\* request under way is for a row that has attempts left.
WorkInv ==
  /\ \A d \in batch : status[d] = "pending"
  /\ pc \in {"post", "record"} => status[cur] = "pending" /\ cur \notin batch
  /\ pc = "record" <=> result # "none"
  /\ \A d \in Deliveries : status[d] \in {"none", "pending"} => attempts[d] < MaxAttempts

\* A request, and the taking of an event, is accounted for by an attempt that
\* was recorded, by the one under way, or by a failure.
UnderWay(d) == IF pc = "record" /\ cur = d THEN 1 ELSE 0
Taken(d) ==
  IF status[d] = "delivered" \/ (pc = "record" /\ result = "ok" /\ cur = d) THEN 1 ELSE 0
AccountInv ==
  /\ \A d \in Deliveries :
       /\ posted[d] <= attempts[d] + faults + UnderWay(d)
       /\ accepted[d] <= faults + Taken(d)
  /\ pc = "record" /\ result = "ok" => accepted[cur] > 0

DeliveryInv == TypeOK /\ WorkInv /\ AccountInv
------------------------------------------------------------------------------
LEMMA DeliveryInit == Init => DeliveryInv
BY DeliveryAssumption, DeliveryBoundsAssumption
DEF Init, DeliveryInv, TypeOK, WorkInv, AccountInv, UnderWay, Taken

\* Back-off times are integers.
LEMMA BackoffType == ASSUME NEW n \in Nat PROVE Backoff(n) \in Int
<1> DEFINE k == IF n < 20 THEN n ELSE 20
<1>1. k \in Nat
  OBVIOUS
<1>2. 2 ^ k \in Int
  BY ONLY <1>1
<1> QED
  BY <1>2, DeliveryAssumption DEF Backoff

\* The steps before a request is made only choose among the rows that are due.
LEMMA ChoosingStep ==
  ASSUME DeliveryInv,
         \/ \E P \in SUBSET Deliveries : FetchDue(P)
         \/ TickEnds
         \/ \E d \in Deliveries : Begin(d)
  PROVE  DeliveryInv'
<1> USE DEF DeliveryInv, TypeOK, WorkInv, AccountInv, UnderWay, Taken, rowVars, server
<1>1. ASSUME NEW P \in SUBSET Deliveries, FetchDue(P) PROVE DeliveryInv'
  <2>1. P \subseteq Due
    BY <1>1 DEF FetchDue, Pages
  <2> QED
    BY <1>1, <2>1 DEF FetchDue, Due
<1>2. CASE TickEnds
  BY <1>2 DEF TickEnds
<1>3. ASSUME NEW d \in Deliveries, Begin(d) PROVE DeliveryInv'
  BY <1>3 DEF Begin
<1> QED
  BY <1>1, <1>2, <1>3

\* A request is one more that is under way; a taken event is either reported
\* or costs a failure.
LEMMA PostStep ==
  ASSUME DeliveryInv, NEW answer \in {"ok", "failed"}, Post(answer)
  PROVE  DeliveryInv'
<1> USE DEF DeliveryInv, TypeOK, WorkInv, AccountInv, UnderWay, Taken, rowVars, Fault
<1>1. /\ pc = "post" /\ pc' = "record" /\ result' = answer
      /\ UNCHANGED <<status, attempts, wait, batch, cur, elapsed>>
  BY DEF Post
<1>2. posted' \in [Deliveries -> Nat]
      /\ \A d \in Deliveries : posted'[d] <= posted[d] + (IF d = cur THEN 1 ELSE 0)
  BY DEF Post
<1>3. \/ answer = "ok" /\ accepted' = [accepted EXCEPT ![cur] = @ + 1] /\ faults' = faults
      \/ answer = "failed" /\ accepted' = accepted /\ faults' = faults
      \/ /\ answer = "failed" /\ accepted' = [accepted EXCEPT ![cur] = @ + 1]
         /\ faults' = faults + 1 /\ faults < MaxFaults
  BY DEF Post
<1>4. TypeOK'
  BY <1>1, <1>2, <1>3, DeliveryBoundsAssumption
<1>5. WorkInv'
  BY <1>1
<1>6. \A d \in Deliveries : posted'[d] <= attempts'[d] + faults' + UnderWay(d)'
  BY <1>1, <1>2, <1>3, <1>4
<1>7. \A d \in Deliveries : accepted'[d] <= faults' + Taken(d)'
  BY <1>1, <1>3, <1>4
<1>8. result' = "ok" => accepted'[cur'] > 0
  BY <1>1, <1>3
<1> QED
  BY <1>4, <1>5, <1>6, <1>7, <1>8

\* What is recorded of a request replaces the request under way, by an attempt
\* or by a failure.
LEMMA RecordStep ==
  ASSUME DeliveryInv, MarkDelivered \/ MarkDead \/ ScheduleRetry \/ WriteFails \/ ClientFails
  PROVE  DeliveryInv'
<1> USE DeliveryAssumption, DeliveryBoundsAssumption
    DEF DeliveryInv, TypeOK, WorkInv, AccountInv, UnderWay, Taken, rowVars, server,
        NextDelivery, Fault
<1>1. CASE MarkDelivered
  BY <1>1 DEF MarkDelivered
<1>2. CASE MarkDead
  BY <1>2 DEF MarkDead
<1>3. CASE ScheduleRetry
  <2>1. Backoff(attempts[cur] + 1) \in Int
    BY BackoffType
  <2>2. attempts[cur] + 1 < MaxAttempts
    BY <1>3 DEF ScheduleRetry, Exhausted
  <2> QED
    BY <1>3, <2>1, <2>2 DEF ScheduleRetry
<1>4. CASE WriteFails \/ ClientFails
  BY <1>4 DEF WriteFails, ClientFails
<1> QED
  BY <1>1, <1>2, <1>3, <1>4

LEMMA DeliveryStep == DeliveryInv /\ [Next]_vars => DeliveryInv'
<1> SUFFICES ASSUME DeliveryInv, [Next]_vars PROVE DeliveryInv'
  OBVIOUS
<1>1. CASE WorkerStep
  BY <1>1, ChoosingStep, PostStep, RecordStep DEF WorkerStep
<1> USE DeliveryAssumption, DeliveryBoundsAssumption
    DEF DeliveryInv, TypeOK, WorkInv, AccountInv, UnderWay, Taken, rowVars, server,
        worker, Fault
<1>2. CASE Crash
  BY <1>2 DEF Crash
<1>3. CASE TimePasses
  BY <1>3 DEF TimePasses
<1>4. ASSUME NEW d \in Deliveries, Enqueue(d) PROVE DeliveryInv'
  BY <1>4 DEF Enqueue
<1>5. CASE UNCHANGED vars
  BY <1>5 DEF vars
<1> QED
  BY <1>1, <1>2, <1>3, <1>4, <1>5 DEF Next

LEMMA DeliveryAlways == Spec => []DeliveryInv
  BY DeliveryInit, DeliveryStep, PTL DEF Spec

\* The types hold in every state.
THEOREM TypeCorrect == Spec => []TypeOK
<1>1. DeliveryInv => TypeOK
  BY DEF DeliveryInv
<1> QED
  BY <1>1, DeliveryAlways, PTL

\* The server is asked no more often than max_attempts, but for one request per
\* failure, and takes an event again only after a failure
\* (src/webhooks/delivery.rs, deliver_one).
THEOREM RequestsBounded == Spec => []RequestsAreBounded
<1>1. DeliveryInv => RequestsAreBounded
  <2> SUFFICES ASSUME DeliveryInv, NEW d \in Deliveries
               PROVE  /\ posted[d] <= MaxAttempts + faults
                      /\ accepted[d] <= 1 + faults
                      /\ status[d] = "dead" /\ faults = 0 => accepted[d] = 0
    BY DEF RequestsAreBounded
  <2> QED
    BY DeliveryAssumption, DeliveryBoundsAssumption
    DEF DeliveryInv, TypeOK, WorkInv, AccountInv, UnderWay, Taken
<1> QED
  BY <1>1, DeliveryAlways, PTL
------------------------------------------------------------------------------
\* A row's state as Outbox has it.
RowState == [d \in Deliveries |-> IF status[d] = "delivered" THEN "done" ELSE status[d]]

\* Every step of the worker is a step of the outbox, or none.
LEMMA OutboxStep == DeliveryInv /\ [Next]_vars => [Rows!Next]_<<RowState, accepted>>
<1> SUFFICES ASSUME DeliveryInv, Next PROVE [Rows!Next]_<<RowState, accepted>>
  BY DEF vars, rowVars, server, RowState
<1> USE DEF DeliveryInv, TypeOK, WorkInv, AccountInv, RowState, rowVars, server, worker
<1>1. ASSUME UNCHANGED <<status, accepted>> PROVE UNCHANGED <<RowState, accepted>>
  BY <1>1
<1>2. ASSUME NEW d \in Deliveries, Enqueue(d) PROVE Rows!Enqueue(d)
  BY <1>2 DEF Enqueue, Rows!Enqueue, Rows!Become
<1>c. PICK row \in Deliveries : row = cur
  OBVIOUS
<1>3. ASSUME NEW answer \in {"ok", "failed"}, Post(answer)
      PROVE  Rows!Send(row) \/ UNCHANGED <<RowState, accepted>>
  BY <1>c, <1>3 DEF Post, Rows!Send
<1>4. ASSUME MarkDelivered PROVE Rows!Done(row)
  BY <1>c, <1>4 DEF MarkDelivered, Rows!Done, Rows!Become
<1>5. ASSUME MarkDead PROVE Rows!GiveUp(row)
  BY <1>c, <1>5 DEF MarkDead, Rows!GiveUp, Rows!Become
<1>6. ASSUME \/ \E P \in SUBSET Deliveries : FetchDue(P)
             \/ TickEnds
             \/ \E d \in Deliveries : Begin(d)
             \/ ScheduleRetry \/ WriteFails \/ ClientFails \/ Crash \/ TimePasses
      PROVE  UNCHANGED <<status, accepted>>
  BY <1>6 DEF FetchDue, TickEnds, Begin, ScheduleRetry, WriteFails, ClientFails, Crash,
              TimePasses, NextDelivery
<1>7. \A d \in Deliveries :
        Rows!Enqueue(d) \/ Rows!Send(d) \/ Rows!Done(d) \/ Rows!GiveUp(d) => Rows!Next
  BY DEF Rows!Next
<1> HIDE DEF DeliveryInv, TypeOK, WorkInv, AccountInv, RowState
<1>8. CASE WorkerStep
  <2>1. CASE \E answer \in {"ok", "failed"} : Post(answer)
    BY <1>3, <1>7, <2>1
  <2>2. CASE MarkDelivered
    BY <1>4, <1>7, <2>2
  <2>3. CASE MarkDead
    BY <1>5, <1>7, <2>3
  <2>4. CASE ~(MarkDelivered \/ MarkDead) /\ ~\E answer \in {"ok", "failed"} : Post(answer)
    BY <1>1, <1>6, <1>8, <2>4 DEF WorkerStep
  <2> QED
    BY <2>1, <2>2, <2>3, <2>4
<1>9. CASE ~WorkerStep
  BY <1>1, <1>2, <1>6, <1>7, <1>9 DEF Next
<1> QED
  BY <1>8, <1>9

\* The rows are an outbox (src/webhooks/queue.rs, src/webhooks/delivery.rs): a
\* row is marked delivered only after the server took the event, and then rests.
THEOREM OutboxIsKept == Spec => KeepsOutbox
<1>1. Init => Rows!Init
  BY DEF Init, Rows!Init
<1>2. DeliveryInv /\ [Next]_vars =>
        [Rows!Next]_<<[d \in Deliveries |-> IF status[d] = "delivered" THEN "done"
                                            ELSE status[d]], accepted>>
  BY OutboxStep DEF RowState
<1> QED
  BY <1>1, <1>2, DeliveryAlways, PTL DEF Spec, KeepsOutbox, Rows!Spec
==============================================================================
