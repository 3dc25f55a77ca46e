--------------------------- MODULE EventDelivery ---------------------------
(***************************************************************************)
(* The way of a payment event from the outbox table to the customer's      *)
(* mailbox: outbox runners lease rows and publish them, RabbitMQ keeps the *)
(* messages, consumers of the notification service claim events, send the  *)
(* mail and acknowledge.  Runners live in the API and the worker process.  *)
(*                                                                         *)
(* Each action is one SQL statement, one exchange with the broker or one   *)
(* call of the mail provider.  A lease is the number of ticks it has left. *)
(* Only events that pass EventEnvelope.Validate are enqueued, so the paths *)
(* for malformed messages are left out.                                    *)
(***************************************************************************)
EXTENDS Integers, FiniteSets

CONSTANTS
  Events,          \* event ids
  NoEvent,
  Runners,         \* outbox.Runner loops
  Consumers,       \* rabbitmq.Consumer loops
  BatchSize,       \* rows leased at once
  PublishLease,    \* ticks a row is leased to a runner (30 s)
  ProcessLease,    \* ticks an event is leased to a consumer (2 min)
  MaxRetries,      \* RABBITMQ_MAX_RETRIES; a retry waits for the next tick
  MaxFaults        \* bound: crashes, lost connections, failed calls, stalls

ASSUME DeliveryAssumption ==
  /\ NoEvent \notin Events
  /\ IsFiniteSet(Consumers)
  /\ BatchSize \in Nat \ {0}
  /\ PublishLease \in Nat \ {0}
  /\ ProcessLease \in Nat \ {0}
  /\ MaxRetries \in Nat
  /\ MaxFaults \in Nat

VARIABLES
  row,             \* outbox_events
  runner,          \* where each outbox runner is in Flush
  queue,           \* notification.payment.v1: how many copies of each message
  retryQueue,      \* notification.payment.retry
  deadQueue,       \* notification.payment.dlq
  consumer,        \* where each consumer is in handleDelivery
  claim,           \* notification.processed_events
  mails,           \* mails the provider accepted, by event
  faults           \* faults so far, of the way to a consumer and of its work

outboxVars == <<row, runner>>
brokerVars == <<queue, retryQueue, deadQueue>>
notifyVars == <<consumer, claim, mails>>
deliveryVars == <<outboxVars, brokerVars, notifyVars, faults>>

\* A message is an event and the x-retry-count it carries.
Message == [event: Events, retries: 0..MaxRetries]

Fresh(e) == [event |-> e, retries |-> 0]

Row == [state: {"NONE", "PENDING", "PUBLISHED"}, lease: 0..PublishLease]

Runner == [step: {"idle", "publishing", "confirmed", "refused"},
           batch: SUBSET Events, current: Events \union {NoEvent}]

RunnerIdle == [step |-> "idle", batch |-> {}, current |-> NoEvent]

\* A consumer that lost its connection works on, but can no longer reach the
\* broker, which has put its message back.
Consumer == [step: {"idle", "received", "claimed", "sent", "failed", "ack", "retry"},
             message: Message \union {NoEvent}, connected: BOOLEAN]

ConsumerIdle == [step |-> "idle", message |-> NoEvent, connected |-> TRUE]

Claim == [state: {"NONE", "HELD", "DONE"}, lease: 0..ProcessLease]

\* "transport": runners, broker and connections; "work": what a consumer does
\* under a claim.
Fault(kinds) ==
  /\ faults' = [k \in {"transport", "work"} |-> faults[k] + IF k \in kinds THEN 1 ELSE 0]
  /\ faults'["transport"] + faults'["work"] <= MaxFaults

Put(place, m) == [place EXCEPT ![m] = @ + 1]

Take(place, m) == [place EXCEPT ![m] = @ - 1]

-----------------------------------------------------------------------------
(* The outbox: Enqueue and the runners' Flush *)

\* Part of the transaction that books or fails the payment.
Enqueue(e) ==
  /\ row[e].state = "NONE"
  /\ row' = [row EXCEPT ![e].state = "PENDING"]
  /\ UNCHANGED <<runner, brokerVars, notifyVars, faults>>

Publishable(e) == row[e].state = "PENDING" /\ row[e].lease = 0

\* One UPDATE of rows found with SKIP LOCKED.
ClaimBatch(r, batch) ==
  /\ runner[r].step = "idle"
  /\ batch # {} /\ Cardinality(batch) <= BatchSize
  /\ \A e \in batch : Publishable(e)
  /\ row' = [e \in Events |->
       IF e \in batch THEN [row[e] EXCEPT !.lease = PublishLease] ELSE row[e]]
  /\ runner' = [runner EXCEPT ![r] =
       [step |-> "publishing", batch |-> batch, current |-> NoEvent]]
  /\ UNCHANGED <<brokerVars, notifyVars, faults>>

\* The broker has the message and its confirmation arrives.
Publish(r, e) ==
  /\ runner[r].step = "publishing" /\ e \in runner[r].batch
  /\ queue' = Put(queue, Fresh(e))
  /\ runner' = [runner EXCEPT ![r].step = "confirmed", ![r].current = e]
  /\ UNCHANGED <<row, retryQueue, deadQueue, notifyVars, faults>>

\* Mutant: a missing confirmation is not noticed.
PublishUnchecked(r, e) ==
  /\ runner[r].step = "publishing" /\ e \in runner[r].batch
  /\ queue' \in {queue, Put(queue, Fresh(e))}
  /\ runner' = [runner EXCEPT ![r].step = "confirmed", ![r].current = e]
  /\ Fault({"transport"})
  /\ UNCHANGED <<row, retryQueue, deadQueue, notifyVars>>

\* No confirmation: the message may have been stored nevertheless.
PublishFails(r, e) ==
  /\ runner[r].step = "publishing" /\ e \in runner[r].batch
  /\ queue' \in {queue, Put(queue, Fresh(e))}
  /\ runner' = [runner EXCEPT ![r].step = "refused", ![r].current = e]
  /\ Fault({"transport"})
  /\ UNCHANGED <<row, retryQueue, deadQueue, notifyVars>>

\* A row that somebody else has marked meanwhile ends the cycle.
MarkPublished(r) ==
  LET e == runner[r].current
      rest == runner[r].batch \ {e}
  IN /\ runner[r].step = "confirmed"
     /\ row' = [row EXCEPT ![e] = IF @.state = "PENDING"
                                  THEN [state |-> "PUBLISHED", lease |-> 0] ELSE @]
     /\ runner' = [runner EXCEPT ![r] =
          IF row[e].state # "PENDING" \/ rest = {} THEN RunnerIdle
          ELSE [step |-> "publishing", batch |-> rest, current |-> NoEvent]]
     /\ UNCHANGED <<brokerVars, notifyVars, faults>>

\* Release: the row may be claimed again in a second, less than a tick.  The
\* cycle ends; the rest of the batch waits for the end of its lease.
ReleaseRow(r) ==
  LET e == runner[r].current IN
  /\ runner[r].step = "refused"
  /\ row' = [row EXCEPT ![e].lease = IF row[e].state = "PENDING" THEN 0 ELSE @]
  /\ runner' = [runner EXCEPT ![r] = RunnerIdle]
  /\ UNCHANGED <<brokerVars, notifyVars, faults>>

\* The process dies or is stopped, or its statement fails and ends the cycle.
RunnerStops(r) ==
  /\ runner[r].step # "idle"
  /\ runner' = [runner EXCEPT ![r] = RunnerIdle]
  /\ Fault({"transport"})
  /\ UNCHANGED <<row, brokerVars, notifyVars>>

-----------------------------------------------------------------------------
(* The consumers: handleDelivery and Processor.Process *)

To(c, step) == consumer' = [consumer EXCEPT ![c].step = step]

\* The statements of the notification store, as they leave the table.
Claimable(e) ==
  claim[e].state = "NONE" \/ (claim[e].state = "HELD" /\ claim[e].lease = 0)

ClaimRow(e) ==
  IF Claimable(e)
  THEN [claim EXCEPT ![e] = [state |-> "HELD", lease |-> ProcessLease]] ELSE claim

ReleasedRow(e) == [claim EXCEPT ![e].lease = 0]

ProcessedRow(e) == [claim EXCEPT ![e] = [state |-> "DONE", lease |-> 0]]

Receive(c, m) ==
  /\ consumer[c] = ConsumerIdle
  /\ queue[m] > 0
  /\ queue' = Take(queue, m)
  /\ consumer' = [consumer EXCEPT ![c] =
       [step |-> "received", message |-> m, connected |-> TRUE]]
  /\ UNCHANGED <<outboxVars, retryQueue, deadQueue, claim, mails, faults>>

\* Mutant: the event is recorded as processed when it is claimed.
ClaimAsProcessed(c) ==
  LET e == consumer[c].message.event IN
  /\ consumer[c].step = "received"
  /\ claim' = [claim EXCEPT ![e] = [state |-> "DONE", lease |-> 0]]
  /\ To(c, IF claim[e].state = "DONE" THEN "ack" ELSE "claimed")
  /\ UNCHANGED <<outboxVars, brokerVars, mails, faults>>

\* Mutant: the lease of another consumer is not respected.
ClaimWithoutLease(c) ==
  LET e == consumer[c].message.event IN
  /\ consumer[c].step = "received"
  /\ IF claim[e].state = "DONE" THEN To(c, "ack") /\ UNCHANGED claim
     ELSE /\ claim' = [claim EXCEPT ![e] = [state |-> "HELD", lease |-> ProcessLease]]
          /\ To(c, "claimed")
  /\ UNCHANGED <<outboxVars, brokerVars, mails, faults>>

\* The INSERT .. ON CONFLICT and, when it claims nothing, the lookup.
ClaimEvent(c) ==
  LET e == consumer[c].message.event IN
  /\ consumer[c].step = "received"
  /\ claim' = ClaimRow(e)
  /\ \/ Claimable(e) /\ To(c, "claimed")
     \/ claim[e].state = "DONE" /\ To(c, "ack")
     \/ claim[e].state = "HELD" /\ ~Claimable(e) /\ To(c, "retry")
  /\ UNCHANGED <<outboxVars, brokerVars, mails, faults>>

Deliver(c) ==
  LET e == consumer[c].message.event IN
  /\ consumer[c].step = "claimed"
  /\ mails' = [mails EXCEPT ![e] = @ + 1]
  /\ To(c, "sent")
  /\ UNCHANGED <<outboxVars, brokerVars, claim, faults>>

\* The provider refuses, or accepts after the delivery window has passed.
DeliverFails(c) ==
  LET e == consumer[c].message.event IN
  /\ consumer[c].step = "claimed"
  /\ mails' \in {mails, [mails EXCEPT ![e] = @ + 1]}
  /\ To(c, "failed")
  /\ Fault({"work"})
  /\ UNCHANGED <<outboxVars, brokerVars, claim>>

\* Release ends the lease, whoever holds it.
ReleaseClaim(c) ==
  LET e == consumer[c].message.event IN
  /\ consumer[c].step = "failed"
  /\ claim' = ReleasedRow(e)
  /\ To(c, "retry")
  /\ UNCHANGED <<outboxVars, brokerVars, mails, faults>>

\* MarkProcessed does not ask who holds the claim; it fails on a processed event.
MarkProcessed(c) ==
  LET e == consumer[c].message.event IN
  /\ consumer[c].step = "sent"
  /\ To(c, IF claim[e].state = "DONE" THEN "retry" ELSE "ack")
  /\ claim' = ProcessedRow(e)
  /\ UNCHANGED <<outboxVars, brokerVars, mails, faults>>

\* A statement of Claim, Release or MarkProcessed returns an error, before or
\* after it was committed: all are retried.
StatementFails(c) ==
  LET e == consumer[c].message.event IN
  /\ \/ consumer[c].step = "received" /\ claim' \in {claim, ClaimRow(e)}
     \/ consumer[c].step = "failed" /\ claim' \in {claim, ReleasedRow(e)}
     \/ consumer[c].step = "sent" /\ claim' \in {claim, ProcessedRow(e)}
  /\ To(c, "retry")
  /\ Fault({"work"})
  /\ UNCHANGED <<outboxVars, brokerVars, mails>>

Done(c) == consumer' = [consumer EXCEPT ![c] = ConsumerIdle]

\* On a lost connection the broker already has the message back.
Ack(c) ==
  /\ consumer[c].step = "ack"
  /\ Done(c)
  /\ UNCHANGED <<outboxVars, brokerVars, claim, mails, faults>>

\* A copy with a higher count, or the dead letter; then the ack, which the broker
\* sees after the copy because both are sent on one channel.
RetryOrDeadLetter(c) ==
  LET m == consumer[c].message IN
  /\ consumer[c].step = "retry" /\ consumer[c].connected
  /\ IF m.retries >= MaxRetries
     THEN deadQueue' = Put(deadQueue, m) /\ UNCHANGED retryQueue
     ELSE /\ retryQueue' = Put(retryQueue, [m EXCEPT !.retries = @ + 1])
          /\ UNCHANGED deadQueue
  /\ Done(c)
  /\ UNCHANGED <<outboxVars, queue, claim, mails, faults>>

\* The connection breaks between the copy and the ack: both copies remain.
CopiedWithoutAck(c) ==
  LET m == consumer[c].message IN
  /\ consumer[c].step = "retry" /\ consumer[c].connected
  /\ queue' = Put(queue, m)
  /\ IF m.retries >= MaxRetries
     THEN deadQueue' = Put(deadQueue, m) /\ UNCHANGED retryQueue
     ELSE /\ retryQueue' = Put(retryQueue, [m EXCEPT !.retries = @ + 1])
          /\ UNCHANGED deadQueue
  /\ Done(c)
  /\ Fault({"transport"})
  /\ UNCHANGED <<outboxVars, claim, mails>>

\* Without a connection neither copy nor nack reaches the broker.
RetryUnreachable(c) ==
  /\ consumer[c].step = "retry" /\ ~consumer[c].connected
  /\ Done(c)
  /\ UNCHANGED <<outboxVars, brokerVars, claim, mails, faults>>

\* The broker redelivers; the consumer reconnects when it is through.
ConnectionLost(c) ==
  /\ consumer[c].step # "idle" /\ consumer[c].connected
  /\ queue' = Put(queue, consumer[c].message)
  /\ consumer' = [consumer EXCEPT ![c].connected = FALSE]
  /\ Fault({"transport"})
  /\ UNCHANGED <<outboxVars, retryQueue, deadQueue, claim, mails>>

ConsumerCrash(c) ==
  /\ consumer[c].step # "idle"
  /\ IF consumer[c].connected THEN queue' = Put(queue, consumer[c].message)
     ELSE UNCHANGED queue
  /\ Done(c)
  /\ Fault({"work"})
  /\ UNCHANGED <<outboxVars, retryQueue, deadQueue, claim, mails>>

-----------------------------------------------------------------------------
(* Time *)

\* A live process still works under a lease that is about to end.
Stalled ==
  {k \in {"transport"} : \E r \in Runners : \E e \in runner[r].batch :
     row[e].state = "PENDING" /\ row[e].lease = 1}
  \union
  {k \in {"work"} : \E c \in Consumers :
     /\ consumer[c].step \in {"claimed", "sent", "failed"}
     /\ claim[consumer[c].message.event].lease = 1}

\* Mutant: leases are never compared with the clock.
LeaseForEver(n) == n

LeaseAfterTick(n) == IF n > 0 THEN n - 1 ELSE 0

\* Leases run, and the time to live of the retry queue passes.
Tick ==
  /\ row' = [e \in Events |-> [row[e] EXCEPT !.lease = LeaseAfterTick(@)]]
  /\ claim' = [e \in Events |-> [claim[e] EXCEPT !.lease = LeaseAfterTick(@)]]
  /\ queue' = [m \in Message |-> queue[m] + retryQueue[m]]
  /\ retryQueue' = [m \in Message |-> 0]
  /\ Fault(Stalled)
  /\ UNCHANGED <<runner, deadQueue, consumer, mails>>

-----------------------------------------------------------------------------

DeliveryInit ==
  /\ row = [e \in Events |-> [state |-> "NONE", lease |-> 0]]
  /\ runner = [r \in Runners |-> RunnerIdle]
  /\ queue = [m \in Message |-> 0]
  /\ retryQueue = [m \in Message |-> 0]
  /\ deadQueue = [m \in Message |-> 0]
  /\ consumer = [c \in Consumers |-> ConsumerIdle]
  /\ claim = [e \in Events |-> [state |-> "NONE", lease |-> 0]]
  /\ mails = [e \in Events |-> 0]
  /\ faults = [k \in {"transport", "work"} |-> 0]

Flush(r) ==
  \/ \E batch \in SUBSET Events : ClaimBatch(r, batch)
  \/ \E e \in Events : Publish(r, e)
  \/ MarkPublished(r)
  \/ ReleaseRow(r)

HandleDelivery(c) ==
  \/ \E m \in Message : Receive(c, m)
  \/ ClaimEvent(c) \/ Deliver(c) \/ ReleaseClaim(c) \/ MarkProcessed(c)
  \/ Ack(c) \/ RetryOrDeadLetter(c) \/ RetryUnreachable(c)

RunnerFault(r) == RunnerStops(r) \/ \E e \in Events : PublishFails(r, e)

ConsumerFault(c) ==
  DeliverFails(c) \/ StatementFails(c) \/ CopiedWithoutAck(c)
    \/ ConnectionLost(c) \/ ConsumerCrash(c)

DeliveryNext ==
  \/ \E e \in Events : Enqueue(e)
  \/ \E r \in Runners : Flush(r) \/ RunnerFault(r)
  \/ \E c \in Consumers : HandleDelivery(c) \/ ConsumerFault(c)
  \/ Tick

DeliverySpec == DeliveryInit /\ [][DeliveryNext]_deliveryVars

\* Runners and consumers loop until their process is stopped, and are restarted.
FairDeliverySpec ==
  /\ DeliverySpec
  /\ WF_deliveryVars(Tick)
  /\ \A r \in Runners : WF_deliveryVars(Flush(r))
  /\ \A c \in Consumers : WF_deliveryVars(HandleDelivery(c))

-----------------------------------------------------------------------------
(* Properties *)

\* Type correctness of the tables, the queues and the processes.
DeliveryTypeOK ==
  /\ row \in [Events -> Row]
  /\ runner \in [Runners -> Runner]
  /\ queue \in [Message -> Nat]
  /\ retryQueue \in [Message -> Nat]
  /\ deadQueue \in [Message -> Nat]
  /\ consumer \in [Consumers -> Consumer]
  /\ claim \in [Events -> Claim]
  /\ mails \in [Events -> Nat]
  /\ faults \in [{"transport", "work"} -> 0..MaxFaults]

\* Some queue, or a consumer the broker still waits for, has the event.
WithBroker(e) ==
  \/ \E m \in Message :
       m.event = e /\ queue[m] + retryQueue[m] + deadQueue[m] > 0
  \/ \E c \in Consumers :
       /\ consumer[c].step # "idle"
       /\ consumer[c].connected
       /\ consumer[c].message.event = e

\* No committed event is lost, whatever crashes or disconnects: a row that no
\* runner will publish again is with the broker or has been processed.
NoEventLost ==
  \A e \in Events :
    row[e].state = "PUBLISHED" => WithBroker(e) \/ claim[e].state = "DONE"

\* An event counts as processed only when its mail went out, and an event that
\* was never committed sends none.
ProcessedMeansMailed ==
  \A e \in Events :
    /\ claim[e].state = "DONE" => mails[e] > 0
    /\ mails[e] > 0 => row[e].state # "NONE"

\* Deduplication: however many copies runners, retries and redeliveries make of
\* an event, its customer gets one mail, and one more only for each time a
\* consumer failed, died or stalled while it held the claim.
MailsBounded == \A e \in Events : mails[e] <= 1 + faults["work"]

\* The comment of Store.Claim: the broker retries a busy event after the other
\* consumer's lease resolves.  No message is given up while a lease is running.
BusyRetriedAfterLease ==
  [][\A m \in Message :
       deadQueue'[m] # deadQueue[m] =>
         ~(claim[m.event].state = "HELD" /\ claim[m.event].lease > 0)]_deliveryVars

\* Every committed event is processed or lies in the dead-letter queue in the
\* end: it is never left leased, unacknowledged or in the retry loop for ever.
EventsSettle ==
  \A e \in Events :
    row[e].state = "PENDING" ~>
      \/ claim[e].state = "DONE"
      \/ \E m \in Message : m.event = e /\ deadQueue[m] > 0
=============================================================================
