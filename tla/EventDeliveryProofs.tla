------------------------ MODULE EventDeliveryProofs ------------------------
(***************************************************************************)
(* No committed event is lost and no event is mailed more often than       *)
(* faults excuse, for any number of events, runners, consumers, retries    *)
(* and faults.  DeliveryInv and, on top of it, MailInv are inductive.      *)
(***************************************************************************)
EXTENDS EventDelivery, TLAPS, FiniteSetTheorems

\* What a published row is owed.
Kept(e) == WithBroker(e) \/ claim[e].state = "DONE"

\* A runner works on committed rows, and has a confirmation for a kept event.
RunnerSound(r) ==
  /\ \A e \in runner[r].batch : row[e].state # "NONE"
  /\ runner[r].step \in {"confirmed", "refused"} => runner[r].current \in Events
  /\ \A e \in Events :
       runner[r].step = "confirmed" /\ runner[r].current = e => Kept(e)

\* A consumer has a message of a committed event; it acknowledges what is
\* processed, and marks what it has mailed.
ConsumerSound(c) ==
  consumer[c].step # "idle" =>
    /\ consumer[c].message \in Message
    /\ row[consumer[c].message.event].state # "NONE"
    /\ consumer[c].step = "ack" => claim[consumer[c].message.event].state = "DONE"
    /\ consumer[c].step = "sent" => mails[consumer[c].message.event] > 0

\* All messages are of committed events.
QueuesSound ==
  \A m \in Message :
    queue[m] + retryQueue[m] + deadQueue[m] > 0 => row[m.event].state # "NONE"

\* The inductive invariant: NoEventLost needs the middle of a runner's cycle
\* and the acknowledgement to be justified, ProcessedMeansMailed needs every
\* message to come from a committed row.
DeliveryInv ==
  /\ DeliveryTypeOK
  /\ \A r \in Runners : RunnerSound(r)
  /\ \A c \in Consumers : ConsumerSound(c)
  /\ QueuesSound
  /\ NoEventLost
  /\ ProcessedMeansMailed

\* What no step takes back.
Monotone ==
  \A e \in Events :
    /\ row[e].state # "NONE" => row'[e].state # "NONE"
    /\ claim[e].state = "DONE" => claim'[e].state = "DONE"
    /\ mails'[e] >= mails[e]
    /\ Kept(e) => Kept(e)'

USE DeliveryAssumption

-----------------------------------------------------------------------------
(* Lemmas about the operators *)

\* One copy more in a queue.
LEMMA PutCounts ==
  ASSUME NEW place \in [Message -> Nat], NEW m \in Message
  PROVE  /\ Put(place, m) \in [Message -> Nat]
         /\ Put(place, m)[m] = place[m] + 1
         /\ \A n \in Message \ {m} : Put(place, m)[n] = place[n]
BY DEF Put

\* One copy less in a queue.
LEMMA TakeCounts ==
  ASSUME NEW place \in [Message -> Nat], NEW m \in Message, place[m] > 0
  PROVE  /\ Take(place, m) \in [Message -> Nat]
         /\ Take(place, m)[m] = place[m] - 1
         /\ \A n \in Message \ {m} : Take(place, m)[n] = place[n]
BY DEF Take

\* A fresh message is a message.
LEMMA FreshMessage ==
  ASSUME NEW e \in Events
  PROVE  Fresh(e) \in Message /\ Fresh(e).event = e
<1>1. 0 \in 0..MaxRetries
  OBVIOUS
<1> QED BY <1>1 DEF Fresh, Message

\* The copy a retry makes.
LEMMA RetryMessage ==
  ASSUME NEW m \in Message, ~(m.retries >= MaxRetries)
  PROVE  /\ [m EXCEPT !.retries = @ + 1] \in Message
         /\ [m EXCEPT !.retries = @ + 1].event = m.event
<1>1. m.retries + 1 \in 0..MaxRetries
  BY DEF Message
<1>2. [m EXCEPT !.retries = @ + 1] = [event |-> m.event, retries |-> m.retries + 1]
  BY DEF Message
<1> QED BY <1>1, <1>2 DEF Message

\* Faults are counted up to their bound.
LEMMA FaultCounts ==
  ASSUME faults \in [{"transport", "work"} -> 0..MaxFaults],
         NEW kinds, Fault(kinds)
  PROVE  faults' \in [{"transport", "work"} -> 0..MaxFaults]
<1> DEFINE more(k) == IF k \in kinds THEN 1 ELSE 0
<1>1. faults' = [k \in {"transport", "work"} |-> faults[k] + more(k)]
  BY DEF Fault
<1>2. \A k \in {"transport", "work"} : more(k) \in 0..1 /\ faults[k] \in Nat
  OBVIOUS
<1> HIDE DEF more
<1>3. faults'["transport"] \in Nat /\ faults'["work"] \in Nat
  BY <1>1, <1>2
<1>4. faults'["transport"] + faults'["work"] <= MaxFaults
  BY DEF Fault
<1>5. faults'["transport"] \in 0..MaxFaults /\ faults'["work"] \in 0..MaxFaults
  BY <1>3, <1>4
<1>6. faults'["transport"] = faults["transport"] + more("transport")
        /\ faults'["work"] = faults["work"] + more("work")
  BY <1>1
<1> QED BY <1>1, <1>5, <1>6

\* A consumer that lost its connection.
LEMMA Disconnected ==
  ASSUME NEW k \in Consumer
  PROVE  /\ [k EXCEPT !.connected = FALSE] \in Consumer
         /\ [k EXCEPT !.connected = FALSE].step = k.step
         /\ [k EXCEPT !.connected = FALSE].message = k.message
BY DEF Consumer

\* A consumer that goes on to another step keeps its message and connection.
LEMMA ConsumerMoves ==
  ASSUME consumer \in [Consumers -> Consumer], NEW c \in Consumers,
         NEW step \in {"idle", "received", "claimed", "sent", "failed", "ack", "retry"},
         To(c, step)
  PROVE  /\ consumer' \in [Consumers -> Consumer]
         /\ consumer'[c].step = step
         /\ consumer'[c].message = consumer[c].message
         /\ consumer'[c].connected = consumer[c].connected
         /\ \A d \in Consumers \ {c} : consumer'[d] = consumer[d]
<1> DEFINE to == [step |-> step, message |-> consumer[c].message,
                  connected |-> consumer[c].connected]
<1>1. consumer[c] \in Consumer
  OBVIOUS
<1>2. [consumer[c] EXCEPT !.step = step] = to
  BY <1>1 DEF Consumer
<1>3. consumer' = [consumer EXCEPT ![c] = to]
  BY <1>2 DEF To
<1>4. to \in Consumer
  BY <1>1 DEF Consumer
<1> QED BY <1>3, <1>4

\* A consumer that is through with its message.
LEMMA ConsumerDone ==
  ASSUME consumer \in [Consumers -> Consumer], NEW c \in Consumers, Done(c)
  PROVE  /\ consumer' \in [Consumers -> Consumer]
         /\ consumer'[c].step = "idle"
         /\ \A d \in Consumers \ {c} : consumer'[d] = consumer[d]
<1>1. ConsumerIdle \in Consumer
  BY DEF ConsumerIdle, Consumer
<1> QED BY <1>1 DEF Done, ConsumerIdle

-----------------------------------------------------------------------------
(* What is kept stays kept *)

\* Kept depends on three queues, the consumers and the claims.
LEMMA KeptMeans ==
  ASSUME NEW e \in Events
  PROVE  Kept(e) <=>
           \/ \E m \in Message :
                m.event = e /\ queue[m] + retryQueue[m] + deadQueue[m] > 0
           \/ \E c \in Consumers :
                /\ consumer[c].step # "idle"
                /\ consumer[c].connected
                /\ consumer[c].message.event = e
           \/ claim[e].state = "DONE"
BY DEF Kept, WithBroker

\* A step that touches neither the queues, the consumers nor the claims.
LEMMA OutboxStepKeeps ==
  ASSUME UNCHANGED <<brokerVars, notifyVars>>
  PROVE  \A e \in Events : Kept(e) => Kept(e)'
BY DEF Kept, WithBroker, brokerVars, notifyVars

\* A step that only adds copies, and leaves the consumers and claims.
LEMMA CopyAddedKeeps ==
  ASSUME DeliveryTypeOK, DeliveryTypeOK',
         \A m \in Message : queue'[m] >= queue[m] /\ retryQueue'[m] >= retryQueue[m]
                              /\ deadQueue'[m] >= deadQueue[m],
         UNCHANGED <<consumer, claim>>
  PROVE  \A e \in Events : Kept(e) => Kept(e)'
<1> SUFFICES ASSUME NEW e \in Events, Kept(e)
             PROVE  Kept(e)'
  OBVIOUS
<1>1. CASE \E m \in Message :
             m.event = e /\ queue[m] + retryQueue[m] + deadQueue[m] > 0
  <2>1. PICK m \in Message : m.event = e /\ queue[m] + retryQueue[m] + deadQueue[m] > 0
    BY <1>1
  <2>2. /\ queue[m] \in Nat /\ retryQueue[m] \in Nat /\ deadQueue[m] \in Nat
        /\ queue'[m] \in Nat /\ retryQueue'[m] \in Nat /\ deadQueue'[m] \in Nat
    BY DEF DeliveryTypeOK
  <2>3. queue'[m] + retryQueue'[m] + deadQueue'[m] > 0
    BY <2>1, <2>2
  <2> QED BY <2>1, <2>3 DEF Kept, WithBroker
<1>2. CASE claim[e].state = "DONE"
  BY <1>2 DEF Kept
<1>3. CASE \E c \in Consumers :
             /\ consumer[c].step # "idle"
             /\ consumer[c].connected
             /\ consumer[c].message.event = e
  BY <1>3 DEF Kept, WithBroker
<1> QED BY <1>1, <1>2, <1>3 DEF Kept, WithBroker

\* A step of a consumer within its message: no queue changes, and no claim is
\* taken back from DONE.
LEMMA ConsumerStepKeeps ==
  ASSUME DeliveryTypeOK, NEW c \in Consumers,
         NEW step \in {"received", "claimed", "sent", "failed", "ack", "retry"},
         To(c, step), consumer[c].step # "idle",
         \A e \in Events : claim[e].state = "DONE" => claim'[e].state = "DONE",
         UNCHANGED brokerVars
  PROVE  \A e \in Events : Kept(e) => Kept(e)'
<1>1. /\ consumer'[c].step = step
      /\ consumer'[c].message = consumer[c].message
      /\ consumer'[c].connected = consumer[c].connected
      /\ \A d \in Consumers \ {c} : consumer'[d] = consumer[d]
  BY ConsumerMoves DEF DeliveryTypeOK
<1>2. \A d \in Consumers :
        /\ consumer[d].step # "idle" => consumer'[d].step # "idle"
        /\ consumer'[d].message = consumer[d].message
        /\ consumer'[d].connected = consumer[d].connected
  BY <1>1
<1>3. queue' = queue /\ retryQueue' = retryQueue /\ deadQueue' = deadQueue
  BY DEF brokerVars
<1> QED BY <1>2, <1>3 DEF Kept, WithBroker

\* A consumer lets go of a message that is kept otherwise: processed, put back
\* or copied; no queue loses a copy.
LEMMA LettingGoKeeps ==
  ASSUME DeliveryTypeOK, DeliveryTypeOK', NEW c \in Consumers,
         \A m \in Message : queue'[m] >= queue[m] /\ retryQueue'[m] >= retryQueue[m]
                              /\ deadQueue'[m] >= deadQueue[m],
         UNCHANGED claim,
         \A d \in Consumers \ {c} : consumer'[d] = consumer[d],
         \A e \in Events :
           /\ consumer[c].step # "idle"
           /\ consumer[c].connected
           /\ consumer[c].message.event = e
           => Kept(e)'
  PROVE  \A e \in Events : Kept(e) => Kept(e)'
<1> SUFFICES ASSUME NEW e \in Events, Kept(e)
             PROVE  Kept(e)'
  OBVIOUS
<1>1. CASE \E m \in Message :
             m.event = e /\ queue[m] + retryQueue[m] + deadQueue[m] > 0
  <2>1. PICK m \in Message : m.event = e /\ queue[m] + retryQueue[m] + deadQueue[m] > 0
    BY <1>1
  <2>2. /\ queue[m] \in Nat /\ retryQueue[m] \in Nat /\ deadQueue[m] \in Nat
        /\ queue'[m] \in Nat /\ retryQueue'[m] \in Nat /\ deadQueue'[m] \in Nat
    BY DEF DeliveryTypeOK
  <2>3. queue'[m] + retryQueue'[m] + deadQueue'[m] > 0
    BY <2>1, <2>2
  <2> QED BY <2>1, <2>3 DEF Kept, WithBroker
<1>2. CASE claim[e].state = "DONE"
  BY <1>2 DEF Kept
<1>3. ASSUME NEW d \in Consumers, consumer[d].step # "idle", consumer[d].connected,
             consumer[d].message.event = e
      PROVE  Kept(e)'
  <2>1. CASE d # c
    BY <1>3, <2>1 DEF Kept, WithBroker
  <2>2. CASE d = c
    BY <1>3, <2>2
  <2> QED BY <2>1, <2>2
<1> QED BY <1>1, <1>2, <1>3 DEF Kept, WithBroker

-----------------------------------------------------------------------------
(* What a step must show *)

\* The invariant holds again if the types do, nothing is taken back, and what
\* is new is justified.
LEMMA InvCarries ==
  ASSUME DeliveryInv, DeliveryTypeOK', Monotone,
         \A r \in Runners : runner'[r] = runner[r] \/ RunnerSound(r)',
         \A c \in Consumers : consumer'[c] = consumer[c] \/ ConsumerSound(c)',
         \A m \in Message :
           queue'[m] + retryQueue'[m] + deadQueue'[m] > 0 =>
             queue[m] + retryQueue[m] + deadQueue[m] > 0 \/ row'[m.event].state # "NONE",
         \A e \in Events :
           row'[e].state = "PUBLISHED" => row[e].state = "PUBLISHED" \/ Kept(e)',
         \A e \in Events :
           claim'[e].state = "DONE" => claim[e].state = "DONE" \/ mails'[e] > 0,
         \A e \in Events :
           mails'[e] > 0 => mails[e] > 0 \/ row'[e].state # "NONE"
  PROVE  DeliveryInv'
<1>1. \A m \in Message : m.event \in Events
  BY DEF Message
<1>2. ASSUME NEW r \in Runners PROVE RunnerSound(r)'
  <2>1. CASE runner'[r] = runner[r]
    <3>1. RunnerSound(r) /\ runner[r] \in Runner
      BY DEF DeliveryInv, DeliveryTypeOK
    <3>2. runner[r].batch \subseteq Events
      BY <3>1 DEF Runner
    <3> QED BY <2>1, <3>1, <3>2 DEF RunnerSound, Monotone
  <2> QED BY <2>1
<1>3. ASSUME NEW c \in Consumers PROVE ConsumerSound(c)'
  <2>1. CASE consumer'[c] = consumer[c]
    <3>1. ConsumerSound(c)
      BY DEF DeliveryInv
    <3>2. \A e \in Events : mails[e] \in Nat /\ mails'[e] \in Nat
      BY DEF DeliveryInv, DeliveryTypeOK
    <3> QED BY <2>1, <3>1, <3>2, <1>1 DEF ConsumerSound, Monotone
  <2> QED BY <2>1
<1>4. QueuesSound'
  BY <1>1 DEF QueuesSound, DeliveryInv, Monotone
<1>5. NoEventLost'
  <2> SUFFICES ASSUME NEW e \in Events, row'[e].state = "PUBLISHED"
               PROVE  Kept(e)'
    BY DEF NoEventLost, Kept
  <2>1. CASE row[e].state = "PUBLISHED"
    BY <2>1 DEF DeliveryInv, NoEventLost, Kept, Monotone
  <2> QED BY <2>1
<1>6. ProcessedMeansMailed'
  <2>1. \A e \in Events : mails[e] \in Nat /\ mails'[e] \in Nat
    BY DEF DeliveryInv, DeliveryTypeOK
  <2> QED BY <2>1 DEF DeliveryInv, ProcessedMeansMailed, Monotone
<1> QED BY <1>2, <1>3, <1>4, <1>5, <1>6 DEF DeliveryInv

\* The same for the outbox's own steps, which leave broker and notification
\* service alone.
LEMMA OutboxStep ==
  ASSUME DeliveryInv, UNCHANGED <<brokerVars, notifyVars>>,
         row' \in [Events -> Row], runner' \in [Runners -> Runner],
         faults' \in [{"transport", "work"} -> 0..MaxFaults],
         \A e \in Events : row[e].state # "NONE" => row'[e].state # "NONE",
         \A r \in Runners : runner'[r] = runner[r] \/ RunnerSound(r)',
         \A e \in Events :
           row'[e].state = "PUBLISHED" => row[e].state = "PUBLISHED" \/ Kept(e)'
  PROVE  DeliveryInv'
<1>1. /\ queue' = queue /\ retryQueue' = retryQueue /\ deadQueue' = deadQueue
      /\ consumer' = consumer /\ claim' = claim /\ mails' = mails
  BY DEF brokerVars, notifyVars
<1>2. DeliveryTypeOK'
  BY <1>1 DEF DeliveryInv, DeliveryTypeOK
<1>3. Monotone
  <2>1. \A e \in Events : Kept(e) => Kept(e)'
    BY OutboxStepKeeps
  <2>2. \A e \in Events : mails[e] \in Nat
    BY DEF DeliveryInv, DeliveryTypeOK
  <2> QED BY <1>1, <2>1, <2>2 DEF Monotone
<1> QED BY <1>1, <1>2, <1>3, InvCarries

-----------------------------------------------------------------------------
(* The outbox *)

\* Enqueue adds a row and nothing else.
LEMMA EnqueueStep ==
  ASSUME DeliveryInv, NEW e \in Events, Enqueue(e)
  PROVE  DeliveryInv'
<1> DEFINE new == [state |-> "PENDING", lease |-> row[e].lease]
<1>1. row \in [Events -> Row] /\ row[e] \in Row
  BY DEF DeliveryInv, DeliveryTypeOK
<1>2. new \in Row
  BY <1>1 DEF Row
<1>3. row' = [row EXCEPT ![e] = new]
  <2>1. [row[e] EXCEPT !.state = "PENDING"] = new
    BY <1>1 DEF Row
  <2> QED BY <2>1 DEF Enqueue
<1>4. /\ row' \in [Events -> Row]
      /\ \A f \in Events : row'[f] = row[f] \/ row'[f].state = "PENDING"
  BY <1>1, <1>2, <1>3
<1>5. /\ UNCHANGED <<brokerVars, notifyVars>>
      /\ runner' = runner /\ faults' = faults
  BY DEF Enqueue
<1> QED BY <1>4, <1>5, OutboxStep DEF DeliveryInv, DeliveryTypeOK

\* A leased batch holds committed rows.
LEMMA ClaimBatchStep ==
  ASSUME DeliveryInv, NEW r \in Runners, NEW batch \in SUBSET Events,
         ClaimBatch(r, batch)
  PROVE  DeliveryInv'
<1> DEFINE leased(e) == [state |-> row[e].state, lease |-> PublishLease]
           new == [step |-> "publishing", batch |-> batch, current |-> NoEvent]
<1>1. /\ row \in [Events -> Row]
      /\ runner \in [Runners -> Runner]
  BY DEF DeliveryInv, DeliveryTypeOK
<1>2. \A e \in Events : /\ row[e] \in Row
                        /\ leased(e) \in Row
                        /\ [row[e] EXCEPT !.lease = PublishLease] = leased(e)
  BY <1>1 DEF Row
<1>3. row' = [e \in Events |-> IF e \in batch THEN leased(e) ELSE row[e]]
  BY <1>2 DEF ClaimBatch
<1>4. row' \in [Events -> Row]
  BY <1>2, <1>3
<1>5. \A e \in Events : row'[e].state = row[e].state
  BY <1>3
<1>6. new \in Runner
  BY DEF Runner
<1>7. runner' = [runner EXCEPT ![r] = new]
  BY DEF ClaimBatch
<1>8. runner' \in [Runners -> Runner]
  BY <1>1, <1>6, <1>7
<1>9. \A e \in batch : row'[e].state # "NONE"
  BY <1>5 DEF ClaimBatch, Publishable
<1>10. RunnerSound(r)'
  <2>1. runner'[r] = new
    BY <1>1, <1>7
  <2> QED BY <2>1, <1>9 DEF RunnerSound
<1>11. \A q \in Runners : runner'[q] = runner[q] \/ RunnerSound(q)'
  BY <1>1, <1>7, <1>10
<1>12. UNCHANGED <<brokerVars, notifyVars>> /\ faults' = faults
  BY DEF ClaimBatch
<1>13. faults' \in [{"transport", "work"} -> 0..MaxFaults]
  BY <1>12 DEF DeliveryInv, DeliveryTypeOK
<1> QED BY <1>4, <1>5, <1>8, <1>11, <1>12, <1>13, OutboxStep

\* A runner that ends its cycle has nothing to be sound about.
LEMMA IdleIsSound ==
  ASSUME NEW r \in Runners, runner \in [Runners -> Runner],
         runner' = [runner EXCEPT ![r] = RunnerIdle]
  PROVE  /\ runner' \in [Runners -> Runner]
         /\ \A q \in Runners : runner'[q] = runner[q] \/ RunnerSound(q)'
<1>1. RunnerIdle \in Runner
  BY DEF RunnerIdle, Runner
<1>2. runner'[r] = RunnerIdle
  OBVIOUS
<1>3. RunnerSound(r)'
  BY <1>2 DEF RunnerSound, RunnerIdle
<1> QED BY <1>1, <1>3

\* Only a row with a confirmed copy is marked PUBLISHED.
LEMMA MarkPublishedStep ==
  ASSUME DeliveryInv, NEW r \in Runners, MarkPublished(r)
  PROVE  DeliveryInv'
<1>1. /\ row \in [Events -> Row]
      /\ runner \in [Runners -> Runner] /\ runner[r] \in Runner
      /\ faults \in [{"transport", "work"} -> 0..MaxFaults]
      /\ RunnerSound(r)
  BY DEF DeliveryInv, DeliveryTypeOK
<1>2. PICK e \in Events : runner[r].current = e
  BY <1>1 DEF MarkPublished, RunnerSound
<1> DEFINE rest == runner[r].batch \ {e}
           published == [state |-> "PUBLISHED", lease |-> 0]
           next == [step |-> "publishing", batch |-> rest, current |-> NoEvent]
<1>3. Kept(e) /\ \A f \in runner[r].batch : row[f].state # "NONE"
  BY <1>1, <1>2 DEF MarkPublished, RunnerSound
<1>4. /\ UNCHANGED <<brokerVars, notifyVars>> /\ faults' = faults
      /\ row' = [row EXCEPT ![e] = IF row[e].state = "PENDING" THEN published ELSE row[e]]
      /\ \/ runner' = [runner EXCEPT ![r] = RunnerIdle]
         \/ runner' = [runner EXCEPT ![r] = next]
  BY <1>2 DEF MarkPublished
<1>5. published \in Row
  BY DEF Row
<1>6. /\ row' \in [Events -> Row]
      /\ \A f \in Events : row'[f] = row[f] \/ (f = e /\ row'[f] = published)
  BY <1>1, <1>4, <1>5
<1>7. Kept(e)'
  BY <1>3, <1>4, OutboxStepKeeps
<1>8. /\ \A f \in Events : row[f].state # "NONE" => row'[f].state # "NONE"
      /\ \A f \in Events :
           row'[f].state = "PUBLISHED" => row[f].state = "PUBLISHED" \/ Kept(f)'
  BY <1>6, <1>7
<1>9. /\ runner' \in [Runners -> Runner]
      /\ \A q \in Runners : runner'[q] = runner[q] \/ RunnerSound(q)'
  <2>1. CASE runner' = [runner EXCEPT ![r] = next]
    <3>1. next \in Runner
      BY <1>1 DEF Runner
    <3>2. rest \subseteq Events /\ \A f \in rest : row'[f].state # "NONE"
      BY <1>1, <1>3, <1>8 DEF Runner
    <3>3. runner'[r] = next
      BY <1>1, <2>1
    <3>4. RunnerSound(r)'
      BY <3>2, <3>3 DEF RunnerSound
    <3> QED BY <1>1, <2>1, <3>1, <3>4
  <2> QED BY <1>1, <1>4, <2>1, IdleIsSound
<1> QED BY <1>1, <1>4, <1>6, <1>8, <1>9, OutboxStep

\* A released row is PENDING again.
LEMMA ReleaseRowStep ==
  ASSUME DeliveryInv, NEW r \in Runners, ReleaseRow(r)
  PROVE  DeliveryInv'
<1>1. /\ row \in [Events -> Row]
      /\ runner \in [Runners -> Runner]
      /\ faults \in [{"transport", "work"} -> 0..MaxFaults]
      /\ RunnerSound(r)
  BY DEF DeliveryInv, DeliveryTypeOK
<1>2. PICK e \in Events : runner[r].current = e
  BY <1>1 DEF ReleaseRow, RunnerSound
<1>3. PICK n \in 0..PublishLease : row' = [row EXCEPT ![e].lease = n]
  <2>1. row[e].lease \in 0..PublishLease /\ 0 \in 0..PublishLease
    BY <1>1 DEF Row
  <2> QED BY <1>2, <2>1 DEF ReleaseRow
<1> DEFINE new == [state |-> row[e].state, lease |-> n]
<1>4. new \in Row /\ [row[e] EXCEPT !.lease = n] = new
  BY <1>1 DEF Row
<1>5. row' = [row EXCEPT ![e] = new]
  BY <1>3, <1>4
<1>6. row' \in [Events -> Row] /\ \A f \in Events : row'[f].state = row[f].state
  BY <1>1, <1>4, <1>5
<1>7. /\ UNCHANGED <<brokerVars, notifyVars>> /\ faults' = faults
      /\ runner' = [runner EXCEPT ![r] = RunnerIdle]
  BY DEF ReleaseRow
<1> QED BY <1>1, <1>6, <1>7, IdleIsSound, OutboxStep

\* A runner that stops leaves its rows leased.
LEMMA RunnerStopsStep ==
  ASSUME DeliveryInv, NEW r \in Runners, RunnerStops(r)
  PROVE  DeliveryInv'
<1>1. /\ row \in [Events -> Row]
      /\ runner \in [Runners -> Runner]
      /\ faults \in [{"transport", "work"} -> 0..MaxFaults]
  BY DEF DeliveryInv, DeliveryTypeOK
<1>2. /\ UNCHANGED <<brokerVars, notifyVars>> /\ row' = row
      /\ runner' = [runner EXCEPT ![r] = RunnerIdle]
      /\ Fault({"transport"})
  BY DEF RunnerStops
<1>3. faults' \in [{"transport", "work"} -> 0..MaxFaults]
  BY <1>1, <1>2, FaultCounts
<1> QED BY <1>1, <1>2, <1>3, IdleIsSound, OutboxStep

\* Publish and PublishFails differ in whether the runner has a confirmation.
LEMMA PublishedStep ==
  ASSUME DeliveryInv, NEW r \in Runners, NEW e \in Events,
         e \in runner[r].batch,
         NEW step \in {"confirmed", "refused"},
         queue' = Put(queue, Fresh(e)) \/ (queue' = queue /\ step = "refused"),
         runner' = [runner EXCEPT ![r].step = step, ![r].current = e],
         faults' \in [{"transport", "work"} -> 0..MaxFaults],
         UNCHANGED <<row, retryQueue, deadQueue, notifyVars>>
  PROVE  DeliveryInv'
<1> DEFINE new == [step |-> step, batch |-> runner[r].batch, current |-> e]
<1>1. /\ DeliveryTypeOK
      /\ runner \in [Runners -> Runner] /\ runner[r] \in Runner
      /\ queue \in [Message -> Nat] /\ retryQueue \in [Message -> Nat]
      /\ deadQueue \in [Message -> Nat]
      /\ mails \in [Events -> Nat]
      /\ RunnerSound(r)
  BY DEF DeliveryInv, DeliveryTypeOK
<1>2. consumer' = consumer /\ claim' = claim /\ mails' = mails
  BY DEF notifyVars
<1>3. Fresh(e) \in Message /\ Fresh(e).event = e
  BY FreshMessage
<1>4. /\ queue' \in [Message -> Nat]
      /\ \A m \in Message : queue'[m] >= queue[m]
      /\ \A m \in Message : queue'[m] = queue[m] \/ m = Fresh(e)
      /\ step = "confirmed" => queue'[Fresh(e)] > 0
  <2>1. CASE queue' = queue /\ step = "refused"
    BY <1>1, <2>1
  <2>2. CASE queue' = Put(queue, Fresh(e))
    <3>1. /\ queue' \in [Message -> Nat]
          /\ queue'[Fresh(e)] = queue[Fresh(e)] + 1
          /\ \A n \in Message \ {Fresh(e)} : queue'[n] = queue[n]
      BY <1>1, <1>3, <2>2, PutCounts
    <3>2. \A m \in Message : queue[m] \in Nat
      BY <1>1
    <3> QED BY <1>3, <3>1, <3>2
  <2> QED BY <2>1, <2>2
<1>5. new \in Runner
  BY <1>1 DEF Runner
<1>6. runner' = [runner EXCEPT ![r] = new]
  <2> DEFINE stepped == [step |-> step, batch |-> runner[r].batch,
                         current |-> runner[r].current]
  <2>1. [runner[r] EXCEPT !.step = step] = stepped
    BY <1>1 DEF Runner
  <2>2. [stepped EXCEPT !.current = e] = new
    OBVIOUS
  <2>3. [runner[r] EXCEPT !.step = step, !.current = e] = new
    BY <2>1, <2>2, Zenon
  <2> QED BY <1>1, <2>3
<1>7. runner' \in [Runners -> Runner] /\ runner'[r] = new
  <2> HIDE DEF new
  <2>1. runner \in [Runners -> Runner]
    BY <1>1
  <2> QED BY ONLY <1>5, <1>6, <2>1, r \in Runners
<1>8. DeliveryTypeOK'
  BY <1>1, <1>2, <1>4, <1>7 DEF DeliveryTypeOK
<1>9. \A f \in Events : Kept(f) => Kept(f)'
  <2>1. \A m \in Message : queue'[m] >= queue[m] /\ retryQueue'[m] >= retryQueue[m]
                              /\ deadQueue'[m] >= deadQueue[m]
    <3>1. \A m \in Message : retryQueue[m] \in Nat /\ deadQueue[m] \in Nat
      BY <1>1
    <3> QED BY <1>4, <3>1
  <2> QED BY <1>1, <1>2, <1>8, <2>1, CopyAddedKeeps
<1>10. step = "confirmed" => Kept(e)'
  <2> SUFFICES ASSUME step = "confirmed" PROVE Kept(e)'
    OBVIOUS
  <2>1. queue'[Fresh(e)] + retryQueue'[Fresh(e)] + deadQueue'[Fresh(e)] > 0
    BY <1>1, <1>3, <1>4
  <2>2. \E m \in Message :
          m.event = e /\ queue'[m] + retryQueue'[m] + deadQueue'[m] > 0
    BY <1>3, <2>1
  <2> QED BY <2>2 DEF Kept, WithBroker
<1>11. RunnerSound(r)'
  BY <1>1, <1>7, <1>10 DEF RunnerSound
<1>12. \A q \in Runners : runner'[q] = runner[q] \/ RunnerSound(q)'
  BY <1>1, <1>6, <1>11
<1>13. row[e].state # "NONE"
  BY <1>1 DEF RunnerSound
<1>14. \A m \in Message :
         queue'[m] + retryQueue'[m] + deadQueue'[m] > 0 =>
           queue[m] + retryQueue[m] + deadQueue[m] > 0 \/ row'[m.event].state # "NONE"
  BY <1>3, <1>4, <1>13
<1>15. Monotone
  <2>1. \A f \in Events : mails[f] \in Nat
    BY <1>1
  <2> QED BY <1>2, <1>9, <2>1 DEF Monotone
<1> QED BY <1>2, <1>8, <1>12, <1>14, <1>15, InvCarries

\* A publish adds at most one copy of a committed event.
LEMMA PublishStep ==
  ASSUME DeliveryInv, NEW r \in Runners, NEW e \in Events,
         Publish(r, e) \/ PublishFails(r, e)
  PROVE  DeliveryInv'
<1>1. faults \in [{"transport", "work"} -> 0..MaxFaults]
  BY DEF DeliveryInv, DeliveryTypeOK
<1>2. CASE Publish(r, e)
  <2>1. /\ e \in runner[r].batch
        /\ queue' = Put(queue, Fresh(e))
        /\ runner' = [runner EXCEPT ![r].step = "confirmed", ![r].current = e]
        /\ faults' = faults
        /\ UNCHANGED <<row, retryQueue, deadQueue, notifyVars>>
    BY <1>2 DEF Publish
  <2> QED BY <1>1, <2>1, PublishedStep
<1>3. CASE PublishFails(r, e)
  <2>1. /\ e \in runner[r].batch
        /\ queue' \in {queue, Put(queue, Fresh(e))}
        /\ runner' = [runner EXCEPT ![r].step = "refused", ![r].current = e]
        /\ Fault({"transport"})
        /\ UNCHANGED <<row, retryQueue, deadQueue, notifyVars>>
    BY <1>3 DEF PublishFails
  <2>2. faults' \in [{"transport", "work"} -> 0..MaxFaults]
    BY <1>1, <2>1, FaultCounts
  <2> QED BY <2>1, <2>2, PublishedStep
<1> QED BY <1>2, <1>3

-----------------------------------------------------------------------------
(* The consumers *)

\* A step within a message: claims and mails change, the queues do not.
LEMMA WithinMessage ==
  ASSUME DeliveryInv, NEW c \in Consumers, consumer[c].step # "idle",
         NEW step \in {"received", "claimed", "sent", "failed", "ack", "retry"},
         To(c, step),
         NEW e \in Events, consumer[c].message.event = e,
         claim' \in [Events -> Claim],
         \A f \in Events : claim[f].state = "DONE" => claim'[f].state = "DONE",
         \A f \in Events :
           claim'[f].state = "DONE" => claim[f].state = "DONE" \/ mails'[f] > 0,
         mails' \in [Events -> Nat],
         \A f \in Events : mails'[f] = mails[f] \/ (f = e /\ mails'[f] > mails[f]),
         step = "ack" => claim'[e].state = "DONE",
         step = "sent" => mails'[e] > 0,
         faults' \in [{"transport", "work"} -> 0..MaxFaults],
         UNCHANGED <<outboxVars, brokerVars>>
  PROVE  DeliveryInv'
<1>1. /\ DeliveryTypeOK
      /\ consumer \in [Consumers -> Consumer]
      /\ mails \in [Events -> Nat]
      /\ ConsumerSound(c)
  BY DEF DeliveryInv, DeliveryTypeOK
<1>2. /\ row' = row /\ runner' = runner
      /\ queue' = queue /\ retryQueue' = retryQueue /\ deadQueue' = deadQueue
  BY DEF outboxVars, brokerVars
<1>3. /\ consumer' \in [Consumers -> Consumer]
      /\ consumer'[c].step = step
      /\ consumer'[c].message = consumer[c].message
      /\ \A d \in Consumers \ {c} : consumer'[d] = consumer[d]
  BY <1>1, ConsumerMoves
<1>4. DeliveryTypeOK'
  BY <1>1, <1>2, <1>3 DEF DeliveryTypeOK
<1>5. \A f \in Events : Kept(f) => Kept(f)'
  BY <1>1, ConsumerStepKeeps
<1>6. Monotone
  <2>1. \A f \in Events : mails[f] \in Nat /\ mails'[f] \in Nat
    BY <1>1
  <2>2. \A f \in Events : mails'[f] >= mails[f]
    BY <2>1
  <2> QED BY <1>2, <1>5, <2>2 DEF Monotone
<1>7. row[e].state # "NONE" /\ consumer[c].message \in Message
  BY <1>1 DEF ConsumerSound
<1>8. ConsumerSound(c)'
  BY <1>2, <1>3, <1>7 DEF ConsumerSound
<1>9. \A d \in Consumers : consumer'[d] = consumer[d] \/ ConsumerSound(d)'
  BY <1>3, <1>8
<1>10. \A f \in Events : mails'[f] > 0 => mails[f] > 0 \/ row'[f].state # "NONE"
  BY <1>2, <1>7
<1> QED BY <1>2, <1>4, <1>6, <1>9, <1>10, InvCarries

\* The three statements of the notification store keep the table's type and
\* take no claim back from DONE.
LEMMA StatementsKeepDone ==
  ASSUME NEW e \in Events, claim \in [Events -> Claim],
         NEW table \in {claim, ClaimRow(e), ReleasedRow(e), ProcessedRow(e)}
  PROVE  /\ table \in [Events -> Claim]
         /\ \A f \in Events : claim[f].state = "DONE" => table[f].state = "DONE"
         /\ \A f \in Events :
              table[f].state = "DONE" =>
                claim[f].state = "DONE" \/ (f = e /\ table = ProcessedRow(e))
<1> DEFINE held == [state |-> "HELD", lease |-> ProcessLease]
           done == [state |-> "DONE", lease |-> 0]
           released == [state |-> claim[e].state, lease |-> 0]
<1>1. claim[e] \in Claim
  OBVIOUS
<1>2. held \in Claim /\ done \in Claim /\ released \in Claim
  BY <1>1 DEF Claim
<1>3. CASE table = claim
  BY <1>3
<1>4. CASE table = ClaimRow(e)
  <2>1. CASE Claimable(e)
    <3>1. table = [claim EXCEPT ![e] = held] /\ claim[e].state # "DONE"
      BY <1>4, <2>1 DEF ClaimRow, Claimable
    <3> QED BY <1>2, <3>1
  <2>2. CASE ~Claimable(e)
    BY <1>4, <2>2 DEF ClaimRow
  <2> QED BY <2>1, <2>2
<1>5. CASE table = ReleasedRow(e)
  <2>1. [claim[e] EXCEPT !.lease = 0] = released
    BY <1>1 DEF Claim
  <2>2. table = [claim EXCEPT ![e] = released]
    BY <1>5, <2>1 DEF ReleasedRow
  <2> QED BY <1>2, <2>2
<1>6. CASE table = ProcessedRow(e)
  <2>1. table = [claim EXCEPT ![e] = done]
    BY <1>6 DEF ProcessedRow
  <2> QED BY <1>2, <1>6, <2>1
<1> QED BY <1>3, <1>4, <1>5, <1>6

\* A statement of a consumer, whatever becomes of it.
LEMMA StatementStep ==
  ASSUME DeliveryInv, NEW c \in Consumers, consumer[c].step # "idle",
         NEW e \in Events, consumer[c].message.event = e,
         NEW step \in {"claimed", "ack", "retry"}, To(c, step),
         claim' \in {claim, ClaimRow(e), ReleasedRow(e), ProcessedRow(e)},
         claim' = ProcessedRow(e) => mails[e] > 0,
         step = "ack" => claim'[e].state = "DONE",
         faults' \in [{"transport", "work"} -> 0..MaxFaults],
         UNCHANGED <<outboxVars, brokerVars, mails>>
  PROVE  DeliveryInv'
<1>1. claim \in [Events -> Claim] /\ mails \in [Events -> Nat]
  BY DEF DeliveryInv, DeliveryTypeOK
<1>2. /\ claim' \in [Events -> Claim]
      /\ \A f \in Events : claim[f].state = "DONE" => claim'[f].state = "DONE"
      /\ \A f \in Events :
           claim'[f].state = "DONE" =>
             claim[f].state = "DONE" \/ (f = e /\ claim' = ProcessedRow(e))
  BY <1>1, StatementsKeepDone
<1>3. \A f \in Events :
        claim'[f].state = "DONE" => claim[f].state = "DONE" \/ mails'[f] > 0
  BY <1>2
<1> QED BY <1>1, <1>2, <1>3, WithinMessage

\* What a busy consumer works on.
LEMMA MessageAtHand ==
  ASSUME DeliveryInv, NEW c \in Consumers, consumer[c].step # "idle"
  PROVE  /\ consumer[c].message \in Message
         /\ consumer[c].message.event \in Events
         /\ consumer[c].step = "sent" => mails[consumer[c].message.event] > 0
         /\ consumer[c].step = "ack" => claim[consumer[c].message.event].state = "DONE"
BY DEF DeliveryInv, ConsumerSound, Message

\* A claim of a processed event is refused.
LEMMA ClaimEventStep ==
  ASSUME DeliveryInv, NEW c \in Consumers, ClaimEvent(c)
  PROVE  DeliveryInv'
<1>1. consumer[c].step = "received"
  BY DEF ClaimEvent
<1>2. PICK e \in Events : consumer[c].message.event = e
  BY <1>1, MessageAtHand
<1>3. /\ claim' = ClaimRow(e)
      /\ \/ Claimable(e) /\ To(c, "claimed")
         \/ claim[e].state = "DONE" /\ To(c, "ack")
         \/ claim[e].state = "HELD" /\ ~Claimable(e) /\ To(c, "retry")
      /\ UNCHANGED <<outboxVars, brokerVars, mails>> /\ faults' = faults
  BY <1>2 DEF ClaimEvent
<1>4. /\ claim \in [Events -> Claim]
      /\ faults \in [{"transport", "work"} -> 0..MaxFaults]
  BY DEF DeliveryInv, DeliveryTypeOK
<1>5. claim' # ProcessedRow(e) \/ claim[e].state = "DONE"
  <2>1. CASE Claimable(e)
    <3>1. claim'[e].state = "HELD"
      BY <1>3, <1>4, <2>1 DEF ClaimRow
    <3>2. ProcessedRow(e)[e].state = "DONE"
      BY <1>4 DEF ProcessedRow
    <3> QED BY <3>1, <3>2
  <2>2. CASE ~Claimable(e)
    <3>1. claim' = claim
      BY <1>3, <2>2 DEF ClaimRow
    <3>2. ProcessedRow(e)[e].state = "DONE"
      BY <1>4 DEF ProcessedRow
    <3> QED BY <3>1, <3>2
  <2> QED BY <2>1, <2>2
<1>6. claim[e].state = "DONE" => mails[e] > 0
  BY DEF DeliveryInv, ProcessedMeansMailed
<1>7. claim[e].state = "DONE" => claim'[e].state = "DONE"
  BY <1>3, <1>4, StatementsKeepDone
<1> QED BY <1>1, <1>2, <1>3, <1>4, <1>5, <1>6, <1>7, StatementStep

\* A released claim was not DONE.
LEMMA ReleaseClaimStep ==
  ASSUME DeliveryInv, NEW c \in Consumers, ReleaseClaim(c)
  PROVE  DeliveryInv'
<1>1. consumer[c].step = "failed"
  BY DEF ReleaseClaim
<1>2. PICK e \in Events : consumer[c].message.event = e
  BY <1>1, MessageAtHand
<1>3. /\ claim' = ReleasedRow(e) /\ To(c, "retry")
      /\ UNCHANGED <<outboxVars, brokerVars, mails>> /\ faults' = faults
  BY <1>2 DEF ReleaseClaim
<1>4. /\ claim \in [Events -> Claim]
      /\ faults \in [{"transport", "work"} -> 0..MaxFaults]
  BY DEF DeliveryInv, DeliveryTypeOK
<1>5. claim' = ProcessedRow(e) => mails[e] > 0
  <2>1. ReleasedRow(e)[e].state = claim[e].state
    BY <1>4 DEF ReleasedRow, Claim
  <2>2. ProcessedRow(e)[e].state = "DONE"
    BY <1>4 DEF ProcessedRow
  <2> QED BY <1>3, <2>1, <2>2 DEF DeliveryInv, ProcessedMeansMailed
<1> QED BY <1>1, <1>2, <1>3, <1>4, <1>5, StatementStep

\* A claim is DONE only after its mail.
LEMMA MarkProcessedStep ==
  ASSUME DeliveryInv, NEW c \in Consumers, MarkProcessed(c)
  PROVE  DeliveryInv'
<1>1. consumer[c].step = "sent"
  BY DEF MarkProcessed
<1>2. PICK e \in Events : consumer[c].message.event = e
  BY <1>1, MessageAtHand
<1>3. /\ claim' = ProcessedRow(e) /\ (To(c, "retry") \/ To(c, "ack"))
      /\ UNCHANGED <<outboxVars, brokerVars, mails>> /\ faults' = faults
  BY <1>2 DEF MarkProcessed
<1>4. /\ claim \in [Events -> Claim]
      /\ faults \in [{"transport", "work"} -> 0..MaxFaults]
  BY DEF DeliveryInv, DeliveryTypeOK
<1>5. mails[e] > 0
  BY <1>1, <1>2, MessageAtHand
<1>6. claim'[e].state = "DONE"
  BY <1>3, <1>4 DEF ProcessedRow
<1> QED BY <1>1, <1>2, <1>3, <1>4, <1>5, <1>6, StatementStep

\* A failed statement took effect or did not.
LEMMA StatementFailsStep ==
  ASSUME DeliveryInv, NEW c \in Consumers, StatementFails(c)
  PROVE  DeliveryInv'
<1>1. consumer[c].step \in {"received", "failed", "sent"}
  BY DEF StatementFails
<1>2. PICK e \in Events : consumer[c].message.event = e
  BY <1>1, MessageAtHand
<1>3. /\ \/ claim' \in {claim, ClaimRow(e)}
         \/ claim' \in {claim, ReleasedRow(e)}
         \/ consumer[c].step = "sent" /\ claim' \in {claim, ProcessedRow(e)}
      /\ To(c, "retry") /\ Fault({"work"})
      /\ UNCHANGED <<outboxVars, brokerVars, mails>>
  BY <1>2 DEF StatementFails
<1>4. /\ claim \in [Events -> Claim]
      /\ faults \in [{"transport", "work"} -> 0..MaxFaults]
  BY DEF DeliveryInv, DeliveryTypeOK
<1>5. faults' \in [{"transport", "work"} -> 0..MaxFaults]
  BY <1>3, <1>4, FaultCounts
<1>6. claim' = ProcessedRow(e) => mails[e] > 0
  <2> SUFFICES ASSUME claim' = ProcessedRow(e), consumer[c].step # "sent"
               PROVE  mails[e] > 0
    BY <1>1, <1>2, MessageAtHand
  <2>1. claim'[e].state = "DONE"
    BY <1>4 DEF ProcessedRow
  <2>2. CASE claim' = claim
    BY <2>1, <2>2 DEF DeliveryInv, ProcessedMeansMailed
  <2>3. CASE claim' = ClaimRow(e)
    <3>1. claim[e].state = "DONE"
      BY <1>4, <2>1, <2>3 DEF ClaimRow
    <3> QED BY <3>1 DEF DeliveryInv, ProcessedMeansMailed
  <2>4. CASE claim' = ReleasedRow(e)
    <3>1. claim[e].state = "DONE"
      BY <1>4, <2>1, <2>4 DEF ReleasedRow, Claim
    <3> QED BY <3>1 DEF DeliveryInv, ProcessedMeansMailed
  <2> QED BY <1>3, <2>2, <2>3, <2>4
<1> QED BY <1>1, <1>2, <1>3, <1>4, <1>5, <1>6, StatementStep

\* A delivered mail belongs to the event at hand.
LEMMA DeliverStep ==
  ASSUME DeliveryInv, NEW c \in Consumers, Deliver(c) \/ DeliverFails(c)
  PROVE  DeliveryInv'
<1>1. consumer[c].step = "claimed"
  BY DEF Deliver, DeliverFails
<1>2. PICK e \in Events : consumer[c].message.event = e
  BY <1>1, MessageAtHand
<1> DEFINE more == [mails EXCEPT ![e] = mails[e] + 1]
<1>3. /\ claim \in [Events -> Claim] /\ mails \in [Events -> Nat]
      /\ faults \in [{"transport", "work"} -> 0..MaxFaults]
  BY DEF DeliveryInv, DeliveryTypeOK
<1>4. /\ more \in [Events -> Nat] /\ more[e] > 0
      /\ \A f \in Events : more[f] = mails[f] \/ (f = e /\ more[f] > mails[f])
  <2>1. mails[e] \in Nat /\ mails[e] + 1 > mails[e] /\ mails[e] + 1 > 0
    BY <1>3
  <2> QED BY <1>3, <2>1
<1>5. CASE Deliver(c)
  <2>1. /\ mails' = more /\ To(c, "sent") /\ claim' = claim /\ faults' = faults
        /\ UNCHANGED <<outboxVars, brokerVars>>
    BY <1>2, <1>5 DEF Deliver
  <2> HIDE DEF more
  <2> QED BY <1>1, <1>2, <1>3, <1>4, <2>1, WithinMessage
<1>6. CASE DeliverFails(c)
  <2>1. /\ mails' \in {mails, more} /\ To(c, "failed") /\ claim' = claim
        /\ Fault({"work"})
        /\ UNCHANGED <<outboxVars, brokerVars>>
    BY <1>2, <1>6 DEF DeliverFails
  <2>2. faults' \in [{"transport", "work"} -> 0..MaxFaults]
    BY <1>3, <2>1, FaultCounts
  <2> HIDE DEF more
  <2> QED BY <1>1, <1>2, <1>3, <1>4, <2>1, <2>2, WithinMessage
<1> QED BY <1>5, <1>6

\* A consumer that lets go of its message, or loses its connection, after the
\* broker has got copies of the event.
LEMMA LettingGo ==
  ASSUME DeliveryInv, NEW c \in Consumers, consumer[c].step # "idle",
         NEW e \in Events, consumer[c].message.event = e,
         queue' \in [Message -> Nat], retryQueue' \in [Message -> Nat],
         deadQueue' \in [Message -> Nat],
         \A m \in Message :
           /\ queue'[m] >= queue[m] /\ retryQueue'[m] >= retryQueue[m]
           /\ deadQueue'[m] >= deadQueue[m]
           /\ m.event # e => queue'[m] = queue[m] /\ retryQueue'[m] = retryQueue[m]
                               /\ deadQueue'[m] = deadQueue[m],
         consumer[c].connected => Kept(e)',
         consumer' \in [Consumers -> Consumer],
         \A d \in Consumers \ {c} : consumer'[d] = consumer[d],
         consumer'[c].step = "idle" \/ (consumer'[c].step = consumer[c].step
                                        /\ consumer'[c].message = consumer[c].message),
         faults' \in [{"transport", "work"} -> 0..MaxFaults],
         UNCHANGED <<outboxVars, claim, mails>>
  PROVE  DeliveryInv'
<1>1. DeliveryTypeOK /\ ConsumerSound(c) /\ row' = row /\ runner' = runner
  BY DEF DeliveryInv, outboxVars
<1>2. DeliveryTypeOK'
  BY <1>1 DEF DeliveryTypeOK
<1>3. \A f \in Events : Kept(f) => Kept(f)'
  <2>1. \A m \in Message : queue'[m] >= queue[m] /\ retryQueue'[m] >= retryQueue[m]
                              /\ deadQueue'[m] >= deadQueue[m]
    OBVIOUS
  <2>2. \A f \in Events :
          /\ consumer[c].step # "idle"
          /\ consumer[c].connected
          /\ consumer[c].message.event = f
          => Kept(f)'
    OBVIOUS
  <2> QED BY <1>1, <1>2, <2>1, <2>2, LettingGoKeeps
<1>4. Monotone
  <2>1. \A f \in Events : mails[f] \in Nat
    BY <1>1 DEF DeliveryTypeOK
  <2> QED BY <1>1, <1>3, <2>1 DEF Monotone
<1>5. ConsumerSound(c)'
  BY <1>1 DEF ConsumerSound
<1>6. \A d \in Consumers : consumer'[d] = consumer[d] \/ ConsumerSound(d)'
  BY <1>5
<1>7. row'[e].state # "NONE"
  BY <1>1 DEF ConsumerSound
<1>8. \A m \in Message :
        queue'[m] + retryQueue'[m] + deadQueue'[m] > 0 =>
          queue[m] + retryQueue[m] + deadQueue[m] > 0 \/ row'[m.event].state # "NONE"
  BY <1>7
<1> QED BY <1>1, <1>2, <1>4, <1>6, <1>8, InvCarries

\* An acknowledged event is processed or has another copy.
LEMMA AckStep ==
  ASSUME DeliveryInv, NEW c \in Consumers, Ack(c) \/ RetryUnreachable(c)
  PROVE  DeliveryInv'
<1>1. consumer[c].step # "idle" /\ Done(c)
  BY DEF Ack, RetryUnreachable
<1>2. PICK e \in Events : consumer[c].message.event = e
  BY <1>1, MessageAtHand
<1>3. /\ consumer \in [Consumers -> Consumer]
      /\ queue \in [Message -> Nat] /\ retryQueue \in [Message -> Nat]
      /\ deadQueue \in [Message -> Nat]
      /\ faults \in [{"transport", "work"} -> 0..MaxFaults]
  BY DEF DeliveryInv, DeliveryTypeOK
<1>4. /\ queue' = queue /\ retryQueue' = retryQueue /\ deadQueue' = deadQueue
      /\ faults' = faults
      /\ UNCHANGED <<outboxVars, claim, mails>>
  BY DEF Ack, RetryUnreachable, brokerVars
<1>5. /\ consumer' \in [Consumers -> Consumer]
      /\ consumer'[c].step = "idle"
      /\ \A d \in Consumers \ {c} : consumer'[d] = consumer[d]
  BY <1>1, <1>3, ConsumerDone
<1>6. consumer[c].connected => Kept(e)'
  <2>1. CASE Ack(c)
    BY <1>1, <1>2, <1>4, <2>1, MessageAtHand DEF Ack, Kept
  <2>2. CASE RetryUnreachable(c)
    BY <2>2 DEF RetryUnreachable
  <2> QED BY <2>1, <2>2
<1>7. \A m \in Message :
        queue'[m] >= queue[m] /\ retryQueue'[m] >= retryQueue[m] /\ deadQueue'[m] >= deadQueue[m]
  <2>1. \A m \in Message : queue[m] \in Nat /\ retryQueue[m] \in Nat /\ deadQueue[m] \in Nat
    BY <1>3
  <2> QED BY <1>4, <2>1
<1> QED BY <1>1, <1>2, <1>3, <1>4, <1>5, <1>6, <1>7, LettingGo

\* The copy of a message that is retried or given up.
LEMMA CopyCounts ==
  ASSUME NEW m \in Message,
         queue \in [Message -> Nat], retryQueue \in [Message -> Nat],
         deadQueue \in [Message -> Nat],
         queue' = queue \/ queue' = Put(queue, m),
         IF m.retries >= MaxRetries
           THEN deadQueue' = Put(deadQueue, m) /\ UNCHANGED retryQueue
           ELSE /\ retryQueue' = Put(retryQueue, [m EXCEPT !.retries = @ + 1])
                /\ UNCHANGED deadQueue
  PROVE  /\ queue' \in [Message -> Nat] /\ retryQueue' \in [Message -> Nat]
         /\ deadQueue' \in [Message -> Nat]
         /\ \A n \in Message :
              /\ queue'[n] >= queue[n] /\ retryQueue'[n] >= retryQueue[n]
              /\ deadQueue'[n] >= deadQueue[n]
              /\ n.event # m.event => queue'[n] = queue[n] /\ retryQueue'[n] = retryQueue[n]
                                        /\ deadQueue'[n] = deadQueue[n]
         /\ \E n \in Message :
              n.event = m.event /\ queue'[n] + retryQueue'[n] + deadQueue'[n] > 0
<1>1. \A n \in Message : queue[n] \in Nat /\ retryQueue[n] \in Nat /\ deadQueue[n] \in Nat
  OBVIOUS
<1>2. /\ queue' \in [Message -> Nat]
      /\ \A n \in Message : queue'[n] \in Nat /\ queue'[n] >= queue[n]
      /\ \A n \in Message : n # m => queue'[n] = queue[n]
  <2>1. CASE queue' = queue
    BY <1>1, <2>1
  <2>2. CASE queue' = Put(queue, m)
    <3>1. /\ queue' \in [Message -> Nat]
          /\ queue'[m] = queue[m] + 1
          /\ \A n \in Message \ {m} : queue'[n] = queue[n]
      BY <2>2, PutCounts
    <3> QED BY <1>1, <3>1
  <2> QED BY <2>1, <2>2
<1>3. CASE m.retries >= MaxRetries
  <2>1. /\ deadQueue' = Put(deadQueue, m) /\ retryQueue' = retryQueue
    BY <1>3
  <2>2. /\ deadQueue' \in [Message -> Nat]
        /\ deadQueue'[m] = deadQueue[m] + 1
        /\ \A n \in Message \ {m} : deadQueue'[n] = deadQueue[n]
    BY <2>1, PutCounts
  <2>3. queue'[m] + retryQueue'[m] + deadQueue'[m] > 0
    BY <1>1, <1>2, <2>1, <2>2
  <2> QED BY <1>1, <1>2, <2>1, <2>2, <2>3
<1>4. CASE ~(m.retries >= MaxRetries)
  <2> DEFINE k == [m EXCEPT !.retries = @ + 1]
  <2>1. /\ retryQueue' = Put(retryQueue, k) /\ deadQueue' = deadQueue
    BY <1>4
  <2>2. k \in Message /\ k.event = m.event
    BY <1>4, RetryMessage
  <2> HIDE DEF k
  <2>3. /\ retryQueue' \in [Message -> Nat]
        /\ retryQueue'[k] = retryQueue[k] + 1
        /\ \A n \in Message \ {k} : retryQueue'[n] = retryQueue[n]
    BY <2>1, <2>2, PutCounts
  <2>4. queue'[k] + retryQueue'[k] + deadQueue'[k] > 0
    BY <1>1, <1>2, <2>1, <2>2, <2>3
  <2> QED BY <1>1, <1>2, <2>1, <2>2, <2>3, <2>4
<1> QED BY <1>3, <1>4

\* A retried or dead-lettered message has its copy first.
LEMMA RetryStep ==
  ASSUME DeliveryInv, NEW c \in Consumers, RetryOrDeadLetter(c) \/ CopiedWithoutAck(c)
  PROVE  DeliveryInv'
<1>1. consumer[c].step # "idle" /\ Done(c)
  BY DEF RetryOrDeadLetter, CopiedWithoutAck
<1>2. PICK m \in Message : consumer[c].message = m
  BY <1>1, MessageAtHand
<1>3. m.event \in Events
  BY DEF Message
<1>4. /\ consumer \in [Consumers -> Consumer]
      /\ queue \in [Message -> Nat] /\ retryQueue \in [Message -> Nat]
      /\ deadQueue \in [Message -> Nat]
      /\ faults \in [{"transport", "work"} -> 0..MaxFaults]
  BY DEF DeliveryInv, DeliveryTypeOK
<1>5. /\ queue' = queue \/ queue' = Put(queue, m)
      /\ IF m.retries >= MaxRetries
         THEN deadQueue' = Put(deadQueue, m) /\ UNCHANGED retryQueue
         ELSE /\ retryQueue' = Put(retryQueue, [m EXCEPT !.retries = @ + 1])
              /\ UNCHANGED deadQueue
      /\ faults' = faults \/ Fault({"transport"})
      /\ UNCHANGED <<outboxVars, claim, mails>>
  BY <1>2 DEF RetryOrDeadLetter, CopiedWithoutAck
<1>6. faults' \in [{"transport", "work"} -> 0..MaxFaults]
  BY <1>4, <1>5, FaultCounts
<1>7. /\ consumer' \in [Consumers -> Consumer]
      /\ consumer'[c].step = "idle"
      /\ \A d \in Consumers \ {c} : consumer'[d] = consumer[d]
  BY <1>1, <1>4, ConsumerDone
<1>8. /\ queue' \in [Message -> Nat] /\ retryQueue' \in [Message -> Nat]
      /\ deadQueue' \in [Message -> Nat]
      /\ \A n \in Message :
           /\ queue'[n] >= queue[n] /\ retryQueue'[n] >= retryQueue[n]
           /\ deadQueue'[n] >= deadQueue[n]
           /\ n.event # m.event => queue'[n] = queue[n] /\ retryQueue'[n] = retryQueue[n]
                                     /\ deadQueue'[n] = deadQueue[n]
      /\ \E n \in Message :
           n.event = m.event /\ queue'[n] + retryQueue'[n] + deadQueue'[n] > 0
  BY <1>4, <1>5, CopyCounts
<1>9. ASSUME NEW e \in Events, e = m.event PROVE DeliveryInv'
  <2>1. Kept(e)'
    BY <1>8, <1>9 DEF Kept, WithBroker
  <2> QED BY <1>1, <1>2, <1>5, <1>6, <1>7, <1>8, <1>9, <2>1, LettingGo
<1> QED BY <1>3, <1>9

\* The broker puts the message back.
LEMMA PutBackStep ==
  ASSUME DeliveryInv, NEW c \in Consumers, ConnectionLost(c) \/ ConsumerCrash(c)
  PROVE  DeliveryInv'
<1>1. consumer[c].step # "idle"
  BY DEF ConnectionLost, ConsumerCrash
<1>2. PICK m \in Message : consumer[c].message = m
  BY <1>1, MessageAtHand
<1>3. PICK e \in Events : m.event = e
  BY DEF Message
<1>4. /\ consumer \in [Consumers -> Consumer] /\ consumer[c] \in Consumer
      /\ queue \in [Message -> Nat] /\ retryQueue \in [Message -> Nat]
      /\ deadQueue \in [Message -> Nat]
      /\ faults \in [{"transport", "work"} -> 0..MaxFaults]
  BY DEF DeliveryInv, DeliveryTypeOK
<1>5. /\ queue' = Put(queue, m) \/ (queue' = queue /\ ~consumer[c].connected)
      /\ retryQueue' = retryQueue /\ deadQueue' = deadQueue
      /\ Fault({"transport"}) \/ Fault({"work"})
      /\ UNCHANGED <<outboxVars, claim, mails>>
  BY <1>2 DEF ConnectionLost, ConsumerCrash
<1>6. faults' \in [{"transport", "work"} -> 0..MaxFaults]
  BY <1>4, <1>5, FaultCounts
<1>7. \A n \in Message : queue[n] \in Nat /\ retryQueue[n] \in Nat /\ deadQueue[n] \in Nat
  BY <1>4
<1>8. /\ queue' \in [Message -> Nat]
      /\ \A n \in Message : queue'[n] >= queue[n]
      /\ \A n \in Message \ {m} : queue'[n] = queue[n]
      /\ consumer[c].connected => queue'[m] > 0
  <2>1. CASE queue' = Put(queue, m)
    <3>1. /\ queue' \in [Message -> Nat]
          /\ queue'[m] = queue[m] + 1
          /\ \A n \in Message \ {m} : queue'[n] = queue[n]
      BY <1>4, <2>1, PutCounts
    <3> QED BY <1>7, <3>1
  <2>2. CASE queue' = queue /\ ~consumer[c].connected
    BY <1>4, <1>7, <2>2
  <2> QED BY <1>5, <2>1, <2>2
<1>9. consumer[c].connected => Kept(e)'
  <2> SUFFICES ASSUME consumer[c].connected PROVE Kept(e)'
    OBVIOUS
  <2>1. queue'[m] + retryQueue'[m] + deadQueue'[m] > 0
    BY <1>5, <1>7, <1>8
  <2> QED BY <1>3, <2>1 DEF Kept, WithBroker
<1>10. /\ consumer' \in [Consumers -> Consumer]
       /\ \A d \in Consumers \ {c} : consumer'[d] = consumer[d]
       /\ \/ consumer'[c].step = "idle"
          \/ /\ consumer'[c].step = consumer[c].step
             /\ consumer'[c].message = consumer[c].message
  <2>1. CASE ConsumerCrash(c)
    <3>1. Done(c)
      BY <2>1 DEF ConsumerCrash
    <3> QED BY <1>4, <3>1, ConsumerDone
  <2>2. CASE ConnectionLost(c)
    <3> DEFINE cut == [consumer[c] EXCEPT !.connected = FALSE]
    <3>1. consumer' = [consumer EXCEPT ![c] = cut]
      BY <2>2 DEF ConnectionLost
    <3>2. cut \in Consumer /\ cut.step = consumer[c].step
            /\ cut.message = consumer[c].message
      BY <1>4, Disconnected
    <3> HIDE DEF cut
    <3> QED BY <1>4, <3>1, <3>2
  <2> QED BY <2>1, <2>2
<1>11. \A n \in Message :
         /\ queue'[n] >= queue[n] /\ retryQueue'[n] >= retryQueue[n]
         /\ deadQueue'[n] >= deadQueue[n]
         /\ n.event # e => queue'[n] = queue[n] /\ retryQueue'[n] = retryQueue[n]
                             /\ deadQueue'[n] = deadQueue[n]
  BY <1>3, <1>5, <1>7, <1>8
<1> QED BY <1>1, <1>2, <1>3, <1>4, <1>5, <1>6, <1>8, <1>9, <1>10, <1>11, LettingGo

\* A received copy moves from the queue to the consumer.
LEMMA ReceiveStep ==
  ASSUME DeliveryInv, NEW c \in Consumers, NEW m \in Message, Receive(c, m)
  PROVE  DeliveryInv'
<1> DEFINE busy == [step |-> "received", message |-> m, connected |-> TRUE]
<1>1. /\ DeliveryTypeOK
      /\ consumer \in [Consumers -> Consumer]
      /\ queue \in [Message -> Nat] /\ retryQueue \in [Message -> Nat]
      /\ deadQueue \in [Message -> Nat] /\ mails \in [Events -> Nat]
  BY DEF DeliveryInv, DeliveryTypeOK
<1>2. /\ consumer[c] = ConsumerIdle /\ queue[m] > 0
      /\ queue' = Take(queue, m)
      /\ row' = row /\ runner' = runner /\ retryQueue' = retryQueue
      /\ deadQueue' = deadQueue /\ claim' = claim /\ mails' = mails /\ faults' = faults
  BY DEF Receive, outboxVars
<1>3. consumer' = [consumer EXCEPT ![c] = busy]
  BY DEF Receive
<1>4. /\ queue' \in [Message -> Nat]
      /\ \A n \in Message : queue'[n] = queue[n] \/ n = m
      /\ \A n \in Message : queue'[n] > 0 => queue[n] > 0
  <2>1. /\ queue' \in [Message -> Nat]
        /\ queue'[m] = queue[m] - 1
        /\ \A n \in Message \ {m} : queue'[n] = queue[n]
    BY <1>1, <1>2, TakeCounts
  <2> QED BY <1>2, <2>1
<1>5. busy \in Consumer
  BY DEF Consumer
<1>6. /\ consumer' \in [Consumers -> Consumer] /\ consumer'[c] = busy
      /\ \A d \in Consumers \ {c} : consumer'[d] = consumer[d]
  BY <1>1, <1>3, <1>5
<1>7. DeliveryTypeOK'
  BY <1>1, <1>2, <1>4, <1>6 DEF DeliveryTypeOK
<1>8. \A e \in Events : Kept(e) => Kept(e)'
  <2> SUFFICES ASSUME NEW e \in Events, Kept(e)
               PROVE  Kept(e)'
    OBVIOUS
  <2>1. ASSUME m.event = e PROVE Kept(e)'
    BY <1>6, <2>1 DEF Kept, WithBroker
  <2>2. ASSUME NEW n \in Message, n.event = e, n # m,
               queue[n] + retryQueue[n] + deadQueue[n] > 0
        PROVE  Kept(e)'
    <3>1. queue'[n] + retryQueue'[n] + deadQueue'[n] > 0
      BY <1>2, <1>4, <2>2
    <3> QED BY <2>2, <3>1 DEF Kept, WithBroker
  <2>3. CASE \E n \in Message :
               n.event = e /\ queue[n] + retryQueue[n] + deadQueue[n] > 0
    BY <2>1, <2>2, <2>3
  <2>4. ASSUME NEW d \in Consumers, consumer[d].step # "idle", consumer[d].connected,
               consumer[d].message.event = e
        PROVE  Kept(e)'
    <3>1. consumer[c].step = "idle"
      BY <1>2 DEF ConsumerIdle
    <3>2. consumer'[d] = consumer[d]
      BY <1>6, <2>4, <3>1
    <3> QED BY <2>4, <3>2 DEF Kept, WithBroker
  <2>5. CASE claim[e].state = "DONE"
    BY <1>2, <2>5 DEF Kept
  <2> QED BY <2>3, <2>4, <2>5 DEF Kept, WithBroker
<1>9. Monotone
  <2>1. \A f \in Events : mails[f] \in Nat
    BY <1>1
  <2> QED BY <1>2, <1>8, <2>1 DEF Monotone
<1>10. row[m.event].state # "NONE"
  <2>1. queue[m] + retryQueue[m] + deadQueue[m] > 0
    BY <1>1, <1>2
  <2> QED BY <2>1 DEF DeliveryInv, QueuesSound
<1>11. ConsumerSound(c)'
  BY <1>2, <1>6, <1>10 DEF ConsumerSound
<1>12. \A d \in Consumers : consumer'[d] = consumer[d] \/ ConsumerSound(d)'
  BY <1>6, <1>11
<1>13. \A n \in Message :
         queue'[n] + retryQueue'[n] + deadQueue'[n] > 0 =>
           queue[n] + retryQueue[n] + deadQueue[n] > 0 \/ row'[n.event].state # "NONE"
  BY <1>2, <1>4, <1>10
<1> QED BY <1>2, <1>7, <1>9, <1>12, <1>13, InvCarries

-----------------------------------------------------------------------------
(* Time *)

\* Time ends leases, and returns delayed copies to the main queue.
LEMMA TickStep ==
  ASSUME DeliveryInv, Tick
  PROVE  DeliveryInv'
<1> DEFINE left(n) == LeaseAfterTick(n)
<1>1. /\ DeliveryTypeOK
      /\ row \in [Events -> Row] /\ claim \in [Events -> Claim]
      /\ queue \in [Message -> Nat] /\ retryQueue \in [Message -> Nat]
      /\ deadQueue \in [Message -> Nat] /\ mails \in [Events -> Nat]
      /\ faults \in [{"transport", "work"} -> 0..MaxFaults]
  BY DEF DeliveryInv, DeliveryTypeOK
<1>2. /\ runner' = runner /\ deadQueue' = deadQueue /\ consumer' = consumer
      /\ mails' = mails
      /\ queue' = [m \in Message |-> queue[m] + retryQueue[m]]
      /\ retryQueue' = [m \in Message |-> 0]
  BY DEF Tick
<1>3. faults' \in [{"transport", "work"} -> 0..MaxFaults]
  BY <1>1, FaultCounts DEF Tick
<1>4. /\ row' \in [Events -> Row]
      /\ \A e \in Events : row'[e].state = row[e].state
  <2>1. \A e \in Events :
          /\ left(row[e].lease) \in 0..PublishLease
          /\ [row[e] EXCEPT !.lease = left(row[e].lease)]
               = [state |-> row[e].state, lease |-> left(row[e].lease)]
    <3> SUFFICES ASSUME NEW e \in Events
                 PROVE  /\ left(row[e].lease) \in 0..PublishLease
                        /\ [row[e] EXCEPT !.lease = left(row[e].lease)]
                             = [state |-> row[e].state, lease |-> left(row[e].lease)]
      OBVIOUS
    <3>1. row[e] \in Row /\ row[e].lease \in 0..PublishLease
      BY <1>1 DEF Row
    <3>2. left(row[e].lease) \in 0..PublishLease
      BY <3>1 DEF LeaseAfterTick
    <3> HIDE DEF left
    <3> QED BY <3>1, <3>2 DEF Row
  <2>2. row' = [e \in Events |-> [row[e] EXCEPT !.lease = left(row[e].lease)]]
    BY DEF Tick
  <2> HIDE DEF left
  <2>3. row' = [e \in Events |-> [state |-> row[e].state, lease |-> left(row[e].lease)]]
    BY <2>1, <2>2
  <2> QED BY <1>1, <2>1, <2>3 DEF Row
<1>5. /\ claim' \in [Events -> Claim]
      /\ \A e \in Events : claim'[e].state = claim[e].state
  <2>1. \A e \in Events :
          /\ left(claim[e].lease) \in 0..ProcessLease
          /\ [claim[e] EXCEPT !.lease = left(claim[e].lease)]
               = [state |-> claim[e].state, lease |-> left(claim[e].lease)]
    <3> SUFFICES ASSUME NEW e \in Events
                 PROVE  /\ left(claim[e].lease) \in 0..ProcessLease
                        /\ [claim[e] EXCEPT !.lease = left(claim[e].lease)]
                             = [state |-> claim[e].state, lease |-> left(claim[e].lease)]
      OBVIOUS
    <3>1. claim[e] \in Claim /\ claim[e].lease \in 0..ProcessLease
      BY <1>1 DEF Claim
    <3>2. left(claim[e].lease) \in 0..ProcessLease
      BY <3>1 DEF LeaseAfterTick
    <3> HIDE DEF left
    <3> QED BY <3>1, <3>2 DEF Claim
  <2>2. claim' = [e \in Events |-> [claim[e] EXCEPT !.lease = left(claim[e].lease)]]
    BY DEF Tick
  <2> HIDE DEF left
  <2>3. claim' = [e \in Events |-> [state |-> claim[e].state, lease |-> left(claim[e].lease)]]
    BY <2>1, <2>2
  <2> QED BY <1>1, <2>1, <2>3 DEF Claim
<1>6. /\ queue' \in [Message -> Nat] /\ retryQueue' \in [Message -> Nat]
      /\ \A m \in Message : queue'[m] + retryQueue'[m] + deadQueue'[m]
                              = queue[m] + retryQueue[m] + deadQueue[m]
  <2>1. \A m \in Message : queue[m] \in Nat /\ retryQueue[m] \in Nat /\ deadQueue[m] \in Nat
    BY <1>1
  <2> QED BY <1>2, <2>1
<1>7. DeliveryTypeOK'
  BY <1>1, <1>2, <1>3, <1>4, <1>5, <1>6 DEF DeliveryTypeOK
<1>8. \A e \in Events : Kept(e) => Kept(e)'
  BY <1>2, <1>5, <1>6 DEF Kept, WithBroker
<1>9. Monotone
  <2>1. \A e \in Events : mails[e] \in Nat
    BY <1>1
  <2> QED BY <1>2, <1>4, <1>5, <1>8, <2>1 DEF Monotone
<1> QED BY <1>2, <1>4, <1>5, <1>6, <1>7, <1>9, InvCarries

-----------------------------------------------------------------------------
(* The theorems *)

\* The inductive invariant holds in the initial states.
LEMMA DeliveryStart == DeliveryInit => DeliveryInv
<1> SUFFICES ASSUME DeliveryInit PROVE DeliveryInv
  OBVIOUS
<1>1. /\ [state |-> "NONE", lease |-> 0] \in Row
      /\ [state |-> "NONE", lease |-> 0] \in Claim
      /\ RunnerIdle \in Runner /\ ConsumerIdle \in Consumer
  BY DEF Row, Claim, Runner, RunnerIdle, Consumer, ConsumerIdle
<1>2. 0 \in 0..MaxFaults
  OBVIOUS
<1>3. DeliveryTypeOK
  BY <1>1, <1>2 DEF DeliveryInit, DeliveryTypeOK
<1>4. \A r \in Runners : RunnerSound(r)
  BY DEF DeliveryInit, RunnerSound, RunnerIdle
<1>5. \A c \in Consumers : ConsumerSound(c)
  BY DEF DeliveryInit, ConsumerSound, ConsumerIdle
<1>6. QueuesSound
  BY DEF DeliveryInit, QueuesSound
<1>7. NoEventLost /\ ProcessedMeansMailed
  BY DEF DeliveryInit, NoEventLost, ProcessedMeansMailed
<1> QED BY <1>3, <1>4, <1>5, <1>6, <1>7 DEF DeliveryInv

\* Every step preserves the inductive invariant.
LEMMA DeliveryNextSound == DeliveryInv /\ [DeliveryNext]_deliveryVars => DeliveryInv'
<1> SUFFICES ASSUME DeliveryInv, [DeliveryNext]_deliveryVars
             PROVE  DeliveryInv'
  OBVIOUS
<1>1. ASSUME NEW e \in Events, Enqueue(e) PROVE DeliveryInv'
  BY <1>1, EnqueueStep
<1>2. ASSUME NEW r \in Runners, Flush(r) \/ RunnerFault(r) PROVE DeliveryInv'
  BY <1>2, ClaimBatchStep, PublishStep, MarkPublishedStep, ReleaseRowStep,
     RunnerStopsStep DEF Flush, RunnerFault
<1>3. ASSUME NEW c \in Consumers, HandleDelivery(c) PROVE DeliveryInv'
  BY <1>3, ReceiveStep, ClaimEventStep, DeliverStep, ReleaseClaimStep,
     MarkProcessedStep, AckStep, RetryStep DEF HandleDelivery
<1>4. ASSUME NEW c \in Consumers, ConsumerFault(c) PROVE DeliveryInv'
  BY <1>4, DeliverStep, StatementFailsStep, RetryStep, PutBackStep DEF ConsumerFault
<1>5. CASE UNCHANGED deliveryVars
  BY <1>5 DEF deliveryVars, outboxVars, brokerVars, notifyVars, DeliveryInv,
       DeliveryTypeOK, RunnerSound, ConsumerSound, QueuesSound, NoEventLost,
       ProcessedMeansMailed, Kept, WithBroker
<1> QED BY <1>1, <1>2, <1>3, <1>4, <1>5, TickStep DEF DeliveryNext

\* The inductive invariant holds in every state of the delivery.
THEOREM DeliveryInvariant == DeliverySpec => []DeliveryInv
BY DeliveryStart, DeliveryNextSound, PTL DEF DeliverySpec

\* Tables, queues and processes keep their types, whatever fails.
THEOREM DeliveryTypes == DeliverySpec => []DeliveryTypeOK
<1>1. DeliveryInv => DeliveryTypeOK
  BY DEF DeliveryInv
<1> QED BY <1>1, DeliveryInvariant, PTL

\* A row that is marked published is never lost between runner, broker and
\* consumer, with any number of crashes, lost confirmations and connections.
THEOREM EventsAreKept == DeliverySpec => []NoEventLost
<1>1. DeliveryInv => NoEventLost
  BY DEF DeliveryInv
<1> QED BY <1>1, DeliveryInvariant, PTL

\* An event is recorded as processed only after its mail was accepted, and mail
\* goes out for committed events only.
THEOREM NothingProcessedUnmailed == DeliverySpec => []ProcessedMeansMailed
<1>1. DeliveryInv => ProcessedMeansMailed
  BY DEF DeliveryInv
<1> QED BY <1>1, DeliveryInvariant, PTL

-----------------------------------------------------------------------------
(* Deduplication: the mails of an event are bounded by the faults of       *)
(* consumers that held its claim.                                          *)

\* Consumers that may still mail, or let another consumer mail.
Owing(e) ==
  {c \in Consumers : consumer[c].step \in {"claimed", "failed"}
                       /\ consumer[c].message.event = e}

\* Somebody works under a claim of the event.
Active(e) ==
  \E c \in Consumers : consumer[c].step \in {"claimed", "sent", "failed"}
                         /\ consumer[c].message.event = e

\* The event can be claimed, now or, because its claim was abandoned, later.
Open(e) ==
  \/ claim[e].state = "NONE"
  \/ claim[e].state = "HELD" /\ (claim[e].lease = 0 \/ ~Active(e))

\* Every mail, sent or still possible, beyond the first is paid for by a fault.
MailsPaid(e) ==
  mails[e] + Cardinality(Owing(e)) + (IF Open(e) THEN 1 ELSE 0) <= 1 + faults["work"]

\* The inductive invariant of MailsBounded.
MailInv == DeliveryInv /\ \A e \in Events : MailsPaid(e)

-----------------------------------------------------------------------------
(* Counting *)

\* Only consumers owe.
LEMMA OwingFinite ==
  ASSUME NEW S \in SUBSET Consumers
  PROVE  IsFiniteSet(S) /\ Cardinality(S) \in Nat
<1>1. IsFiniteSet(Consumers)
  BY DeliveryAssumption
<1>2. IsFiniteSet(S)
  BY <1>1, FS_Subset
<1> QED BY <1>2, FS_CardinalityType

\* One consumer more or less among those that owe.
LEMMA OwingCounts ==
  ASSUME NEW c \in Consumers, NEW e,
         \A d \in Consumers \ {c} : consumer'[d] = consumer[d]
  PROVE  /\ Cardinality(Owing(e)) \in Nat
         /\ Cardinality(Owing(e)') \in Nat
         /\ (c \in Owing(e) <=> c \in Owing(e)')
              => Cardinality(Owing(e)') = Cardinality(Owing(e))
         /\ c \in Owing(e) /\ c \notin Owing(e)'
              => Cardinality(Owing(e)') = Cardinality(Owing(e)) - 1
         /\ c \notin Owing(e) /\ c \in Owing(e)'
              => Cardinality(Owing(e)') = Cardinality(Owing(e)) + 1
<1>1. Owing(e) \subseteq Consumers /\ Owing(e)' \subseteq Consumers
  BY DEF Owing
<1>2. IsFiniteSet(Owing(e)) /\ IsFiniteSet(Owing(e)')
  BY <1>1, OwingFinite
<1>3. Cardinality(Owing(e)) \in Nat /\ Cardinality(Owing(e)') \in Nat
  BY <1>1, OwingFinite
<1>4. \A d \in Consumers \ {c} : d \in Owing(e) <=> d \in Owing(e)'
  BY DEF Owing
<1>5. CASE c \in Owing(e) <=> c \in Owing(e)'
  <2>1. Owing(e) = Owing(e)'
    BY <1>1, <1>4, <1>5
  <2> QED BY <1>3, <1>5, <2>1
<1>6. CASE c \in Owing(e) /\ c \notin Owing(e)'
  <2>1. Owing(e)' = Owing(e) \ {c}
    BY <1>1, <1>4, <1>6
  <2>2. Cardinality(Owing(e) \ {c}) = Cardinality(Owing(e)) - 1
    BY <1>2, <1>6, FS_RemoveElement
  <2> QED BY <1>3, <1>6, <2>1, <2>2
<1>7. CASE c \notin Owing(e) /\ c \in Owing(e)'
  <2>1. Owing(e)' = Owing(e) \cup {c}
    BY <1>1, <1>4, <1>7
  <2>2. Cardinality(Owing(e) \cup {c}) = Cardinality(Owing(e)) + 1
    BY <1>2, <1>7, FS_AddElement
  <2> QED BY <1>3, <1>7, <2>1, <2>2
<1> QED BY <1>5, <1>6, <1>7

\* Faults of consumers are never forgotten.
LEMMA FaultsCountWork ==
  ASSUME faults \in [{"transport", "work"} -> 0..MaxFaults], NEW kinds, Fault(kinds)
  PROVE  /\ faults["work"] \in Nat
         /\ faults'["work"] \in Nat
         /\ faults'["work"] >= faults["work"]
         /\ "work" \in kinds => faults'["work"] = faults["work"] + 1
<1>1. faults'["work"] = faults["work"] + IF "work" \in kinds THEN 1 ELSE 0
  BY DEF Fault
<1>2. faults["work"] \in Nat
  OBVIOUS
<1> QED BY <1>1, <1>2

\* A step that neither claims, releases nor mails, and starts or ends nobody's
\* work under a claim.
LEMMA QuietMail ==
  ASSUME MailInv,
         UNCHANGED <<claim, mails>>,
         faults["work"] \in Nat, faults'["work"] \in Nat,
         faults'["work"] >= faults["work"],
         \A c \in Consumers :
           \/ /\ consumer'[c].step = consumer[c].step
              /\ consumer'[c].message = consumer[c].message
           \/ /\ consumer[c].step \notin {"claimed", "sent", "failed"}
              /\ consumer'[c].step \notin {"claimed", "sent", "failed"}
  PROVE  \A e \in Events : MailsPaid(e)'
<1> SUFFICES ASSUME NEW e \in Events PROVE MailsPaid(e)'
  OBVIOUS
<1>1. Owing(e)' = Owing(e)
  BY DEF Owing
<1>2. Open(e)' <=> Open(e)
  BY DEF Open, Active
<1>3. Owing(e) \subseteq Consumers
  BY DEF Owing
<1>4. Cardinality(Owing(e)) \in Nat
  BY <1>3, OwingFinite
<1>5. mails[e] \in Nat /\ mails'[e] = mails[e]
  BY DEF MailInv, DeliveryInv, DeliveryTypeOK
<1>6. Cardinality(Owing(e))' = Cardinality(Owing(e))
  BY <1>1
<1> DEFINE o == Cardinality(Owing(e))
<1>7. mails[e] + o + (IF Open(e) THEN 1 ELSE 0) <= 1 + faults["work"]
  BY DEF MailInv, MailsPaid
<1>8. mails'[e] + o + (IF Open(e)' THEN 1 ELSE 0) <= 1 + faults'["work"]
  <2> HIDE DEF o
  <2> QED BY <1>2, <1>4, <1>5, <1>7 DEF o
<1> QED BY <1>6, <1>8 DEF MailsPaid

\* What a busy consumer does concerns its own event only.
LEMMA OwnEventOnly ==
  ASSUME MailInv, NEW c \in Consumers,
         NEW e \in Events, consumer[c].message.event = e,
         \A d \in Consumers \ {c} : consumer'[d] = consumer[d],
         \/ consumer'[c].step = "idle"
         \/ consumer'[c].message = consumer[c].message,
         \A f \in Events \ {e} : claim'[f] = claim[f] /\ mails'[f] = mails[f],
         faults["work"] \in Nat, faults'["work"] \in Nat,
         faults'["work"] >= faults["work"],
         MailsPaid(e)'
  PROVE  \A f \in Events : MailsPaid(f)'
<1> SUFFICES ASSUME NEW f \in Events \ {e} PROVE MailsPaid(f)'
  OBVIOUS
<1>1. c \notin Owing(f) /\ c \notin Owing(f)'
  BY DEF Owing
<1>2. /\ Cardinality(Owing(f)) \in Nat
      /\ Cardinality(Owing(f)') = Cardinality(Owing(f))
  BY <1>1, OwingCounts
<1>3. Active(f)' <=> Active(f)
  BY DEF Active
<1>4. Open(f)' <=> Open(f)
  BY <1>3 DEF Open
<1>5. mails[f] \in Nat /\ mails'[f] = mails[f]
  BY DEF MailInv, DeliveryInv, DeliveryTypeOK
<1> DEFINE o == Cardinality(Owing(f))
<1>6. mails[f] + o + (IF Open(f) THEN 1 ELSE 0) <= 1 + faults["work"]
  BY DEF MailInv, MailsPaid
<1>7. mails'[f] + o + (IF Open(f)' THEN 1 ELSE 0) <= 1 + faults'["work"]
  <2>1. o \in Nat
    BY <1>2
  <2> HIDE DEF o
  <2> QED BY <2>1, <1>4, <1>5, <1>6
<1>8. Cardinality(Owing(f))' = o
  BY <1>2
<1> QED BY <1>7, <1>8 DEF MailsPaid

\* The account of one event is settled by what it spends and what it gains: a
\* consumer more or less that owes, mails, a claim that opens or is taken, and a
\* fault.
LEMMA AccountBalances ==
  ASSUME MailInv, NEW c \in Consumers, NEW e \in Events,
         \A d \in Consumers \ {c} : consumer'[d] = consumer[d],
         NEW sent \in 0..1, mails'[e] = mails[e] + sent,
         NEW fault \in 0..1, faults["work"] \in Nat,
         faults'["work"] = faults["work"] + fault,
         NEW before \in 0..1, before = IF c \in Owing(e) THEN 1 ELSE 0,
         NEW after \in 0..1, after = IF c \in Owing(e)' THEN 1 ELSE 0,
         NEW free \in 0..1, free = IF Open(e) THEN 1 ELSE 0,
         NEW opened \in 0..1, Open(e)' => opened = 1,
         sent + after + opened <= before + free + fault
  PROVE  MailsPaid(e)'
<1> DEFINE o == Cardinality(Owing(e))
           p == Cardinality(Owing(e)')
<1>1. o \in Nat /\ p \in Nat /\ p = o + after - before
  BY OwingCounts
<1>2. mails[e] \in Nat
  BY DEF MailInv, DeliveryInv, DeliveryTypeOK
<1>3. mails[e] + o + free <= 1 + faults["work"]
  BY DEF MailInv, MailsPaid
<1> HIDE DEF o, p
<1>4. mails'[e] + p + opened <= 1 + faults'["work"]
  BY <1>1, <1>2, <1>3
<1>5. mails'[e] + p + (IF Open(e)' THEN 1 ELSE 0) <= 1 + faults'["work"]
  <2>1. CASE Open(e)'
    BY <1>4, <2>1
  <2>2. CASE ~Open(e)'
    BY <1>1, <1>2, <1>4, <2>2
  <2> QED BY <2>1, <2>2
<1>6. Cardinality(Owing(e))' = p
  BY DEF p
<1> QED BY <1>5, <1>6 DEF MailsPaid

-----------------------------------------------------------------------------
(* The steps *)

\* The types the steps below need.
LEMMA MailTypes ==
  ASSUME MailInv
  PROVE  /\ consumer \in [Consumers -> Consumer]
         /\ claim \in [Events -> Claim]
         /\ mails \in [Events -> Nat]
         /\ faults \in [{"transport", "work"} -> 0..MaxFaults]
         /\ faults["work"] \in Nat
BY DEF MailInv, DeliveryInv, DeliveryTypeOK

\* The broker's and the outbox's steps are quiet.
LEMMA TransportMail ==
  ASSUME MailInv,
         \/ \E e \in Events : Enqueue(e)
         \/ \E r \in Runners : Flush(r) \/ RunnerFault(r)
         \/ \E c \in Consumers : \/ \E m \in Message : Receive(c, m)
                                 \/ Ack(c) \/ RetryOrDeadLetter(c)
                                 \/ RetryUnreachable(c) \/ CopiedWithoutAck(c)
                                 \/ ConnectionLost(c)
  PROVE  \A e \in Events : MailsPaid(e)'
<1>1. /\ consumer \in [Consumers -> Consumer]
      /\ faults \in [{"transport", "work"} -> 0..MaxFaults] /\ faults["work"] \in Nat
  BY MailTypes
<1> DEFINE quiet(c) ==
      \/ /\ consumer'[c].step = consumer[c].step
         /\ consumer'[c].message = consumer[c].message
      \/ /\ consumer[c].step \notin {"claimed", "sent", "failed"}
         /\ consumer'[c].step \notin {"claimed", "sent", "failed"}
<1>2. claim' = claim /\ mails' = mails /\ (faults' = faults \/ Fault({"transport"}))
  BY DEF Enqueue, Flush, RunnerFault, ClaimBatch, Publish, PublishFails, MarkPublished,
       ReleaseRow, RunnerStops, Receive, Ack, RetryOrDeadLetter, RetryUnreachable,
       CopiedWithoutAck, ConnectionLost, notifyVars
<1>3. faults'["work"] \in Nat /\ faults'["work"] >= faults["work"]
  <2>1. CASE faults' = faults
    BY <1>1, <2>1
  <2>2. CASE Fault({"transport"})
    BY <1>1, <2>2, FaultsCountWork
  <2> QED BY <1>2, <2>1, <2>2
<1>4. \A c \in Consumers : quiet(c)
  <2>1. CASE consumer' = consumer
    BY <2>1
  <2>2. ASSUME NEW c \in Consumers, Done(c),
               consumer[c].step \notin {"claimed", "sent", "failed"}
        PROVE  \A d \in Consumers : quiet(d)
    <3>1. /\ consumer'[c].step = "idle"
          /\ \A d \in Consumers \ {c} : consumer'[d] = consumer[d]
      BY <1>1, <2>2, ConsumerDone
    <3> QED BY <2>2, <3>1
  <2>3. ASSUME NEW c \in Consumers, ConnectionLost(c)
        PROVE  \A d \in Consumers : quiet(d)
    <3> DEFINE cut == [consumer[c] EXCEPT !.connected = FALSE]
    <3>1. consumer' = [consumer EXCEPT ![c] = cut]
      BY <2>3 DEF ConnectionLost
    <3>2. cut.step = consumer[c].step /\ cut.message = consumer[c].message
      BY <1>1, Disconnected
    <3> HIDE DEF cut
    <3> QED BY <1>1, <3>1, <3>2
  <2>4. ASSUME NEW c \in Consumers, NEW m \in Message, Receive(c, m)
        PROVE  \A d \in Consumers : quiet(d)
    <3>1. /\ consumer[c].step = "idle"
          /\ consumer'[c].step = "received"
          /\ \A d \in Consumers \ {c} : consumer'[d] = consumer[d]
      BY <1>1, <2>4 DEF Receive, ConsumerIdle
    <3> QED BY <3>1
  <2>5. CASE \/ \E e \in Events : Enqueue(e)
             \/ \E r \in Runners : Flush(r) \/ RunnerFault(r)
    <3>1. consumer' = consumer
      BY <2>5 DEF Enqueue, Flush, RunnerFault, ClaimBatch, Publish, PublishFails,
           MarkPublished, ReleaseRow, RunnerStops, notifyVars
    <3> QED BY <2>1, <3>1
  <2>6. ASSUME NEW c \in Consumers,
               Ack(c) \/ RetryOrDeadLetter(c) \/ RetryUnreachable(c) \/ CopiedWithoutAck(c)
        PROVE  \A d \in Consumers : quiet(d)
    <3>1. Done(c) /\ consumer[c].step \in {"ack", "retry"}
      BY <2>6 DEF Ack, RetryOrDeadLetter, RetryUnreachable, CopiedWithoutAck
    <3> QED BY <2>2, <3>1
  <2> HIDE DEF quiet
  <2> QED BY <2>3, <2>4, <2>5, <2>6
<1> QED BY <1>1, <1>2, <1>3, <1>4, QuietMail

\* Where a consumer that moves within its message stands with its own event.
LEMMA OwnAccount ==
  ASSUME MailInv, NEW c \in Consumers, consumer[c].step # "idle",
         NEW e \in Events, consumer[c].message.event = e,
         NEW step \in {"received", "claimed", "sent", "failed", "ack", "retry"},
         To(c, step)
  PROVE  /\ \A d \in Consumers \ {c} : consumer'[d] = consumer[d]
         /\ consumer'[c].step = step
         /\ consumer'[c].message = consumer[c].message
         /\ c \in Owing(e) <=> consumer[c].step \in {"claimed", "failed"}
         /\ c \in Owing(e)' <=> step \in {"claimed", "failed"}
         /\ consumer[c].step \in {"claimed", "sent", "failed"} => Active(e)
         /\ step \in {"claimed", "sent", "failed"} => Active(e)'
<1>1. /\ \A d \in Consumers \ {c} : consumer'[d] = consumer[d]
      /\ consumer'[c].step = step
      /\ consumer'[c].message = consumer[c].message
  BY MailTypes, ConsumerMoves
<1> QED BY <1>1 DEF Owing, Active

\* A claim closes the event it opens the account of.
LEMMA ClaimEventMail ==
  ASSUME MailInv, NEW c \in Consumers, ClaimEvent(c)
  PROVE  \A f \in Events : MailsPaid(f)'
<1>1. consumer[c].step = "received"
  BY DEF ClaimEvent
<1>2. PICK e \in Events : consumer[c].message.event = e
  BY <1>1, MessageAtHand DEF MailInv
<1>3. /\ claim' = ClaimRow(e)
      /\ \/ Claimable(e) /\ To(c, "claimed")
         \/ claim[e].state = "DONE" /\ To(c, "ack")
         \/ claim[e].state = "HELD" /\ ~Claimable(e) /\ To(c, "retry")
      /\ mails' = mails /\ faults' = faults
  BY <1>2 DEF ClaimEvent
<1>4. /\ claim \in [Events -> Claim] /\ mails \in [Events -> Nat]
      /\ faults["work"] \in Nat
  BY MailTypes
<1>5. CASE Claimable(e) /\ To(c, "claimed")
  <2>1. /\ \A d \in Consumers \ {c} : consumer'[d] = consumer[d]
        /\ consumer'[c].message = consumer[c].message
        /\ c \notin Owing(e) /\ c \in Owing(e)' /\ Active(e)'
    BY <1>1, <1>2, <1>5, OwnAccount
  <2>2. /\ claim'[e].state = "HELD" /\ claim'[e].lease = ProcessLease
        /\ \A f \in Events \ {e} : claim'[f] = claim[f]
    BY <1>3, <1>4, <1>5 DEF ClaimRow
  <2>3. ProcessLease > 0
    BY DeliveryAssumption
  <2>4. ~Open(e)' /\ Open(e)
    BY <1>5, <2>1, <2>2, <2>3 DEF Open, Claimable
  <2>5. MailsPaid(e)'
    <3>1. mails'[e] = mails[e] + 0 /\ faults'["work"] = faults["work"] + 0
      BY <1>3, <1>4
    <3> QED BY <1>4, <2>1, <2>4, <3>1, AccountBalances
  <2> QED BY <1>2, <1>3, <1>4, <2>1, <2>2, <2>5, OwnEventOnly
<1>6. ASSUME ~(Claimable(e) /\ To(c, "claimed")) PROVE \A f \in Events : MailsPaid(f)'
  <2>1. PICK step \in {"ack", "retry"} : To(c, step)
    BY <1>3, <1>6
  <2>2. ~Claimable(e)
    BY <1>3, <1>6 DEF Claimable
  <2>3. claim' = claim
    BY <1>3, <2>2 DEF ClaimRow
  <2>4. \A d \in Consumers :
          \/ /\ consumer'[d].step = consumer[d].step
             /\ consumer'[d].message = consumer[d].message
          \/ /\ consumer[d].step \notin {"claimed", "sent", "failed"}
             /\ consumer'[d].step \notin {"claimed", "sent", "failed"}
    <3>1. /\ \A d \in Consumers \ {c} : consumer'[d] = consumer[d]
          /\ consumer'[c].step = step
      BY <1>1, <1>2, <2>1, OwnAccount
    <3> QED BY <1>1, <3>1
  <2>5. faults'["work"] \in Nat /\ faults'["work"] >= faults["work"]
    BY <1>3, <1>4
  <2> QED BY <1>3, <1>4, <2>3, <2>4, <2>5, QuietMail
<1> QED BY <1>5, <1>6

\* A delivered mail is paid for by the claim it was sent under.
LEMMA DeliverMail ==
  ASSUME MailInv, NEW c \in Consumers, Deliver(c) \/ DeliverFails(c)
  PROVE  \A f \in Events : MailsPaid(f)'
<1>1. consumer[c].step = "claimed"
  BY DEF Deliver, DeliverFails
<1>2. PICK e \in Events : consumer[c].message.event = e
  BY <1>1, MessageAtHand DEF MailInv
<1>3. /\ claim' = claim
      /\ \/ /\ mails' = [mails EXCEPT ![e] = mails[e] + 1]
            /\ To(c, "sent") /\ faults' = faults
         \/ /\ mails' \in {mails, [mails EXCEPT ![e] = mails[e] + 1]}
            /\ To(c, "failed") /\ Fault({"work"})
  BY <1>2 DEF Deliver, DeliverFails
<1>4. /\ mails \in [Events -> Nat] /\ faults["work"] \in Nat
      /\ faults \in [{"transport", "work"} -> 0..MaxFaults]
  BY MailTypes
<1>5. PICK step \in {"sent", "failed"} : To(c, step)
  BY <1>3
<1>6. /\ \A d \in Consumers \ {c} : consumer'[d] = consumer[d]
      /\ consumer'[c].message = consumer[c].message
      /\ c \in Owing(e) /\ Active(e) /\ Active(e)'
      /\ consumer'[c].step = step
      /\ c \in Owing(e)' <=> step = "failed"
  BY <1>1, <1>2, <1>5, OwnAccount
<1>7. Open(e)' <=> Open(e)
  BY <1>3, <1>6 DEF Open
<1>8. \A f \in Events \ {e} : claim'[f] = claim[f] /\ mails'[f] = mails[f]
  BY <1>3, <1>4
<1>9. PICK free \in 0..1 : free = IF Open(e) THEN 1 ELSE 0
  OBVIOUS
<1>10. CASE To(c, "sent") /\ mails' = [mails EXCEPT ![e] = mails[e] + 1] /\ faults' = faults
  <2>1. consumer'[c].step = "sent"
    BY <1>1, <1>2, <1>10, OwnAccount
  <2>2. /\ mails'[e] = mails[e] + 1 /\ faults'["work"] = faults["work"] + 0
        /\ faults'["work"] \in Nat /\ faults'["work"] >= faults["work"]
    BY <1>4, <1>10
  <2>3. c \notin Owing(e)'
    BY <1>6, <2>1
  <2>4. MailsPaid(e)'
    <3>1. /\ 0 = IF c \in Owing(e)' THEN 1 ELSE 0
          /\ 1 = IF c \in Owing(e) THEN 1 ELSE 0
          /\ Open(e)' => free = 1
          /\ 1 + 0 + free <= 1 + free + 0
      BY <1>6, <1>7, <1>9, <2>3
    <3> QED BY <1>4, <1>6, <1>9, <2>2, <3>1, AccountBalances
  <2> QED BY <1>2, <1>4, <1>6, <1>8, <2>2, <2>4, OwnEventOnly
<1>11. CASE To(c, "failed") /\ Fault({"work"})
  <2>1. consumer'[c].step = "failed"
    BY <1>1, <1>2, <1>11, OwnAccount
  <2>2. /\ faults'["work"] = faults["work"] + 1
        /\ faults'["work"] \in Nat /\ faults'["work"] >= faults["work"]
    BY <1>4, <1>11, FaultsCountWork
  <2>3. PICK sent \in 0..1 : mails'[e] = mails[e] + sent
    <3>1. mails'[e] = mails[e] + 0 \/ mails'[e] = mails[e] + 1
      BY <1>3, <1>4
    <3> QED BY <3>1
  <2>4. MailsPaid(e)'
    <3>1. /\ 1 = IF c \in Owing(e)' THEN 1 ELSE 0
          /\ 1 = IF c \in Owing(e) THEN 1 ELSE 0
          /\ Open(e)' => free = 1
          /\ sent + 1 + free <= 1 + free + 1
      BY <1>6, <1>7, <1>9, <2>1
    <3> QED BY <1>4, <1>6, <1>9, <2>2, <2>3, <3>1, AccountBalances
  <2> QED BY <1>2, <1>4, <1>6, <1>8, <2>2, <2>4, OwnEventOnly
<1> QED BY <1>3, <1>10, <1>11

\* A consumer that is through with its work under a claim, by release or fault,
\* may leave the event open to one more claim.
LEMMA LeavingMail ==
  ASSUME MailInv, NEW c \in Consumers,
         NEW e \in Events, consumer[c].message.event = e,
         consumer[c].step # "idle",
         \A d \in Consumers \ {c} : consumer'[d] = consumer[d],
         \/ consumer'[c].step = "idle"
         \/ consumer'[c].step = "retry" /\ consumer'[c].message = consumer[c].message,
         \A f \in Events \ {e} : claim'[f] = claim[f],
         mails' = mails, faults["work"] \in Nat,
         \/ consumer[c].step = "failed" /\ faults' = faults
         \/ faults'["work"] = faults["work"] + 1
  PROVE  \A f \in Events : MailsPaid(f)'
<1>1. mails \in [Events -> Nat]
  BY MailTypes
<1>2. /\ mails'[e] = mails[e] + 0
      /\ \A f \in Events \ {e} : claim'[f] = claim[f] /\ mails'[f] = mails[f]
  BY <1>1
<1>3. c \notin Owing(e)' /\ 0 = IF c \in Owing(e)' THEN 1 ELSE 0
  BY DEF Owing
<1>4. PICK free \in 0..1 : free = IF Open(e) THEN 1 ELSE 0
  OBVIOUS
<1>5. PICK before \in 0..1 : before = IF c \in Owing(e) THEN 1 ELSE 0
  OBVIOUS
<1>6. PICK fault \in 0..1 : faults'["work"] = faults["work"] + fault
                              /\ 1 <= before + fault
  <2>1. CASE consumer[c].step = "failed" /\ faults' = faults
    <3>1. c \in Owing(e)
      BY <2>1 DEF Owing
    <3>2. before = 1 /\ faults'["work"] = faults["work"] + 0
      BY <1>5, <2>1, <3>1
    <3> QED BY <3>2
  <2>2. CASE faults'["work"] = faults["work"] + 1
    BY <1>5, <2>2
  <2> QED BY <2>1, <2>2
<1>7. faults'["work"] \in Nat /\ faults'["work"] >= faults["work"]
  BY <1>6
<1>8. MailsPaid(e)'
  <2>1. PICK none \in 0..1 : none = 0
    OBVIOUS
  <2>2. PICK opened \in 0..1 : opened = 1
    OBVIOUS
  <2>3. /\ mails'[e] = mails[e] + none
        /\ none = IF c \in Owing(e)' THEN 1 ELSE 0
        /\ Open(e)' => opened = 1
        /\ none + none + opened <= before + free + fault
    BY <1>2, <1>3, <1>6, <2>1, <2>2
  <2>4. /\ MailInv /\ c \in Consumers /\ e \in Events /\ faults["work"] \in Nat
        /\ \A d \in Consumers \ {c} : consumer'[d] = consumer[d]
        /\ before \in 0..1 /\ before = IF c \in Owing(e) THEN 1 ELSE 0
        /\ free \in 0..1 /\ free = IF Open(e) THEN 1 ELSE 0
        /\ fault \in 0..1 /\ faults'["work"] = faults["work"] + fault
        /\ none \in 0..1 /\ opened \in 0..1
    BY <1>4, <1>5, <1>6
  <2> QED BY ONLY <2>3, <2>4, AccountBalances
<1> QED BY <1>2, <1>7, <1>8, OwnEventOnly

\* A released claim opens the event for one mail, which its owner no longer owes.
LEMMA ReleaseMail ==
  ASSUME MailInv, NEW c \in Consumers, ReleaseClaim(c)
  PROVE  \A f \in Events : MailsPaid(f)'
<1>1. consumer[c].step = "failed"
  BY DEF ReleaseClaim
<1>2. PICK e \in Events : consumer[c].message.event = e
  BY <1>1, MessageAtHand DEF MailInv
<1>3. /\ claim' = ReleasedRow(e) /\ To(c, "retry")
      /\ mails' = mails /\ faults' = faults
  BY <1>2 DEF ReleaseClaim
<1>4. claim \in [Events -> Claim] /\ faults["work"] \in Nat
  BY MailTypes
<1>5. \A f \in Events \ {e} : claim'[f] = claim[f]
  BY <1>3, <1>4 DEF ReleasedRow
<1>6. /\ \A d \in Consumers \ {c} : consumer'[d] = consumer[d]
      /\ consumer'[c].step = "retry" /\ consumer'[c].message = consumer[c].message
  BY <1>1, <1>2, <1>3, OwnAccount
<1> QED BY <1>1, <1>2, <1>3, <1>4, <1>5, <1>6, LeavingMail

\* A failed statement is a fault and pays for one mail more.
LEMMA StatementFailsMail ==
  ASSUME MailInv, NEW c \in Consumers, StatementFails(c)
  PROVE  \A f \in Events : MailsPaid(f)'
<1>1. consumer[c].step # "idle"
  BY DEF StatementFails
<1>2. PICK e \in Events : consumer[c].message.event = e
  BY <1>1, MessageAtHand DEF MailInv
<1>3. /\ claim' \in {claim, ClaimRow(e), ReleasedRow(e), ProcessedRow(e)}
      /\ To(c, "retry") /\ mails' = mails /\ Fault({"work"})
  BY <1>2 DEF StatementFails
<1>4. /\ claim \in [Events -> Claim] /\ faults["work"] \in Nat
      /\ faults \in [{"transport", "work"} -> 0..MaxFaults]
  BY MailTypes
<1>5. \A f \in Events \ {e} : claim'[f] = claim[f]
  BY <1>3, <1>4 DEF ClaimRow, ReleasedRow, ProcessedRow
<1>6. /\ \A d \in Consumers \ {c} : consumer'[d] = consumer[d]
      /\ consumer'[c].step = "retry" /\ consumer'[c].message = consumer[c].message
  BY <1>1, <1>2, <1>3, OwnAccount
<1>7. faults'["work"] = faults["work"] + 1
  BY <1>3, <1>4, FaultsCountWork
<1> QED BY <1>1, <1>2, <1>3, <1>4, <1>5, <1>6, <1>7, LeavingMail

\* A crash under a claim is a fault and pays for one mail more.
LEMMA CrashMail ==
  ASSUME MailInv, NEW c \in Consumers, ConsumerCrash(c)
  PROVE  \A f \in Events : MailsPaid(f)'
<1>1. consumer[c].step # "idle"
  BY DEF ConsumerCrash
<1>2. PICK e \in Events : consumer[c].message.event = e
  BY <1>1, MessageAtHand DEF MailInv
<1>3. claim' = claim /\ Done(c) /\ mails' = mails /\ Fault({"work"})
  BY DEF ConsumerCrash
<1>4. /\ consumer \in [Consumers -> Consumer] /\ faults["work"] \in Nat
      /\ faults \in [{"transport", "work"} -> 0..MaxFaults]
  BY MailTypes
<1>5. /\ \A d \in Consumers \ {c} : consumer'[d] = consumer[d]
      /\ consumer'[c].step = "idle"
  BY <1>3, <1>4, ConsumerDone
<1>6. faults'["work"] = faults["work"] + 1
  BY <1>3, <1>4, FaultsCountWork
<1>7. \A f \in Events \ {e} : claim'[f] = claim[f]
  BY <1>3
<1> QED BY <1>1, <1>2, <1>3, <1>4, <1>5, <1>6, <1>7, LeavingMail

\* A marked event is closed for good.
LEMMA MarkProcessedMail ==
  ASSUME MailInv, NEW c \in Consumers, MarkProcessed(c)
  PROVE  \A f \in Events : MailsPaid(f)'
<1>1. consumer[c].step = "sent"
  BY DEF MarkProcessed
<1>2. PICK e \in Events : consumer[c].message.event = e
  BY <1>1, MessageAtHand DEF MailInv
<1>3. /\ claim' = ProcessedRow(e) /\ mails' = mails /\ faults' = faults
      /\ \E step \in {"ack", "retry"} : To(c, step)
  BY <1>2 DEF MarkProcessed
<1>4. /\ claim \in [Events -> Claim] /\ mails \in [Events -> Nat]
      /\ faults["work"] \in Nat
  BY MailTypes
<1>5. /\ \A f \in Events \ {e} : claim'[f] = claim[f] /\ mails'[f] = mails[f]
      /\ claim'[e].state = "DONE"
  BY <1>3, <1>4 DEF ProcessedRow
<1>6. PICK step \in {"ack", "retry"} : To(c, step)
  BY <1>3
<1>7. /\ \A d \in Consumers \ {c} : consumer'[d] = consumer[d]
      /\ consumer'[c].message = consumer[c].message
      /\ c \notin Owing(e) /\ c \notin Owing(e)'
  BY <1>1, <1>2, <1>6, OwnAccount
<1>8. ~Open(e)'
  BY <1>5 DEF Open
<1>9. PICK free \in 0..1 : free = IF Open(e) THEN 1 ELSE 0
  OBVIOUS
<1>10. /\ mails'[e] = mails[e] + 0 /\ faults'["work"] = faults["work"] + 0
       /\ faults'["work"] \in Nat /\ faults'["work"] >= faults["work"]
  BY <1>3, <1>4
<1>11. MailsPaid(e)'
  <2>1. 0 + 0 + 0 <= 0 + free + 0
    BY <1>9
  <2> QED BY <1>4, <1>7, <1>8, <1>9, <1>10, <2>1, AccountBalances
<1> QED BY <1>2, <1>4, <1>5, <1>7, <1>10, <1>11, OwnEventOnly

\* A lease that ends under a working consumer is a fault.
LEMMA TickMail ==
  ASSUME MailInv, Tick
  PROVE  \A f \in Events : MailsPaid(f)'
<1> SUFFICES ASSUME NEW e \in Events PROVE MailsPaid(e)'
  OBVIOUS
<1>1. /\ claim \in [Events -> Claim] /\ claim[e] \in Claim /\ mails[e] \in Nat
      /\ faults["work"] \in Nat
      /\ faults \in [{"transport", "work"} -> 0..MaxFaults]
  BY MailTypes
<1>2. consumer' = consumer /\ mails' = mails /\ Fault(Stalled)
  BY DEF Tick
<1>3. /\ claim'[e].state = claim[e].state
      /\ claim'[e].lease = LeaseAfterTick(claim[e].lease)
  <2>1. claim'[e] = [claim[e] EXCEPT !.lease = LeaseAfterTick(claim[e].lease)]
    BY DEF Tick
  <2> QED BY <1>1, <2>1 DEF Claim
<1>4. faults'["work"] \in Nat /\ faults'["work"] >= faults["work"]
  BY <1>1, <1>2, FaultsCountWork
<1>5. Owing(e)' = Owing(e) /\ (Active(e)' <=> Active(e))
  BY <1>2 DEF Owing, Active
<1>6. ASSUME Open(e)', ~Open(e)
      PROVE  faults'["work"] = faults["work"] + 1
  <2>1. claim[e].state = "HELD" /\ claim[e].lease # 0 /\ Active(e)
    BY <1>3, <1>5, <1>6 DEF Open
  <2>2. LeaseAfterTick(claim[e].lease) = 0
    BY <1>3, <1>5, <1>6, <2>1 DEF Open
  <2>3. claim[e].lease \in 0..ProcessLease
    BY <1>1 DEF Claim
  <2>4. claim[e].lease = 1
    BY <2>1, <2>2, <2>3, DeliveryAssumption DEF LeaseAfterTick
  <2>5. PICK c \in Consumers : /\ consumer[c].step \in {"claimed", "sent", "failed"}
                               /\ consumer[c].message.event = e
    BY <2>1 DEF Active
  <2>6. claim[consumer[c].message.event].lease = 1
    BY <2>4, <2>5
  <2>7. "work" \in Stalled
    BY <2>5, <2>6 DEF Stalled
  <2> QED BY <1>1, <1>2, <2>7, FaultsCountWork
<1>7. Owing(e) \in SUBSET Consumers
  BY DEF Owing
<1> DEFINE o == Cardinality(Owing(e))
<1>8. o \in Nat
  BY <1>7, OwingFinite
<1>9. mails[e] + o + (IF Open(e) THEN 1 ELSE 0) <= 1 + faults["work"]
  BY DEF MailInv, MailsPaid
<1>10. mails'[e] + o + (IF Open(e)' THEN 1 ELSE 0) <= 1 + faults'["work"]
  <2> HIDE DEF o
  <2>1. mails'[e] = mails[e]
    BY <1>2
  <2>2. CASE Open(e)' /\ ~Open(e)
    BY <1>1, <1>6, <1>8, <1>9, <2>1, <2>2
  <2>3. CASE Open(e)' => Open(e)
    BY <1>1, <1>4, <1>8, <1>9, <2>1, <2>3
  <2> QED BY <2>2, <2>3
<1>11. Cardinality(Owing(e))' = o
  BY <1>5
<1> QED BY <1>10, <1>11 DEF MailsPaid

-----------------------------------------------------------------------------
(* The theorem *)

\* The account of mails is balanced in the initial states.
LEMMA MailStart == DeliveryInit => MailInv
<1> SUFFICES ASSUME DeliveryInit PROVE MailInv
  OBVIOUS
<1>1. DeliveryInv
  BY DeliveryStart
<1>2. ASSUME NEW e \in Events PROVE MailsPaid(e)
  <2>1. Owing(e) = {}
    BY DEF DeliveryInit, Owing, ConsumerIdle
  <2>2. Cardinality(Owing(e)) = 0
    BY <2>1, FS_EmptySet
  <2>3. mails[e] = 0 /\ faults["work"] = 0
    BY DEF DeliveryInit
  <2> QED BY <2>2, <2>3 DEF MailsPaid
<1> QED BY <1>1, <1>2 DEF MailInv

\* Every step keeps the account of mails balanced.
LEMMA MailNextSound == MailInv /\ [DeliveryNext]_deliveryVars => MailInv'
<1> SUFFICES ASSUME MailInv, [DeliveryNext]_deliveryVars
             PROVE  MailInv'
  OBVIOUS
<1>1. DeliveryInv'
  BY DeliveryNextSound DEF MailInv
<1>2. CASE Tick
  BY <1>1, <1>2, TickMail DEF MailInv
<1>3. ASSUME NEW c \in Consumers, HandleDelivery(c) PROVE \A e \in Events : MailsPaid(e)'
  BY <1>3, TransportMail, ClaimEventMail, DeliverMail, ReleaseMail, MarkProcessedMail
     DEF HandleDelivery
<1>4. ASSUME NEW c \in Consumers, ConsumerFault(c) PROVE \A e \in Events : MailsPaid(e)'
  BY <1>4, TransportMail, DeliverMail, StatementFailsMail, CrashMail DEF ConsumerFault
<1>5. CASE \/ \E e \in Events : Enqueue(e)
           \/ \E r \in Runners : Flush(r) \/ RunnerFault(r)
  BY <1>1, <1>5, TransportMail DEF MailInv
<1>6. CASE UNCHANGED deliveryVars
  <2>1. /\ claim' = claim /\ mails' = mails /\ faults' = faults /\ consumer' = consumer
    BY <1>6 DEF deliveryVars, notifyVars
  <2>2. faults["work"] \in Nat
    BY MailTypes
  <2>3. \A e \in Events : MailsPaid(e)'
    BY <2>1, <2>2, QuietMail
  <2> QED BY <1>1, <2>3 DEF MailInv
<1> QED BY <1>1, <1>2, <1>3, <1>4, <1>5, <1>6 DEF DeliveryNext, MailInv

\* However many copies of an event there are, its mails exceed one only by the
\* faults of consumers that held its claim.
THEOREM MailsAreBounded == DeliverySpec => []MailsBounded
<1>1. MailInv => MailsBounded
  <2> SUFFICES ASSUME MailInv, NEW e \in Events
               PROVE  mails[e] <= 1 + faults["work"]
    BY DEF MailsBounded
  <2>1. Owing(e) \in SUBSET Consumers
    BY DEF Owing
  <2> DEFINE o == Cardinality(Owing(e))
  <2>2. o \in Nat
    BY <2>1, OwingFinite
  <2>3. mails[e] + o + (IF Open(e) THEN 1 ELSE 0) <= 1 + faults["work"]
    BY DEF MailInv, MailsPaid
  <2>4. mails[e] \in Nat /\ faults["work"] \in Nat
    BY MailTypes
  <2> HIDE DEF o
  <2> QED BY <2>2, <2>3, <2>4
<1> QED BY <1>1, MailStart, MailNextSound, PTL DEF DeliverySpec
=============================================================================
