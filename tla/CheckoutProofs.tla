--------------------------- MODULE CheckoutProofs ---------------------------
(***************************************************************************)
(* One order per key and one payment per intent, for any number of          *)
(* customers, keys, payloads, orders, concurrent requests and intents.      *)
(***************************************************************************)
EXTENDS Checkout, TLAPS

\* A key names one order.
OneOrderPerKey ==
  \A m, n \in Rows :
    orders[m].owner = orders[n].owner /\ orders[m].key = orders[n].key => m = n

\* What requests were told of is there.
AnswersSound ==
  \A x \in answers :
    /\ x.order \in Rows
    /\ orders[x.order].owner = x.owner
    /\ orders[x.order].key = x.key
    /\ EquivalentIntent(orders[x.order], x)

\* A request that has passed validation knows what it asks for.
Asking == {"lookup", "insert", "lookupAgain"}

\* An approval that holds its intent.
Holding == {"confirm", "BOOKED", "FAILED", "notify"}

CallSound(c) ==
  /\ call[c].step \in Asking =>
       /\ call[c].owner \in Customers
       /\ call[c].key \in Keys
       /\ call[c].payload \in Payloads
       /\ call[c].transfer \in TransferTypes
  /\ call[c].step = "answered" =>
       call[c].order \in Rows /\ orders[call[c].order].key = call[c].key
  /\ call[c].step = "expire" => call[c].key \in Intents
  /\ call[c].step \in Holding =>
       /\ call[c].key \in Intents
       /\ call[c].order \in Rows
       /\ intent[call[c].key].order = call[c].order
  /\ call[c].step \in {"confirm", "BOOKED", "FAILED"} =>
       intent[call[c].key].status = "PROCESSING"
  /\ call[c].step \in {"BOOKED", "FAILED"} =>
       orders[call[c].order].status = call[c].step
  /\ call[c].step = "notify" => intent[call[c].key].status = "BOOKED"

\* Two approvals never hold one intent.
HeldByOne ==
  \A c, d \in Calls :
    call[c].step \in Holding /\ call[d].step \in Holding /\ call[c].key = call[d].key
      => c = d

\* The order of an intent was made for it, and approvals confirm no other.
IntentSound(i) == intent[i].order # None =>
  intent[i].order \in Rows /\ orders[intent[i].order].key = i

ApprovedIsLinked ==
  \A n \in Rows :
    orders[n].approved /\ orders[n].key \in Intents => intent[orders[n].key].order = n

\* The inductive invariant: the steps of an approval rely on what an earlier
\* step of it left in the tables.
CheckoutInv ==
  /\ CheckoutTypeOK
  /\ OneOrderPerKey
  /\ AnswersSound
  /\ \A c \in Calls : CallSound(c)
  /\ HeldByOne
  /\ \A i \in Intents : IntentSound(i)
  /\ ApprovedIsLinked
  /\ IntentTellsPayment

-----------------------------------------------------------------------------

USE DEF Asking, Holding, CallSteps, IntentStatus, OrderStatus, TransferTypes, PaymentKinds

\* The rows of the tables, and what a request remembers.
OrderRecord ==
  [owner : Customers \union {None}, key : Keys \union {None},
   payload : Payloads \union {None}, kind : PaymentKinds \union {"NONE"},
   status : OrderStatus \union {"NONE"}, approved : BOOLEAN]

IntentRecord ==
  [status : IntentStatus, order : OrderIds \union {None}, expired : BOOLEAN]

RequestRecord ==
  [step : CallSteps, owner : Customers \union {None}, key : Keys \union {None},
   payload : Payloads \union {None}, transfer : TransferTypes \union {None},
   order : OrderIds \union {None}]

AnswerRecord ==
  [owner : Customers, key : Keys, payload : Payloads, transfer : TransferTypes,
   order : OrderIds]

\* The types of the tables by those names.
LEMMA TypeByRecords ==
  CheckoutTypeOK <=>
    /\ orders \in [OrderIds -> OrderRecord]
    /\ call \in [Calls -> RequestRecord]
    /\ past \subseteq Payloads
    /\ answers \subseteq AnswerRecord
    /\ intent \in [Intents -> IntentRecord]
    /\ told \subseteq Intents
BY ONLY DEF CheckoutTypeOK, OrderRecord, IntentRecord, RequestRecord, AnswerRecord

\* The same in the next state.
LEMMA TypeByRecordsNext ==
  CheckoutTypeOK' <=>
    /\ orders' \in [OrderIds -> OrderRecord]
    /\ call' \in [Calls -> RequestRecord]
    /\ past' \subseteq Payloads
    /\ answers' \subseteq AnswerRecord
    /\ intent' \in [Intents -> IntentRecord]
    /\ told' \subseteq Intents
BY ONLY DEF CheckoutTypeOK, OrderRecord, IntentRecord, RequestRecord, AnswerRecord

\* A new status, or having run out, leaves an intent an intent.
LEMMA IntentRecordChanges ==
  ASSUME NEW r \in IntentRecord, NEW s \in IntentStatus
  PROVE  [r EXCEPT !.status = s] \in IntentRecord /\ [r EXCEPT !.expired = TRUE] \in IntentRecord
BY DEF IntentRecord

\* What a step sets of one intent, and what it leaves alone.
LEMMA IntentStatusSet ==
  ASSUME NEW i \in Intents, NEW s \in IntentStatus, intent \in [Intents -> IntentRecord],
         intent' = [intent EXCEPT ![i].status = s]
  PROVE  /\ intent' \in [Intents -> IntentRecord]
         /\ intent'[i].status = s
         /\ \A j \in Intents : /\ intent'[j].order = intent[j].order
                               /\ j # i => intent'[j] = intent[j]
<1>1. [intent[i] EXCEPT !.status = s] \in IntentRecord
  BY IntentRecordChanges
<1>2. intent' \in [Intents -> IntentRecord]
  BY <1>1
<1>3. intent[i] \in IntentRecord /\ intent'[i] = [intent[i] EXCEPT !.status = s]
  OBVIOUS
<1>4. intent'[i].status = s /\ intent'[i].order = intent[i].order
  BY ONLY <1>3 DEF IntentRecord
<1>5. \A j \in Intents : j # i => intent'[j] = intent[j]
  OBVIOUS
<1> QED BY ONLY <1>2, <1>4, <1>5

\* The invariant holds in the initial states.
LEMMA CheckoutStart == CheckoutInit => CheckoutInv
BY IntakeAssumption, CheckoutAssumption
   DEF CheckoutInit, IntakeInit, CheckoutInv, CheckoutTypeOK, OneOrderPerKey, AnswersSound,
       CallSound, HeldByOne, IntentSound, ApprovedIsLinked, IntentTellsPayment, Rows,
       NoRow, IdleCall

\* A request that ends takes nothing with it.
LEMMA RefuseSound ==
  ASSUME CheckoutInv, NEW c \in Calls, Refuse(c), UNCHANGED <<intent, told>>
  PROVE  CheckoutInv'
<1>1. /\ call' = [call EXCEPT ![c] = IdleCall]
      /\ UNCHANGED <<orders, past, answers, intent, told>>
      /\ Rows' = Rows
  BY DEF Refuse, Rows
<1>2. call \in [Calls -> RequestRecord] /\ IdleCall \in RequestRecord
  BY TypeByRecords DEF CheckoutInv, IdleCall, RequestRecord
<1>3. /\ call'[c].step = "idle"
      /\ \A d \in Calls : d # c => call'[d] = call[d]
  BY ONLY <1>1, <1>2, c \in Calls DEF IdleCall
<1>10. (CheckoutTypeOK)'
  BY <1>1, <1>2, TypeByRecords, TypeByRecordsNext DEF CheckoutInv
<1>11. (OneOrderPerKey)' /\ (AnswersSound)'
  BY <1>1 DEF CheckoutInv, OneOrderPerKey, AnswersSound
<1>12. ASSUME NEW d \in Calls
       PROVE  CallSound(d)'
  <2>1. CASE d = c
    BY <1>3, <2>1 DEF CallSound
  <2>2. CASE d # c
    BY <1>1, <1>3, <2>2 DEF CheckoutInv, CallSound
  <2> QED BY <2>1, <2>2
<1>13. (HeldByOne)'
  BY <1>3 DEF CheckoutInv, HeldByOne
<1>14. (\A j \in Intents : IntentSound(j))' /\ (ApprovedIsLinked)'
  BY <1>1 DEF CheckoutInv, IntentSound, ApprovedIsLinked
<1>15. (IntentTellsPayment)'
  BY <1>1 DEF CheckoutInv, IntentTellsPayment
<1> QED BY <1>10, <1>11, <1>12, <1>13, <1>14, <1>15 DEF CheckoutInv

\* A request goes on.
LEMMA RequestSound ==
  ASSUME CheckoutInv, NEW c \in Calls, NEW u \in Customers, NEW k \in Keys,
         NEW p \in Payloads, NEW t \in TransferTypes, Request(c, u, k, p, t),
         UNCHANGED <<intent, told>>
  PROVE  CheckoutInv'
BY DEF Request, CheckoutInv, CheckoutTypeOK, OneOrderPerKey, AnswersSound,
       CallSound, HeldByOne, IntentSound, ApprovedIsLinked, IntentTellsPayment, Rows,
       IdleCall

\* What a request leaves behind when it is answered is well typed.
LEMMA AnswerWithTyped ==
  ASSUME CheckoutInv, NEW c \in Calls, NEW n \in OrderIds,
         AnswerWith(c, n), call[c].step \in Asking
  PROVE  call' \in [Calls -> RequestRecord] /\ answers' \subseteq AnswerRecord
<1> DEFINE reply == [owner |-> call[c].owner, key |-> call[c].key,
                      payload |-> call[c].payload, transfer |-> call[c].transfer, order |-> n]
<1>1. /\ call[c].owner \in Customers /\ call[c].key \in Keys
      /\ call[c].payload \in Payloads /\ call[c].transfer \in TransferTypes
  BY DEF CheckoutInv, CallSound
<1>2. call \in [Calls -> RequestRecord] /\ answers \subseteq AnswerRecord
  BY TypeByRecords DEF CheckoutInv
<1>3. call' \in [Calls -> RequestRecord]
  <2>1. PICK mid : mid = [call EXCEPT ![c].step = "answered"]
    OBVIOUS
  <2>2. mid \in [Calls -> RequestRecord]
    BY <1>2, <2>1 DEF RequestRecord
  <2>3. call' = [mid EXCEPT ![c].order = n]
    BY <1>2, <2>1 DEF AnswerWith
  <2> QED BY <2>2, <2>3 DEF RequestRecord
<1>4. reply \in AnswerRecord
  BY <1>1 DEF AnswerRecord
<1>5. answers' = answers \union {reply}
  BY DEF AnswerWith
<1> QED BY ONLY <1>2, <1>3, <1>4, <1>5

\* A request is answered with a row that is what it asks for.
LEMMA AnswerWithSound ==
  ASSUME CheckoutInv, NEW c \in Calls, NEW n \in Rows,
         AnswerWith(c, n), UNCHANGED <<orders, past, intent, told>>,
         call[c].step \in Asking,
         orders[n].owner = call[c].owner, orders[n].key = call[c].key,
         EquivalentIntent(orders[n], call[c])
  PROVE  CheckoutInv'
<1>0. call' \in [Calls -> RequestRecord] /\ answers' \subseteq AnswerRecord
  BY AnswerWithTyped DEF Rows
<1>10. (CheckoutTypeOK)'
  BY <1>0, TypeByRecords, TypeByRecordsNext DEF CheckoutInv
<1>11. (OneOrderPerKey)'
  BY IntakeAssumption, <1>0 DEF AnswerWith, CheckoutInv, CheckoutTypeOK, OneOrderPerKey,
       Rows
<1>12. (AnswersSound)'
  BY DEF AnswerWith, CheckoutInv, AnswersSound, EquivalentIntent, Rows
<1>13. ASSUME NEW d \in Calls
       PROVE  CallSound(d)'
  <2>1. CallSound(d) /\ Rows' = Rows /\ call \in [Calls -> RequestRecord]
    BY TypeByRecords DEF CheckoutInv, Rows
  <2>2. call' = [call EXCEPT ![c].step = "answered", ![c].order = n]
    BY DEF AnswerWith
  <2>3. CASE d = c
    <3>1. call[c] \in RequestRecord
      BY <2>1
    <3>2. call'[c] = [[call[c] EXCEPT !.step = "answered"] EXCEPT !.order = n]
      BY ONLY <2>1, <2>2, c \in Calls
    <3>3. call'[c].step = "answered" /\ call'[c].order = n /\ call'[c].key = call[c].key
      BY ONLY <3>1, <3>2 DEF RequestRecord
    <3> QED BY <2>1, <2>3, <3>3 DEF CallSound
  <2>4. CASE d # c
    <3>1. call'[d] = call[d]
      BY ONLY <2>1, <2>2, <2>4, d \in Calls
    <3> QED BY <2>1, <3>1 DEF CallSound
  <2> QED BY <2>3, <2>4
<1>14. (HeldByOne)'
  BY IntakeAssumption, <1>0 DEF AnswerWith, CheckoutInv, CheckoutTypeOK, CallSound,
       HeldByOne
<1>15. (\A j \in Intents : IntentSound(j))'
  BY IntakeAssumption, <1>0 DEF AnswerWith, CheckoutInv, CheckoutTypeOK, CallSound,
       IntentSound, Rows
<1>16. (ApprovedIsLinked)'
  BY IntakeAssumption, <1>0 DEF AnswerWith, CheckoutInv, CheckoutTypeOK, CallSound,
       ApprovedIsLinked, Rows
<1>17. (IntentTellsPayment)'
  BY IntakeAssumption, <1>0 DEF AnswerWith, CheckoutInv, CheckoutTypeOK, CallSound,
       IntentSound, IntentTellsPayment
<1> QED BY <1>10, <1>11, <1>12, <1>13, <1>14, <1>15, <1>16, <1>17 DEF CheckoutInv


\* The first lookup goes on, refuses or answers with the row it finds.
LEMMA LookupKeySound ==
  ASSUME CheckoutInv, NEW c \in Calls, LookupKey(c), UNCHANGED <<intent, told>>
  PROVE  CheckoutInv'
<1>1. CASE Goto(c, "insert")
  BY <1>1 DEF Goto, LookupKey, CheckoutInv, CheckoutTypeOK, OneOrderPerKey, AnswersSound,
       CallSound, HeldByOne, IntentSound, ApprovedIsLinked, IntentTellsPayment, Rows
<1>2. CASE Refuse(c)
  BY <1>2, RefuseSound
<1>3. CASE \E n \in WithKey(c) :
               SamePaymentIntent(c, n) /\ AnswerWith(c, n) /\ UNCHANGED <<orders, past>>
  BY <1>3, AnswerWithSound DEF LookupKey, WithKey, SamePaymentIntent
<1> QED BY <1>1, <1>2, <1>3 DEF LookupKey

\* So does the second lookup.
LEMMA LookupAgainSound ==
  ASSUME CheckoutInv, NEW c \in Calls, LookupAgain(c), UNCHANGED <<intent, told>>
  PROVE  CheckoutInv'
<1>1. CASE Refuse(c)
  BY <1>1, RefuseSound
<1>2. CASE \E n \in WithKey(c) :
               SamePaymentIntent(c, n) /\ AnswerWith(c, n) /\ UNCHANGED <<orders, past>>
  BY <1>2, AnswerWithSound DEF LookupAgain, WithKey, SamePaymentIntent
<1> QED BY <1>1, <1>2 DEF LookupAgain

\* A unique violation sends the request back to its key.
LEMMA InsertRefusedSound ==
  ASSUME CheckoutInv, NEW c \in Calls, InsertRefused(c), UNCHANGED <<intent, told>>
  PROVE  CheckoutInv'
BY DEF InsertRefused, Goto,
       CheckoutInv, CheckoutTypeOK, OneOrderPerKey, AnswersSound, CallSound,
       HeldByOne, IntentSound, ApprovedIsLinked, IntentTellsPayment, Rows

\* An inserted order has a key nobody else has, and nobody has approved it.
LEMMA InsertOrderSound ==
  ASSUME CheckoutInv, NEW c \in Calls, NEW n \in OrderIds,
         InsertOrder(c, n), UNCHANGED <<intent, told>>
  PROVE  CheckoutInv'
<1> DEFINE r(kind) ==
      [owner |-> call[c].owner, key |-> call[c].key, payload |-> call[c].payload,
       kind |-> kind, status |-> "AWAITING_CONFIRMATION", approved |-> FALSE]
<1>a. PICK kind \in KindFor(call[c].transfer) : orders' = [orders EXCEPT ![n] = r(kind)]
  BY DEF InsertOrder
<1>b. /\ call[c].owner \in Customers /\ call[c].key \in Keys
      /\ call[c].payload \in Payloads /\ call[c].transfer \in TransferTypes
  BY DEF InsertOrder, CheckoutInv, CallSound
<1>c. /\ orders \in [OrderIds -> OrderRecord] /\ call \in [Calls -> RequestRecord]
      /\ r(kind) \in OrderRecord /\ IdleCall \in RequestRecord
  <2>1. kind \in PaymentKinds
    BY DEF KindFor
  <2>2. r(kind) \in OrderRecord
    BY <1>b, <2>1 DEF OrderRecord
  <2> QED BY <2>2, TypeByRecords DEF CheckoutInv, IdleCall, RequestRecord
<1>d. EquivalentIntent(r(kind), call[c])
  BY <1>b DEF KindFor, EquivalentIntent
<1>e. /\ orders'[n] = r(kind)
      /\ \A m \in OrderIds : m # n => orders'[m] = orders[m]
      /\ Rows' = Rows \union {n} /\ n \notin Rows
  BY <1>a, <1>c DEF Rows, InsertOrder
<1>f. r(kind).owner = call[c].owner /\ r(kind).key = call[c].key
  OBVIOUS
<1>1. (CheckoutTypeOK)'
  <2>2. orders' \in [OrderIds -> OrderRecord]
    BY ONLY <1>a, <1>c
  <2>3. CASE AnswerWith(c, n)
    <3>1. call' \in [Calls -> RequestRecord] /\ answers' \subseteq AnswerRecord
      BY <2>3, AnswerWithTyped DEF InsertOrder
    <3> QED BY <2>2, <3>1, TypeByRecords, TypeByRecordsNext DEF InsertOrder, CheckoutInv
  <2>4. CASE call' = [call EXCEPT ![c] = IdleCall] /\ UNCHANGED answers
    <3>1. call' \in [Calls -> RequestRecord]
      BY ONLY <1>c, <2>4
    <3> QED BY <2>2, <2>4, <3>1, TypeByRecords, TypeByRecordsNext DEF InsertOrder, CheckoutInv
  <2> QED BY <2>3, <2>4 DEF InsertOrder
<1>2. (OneOrderPerKey)'
  <2>1. \A m \in Rows : ~(orders[m].owner = call[c].owner /\ orders[m].key = call[c].key)
    BY DEF InsertOrder, WithKey
  <2> HIDE DEF r
  <2> QED BY <1>e, <1>f, <2>1 DEF CheckoutInv, OneOrderPerKey, Rows
<1>3. (AnswersSound)'
  <2>1. \A x \in answers : x.order # n /\ x.order \in OrderIds /\ x.order \in Rows'
    BY <1>e DEF CheckoutInv, AnswersSound, Rows
  <2>2. \A x \in answers : /\ orders'[x.order].owner = x.owner
                          /\ orders'[x.order].key = x.key
                          /\ EquivalentIntent(orders'[x.order], x)
    BY <1>e, <2>1 DEF CheckoutInv, AnswersSound
  <2>3. CASE answers' = answers
    BY <2>1, <2>2, <2>3 DEF AnswersSound
  <2>4. CASE AnswerWith(c, n)
    <3>1. PICK a : /\ a = [owner |-> call[c].owner, key |-> call[c].key,
                           payload |-> call[c].payload, transfer |-> call[c].transfer, order |-> n]
                   /\ answers' = answers \union {a}
      BY <2>4 DEF AnswerWith
    <3>2. a.order = n /\ a.owner = call[c].owner /\ a.key = call[c].key
      BY <3>1
    <3>3. EquivalentIntent(r(kind), a)
      BY <1>d, <3>1 DEF EquivalentIntent
    <3> HIDE DEF r
    <3> QED BY <1>e, <1>f, <2>1, <2>2, <3>1, <3>2, <3>3 DEF AnswersSound
  <2> QED BY <2>3, <2>4 DEF InsertOrder
<1>4. (\A d \in Calls : CallSound(d))'
  BY IntakeAssumption, CheckoutAssumption DEF InsertOrder, AnswerWith, WithKey, IdleCall,
       CheckoutInv, CheckoutTypeOK, CallSound, Rows
<1>5. (HeldByOne)'
  BY IntakeAssumption, CheckoutAssumption DEF InsertOrder, AnswerWith, WithKey, IdleCall,
       CheckoutInv, CheckoutTypeOK, CallSound, HeldByOne
<1>6. (\A j \in Intents : IntentSound(j))'
  BY IntakeAssumption, CheckoutAssumption DEF InsertOrder, AnswerWith, WithKey, IdleCall,
       CheckoutInv, CheckoutTypeOK, CallSound, IntentSound, Rows
<1>7. (ApprovedIsLinked)'
  BY IntakeAssumption, CheckoutAssumption DEF InsertOrder, AnswerWith, WithKey, IdleCall,
       CheckoutInv, CheckoutTypeOK, CallSound, ApprovedIsLinked, Rows
<1>8. (IntentTellsPayment)'
  BY IntakeAssumption, CheckoutAssumption DEF InsertOrder, AnswerWith, WithKey, IdleCall,
       CheckoutInv, CheckoutTypeOK, CallSound, IntentSound, IntentTellsPayment
<1> QED BY <1>1, <1>2, <1>3, <1>4, <1>5, <1>6, <1>7, <1>8 DEF CheckoutInv


\* A customer settles an order that no approval has confirmed.
LEMMA CustomerSettlesSound ==
  ASSUME CheckoutInv, NEW n \in OrderIds,
         NEW s \in {"BOOKED", "FAILED", "CANCELLED"}, CustomerSettles(n, s),
         UNCHANGED <<intent, told>>
  PROVE  CheckoutInv'
<1>1. /\ orders \in [OrderIds -> OrderRecord]
      /\ orders' = [orders EXCEPT ![n].status = s]
      /\ orders[n].status = "AWAITING_CONFIRMATION"
      /\ UNCHANGED <<call, past, answers, intent, told>>
  BY TypeByRecords DEF CustomerSettles, CheckoutInv
<1>2. orders' \in [OrderIds -> OrderRecord]
  BY <1>1 DEF OrderRecord
<1>3. \A m \in OrderIds : /\ orders'[m].owner = orders[m].owner
                          /\ orders'[m].key = orders[m].key
                          /\ orders'[m].payload = orders[m].payload
                          /\ orders'[m].kind = orders[m].kind
                          /\ orders'[m].approved = orders[m].approved
                          /\ m # n => orders'[m] = orders[m]
  BY <1>1 DEF OrderRecord
<1>4. Rows' = Rows
  BY <1>1, <1>2, <1>3 DEF Rows
<1>10. (CheckoutTypeOK)'
  BY <1>1, <1>2, TypeByRecords, TypeByRecordsNext DEF CheckoutInv
<1>11. (OneOrderPerKey)' /\ (AnswersSound)'
  BY <1>1, <1>3, <1>4 DEF CheckoutInv, OneOrderPerKey, AnswersSound, EquivalentIntent, Rows
<1>12. (\A d \in Calls : CallSound(d))'
  BY <1>1, <1>3, <1>4 DEF CheckoutInv, CallSound, Rows
<1>13. (HeldByOne)' /\ (\A i \in Intents : IntentSound(i))' /\ (ApprovedIsLinked)'
  BY <1>1, <1>3, <1>4 DEF CheckoutInv, HeldByOne, IntentSound, ApprovedIsLinked, Rows
<1>14. (IntentTellsPayment)'
  BY <1>1, <1>3 DEF CheckoutInv, IntentTellsPayment, IntentSound, Rows
<1> QED BY <1>10, <1>11, <1>12, <1>13, <1>14 DEF CheckoutInv

\* Time refuses requests and nothing else.
LEMMA TimeRunsOutSound ==
  ASSUME CheckoutInv, NEW p \in Payloads, TimeRunsOut(p), UNCHANGED <<intent, told>>
  PROVE  CheckoutInv'
BY DEF TimeRunsOut, 
       CheckoutInv, CheckoutTypeOK, OneOrderPerKey, AnswersSound, CallSound,
       HeldByOne, IntentSound, ApprovedIsLinked, IntentTellsPayment, Rows

\* A new intent waits, without a payment.
LEMMA CreateIntentSound ==
  ASSUME CheckoutInv, NEW i \in Intents, CreateIntent(i)
  PROVE  CheckoutInv'
BY DEF CreateIntent, intakeVars,
       CheckoutInv, CheckoutTypeOK, OneOrderPerKey, AnswersSound, CallSound,
       HeldByOne, IntentSound, ApprovedIsLinked, IntentTellsPayment, Rows

\* An intent that runs out keeps its status.
LEMMA IntentRunsOutSound ==
  ASSUME CheckoutInv, NEW i \in Intents, IntentRunsOut(i)
  PROVE  CheckoutInv'
<1>0. /\ intent' \in [Intents -> IntentRecord]
      /\ \A j \in Intents : /\ intent'[j].status = intent[j].status
                            /\ intent'[j].order = intent[j].order
  <2>1. intent \in [Intents -> IntentRecord]
    BY TypeByRecords DEF CheckoutInv
  <2>2. intent' = [intent EXCEPT ![i].expired = TRUE]
    BY DEF IntentRunsOut
  <2>3. intent[i] \in IntentRecord /\ [intent[i] EXCEPT !.expired = TRUE] \in IntentRecord
    BY <2>1, IntentRecordChanges
  <2>4. intent' \in [Intents -> IntentRecord]
    BY ONLY <2>1, <2>2, <2>3
  <2>5. intent'[i] = [intent[i] EXCEPT !.expired = TRUE]
    BY ONLY <2>1, <2>2, i \in Intents
  <2>6. intent'[i].status = intent[i].status /\ intent'[i].order = intent[i].order
    BY ONLY <2>3, <2>5 DEF IntentRecord
  <2>7. \A j \in Intents : j # i => intent'[j] = intent[j]
    BY ONLY <2>1, <2>2
  <2> QED BY ONLY <2>4, <2>6, <2>7
<1>10. (CheckoutTypeOK)'
  BY <1>0, TypeByRecords, TypeByRecordsNext DEF IntentRunsOut, intakeVars, CheckoutInv
<1>11. (OneOrderPerKey)'
  BY <1>0 DEF IntentRunsOut, intakeVars, CheckoutInv, CheckoutTypeOK, OneOrderPerKey, Rows
<1>12. (AnswersSound)'
  BY <1>0 DEF IntentRunsOut, intakeVars, CheckoutInv, CheckoutTypeOK, AnswersSound, Rows
<1>13. (\A d \in Calls : CallSound(d))'
  BY <1>0 DEF IntentRunsOut, intakeVars, CheckoutInv, CheckoutTypeOK, CallSound, Rows
<1>14. (HeldByOne)'
  BY <1>0 DEF IntentRunsOut, intakeVars, CheckoutInv, CheckoutTypeOK, CallSound, HeldByOne
<1>15. (\A j \in Intents : IntentSound(j))'
  BY <1>0 DEF IntentRunsOut, intakeVars, CheckoutInv, CheckoutTypeOK, CallSound,
       IntentSound, Rows
<1>16. (ApprovedIsLinked)'
  BY <1>0 DEF IntentRunsOut, intakeVars, CheckoutInv, CheckoutTypeOK, CallSound,
       ApprovedIsLinked, Rows
<1>17. (IntentTellsPayment)'
  BY <1>0 DEF IntentRunsOut, intakeVars, CheckoutInv, CheckoutTypeOK, CallSound,
       IntentSound, IntentTellsPayment
<1> QED BY <1>10, <1>11, <1>12, <1>13, <1>14, <1>15, <1>16, <1>17 DEF CheckoutInv


\* A call on its way to the expiry holds nothing.
LEMMA FindExpiredSound ==
  ASSUME CheckoutInv, NEW c \in Calls, NEW i \in Intents, FindExpired(c, i)
  PROVE  CheckoutInv'
BY CheckoutAssumption DEF FindExpired, CheckoutInv, CheckoutTypeOK, OneOrderPerKey, AnswersSound, CallSound,
       HeldByOne, IntentSound, ApprovedIsLinked, IntentTellsPayment, Rows

\* Only an intent that still waits expires.
LEMMA ExpireIntentSound ==
  ASSUME CheckoutInv, NEW c \in Calls, ExpireIntent(c)
  PROVE  CheckoutInv'
<1> DEFINE i == call[c].key
<1>0. i \in Intents
  BY DEF ExpireIntent, CheckoutInv, CallSound
<1>1. CASE intent[i].status # "AWAITING_CUSTOMER"
  BY <1>1, RefuseSound DEF ExpireIntent
<1>2. CASE intent[i].status = "AWAITING_CUSTOMER"
  <2>1. intent \in [Intents -> IntentRecord]
    BY TypeByRecords DEF CheckoutInv
  <2>2. intent' = [intent EXCEPT ![i].status = "EXPIRED"]
    BY <1>2 DEF ExpireIntent
  <2> HIDE DEF i
  <2>3. /\ intent' \in [Intents -> IntentRecord]
        /\ intent'[i].status = "EXPIRED"
        /\ \A j \in Intents : /\ intent'[j].order = intent[j].order
                              /\ j # i => intent'[j] = intent[j]
    BY <1>0, <2>1, <2>2, IntentStatusSet
  <2>4. /\ call' = [call EXCEPT ![c] = IdleCall]
        /\ UNCHANGED <<orders, past, answers, told>>
    BY DEF ExpireIntent, Refuse
  <2>5. intent[i].order = None /\ i \notin told
    BY <1>0, <1>2 DEF CheckoutInv, IntentTellsPayment
  <2>10. (CheckoutTypeOK)'
    <3>1. IdleCall \in RequestRecord
      BY DEF IdleCall, RequestRecord
    <3> QED BY <2>3, <2>4, <3>1, TypeByRecords, TypeByRecordsNext DEF CheckoutInv
  <2>11. (OneOrderPerKey)'
    BY <2>4 DEF CheckoutInv, OneOrderPerKey, Rows
  <2>12. (AnswersSound)'
    BY <2>4 DEF CheckoutInv, AnswersSound, Rows
  <2>13. (\A d \in Calls : CallSound(d))'
    BY <1>2, <2>3, <2>4 DEF IdleCall, CheckoutInv, CheckoutTypeOK, CallSound, Rows
  <2>14. (HeldByOne)'
    BY <2>4 DEF IdleCall, CheckoutInv, CheckoutTypeOK, HeldByOne
  <2>15. (\A j \in Intents : IntentSound(j))'
    BY <2>3, <2>4 DEF CheckoutInv, IntentSound, Rows
  <2>16. (ApprovedIsLinked)'
    BY <2>3, <2>4 DEF CheckoutInv, ApprovedIsLinked, Rows
  <2>17. (IntentTellsPayment)'
    BY <1>0, <2>3, <2>4, <2>5 DEF CheckoutInv, IntentTellsPayment
  <2> QED BY <2>10, <2>11, <2>12, <2>13, <2>14, <2>15, <2>16, <2>17 DEF CheckoutInv
<1> QED BY <1>1, <1>2

\* The approval that links its order holds the intent.
LEMMA LinkPaymentSound ==
  ASSUME CheckoutInv, NEW c \in Calls, LinkPayment(c)
  PROVE  CheckoutInv'
<1>0. /\ call[c].key \in Intents
      /\ call[c].order \in Rows
      /\ orders[call[c].order].key = call[c].key
      /\ \A d \in Calls : call[d].step \in Holding => call[d].key # call[c].key
  BY DEF LinkPayment, HasOrder, CheckoutInv, CallSound
<1> DEFINE k == call[c].key
           m == call[c].order
<1>1. /\ k \in Intents /\ m \in Rows /\ m \in OrderIds
      /\ call \in [Calls -> RequestRecord] /\ intent \in [Intents -> IntentRecord]
  BY <1>0, TypeByRecords DEF CheckoutInv, Rows
<1>2. /\ intent[k].status = "AWAITING_CUSTOMER" /\ intent[k].order = None
      /\ intent' = [intent EXCEPT ![k].status = "PROCESSING", ![k].order = m]
      /\ call' = [call EXCEPT ![c].step = "confirm"]
      /\ UNCHANGED <<orders, past, answers, told>>
      /\ Rows' = Rows
  BY DEF LinkPayment, Goto, Rows
<1>3. /\ call' \in [Calls -> RequestRecord]
      /\ call'[c].step = "confirm" /\ call'[c].key = k /\ call'[c].order = m
      /\ \A d \in Calls : d # c => call'[d] = call[d]
  <2>1. call[c] \in RequestRecord /\ call'[c] = [call[c] EXCEPT !.step = "confirm"]
    BY ONLY <1>1, <1>2, c \in Calls
  <2>2. /\ [call[c] EXCEPT !.step = "confirm"] \in RequestRecord
        /\ call'[c].step = "confirm" /\ call'[c].key = k /\ call'[c].order = m
    BY ONLY <2>1 DEF RequestRecord
  <2> HIDE DEF k, m
  <2> QED BY ONLY <1>1, <1>2, <2>2, c \in Calls
<1> HIDE DEF k, m
<1>4. /\ intent' \in [Intents -> IntentRecord]
      /\ intent'[k].status = "PROCESSING" /\ intent'[k].order = m
      /\ \A j \in Intents : j # k => intent'[j] = intent[j]
  <2>1. intent[k] \in IntentRecord
    BY <1>1
  <2>2. intent'[k] = [[intent[k] EXCEPT !.status = "PROCESSING"] EXCEPT !.order = m]
    BY ONLY <1>1, <1>2
  <2>3. /\ [[intent[k] EXCEPT !.status = "PROCESSING"] EXCEPT !.order = m] \in IntentRecord
        /\ intent'[k].status = "PROCESSING" /\ intent'[k].order = m
    BY ONLY <1>1, <2>1, <2>2 DEF IntentRecord
  <2> QED BY ONLY <1>1, <1>2, <2>3
<1>5. \A d \in Calls : call[d].step \in Holding => call[d].key # k
  BY <1>0 DEF k
<1>6. orders[m].key = k
  BY <1>0 DEF k, m
<1>10. (CheckoutTypeOK)'
  BY <1>2, <1>3, <1>4, TypeByRecords, TypeByRecordsNext DEF CheckoutInv
<1>11. (OneOrderPerKey)'
  BY <1>2 DEF CheckoutInv, OneOrderPerKey
<1>12. (AnswersSound)'
  BY <1>2 DEF CheckoutInv, AnswersSound
<1>13. ASSUME NEW d \in Calls
       PROVE  CallSound(d)'
  <2>1. CASE d = c
    BY <1>1, <1>2, <1>3, <1>4, <2>1 DEF CallSound
  <2>2. CASE d # c
    <3>1. call'[d] = call[d] /\ CallSound(d)
      BY <1>3, <2>2 DEF CheckoutInv
    <3>2. call[d].step \in Holding => intent'[call[d].key] = intent[call[d].key]
      BY <1>4, <1>5, <3>1 DEF CallSound
    <3>3. orders' = orders /\ Rows' = Rows
      BY ONLY <1>2
    <3> QED BY ONLY <3>1, <3>2, <3>3 DEF CallSound
  <2> QED BY <2>1, <2>2
<1>14. (HeldByOne)'
  BY <1>3, <1>5 DEF CheckoutInv, HeldByOne
<1>15. (\A j \in Intents : IntentSound(j))'
  BY <1>1, <1>2, <1>4, <1>6 DEF CheckoutInv, IntentSound
<1>16. (ApprovedIsLinked)'
  <2>1. ASSUME NEW n \in Rows, orders[n].approved, orders[n].key \in Intents
        PROVE  intent'[orders[n].key].order = n
    <3>1. intent[orders[n].key].order = n
      BY <2>1 DEF CheckoutInv, ApprovedIsLinked
    <3>2. n # None
      BY IntakeAssumption DEF Rows
    <3> QED BY <1>2, <1>4, <2>1, <3>1, <3>2
  <2> QED BY <1>2, <2>1 DEF ApprovedIsLinked
<1>17. (IntentTellsPayment)'
  <2>1. m # None
    BY <1>1, IntakeAssumption
  <2>2. k \notin told
    BY <1>1, <1>2 DEF CheckoutInv, IntentTellsPayment
  <2> QED BY <1>1, <1>2, <1>4, <2>1, <2>2 DEF CheckoutInv, IntentTellsPayment
<1> QED BY <1>10, <1>11, <1>12, <1>13, <1>14, <1>15, <1>16, <1>17 DEF CheckoutInv


\* The order of an approval is confirmed once, for its intent.
LEMMA ConfirmOrderSound ==
  ASSUME CheckoutInv, NEW c \in Calls, NEW o \in {"BOOKED", "FAILED"},
         ConfirmOrder(c, o)
  PROVE  CheckoutInv'
<1>0. /\ call[c].key \in Intents
      /\ call[c].order \in Rows
      /\ orders[call[c].order].status = "AWAITING_CONFIRMATION"
      /\ intent[call[c].key].order = call[c].order
      /\ intent[call[c].key].status = "PROCESSING"
  BY DEF ConfirmOrder, CheckoutInv, CallSound
<1> DEFINE m == call[c].order
<1>1. m \in OrderIds /\ orders \in [OrderIds -> OrderRecord] /\ call \in [Calls -> RequestRecord]
  BY <1>0, TypeByRecords DEF CheckoutInv, Rows
<1>2. PICK next \in {[call[c] EXCEPT !.step = o], IdleCall} : call' = [call EXCEPT ![c] = next]
  BY DEF ConfirmOrder
<1>3. /\ next \in RequestRecord
      /\ \/ next = [call[c] EXCEPT !.step = o] /\ next.step = o /\ next.key = call[c].key /\ next.order = m
         \/ next.step = "idle"
  <2>1. call[c] \in RequestRecord
    BY <1>1
  <2> HIDE DEF m
  <2>2. CASE next = IdleCall
    BY <2>2 DEF IdleCall, RequestRecord
  <2>3. CASE next = [call[c] EXCEPT !.step = o]
    BY ONLY <2>1, <2>3, o \in {"BOOKED", "FAILED"} DEF RequestRecord, m
  <2> QED BY <2>2, <2>3
<1>4. orders' = [orders EXCEPT ![m] = [orders[m] EXCEPT !.status = o, !.approved = TRUE]]
  <2>1. orders' = [orders EXCEPT ![m].status = o, ![m].approved = TRUE]
    BY DEF ConfirmOrder
  <2> HIDE DEF m
  <2> QED BY ONLY <1>1, <2>1
<1>5. UNCHANGED <<past, answers, intent, told>>
  BY DEF ConfirmOrder
<1> HIDE DEF m
<1>6. /\ [orders[m] EXCEPT !.status = o, !.approved = TRUE] \in OrderRecord
      /\ orders'[m].status = o
      /\ orders'[m].owner = orders[m].owner
      /\ orders'[m].key = orders[m].key
      /\ orders'[m].payload = orders[m].payload
      /\ orders'[m].kind = orders[m].kind
  <2>1. orders[m] \in OrderRecord /\ orders'[m] = [orders[m] EXCEPT !.status = o, !.approved = TRUE]
    BY ONLY <1>1, <1>4
  <2> QED BY ONLY <2>1, o \in {"BOOKED", "FAILED"} DEF OrderRecord
<1>7. \A n \in OrderIds : n # m => orders'[n] = orders[n]
  BY ONLY <1>1, <1>4
<1>8. \A n \in OrderIds : /\ orders'[n].owner = orders[n].owner
                          /\ orders'[n].key = orders[n].key
                          /\ orders'[n].payload = orders[n].payload
                          /\ orders'[n].kind = orders[n].kind
  BY ONLY <1>6, <1>7
<1>9. m \in Rows /\ Rows' = Rows
  BY <1>0, <1>6, <1>7 DEF Rows, m
<1>10. (CheckoutTypeOK)'
  <2>1. orders' \in [OrderIds -> OrderRecord]
    BY ONLY <1>1, <1>4, <1>6
  <2>2. call' \in [Calls -> RequestRecord]
    BY ONLY <1>1, <1>2, <1>3
  <2> QED BY <1>5, <2>1, <2>2, TypeByRecords, TypeByRecordsNext DEF CheckoutInv
<1>11. (OneOrderPerKey)'
  BY <1>8, <1>9 DEF CheckoutInv, OneOrderPerKey, Rows
<1>12. (AnswersSound)'
  BY <1>5, <1>8, <1>9 DEF CheckoutInv, AnswersSound, EquivalentIntent, Rows
<1>13. ASSUME NEW d \in Calls
       PROVE  CallSound(d)'
  <2>1. CallSound(d)
    BY DEF CheckoutInv
  <2>2. CASE d = c
    <3>1. call'[d] = next
      BY ONLY <1>1, <1>2, <2>2, c \in Calls
    <3>2. CASE next.step = "idle"
      BY <3>1, <3>2 DEF CallSound
    <3>3. CASE next.step = o
      BY <1>0, <1>3, <1>5, <1>6, <1>9, <3>1, <3>3 DEF CallSound, m
    <3> QED BY <1>3, <3>2, <3>3
  <2>3. CASE d # c
    <3>1. call'[d] = call[d]
      BY ONLY <1>1, <1>2, <2>3
    <3>2. call[d].step \in {"BOOKED", "FAILED"} => call[d].order # m
      BY <1>0, <2>1 DEF CallSound, m
    <3> QED BY <1>5, <1>7, <1>8, <1>9, <2>1, <3>1, <3>2 DEF CallSound, Rows
  <2> QED BY <2>2, <2>3
<1>14. (HeldByOne)'
  <2>1. \A d \in Calls : call'[d].step \in Holding =>
          call[d].step \in Holding /\ call'[d].key = call[d].key
    BY <1>1, <1>2, <1>3 DEF ConfirmOrder
  <2> QED BY <2>1 DEF CheckoutInv, HeldByOne
<1>15. (\A j \in Intents : IntentSound(j))'
  BY <1>5, <1>8, <1>9 DEF CheckoutInv, IntentSound, Rows
<1>16. (ApprovedIsLinked)'
  <2>1. \A n \in OrderIds : n # m => orders'[n].approved = orders[n].approved
    BY <1>7
  <2>2. intent[orders[m].key].order = m
    <3>1. intent[call[c].key].order # None
      BY <1>0 DEF CheckoutInv, IntentTellsPayment
    <3>2. orders[intent[call[c].key].order].key = call[c].key
      BY <1>0, <3>1 DEF CheckoutInv, IntentSound
    <3> QED BY <1>0, <3>2 DEF m
  <2> QED BY <1>5, <1>8, <1>9, <2>1, <2>2 DEF CheckoutInv, ApprovedIsLinked, Rows
<1>17. (IntentTellsPayment)'
  <2>1. \A j \in Intents : intent[j].status \in {"BOOKED", "FAILED"} =>
          intent[j].order \in OrderIds /\ intent[j].order # m
    BY <1>0 DEF CheckoutInv, IntentTellsPayment, IntentSound, Rows, m
  <2>2. \A j \in Intents : intent[j].status \in {"BOOKED", "FAILED"} =>
          orders'[intent[j].order].status = intent[j].status
    BY <1>7, <2>1 DEF CheckoutInv, IntentTellsPayment
  <2> QED BY <1>5, <2>2 DEF CheckoutInv, IntentTellsPayment
<1> QED BY <1>10, <1>11, <1>12, <1>13, <1>14, <1>15, <1>16, <1>17 DEF CheckoutInv


\* What is recorded became of the order, and nobody else holds the intent.
LEMMA RecordOutcomeSound ==
  ASSUME CheckoutInv, NEW c \in Calls, RecordOutcome(c)
  PROVE  CheckoutInv'
<1>0. /\ call[c].key \in Intents
      /\ call[c].order \in Rows
      /\ orders[call[c].order].status = call[c].step
      /\ intent[call[c].key].order = call[c].order
      /\ intent[call[c].key].status = "PROCESSING"
  BY DEF RecordOutcome, CheckoutInv, CallSound
<1> DEFINE k == call[c].key
           s == call[c].step
<1>1. k \in Intents /\ s \in {"BOOKED", "FAILED"} /\ call \in [Calls -> RequestRecord]
  BY <1>0, TypeByRecords DEF RecordOutcome, CheckoutInv
<1>2. /\ intent' \in [Intents -> IntentRecord]
      /\ intent'[k].status = s
      /\ \A j \in Intents : /\ intent'[j].order = intent[j].order
                            /\ j # k => intent'[j] = intent[j]
  <2>1. intent \in [Intents -> IntentRecord] /\ intent' = [intent EXCEPT ![k].status = s]
    BY TypeByRecords DEF RecordOutcome, CheckoutInv
  <2>2. s \in IntentStatus
    BY <1>1
  <2> HIDE DEF k, s
  <2> QED BY <1>1, <2>1, <2>2, IntentStatusSet
<1>3. PICK next : /\ call' = [call EXCEPT ![c] = next]
                  /\ \/ s = "BOOKED" /\ next = [call[c] EXCEPT !.step = "notify"]
                     \/ s # "BOOKED" /\ next = IdleCall
  BY DEF RecordOutcome, Goto, Refuse
<1>4. UNCHANGED <<orders, past, answers, told>>
  BY DEF RecordOutcome, Goto, Refuse
<1>5. /\ next \in RequestRecord
      /\ \/ s = "BOOKED" /\ next.step = "notify" /\ next.key = k /\ next.order = call[c].order
         \/ next.step = "idle"
  <2>1. call[c] \in RequestRecord
    BY <1>1
  <2>2. CASE next = IdleCall
    BY <2>2 DEF IdleCall, RequestRecord
  <2>3. CASE s = "BOOKED" /\ next = [call[c] EXCEPT !.step = "notify"]
    BY ONLY <2>1, <2>3 DEF RequestRecord
  <2> QED BY <1>3, <2>2, <2>3
<1>6. \A d \in Calls : d # c /\ call[d].step \in Holding => call[d].key # k
  BY <1>1 DEF CheckoutInv, HeldByOne
<1>7. Rows' = Rows
  BY <1>4 DEF Rows
<1>8. call'[c] = next /\ \A d \in Calls : d # c => call'[d] = call[d]
  BY ONLY <1>1, <1>3, c \in Calls
<1>10. (CheckoutTypeOK)'
  <2>1. call' \in [Calls -> RequestRecord]
    BY ONLY <1>1, <1>3, <1>5
  <2> QED BY <1>2, <1>4, <2>1, TypeByRecords, TypeByRecordsNext DEF CheckoutInv
<1>11. (OneOrderPerKey)'
  BY <1>4, <1>7 DEF CheckoutInv, OneOrderPerKey
<1>12. (AnswersSound)'
  BY <1>4, <1>7 DEF CheckoutInv, AnswersSound
<1>13. ASSUME NEW d \in Calls
       PROVE  CallSound(d)'
  <2>1. CallSound(d)
    BY DEF CheckoutInv
  <2>2. CASE d = c
    <3>1. CASE next.step = "idle"
      BY <1>8, <2>2, <3>1 DEF CallSound
    <3>2. CASE s = "BOOKED" /\ next.step = "notify" /\ next.key = k /\ next.order = call[c].order
      BY <1>0, <1>1, <1>2, <1>7, <1>8, <2>2, <3>2 DEF CallSound
    <3> QED BY <1>5, <3>1, <3>2
  <2>3. CASE d # c
    <3>1. call'[d] = call[d]
      BY <1>8, <2>3
    <3>2. call[d].step \in Holding => intent'[call[d].key] = intent[call[d].key]
      BY <1>2, <1>6, <2>1, <2>3 DEF CallSound
    <3> QED BY <1>4, <1>7, <2>1, <3>1, <3>2 DEF CallSound
  <2> QED BY <2>2, <2>3
<1>14. (HeldByOne)'
  <2>1. \A d \in Calls : call'[d].step \in Holding =>
          call[d].step \in Holding /\ call'[d].key = call[d].key
    BY <1>1, <1>5, <1>8
  <2> QED BY <2>1 DEF CheckoutInv, HeldByOne
<1>15. (\A j \in Intents : IntentSound(j))'
  BY <1>2, <1>4, <1>7 DEF CheckoutInv, IntentSound
<1>16. (ApprovedIsLinked)'
  BY <1>2, <1>4, <1>7 DEF CheckoutInv, ApprovedIsLinked
<1>17. (IntentTellsPayment)'
  <2>1. ASSUME NEW j \in Intents
        PROVE  /\ intent'[j].status \in {"NONE", "AWAITING_CUSTOMER", "EXPIRED"}
                    <=> intent'[j].order = None
               /\ intent'[j].status \in {"BOOKED", "FAILED"}
                    => orders[intent'[j].order].status = intent'[j].status
               /\ j \in told => intent'[j].status = "BOOKED"
    <3>1. CASE j = k
      BY <1>0, <1>1, <1>2, <3>1 DEF CheckoutInv, IntentTellsPayment
    <3>2. CASE j # k
      BY <1>2, <3>2 DEF CheckoutInv, IntentTellsPayment
    <3> QED BY <3>1, <3>2
  <2> QED BY <1>4, <2>1 DEF IntentTellsPayment
<1> QED BY <1>10, <1>11, <1>12, <1>13, <1>14, <1>15, <1>16, <1>17 DEF CheckoutInv


\* The merchant is told of an intent that is recorded as booked.
LEMMA NotifyMerchantSound ==
  ASSUME CheckoutInv, NEW c \in Calls, NotifyMerchant(c)
  PROVE  CheckoutInv'
BY DEF NotifyMerchant, Refuse, IdleCall,
       CheckoutInv, CheckoutTypeOK, OneOrderPerKey, AnswersSound, CallSound,
       HeldByOne, IntentSound, ApprovedIsLinked, IntentTellsPayment, Rows

\* Every step preserves the invariant.
LEMMA CheckoutNextSound == CheckoutInv /\ [CheckoutNext]_checkoutVars => CheckoutInv'
<1> SUFFICES ASSUME CheckoutInv, [CheckoutNext]_checkoutVars PROVE CheckoutInv'
  OBVIOUS
<1>1. CASE \E c \in Calls : PaySomething(c) /\ UNCHANGED <<intent, told>>
  BY <1>1, RequestSound DEF PaySomething
<1>2. CASE \E c \in Calls : IntakeStep(c) /\ UNCHANGED <<intent, told>>
  BY <1>2, LookupKeySound, InsertOrderSound, InsertRefusedSound, LookupAgainSound,
     RefuseSound DEF IntakeStep, CallEnds
<1>3. CASE \E c \in Calls, u \in Customers, i \in Intents, p \in Payloads :
               ApproveIntent(c, u, i, p)
  BY <1>3, RequestSound, CheckoutAssumption DEF ApproveIntent
<1>4. CASE \E c \in Calls, i \in Intents : FindExpired(c, i)
  BY <1>4, FindExpiredSound
<1>5. CASE \E c \in Calls : ExpireIntent(c) \/ LinkPayment(c) \/ RecordOutcome(c)
  BY <1>5, ExpireIntentSound, LinkPaymentSound, RecordOutcomeSound
<1>6. CASE \E c \in Calls : LinkRefused(c) \/ ConfirmRefused(c)
  BY <1>6, RefuseSound DEF LinkRefused, ConfirmRefused
<1>7. CASE \E c \in Calls : \E outcome \in {"BOOKED", "FAILED"} : ConfirmOrder(c, outcome)
  BY <1>7, ConfirmOrderSound
<1>8. CASE \E c \in Calls : NotifyMerchant(c)
  BY <1>8, NotifyMerchantSound
<1>9. CASE \E i \in Intents : CreateIntent(i) \/ IntentRunsOut(i)
  BY <1>9, CreateIntentSound, IntentRunsOutSound
<1>10. CASE IntakeEnvironment /\ UNCHANGED <<intent, told>>
  BY <1>10, CustomerSettlesSound, TimeRunsOutSound DEF IntakeEnvironment
<1>11. CASE UNCHANGED checkoutVars
  BY <1>11 DEF checkoutVars, intakeVars, CheckoutInv, CheckoutTypeOK, OneOrderPerKey, AnswersSound, CallSound,
       HeldByOne, IntentSound, ApprovedIsLinked, IntentTellsPayment, Rows
<1> QED
  BY <1>1, <1>2, <1>3, <1>4, <1>5, <1>6, <1>7, <1>8, <1>9, <1>10, <1>11 DEF CheckoutNext

-----------------------------------------------------------------------------

\* The inductive invariant holds in every state of intake and checkout.
THEOREM CheckoutInvariant == CheckoutSpec => []CheckoutInv
BY CheckoutStart, CheckoutNextSound, PTL DEF CheckoutSpec

\* One order per customer and key: successful requests with one key are told of
\* one order, and it is the order they asked for (CreatePayment).
THEOREM KeysNameOneOrder == CheckoutSpec => []AnswersAgree
<1>1. CheckoutInv => AnswersAgree
  <2> SUFFICES ASSUME CheckoutInv PROVE AnswersAgree
    OBVIOUS
  <2>1. \A x \in answers :
          /\ orders[x.order].owner = x.owner /\ orders[x.order].key = x.key
          /\ EquivalentIntent(orders[x.order], x)
    BY DEF CheckoutInv, AnswersSound
  <2>2. ASSUME NEW x \in answers, NEW y \in answers, x.owner = y.owner, x.key = y.key
        PROVE  /\ x.order = y.order
               /\ x.transfer = y.transfer \/ orders[x.order].kind = "INTERNAL"
    <3>1. x.order = y.order
      BY <2>1, <2>2 DEF CheckoutInv, AnswersSound, OneOrderPerKey
    <3>2. x.transfer \in TransferTypes /\ y.transfer \in TransferTypes
      BY DEF CheckoutInv, CheckoutTypeOK
    <3> QED BY <2>1, <3>1, <3>2 DEF EquivalentIntent
  <2>3. \A x \in answers : orders[x.order].payload = x.payload
    BY <2>1 DEF EquivalentIntent
  <2> QED BY <2>1, <2>2, <2>3 DEF AnswersAgree
<1> QED BY <1>1, CheckoutInvariant, PTL

\* However many approvals of however many customers race, one order of an
\* intent is confirmed by an approval (merchant.Service.Approve).
THEOREM IntentsPaidOnce == CheckoutSpec => []ApprovalPaysOnce
<1>1. CheckoutInv => ApprovalPaysOnce
  BY DEF CheckoutInv, ApprovedIsLinked, ApprovalPaysOnce
<1> QED BY <1>1, CheckoutInvariant, PTL

\* The status of an intent is what became of its order, and the merchant hears
\* of bookings only (SetMerchantIntentStatus, NotifyCompletion).
THEOREM IntentsTellTheTruth == CheckoutSpec => []IntentTellsPayment
<1>1. CheckoutInv => IntentTellsPayment
  BY DEF CheckoutInv
<1> QED BY <1>1, CheckoutInvariant, PTL

\* An intent never changes its order again, and never leaves a final status.
THEOREM IntentsAreSettledOnce == CheckoutSpec => IntentSettlesOnce
<1> DEFINE Settled ==
      \A i \in Intents :
        /\ intent[i].order # None => intent'[i].order = intent[i].order
        /\ intent[i].status \in {"BOOKED", "FAILED", "EXPIRED"}
             => intent'[i].status = intent[i].status
<1>1. CheckoutInv /\ [CheckoutNext]_checkoutVars => Settled
  <2> SUFFICES ASSUME CheckoutInv, [CheckoutNext]_checkoutVars PROVE Settled
    OBVIOUS
  <2>1. CASE UNCHANGED intent
    BY <2>1
  <2>2. ASSUME NEW c \in Calls, ExpireIntent(c) PROVE Settled
    BY <2>2 DEF ExpireIntent, CheckoutInv, CheckoutTypeOK
  <2>3. ASSUME NEW c \in Calls, LinkPayment(c) PROVE Settled
    BY <2>3 DEF LinkPayment, CheckoutInv, CheckoutTypeOK
  <2>4. ASSUME NEW c \in Calls, RecordOutcome(c) PROVE Settled
    BY <2>4 DEF RecordOutcome, CheckoutInv, CheckoutTypeOK, CallSound
  <2>5. ASSUME NEW i \in Intents, CreateIntent(i) PROVE Settled
    BY <2>5 DEF CreateIntent, CheckoutInv, CheckoutTypeOK
  <2>6. ASSUME NEW i \in Intents, IntentRunsOut(i) PROVE Settled
    BY <2>6 DEF IntentRunsOut, CheckoutInv, CheckoutTypeOK
  <2> QED
    BY <2>1, <2>2, <2>3, <2>4, <2>5, <2>6
       DEF CheckoutNext, checkoutVars, ApproveIntent, FindExpired, LinkRefused,
           ConfirmOrder, ConfirmRefused, NotifyMerchant
<1>2. CheckoutInv /\ [CheckoutNext]_checkoutVars => [Settled]_checkoutVars
  BY <1>1
<1> QED BY <1>2, CheckoutInvariant, PTL DEF CheckoutSpec, IntentSettlesOnce
=============================================================================
