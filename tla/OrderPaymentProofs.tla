------------------------- MODULE OrderPaymentProofs -------------------------
(***************************************************************************)
(* What holds of an order and its payments for any number of intents,        *)
(* shoppers, staff, deliveries and crashes.                                  *)
(*                                                                           *)
(* PaidIsCaptured is not inductive: an order is marked paid by a step whose  *)
(* verification was an earlier one, a worker's or the consumer's.  Known     *)
(* says what such a half-done use case has established and nothing can take  *)
(* away.  The proof follows the variables: what a step does to the order,    *)
(* to the payments and to the jobs are three lemmas.                         *)
(***************************************************************************)
EXTENDS OrderPayment, TLAPS

\* Statuses of an order whose payment was received.
Done == Paid \cup {"refunded", "closed"}

\* What is known between the verification of a payment and its use.
Known ==
  /\ \A i \in Intents :
       intent[i] \in {"captured", "partially_refunded", "refunded"} => i \in charged
  /\ \A i \in Intents : message[i].state = "verified" => i \in charged
  /\ \A w \in Workers :
       /\ job[w].step \in {"link", "attach", "capture", "captureSettle", "complete"}
            => job[w].intent \in Intents
       /\ job[w].step = "complete" => job[w].intent \in charged

\* The inductive invariant.
IInv == TypeOK /\ Known /\ PaidIsCaptured /\ AckedMeansPaid

-----------------------------------------------------------------------------
(* The transition table. *)

\* A status leads to statuses only.
LEMMA TargetsAreStatuses ==
  ASSUME NEW s \in OrderStatuses, NEW t, CanTransition(s, t)
  PROVE  t \in OrderStatuses
BY DEF OrderStatuses, CanTransition, Transitions

\* Payment is received only where it was requested.
LEMMA ReceivedFromRequested ==
  ASSUME NEW s \in OrderStatuses, CanTransition(s, "payment_received")
  PROVE  s = "payment_requested"
BY DEF OrderStatuses, CanTransition, Transitions

\* Payment is not requested, and an order not cancelled, once it was received.
LEMMA NothingUndone ==
  ASSUME NEW s \in Done
  PROVE  /\ s \in OrderStatuses
         /\ s # "created"
         /\ ~CanTransition(s, "payment_requested")
         /\ ~CanTransition(s, "payment_received")
         /\ ~CanTransition(s, "cancelled")
BY DEF Done, Paid, OrderStatuses, CanTransition, Transitions

\* No status leads back from those that follow the payment.
LEMMA DoneStaysDone ==
  ASSUME NEW s \in Done, NEW t, CanTransition(s, t)
  PROVE  t \in Done
BY DEF Done, Paid, OrderStatuses, CanTransition, Transitions

\* The only way into the paid statuses is the receipt of the payment.
LEMMA PaidByReceipt ==
  ASSUME NEW s \in OrderStatuses \ Paid, NEW t \in Paid, CanTransition(s, t)
  PROVE  t = "payment_received"
BY DEF Paid, OrderStatuses, CanTransition, Transitions

-----------------------------------------------------------------------------
(* One step, variable by variable. *)

\* What a step may do to the order: it becomes paid by naming a captured payment,
\* and once paid it keeps that payment and stays among the statuses that follow.
OrderMove ==
  /\ order' \in Order
  /\ order'.status \in Paid => order'.paymentRef \in charged
  /\ order.status \in Done => order'.status \in Done
  /\ order.status \in Paid => order'.paymentRef = order.paymentRef

LEMMA OrderKept ==
  ASSUME IInv, UNCHANGED order
  PROVE  OrderMove
BY DEF IInv, TypeOK, PaidIsCaptured, OrderMove

\* The receipt of a captured payment.
LEMMA OrderCompleted ==
  ASSUME IInv, NEW i \in charged, order' = IF CanComplete THEN Completed(i) ELSE order
  PROVE  OrderMove
<1>1. /\ order \in Order /\ charged \subseteq Intents
      /\ order.status \in OrderStatuses
  BY DEF IInv, TypeOK, Order
<1>2. CASE ~CanComplete
  BY <1>2, OrderKept
<1>3. CASE CanComplete
  <2>1. order' = [status |-> "payment_received", paymentRef |-> i]
    BY <1>3 DEF Completed
  <2>2. order.status \notin Done
    BY <1>3, NothingUndone DEF CanComplete
  <2>3. "payment_received" \in OrderStatuses
    BY DEF OrderStatuses, Transitions
  <2>4. order' \in Order
    BY <1>1, <2>1, <2>3 DEF Order
  <2> QED BY <2>1, <2>2, <2>4 DEF OrderMove, Done
<1> QED BY <1>2, <1>3

\* A payment named by an order that asks for it.
LEMMA OrderRequested ==
  ASSUME IInv, NEW i \in Intents,
         order.status = "created" \/ CanTransition(order.status, "payment_requested"),
         order' = [order EXCEPT !.status = "payment_requested", !.paymentRef = i]
  PROVE  OrderMove
<1>1. order \in Order /\ order.status \in OrderStatuses
  BY DEF IInv, TypeOK, Order
<1>2. order.status \notin Done
  BY NothingUndone
<1>3. "payment_requested" \in OrderStatuses /\ "payment_requested" \notin Paid
  BY DEF OrderStatuses, Transitions, Paid
<1>4. order' \in Order /\ order'.status = "payment_requested"
  BY <1>1, <1>3 DEF Order
<1> QED BY <1>2, <1>3, <1>4 DEF OrderMove, Done

\* A transition of the table other than the receipt of a payment.
LEMMA OrderAdvanced ==
  ASSUME IInv, NEW t, t # "payment_received", CanTransition(order.status, t),
         order' = [order EXCEPT !.status = t]
  PROVE  OrderMove
<1>1. order \in Order /\ order.status \in OrderStatuses
  BY DEF IInv, TypeOK, Order
<1>2. t \in OrderStatuses
  BY <1>1, TargetsAreStatuses
<1>3. order' \in Order /\ order'.status = t /\ order'.paymentRef = order.paymentRef
  BY <1>1, <1>2 DEF Order
<1>4. t \in Paid => order.status \in Paid
  BY <1>1, PaidByReceipt
<1>5. order.status \in Done => t \in Done
  BY DoneStaysDone
<1> QED BY <1>3, <1>4, <1>5 DEF OrderMove, IInv, PaidIsCaptured

\* The refund recorded on an order.
LEMMA OrderRefunded ==
  ASSUME IInv, order' = IF Refundable(order.status) THEN [order EXCEPT !.status = "refunded"] ELSE order
  PROVE  OrderMove
<1>1. order \in Order
  BY DEF IInv, TypeOK
<1>2. CASE ~Refundable(order.status)
  BY <1>2, OrderKept
<1>3. CASE Refundable(order.status)
  <2>1. "refunded" \in OrderStatuses /\ "refunded" \notin Paid /\ "refunded" \in Done
    BY DEF OrderStatuses, Transitions, Paid, Done
  <2>2. /\ order' \in Order /\ order'.status = "refunded"
        /\ order'.paymentRef = order.paymentRef
    BY <1>1, <1>3, <2>1 DEF Order
  <2> QED BY <2>1, <2>2 DEF OrderMove
<1> QED BY <1>2, <1>3

\* What a step may do to the payments.
PaymentMove ==
  /\ intent' \in [Intents -> Pay!Statuses]
  /\ charged \subseteq charged' /\ charged' \subseteq Intents
  /\ returned' \in [Intents -> {"nobody", "order", "staff"}]
  /\ message' \in [Intents -> Message]
  /\ \A i \in Intents :
       /\ intent'[i] \in {"captured", "partially_refunded", "refunded"} => i \in charged'
       /\ message'[i].state = "verified" => i \in charged'
       /\ message'[i].state = "delivered" => message[i].state = "delivered" \/ order'.status \in Done

\* What a step may do to the jobs.
JobMove ==
  /\ job' \in [Workers -> Job]
  /\ \A w \in Workers :
       /\ job'[w].step \in {"link", "attach", "capture", "captureSettle", "complete"}
            => job'[w].intent \in Intents
       /\ job'[w].step = "complete" => job'[w].intent \in charged'

LEMMA PaymentsKept ==
  ASSUME IInv, UNCHANGED <<intent, charged, returned, message>>
  PROVE  PaymentMove
BY DEF IInv, TypeOK, Known, PaymentMove

LEMMA JobsKept ==
  ASSUME IInv, charged \subseteq charged', UNCHANGED job
  PROVE  JobMove
BY DEF IInv, TypeOK, Known, JobMove

\* A job that goes on to a step it has the knowledge for.
LEMMA JobGoes ==
  ASSUME IInv, charged \subseteq charged', NEW w \in Workers, NEW step, NEW i,
         Goto(w, step, i), [step |-> step, intent |-> i] \in Job,
         step \in {"link", "attach", "capture", "captureSettle", "complete"} => i \in Intents,
         step = "complete" => i \in charged'
  PROVE  JobMove
<1>1. job' = [job EXCEPT ![w] = [step |-> step, intent |-> i]] /\ job \in [Workers -> Job]
  BY DEF Goto, IInv, TypeOK
<1>2. job' \in [Workers -> Job]
  BY <1>1
<1>3. ASSUME NEW v \in Workers
      PROVE  /\ job'[v].step \in {"link", "attach", "capture", "captureSettle", "complete"}
                  => job'[v].intent \in Intents
             /\ job'[v].step = "complete" => job'[v].intent \in charged'
  <2>1. CASE v = w
    BY <1>1, <2>1
  <2>2. CASE v # w
    BY <1>1, <2>2 DEF IInv, Known
  <2> QED BY <2>1, <2>2
<1> QED BY <1>2, <1>3 DEF JobMove

LEMMA JobEnds ==
  ASSUME IInv, charged \subseteq charged', NEW w \in Workers, End(w)
  PROVE  JobMove
<1>1. Goto(w, "idle", NoPayment) /\ [step |-> "idle", intent |-> NoPayment] \in Job
  BY DEF Goto, End, Idle, Job
<1> QED BY <1>1, JobGoes

\* An intent whose status changes to one that is not captured.
LEMMA IntentMoves ==
  ASSUME IInv, NEW i, NEW s \in Pay!Statuses \ {"captured"},
         s \in {"partially_refunded", "refunded"} => i \in charged,
         intent' = [intent EXCEPT ![i] = s], UNCHANGED <<charged, message>>,
         returned' \in [Intents -> {"nobody", "order", "staff"}]
  PROVE  PaymentMove
<1>1. intent \in [Intents -> Pay!Statuses] /\ charged \subseteq Intents /\ message \in [Intents -> Message]
  BY DEF IInv, TypeOK
<1>2. intent' \in [Intents -> Pay!Statuses]
  BY <1>1
<1>3. ASSUME NEW k \in Intents
      PROVE  intent'[k] \in {"captured", "partially_refunded", "refunded"} => k \in charged
  <2>1. CASE k = i
    BY <1>1, <2>1
  <2>2. CASE k # i
    BY <1>1, <2>2 DEF IInv, Known
  <2> QED BY <2>1, <2>2
<1> QED BY <1>1, <1>2, <1>3 DEF PaymentMove, IInv, Known

\* A capture, with its event.
LEMMA IntentCaptured ==
  ASSUME IInv, NEW i \in Intents, Captured(i), UNCHANGED returned
  PROVE  PaymentMove /\ charged \subseteq charged'
<1>1. /\ intent \in [Intents -> Pay!Statuses] /\ charged \subseteq Intents /\ message \in [Intents -> Message]
      /\ returned \in [Intents -> {"nobody", "order", "staff"}]
  BY DEF IInv, TypeOK
<1>2. /\ intent' = [intent EXCEPT ![i] = "captured"] /\ charged' = charged \cup {i}
      /\ message' = IF i \in payTime
                      THEN [message EXCEPT ![i] = [message[i] EXCEPT !.state = "pending"]]
                      ELSE message
  BY DEF Captured
<1>3. intent' \in [Intents -> Pay!Statuses]
  BY <1>1, <1>2 DEF Pay!Statuses
<1>4. [message[i] EXCEPT !.state = "pending"] \in Message
  BY <1>1 DEF Message
<1>5. /\ message' \in [Intents -> Message]
      /\ message'[i].state = "pending" \/ message'[i] = message[i]
  BY <1>1, <1>2, <1>4 DEF Message
<1>6. \A k \in Intents : k # i => message'[k] = message[k] /\ intent'[k] = intent[k]
  BY <1>1, <1>2
<1> QED BY <1>1, <1>2, <1>3, <1>5, <1>6 DEF PaymentMove, IInv, Known

\* An event that moves on.
LEMMA MessageMoves ==
  ASSUME IInv, NEW i \in Intents, NEW m \in Message,
         m.state = "verified" => i \in charged,
         m.state = "delivered" => order'.status \in Done,
         message' = [message EXCEPT ![i] = m], UNCHANGED <<intent, charged, returned>>
  PROVE  PaymentMove
<1>1. /\ intent \in [Intents -> Pay!Statuses] /\ charged \subseteq Intents /\ message \in [Intents -> Message]
      /\ returned \in [Intents -> {"nobody", "order", "staff"}]
  BY DEF IInv, TypeOK
<1>2. message' \in [Intents -> Message] /\ message'[i] = m
  BY <1>1
<1>3. \A k \in Intents : k # i => message'[k] = message[k]
  BY <1>1
<1> QED BY <1>1, <1>2, <1>3 DEF PaymentMove, IInv, Known

\* A failed delivery leaves a retry or a dead letter.
LEMMA AttemptInMessage ==
  ASSUME NEW m \in Message
  PROVE  Attempt(m) \in Message /\ Attempt(m).state \in {"pending", "dead"}
<1>1. m.attempts \in 0..(MaxAttempts - 1) /\ MaxAttempts \in Nat \ {0}
  BY OrderPaymentAssumption DEF Message
<1>2. CASE m.attempts + 1 = MaxAttempts
  BY <1>1, <1>2 DEF Attempt, Message
<1>3. CASE m.attempts + 1 # MaxAttempts
  <2>1. m.attempts + 1 \in 0..(MaxAttempts - 1)
    BY <1>1, <1>3
  <2> QED BY <1>3, <2>1 DEF Attempt, Message
<1> QED BY <1>2, <1>3

-----------------------------------------------------------------------------
(* One step, action by action. *)

Move ==
  /\ OrderMove /\ PaymentMove /\ JobMove
  /\ attached' \in Intents \cup {NoPayment} /\ payTime' \subseteq Intents /\ crashes' \in 0..MaxCrashes

\* Checkout opens, links and attaches a payment; staff open one to capture it.
LEMMA OpenIntentMove ==
  ASSUME IInv, NEW w \in Workers, NEW step \in {"link", "capture"}, OpenIntent(w, step)
  PROVE  Move
<1>1. PICK i \in Intents :
        \/ intent' = [intent EXCEPT ![i] = "created"] /\ Goto(w, step, i)
        \/ intent' = [intent EXCEPT ![i] = "cancelled"] /\ End(w)
  BY DEF OpenIntent
<1>a. payTime' \subseteq Intents
  BY DEF OpenIntent, IInv, TypeOK
<1>2. UNCHANGED <<order, attached, charged, returned, message, crashes>>
  BY DEF OpenIntent
<1>3. /\ returned' \in [Intents -> {"nobody", "order", "staff"}]
      /\ attached' \in Intents \cup {NoPayment} /\ payTime' \subseteq Intents /\ crashes' \in 0..MaxCrashes
  BY <1>2, <1>a DEF IInv, TypeOK
<1>4. OrderMove
  BY <1>2, OrderKept
<1>5. "created" \in Pay!Statuses \ {"captured"} /\ "cancelled" \in Pay!Statuses \ {"captured"}
  BY DEF Pay!Statuses
<1>6. PaymentMove
  <2>1. CASE intent' = [intent EXCEPT ![i] = "created"]
    BY <1>2, <1>3, <1>5, <2>1, IntentMoves
  <2>2. CASE intent' = [intent EXCEPT ![i] = "cancelled"]
    BY <1>2, <1>3, <1>5, <2>2, IntentMoves
  <2> QED BY <1>1, <2>1, <2>2
<1>7. JobMove
  <2>1. [step |-> step, intent |-> i] \in Job
    BY DEF Job
  <2>2. CASE Goto(w, step, i)
    BY <1>2, <2>1, <2>2, JobGoes
  <2>3. CASE End(w)
    BY <1>2, <2>3, JobEnds
  <2> QED BY <1>1, <2>2, <2>3
<1> QED BY <1>3, <1>4, <1>6, <1>7 DEF Move

LEMMA LinkMove ==
  ASSUME IInv, NEW w \in Workers, Link(w)
  PROVE  Move
<1>1. job[w].intent \in Intents
  BY DEF Link, At, IInv, Known
<1>2. UNCHANGED <<attached, payTime, intent, charged, returned, message, crashes>> /\ Goto(w, "attach", job[w].intent)
  BY DEF Link, payments
<1>3. OrderMove
  <2>1. CASE UNCHANGED order
    BY <2>1, OrderKept
  <2>2. CASE /\ CanLink(job[w].intent)
             /\ order' = [order EXCEPT !.status = "payment_requested", !.paymentRef = job[w].intent]
    BY <1>1, <2>2, OrderRequested DEF CanLink
  <2> QED BY <2>1, <2>2 DEF Link
<1>4. JobMove
  <2>1. [step |-> "attach", intent |-> job[w].intent] \in Job
    BY <1>1 DEF Job
  <2> QED BY <1>1, <1>2, <2>1, JobGoes
<1> QED BY <1>2, <1>3, <1>4, PaymentsKept DEF Move, IInv, TypeOK

LEMMA AttachMove ==
  ASSUME IInv, NEW w \in Workers, Attach(w)
  PROVE  Move
<1>1. job[w].intent \in Intents
  BY DEF Attach, At, IInv, Known
<1>2. UNCHANGED <<order, payTime, intent, charged, returned, message, crashes>> /\ End(w)
  BY DEF Attach, payments
<1>3. attached' \in Intents \cup {NoPayment} /\ payTime' \subseteq Intents
  BY <1>1, <1>2 DEF Attach, IInv, TypeOK
<1> QED BY <1>2, <1>3, OrderKept, PaymentsKept, JobEnds DEF Move, IInv, TypeOK

\* RequestPaymentCapture after its intent is opened.
LEMMA CaptureIntentMove ==
  ASSUME IInv, NEW w \in Workers, CaptureIntent(w)
  PROVE  Move
<1> DEFINE i == job[w].intent
<1>1. i \in Intents
  BY DEF CaptureIntent, At, IInv, Known
<1>2. UNCHANGED <<order, attached, payTime, returned, crashes>>
  BY DEF CaptureIntent
<1>3. [step |-> "captureSettle", intent |-> i] \in Job
  BY <1>1 DEF Job
<1>4. CASE Captured(i) /\ Goto(w, "captureSettle", i)
  <2>1. PaymentMove /\ charged \subseteq charged'
    BY <1>1, <1>2, <1>4, IntentCaptured
  <2>2. JobMove
    BY <1>1, <1>3, <1>4, <2>1, JobGoes
  <2> QED BY <1>2, <2>1, <2>2, OrderKept DEF Move, IInv, TypeOK
<1>5. CASE UNCHANGED <<intent, charged, message>> /\ (Goto(w, "captureSettle", i) \/ End(w))
  <2>1. JobMove
    <3>1. CASE Goto(w, "captureSettle", i)
      BY <1>1, <1>3, <1>5, <3>1, JobGoes
    <3>2. CASE End(w)
      BY <1>5, <3>2, JobEnds
    <3> QED BY <1>5, <3>1, <3>2
  <2> QED BY <1>2, <1>5, <2>1, OrderKept, PaymentsKept DEF Move, IInv, TypeOK
<1> QED BY <1>4, <1>5 DEF CaptureIntent

LEMMA CaptureSettleMove ==
  ASSUME IInv, NEW w \in Workers, CaptureSettle(w)
  PROVE  Move
<1>1. job[w].intent \in Intents
  BY DEF CaptureSettle, At, IInv, Known
<1>2. UNCHANGED <<attached, payTime, intent, charged, returned, message, crashes>> /\ End(w)
  BY DEF CaptureSettle, payments
<1>3. OrderMove
  <2>1. CASE order' = order
    BY <2>1, OrderKept
  <2>2. CASE order' # order
    BY <1>1, <2>2, OrderRequested DEF CaptureSettle
  <2> QED BY <2>1, <2>2
<1> QED BY <1>2, <1>3, PaymentsKept, JobEnds DEF Move, IInv, TypeOK

\* MarkOrderPaid by a worker: what was verified stays captured.
LEMMA MarkPaidMove ==
  ASSUME IInv, NEW w \in Workers, BeginMarkPaid(w) \/ MarkPaid(w)
  PROVE  Move
<1>1. CASE BeginMarkPaid(w)
  <2>1. PICK i \in Intents : Verified(i) /\ Goto(w, "complete", i)
    BY <1>1 DEF BeginMarkPaid
  <2>2. UNCHANGED <<order, attached, payTime, intent, charged, returned, message, crashes>>
    BY <1>1 DEF BeginMarkPaid, payments
  <2>3. i \in charged
    BY <2>1 DEF Verified, IInv, Known
  <2>4. [step |-> "complete", intent |-> i] \in Job
    BY DEF Job
  <2>5. JobMove
    BY <2>1, <2>2, <2>3, <2>4, JobGoes
  <2> QED BY <2>2, <2>5, OrderKept, PaymentsKept DEF Move, IInv, TypeOK
<1>2. CASE MarkPaid(w)
  <2>1. job[w].intent \in charged
    BY <1>2 DEF MarkPaid, At, IInv, Known
  <2>2. UNCHANGED <<attached, payTime, intent, charged, returned, message, crashes>> /\ End(w)
    BY <1>2 DEF MarkPaid, payments
  <2>3. OrderMove
    BY <1>2, <2>1, OrderCompleted DEF MarkPaid
  <2> QED BY <2>2, <2>3, PaymentsKept, JobEnds DEF Move, IInv, TypeOK
<1> QED BY <1>1, <1>2

\* The consumer of the captured event.
LEMMA ConsumeMove ==
  ASSUME IInv, NEW i \in Intents, Consume(i)
  PROVE  Move
<1>1. UNCHANGED <<attached, payTime, intent, charged, returned, job>>
  BY DEF Consume, ConsumeVerify, ConsumeApply, ConsumeFails
<1>2. JobMove /\ attached' \in Intents \cup {NoPayment} /\ payTime' \subseteq Intents
  BY <1>1, JobsKept DEF IInv, TypeOK
<1>3. /\ message \in [Intents -> Message] /\ crashes \in 0..MaxCrashes /\ MaxCrashes \in Nat
      /\ message[i] \in Message
  BY OrderPaymentAssumption DEF IInv, TypeOK
<1>4. CASE Throw(i) /\ UNCHANGED <<order, crashes>>
  <2>1. PaymentMove
    BY <1>1, <1>3, <1>4, AttemptInMessage, MessageMoves DEF Throw
  <2> QED BY <1>2, <1>3, <1>4, <2>1, OrderKept DEF Move
<1>5. CASE ConsumeVerify(i) /\ Verified(i)
  <2>1. i \in charged
    BY <1>5 DEF Verified, IInv, Known
  <2>2. message' = [message EXCEPT ![i] = [message[i] EXCEPT !.state = "verified"]]
    BY <1>5 DEF ConsumeVerify
  <2>3. /\ [message[i] EXCEPT !.state = "verified"] \in Message
        /\ [message[i] EXCEPT !.state = "verified"].state # "delivered"
    BY <1>3 DEF Message
  <2>4. PaymentMove
    BY <1>1, <2>1, <2>2, <2>3, MessageMoves
  <2> QED BY <1>2, <1>3, <1>5, <2>4, OrderKept DEF Move, ConsumeVerify
<1>6. CASE /\ message[i].state = "verified" /\ Succeed(i)
           /\ \/ CanComplete /\ order' = Completed(i)
              \/ ~CanComplete /\ AlreadyPaid /\ UNCHANGED order
  <2>1. i \in charged
    BY <1>6 DEF IInv, Known
  <2>2. OrderMove
    BY <1>6, <2>1, OrderCompleted
  <2>3. order'.status \in Done
    BY <1>6 DEF Completed, AlreadyPaid, Done, Paid
  <2>4. crashes' \in 0..MaxCrashes
    BY <1>3, <1>6 DEF Succeed, CountCrash
  <2>5. CASE message' = [message EXCEPT ![i] = [state |-> "delivered", attempts |-> 0]]
    <3>1. [state |-> "delivered", attempts |-> 0] \in Message
      BY OrderPaymentAssumption DEF Message
    <3>2. PaymentMove
      BY <1>1, <2>3, <2>5, <3>1, MessageMoves
    <3> QED BY <1>2, <2>2, <2>4, <3>2 DEF Move
  <2>6. CASE message' = [message EXCEPT ![i] = [message[i] EXCEPT !.state = "pending"]]
    <3>1. /\ [message[i] EXCEPT !.state = "pending"] \in Message
          /\ [message[i] EXCEPT !.state = "pending"].state = "pending"
      BY <1>3 DEF Message
    <3>2. PaymentMove
      BY <1>1, <2>6, <3>1, MessageMoves
    <3> QED BY <1>2, <2>2, <2>4, <3>2 DEF Move
  <2> QED BY <1>6, <2>5, <2>6 DEF Succeed
<1>7. CASE ConsumeVerify(i)
  BY <1>4, <1>5, <1>7 DEF ConsumeVerify
<1>8. CASE ConsumeApply(i)
  BY <1>4, <1>6, <1>8 DEF ConsumeApply
<1>9. CASE ConsumeFails(i)
  BY <1>4, <1>9 DEF ConsumeFails
<1> QED BY <1>7, <1>8, <1>9 DEF Consume

\* A job step that changes neither the order nor the payments.
LEMMA OnlyJobMove ==
  ASSUME IInv, JobMove, UNCHANGED <<order, attached, payTime, intent, charged, returned, message, crashes>>
  PROVE  Move
BY OrderKept, PaymentsKept DEF Move, IInv, TypeOK

\* Refunding the order.
LEMMA RefundMove ==
  ASSUME IInv, NEW w \in Workers,
         BeginRefund(w) \/ ReadIntentForRefund(w) \/ RefundMoney(w) \/ RefundOrder(w)
  PROVE  Move
<1> DEFINE i == job[w].intent
<1>1. i \in Intents \cup {NoPayment} /\ order.paymentRef \in Intents \cup {NoPayment}
  BY DEF IInv, TypeOK, Job, Order
<1>2. \A step \in {"refundIntent", "refundMoney", "refundOrder"}, k \in Intents \cup {NoPayment} :
         [step |-> step, intent |-> k] \in Job
  BY DEF Job
<1>3. ASSUME charged' = charged, NEW step \in {"refundIntent", "refundMoney", "refundOrder"},
             NEW k \in Intents \cup {NoPayment}, Goto(w, step, k)
      PROVE  JobMove
  BY <1>2, <1>3, JobGoes
<1>4. CASE BeginRefund(w)
  <2>1. UNCHANGED <<order, attached, payTime, intent, charged, returned, message, crashes>>
    BY <1>4 DEF BeginRefund, payments
  <2>2. Goto(w, "refundOrder", NoPayment) \/ Goto(w, "refundIntent", order.paymentRef)
    BY <1>4 DEF BeginRefund
  <2>3. JobMove
    BY <1>1, <1>3, <2>1, <2>2
  <2> QED BY <2>1, <2>3, OnlyJobMove
<1>5. CASE ReadIntentForRefund(w)
  <2>1. UNCHANGED <<order, attached, payTime, intent, charged, returned, message, crashes>>
    BY <1>5 DEF ReadIntentForRefund, payments
  <2>2. Goto(w, "refundOrder", i) \/ Goto(w, "refundMoney", i) \/ End(w)
    BY <1>5 DEF ReadIntentForRefund
  <2>3. JobMove
    <3>1. CASE End(w)
      BY <2>1, <3>1, JobEnds
    <3> QED BY <1>1, <1>3, <2>1, <2>2, <3>1
  <2> QED BY <2>1, <2>3, OnlyJobMove
<1>6. CASE RefundMoney(w)
  <2>1. UNCHANGED <<order, attached, payTime, charged, message, crashes>>
    BY <1>6 DEF RefundMoney
  <2>2. JobMove
    <3>1. CASE End(w)
      BY <2>1, <3>1, JobEnds
    <3>2. CASE Goto(w, "refundOrder", i)
      BY <1>1, <1>3, <2>1, <3>2
    <3> QED BY <1>6, <3>1, <3>2 DEF RefundMoney
  <2>3. CASE UNCHANGED <<intent, returned>>
    BY <2>1, <2>2, <2>3, OnlyJobMove
  <2>4. CASE /\ intent[i] = "captured" /\ intent' = [intent EXCEPT ![i] = "refunded"]
             /\ returned' = [returned EXCEPT ![i] = "order"]
    <3>1. returned' \in [Intents -> {"nobody", "order", "staff"}]
      BY <2>4 DEF IInv, TypeOK
    <3>2. CASE i \in Intents
      <4>1. i \in charged
        BY <2>4, <3>2 DEF IInv, Known
      <4>2. PaymentMove
        BY <2>1, <2>4, <3>1, <4>1, IntentMoves DEF Pay!Statuses
      <4> QED BY <2>1, <2>2, <4>2, OrderKept DEF Move, IInv, TypeOK
    <3>3. CASE i \notin Intents
      <4>1. intent' = intent
        BY <2>4, <3>3 DEF IInv, TypeOK
      <4>2. PaymentMove
        BY <2>1, <3>1, <4>1 DEF IInv, TypeOK, Known, PaymentMove
      <4> QED BY <2>1, <2>2, <4>2, OrderKept DEF Move, IInv, TypeOK
    <3> QED BY <3>2, <3>3
  <2> QED BY <1>6, <2>3, <2>4 DEF RefundMoney
<1>7. CASE RefundOrder(w)
  <2>1. UNCHANGED <<attached, payTime, intent, charged, returned, message, crashes>> /\ End(w)
    BY <1>7 DEF RefundOrder, payments
  <2>2. OrderMove
    BY <1>7, OrderRefunded DEF RefundOrder
  <2> QED BY <2>1, <2>2, PaymentsKept, JobEnds DEF Move, IInv, TypeOK
<1> QED BY <1>4, <1>5, <1>6, <1>7

\* Staff advance the order.
LEMMA AdvanceMove ==
  ASSUME IInv, NEW to \in AdvanceTargets, Advance(to)
  PROVE  Move
<1>1. to # "payment_received"
  BY OrderPaymentAssumption
<1>2. UNCHANGED <<attached, payTime, intent, charged, returned, message, crashes, job>>
  BY DEF Advance, payments
<1>3. OrderMove
  BY <1>1, OrderAdvanced DEF Advance
<1> QED BY <1>2, <1>3, PaymentsKept, JobsKept DEF Move, IInv, TypeOK

\* Cancelling the order, and the void that follows.
LEMMA CancelMove ==
  ASSUME IInv, NEW w \in Workers, Cancel(w) \/ ReadVoid(w) \/ Void(w)
  PROVE  Move
<1> DEFINE i == job[w].intent
<1>1. i \in Intents \cup {NoPayment} /\ order.paymentRef \in Intents \cup {NoPayment}
  BY DEF IInv, TypeOK, Job, Order
<1>2. \A step \in {"readVoid", "void"}, k \in Intents \cup {NoPayment} :
         [step |-> step, intent |-> k] \in Job
  BY DEF Job
<1>3. CASE Cancel(w)
  <2>1. UNCHANGED <<attached, payTime, intent, charged, returned, message, crashes>>
    BY <1>3 DEF Cancel, payments
  <2>2. OrderMove
    BY <1>3, OrderAdvanced DEF Cancel
  <2>3. JobMove
    <3>1. CASE End(w)
      BY <2>1, <3>1, JobEnds
    <3>2. CASE Goto(w, "readVoid", order.paymentRef)
      BY <1>1, <1>2, <2>1, <3>2, JobGoes
    <3> QED BY <1>3, <3>1, <3>2 DEF Cancel
  <2> QED BY <2>1, <2>2, <2>3, PaymentsKept DEF Move, IInv, TypeOK
<1>4. CASE ReadVoid(w)
  <2>1. UNCHANGED <<order, attached, payTime, intent, charged, returned, message, crashes>>
    BY <1>4 DEF ReadVoid, payments
  <2>2. JobMove
    <3>1. CASE End(w)
      BY <2>1, <3>1, JobEnds
    <3>2. CASE Goto(w, "void", i)
      BY <1>1, <1>2, <2>1, <3>2, JobGoes
    <3> QED BY <1>4, <3>1, <3>2 DEF ReadVoid
  <2> QED BY <2>1, <2>2, OnlyJobMove
<1>5. CASE Void(w)
  <2>1. UNCHANGED <<order, attached, payTime, charged, returned, message, crashes>> /\ End(w)
    BY <1>5 DEF Void
  <2>2. JobMove
    BY <2>1, JobEnds
  <2>3. CASE intent' = intent
    BY <2>1, <2>2, <2>3, OnlyJobMove
  <2>4. CASE intent' = [intent EXCEPT ![i] = "cancelled"]
    <3>1. returned' \in [Intents -> {"nobody", "order", "staff"}]
      BY <2>1 DEF IInv, TypeOK
    <3>2. PaymentMove
      BY <2>1, <2>4, <3>1, IntentMoves DEF Pay!Statuses
    <3> QED BY <2>1, <2>2, <3>2, OrderKept DEF Move, IInv, TypeOK
  <2> QED BY <1>5, <2>3, <2>4 DEF Void
<1> QED BY <1>3, <1>4, <1>5

\* What Payments does on its own.
LEMMA PaymentsMove ==
  ASSUME IInv, NEW i \in Intents,
         RequestCapture(i) \/ SettleCapture(i) \/ FailPayment(i) \/ StaffRefund(i)
  PROVE  Move
<1>1. UNCHANGED <<order, attached, payTime, job, crashes>>
  BY DEF RequestCapture, SettleCapture, FailPayment, StaffRefund
<1>2. OrderMove /\ attached' \in Intents \cup {NoPayment} /\ payTime' \subseteq Intents /\ crashes' \in 0..MaxCrashes
  BY <1>1, OrderKept DEF IInv, TypeOK
<1>3. SUFFICES PaymentMove /\ charged \subseteq charged'
  BY <1>1, <1>2, <1>3, JobsKept DEF Move
<1>4. returned \in [Intents -> {"nobody", "order", "staff"}]
  BY DEF IInv, TypeOK
<1>5. CASE RequestCapture(i)
  BY <1>4, <1>5, IntentMoves DEF RequestCapture, Pay!Statuses
<1>6. CASE SettleCapture(i)
  BY <1>6, IntentCaptured DEF SettleCapture
<1>7. CASE FailPayment(i)
  BY <1>4, <1>7, IntentMoves DEF FailPayment, Pay!Statuses
<1>8. CASE StaffRefund(i)
  <2>1. i \in charged /\ UNCHANGED <<charged, message>>
    BY <1>8 DEF StaffRefund, IInv, Known
  <2>2. returned' \in [Intents -> {"nobody", "order", "staff"}]
    BY <1>4, <1>8 DEF StaffRefund
  <2>3. CASE intent' = [intent EXCEPT ![i] = "refunded"]
    BY <2>1, <2>2, <2>3, IntentMoves DEF Pay!Statuses
  <2>4. CASE intent' = [intent EXCEPT ![i] = "partially_refunded"]
    BY <2>1, <2>2, <2>4, IntentMoves DEF Pay!Statuses
  <2> QED BY <1>8, <2>1, <2>3, <2>4 DEF StaffRefund
<1> QED BY <1>5, <1>6, <1>7, <1>8

LEMMA CrashMove ==
  ASSUME IInv, NEW w \in Workers, Crash(w)
  PROVE  Move
<1>1. UNCHANGED <<order, attached, payTime, intent, charged, returned, message>> /\ End(w)
  BY DEF Crash
<1>2. crashes' \in 0..MaxCrashes
  BY OrderPaymentAssumption DEF Crash, CountCrash, IInv, TypeOK
<1> QED BY <1>1, <1>2, OrderKept, PaymentsKept, JobEnds DEF Move, IInv, TypeOK

\* Every step of the specification moves order, payments and jobs as described.
LEMMA StepMoves ==
  ASSUME IInv, [Next]_vars
  PROVE  Move
<1>1. CASE UNCHANGED vars
  BY <1>1, OrderKept, PaymentsKept, JobsKept DEF vars, Move, IInv, TypeOK
<1>2. CASE \E w \in Shoppers : Initiate(w) \/ Link(w) \/ Attach(w)
  BY <1>2, OpenIntentMove, LinkMove, AttachMove DEF Initiate, Workers
<1>3. CASE \E w \in Staff :
             \/ RequestPaymentCapture(w) \/ CaptureIntent(w) \/ CaptureSettle(w)
             \/ BeginMarkPaid(w) \/ MarkPaid(w)
             \/ BeginRefund(w) \/ ReadIntentForRefund(w) \/ RefundMoney(w) \/ RefundOrder(w)
             \/ Cancel(w) \/ ReadVoid(w) \/ Void(w)
  BY <1>3, OpenIntentMove, CaptureIntentMove, CaptureSettleMove, MarkPaidMove, RefundMove, CancelMove
  DEF RequestPaymentCapture, Workers
<1>4. CASE \E w \in Workers : Crash(w)
  BY <1>4, CrashMove
<1>5. CASE \E i \in Intents :
             \/ Consume(i) \/ RequestCapture(i) \/ SettleCapture(i) \/ FailPayment(i) \/ StaffRefund(i)
  BY <1>5, ConsumeMove, PaymentsMove
<1>6. CASE \E to \in AdvanceTargets : Advance(to)
  BY <1>6, AdvanceMove
<1> QED BY <1>1, <1>2, <1>3, <1>4, <1>5, <1>6 DEF Next

-----------------------------------------------------------------------------
(* The invariant, and what follows from it. *)

LEMMA IInvInit == Init => IInv
<1> SUFFICES ASSUME Init PROVE IInv
  OBVIOUS
<1> USE DEF Init
<1>1. order \in Order /\ "created" \notin Paid
  BY DEF Order, OrderStatuses, Transitions, Paid
<1>2. intent \in [Intents -> Pay!Statuses]
  BY DEF Pay!Statuses
<1>3. [state |-> "none", attempts |-> 0] \in Message /\ Idle \in Job
  BY OrderPaymentAssumption DEF Message, Idle, Job
<1>4. TypeOK
  BY <1>1, <1>2, <1>3, OrderPaymentAssumption DEF TypeOK
<1>5. Known
  BY DEF Known, Idle
<1> QED BY <1>1, <1>4, <1>5 DEF IInv, PaidIsCaptured, AckedMeansPaid

LEMMA IInvStep == IInv /\ [Next]_vars => IInv'
<1> SUFFICES ASSUME IInv, [Next]_vars PROVE IInv'
  OBVIOUS
<1>1. Move
  BY StepMoves
<1>2. TypeOK'
  BY <1>1 DEF Move, OrderMove, PaymentMove, JobMove, TypeOK
<1>3. Known'
  BY <1>1 DEF Move, PaymentMove, JobMove, Known
<1>4. PaidIsCaptured'
  BY <1>1 DEF Move, OrderMove, PaymentMove, PaidIsCaptured
<1>5. AckedMeansPaid'
  BY <1>1 DEF Move, OrderMove, PaymentMove, AckedMeansPaid, IInv, Done
<1> QED BY <1>2, <1>3, <1>4, <1>5 DEF IInv

\* The order, its payments, the event's deliveries and the workers stay well
\* formed: in particular no event is delivered more often than its schedule
\* allows (consumer-runtime.ts, scheduleRetryOrDeadLetter).
THEOREM OrderPaymentTypeCorrect == Spec => []TypeOK
<1>1. IInv => TypeOK
  BY DEF IInv
<1> QED BY <1>1, IInvInit, IInvStep, PTL DEF Spec

\* An order whose status says it is paid names a captured payment, however many
\* intents were opened, links and verifications raced and processes died
\* (MarkOrderPaid, RecordCheckoutPayment, RequestPaymentCapture).
THEOREM PaidOrdersAreCaptured == Spec => []PaidIsCaptured
<1>1. IInv => PaidIsCaptured
  BY DEF IInv
<1> QED BY <1>1, IInvInit, IInvStep, PTL DEF Spec

\* A captured event is acknowledged only for an order that has been paid
\* (PaymentCapturedConsumer.handle).
THEOREM AcknowledgedEventsPaid == Spec => []AckedMeansPaid
<1>1. IInv => AckedMeansPaid
  BY DEF IInv
<1> QED BY <1>1, IInvInit, IInvStep, PTL DEF Spec

\* A paid order keeps its payment and leaves the paid statuses only by refund or
\* close (Order.completePayment, RecordCheckoutPayment, AdvanceOrder).
THEOREM PaymentStays == Spec => PaymentIsFinal
<1>1. ASSUME IInv, [Next]_vars
      PROVE  [order.status \in Paid =>
                /\ order'.status \in Paid \cup {"refunded", "closed"}
                /\ order'.paymentRef = order.paymentRef]_vars
  BY <1>1, StepMoves DEF Move, OrderMove, Done
<1> QED BY <1>1, IInvInit, IInvStep, PTL DEF Spec, PaymentIsFinal
=============================================================================
