---------------------------- MODULE OrderPayment ----------------------------
(***************************************************************************)
(* One order and the payment intents opened for it: Checkout opens a         *)
(* payment and tells Orders, staff request a capture, mark the order paid,   *)
(* refund it or cancel it, Payments captures and refunds, and the captured   *)
(* event makes its way to Orders' PaymentCapturedConsumer.  Only a provider  *)
(* that settles when the shopper pays (Paymob, cash on delivery) announces   *)
(* its captures to Orders; a card is captured on request, and its order is   *)
(* paid only when staff mark it so.                                          *)
(*                                                                           *)
(* Every use case here spans two contexts: it reads one side, and changes    *)
(* the other in a later transaction.  Workers run them; a transaction is one *)
(* step (a conflict on the order's version is retried, or ends the use case  *)
(* as Crash does).  PaymentLifecycle is the detailed model of what happens   *)
(* inside an intent; here an intent is its status.                           *)
(***************************************************************************)
EXTENDS OrderDomain, Naturals

CONSTANTS
  Intents,        \* payment intents, numbered in the order they are opened
  NoPayment,      \* no payment intent recorded
  Shoppers,       \* threads that run the storefront's requests
  Staff,          \* threads that run the back office's requests
  AdvanceTargets, \* statuses staff ask for, other than cancelled
  MaxAttempts,    \* deliveries of an event before it is dead-lettered
  MaxCrashes      \* bound on crashes

ASSUME OrderPaymentAssumption ==
  /\ Intents \subseteq Nat /\ NoPayment \notin Intents
  /\ AdvanceTargets \subseteq OrderStatuses \ {"cancelled", "paid", "payment_received"}
  /\ MaxAttempts \in Nat \ {0} /\ MaxCrashes \in Nat

Workers == Shoppers \cup Staff

\* The payment intents' own lifecycle.
Pay == INSTANCE PaymentDomain
         WITH Amount <- 1, AuthAmounts <- {}, RefundAmounts <- {}, Keys <- {},
              NoKey <- NoPayment, Refs <- {}, NoRef <- NoPayment, Events <- {}

VARIABLES
  order,     \* its status and paymentRef
  attached,  \* the paymentIntentRef of its checkout session
  payTime,   \* the intents whose provider settlesAtPayTime
  intent,    \* [Intents -> status of the payment intent]
  charged,   \* the intents that have been captured
  returned,  \* [Intents -> who asked for its full refund: nobody, order, staff]
  message,   \* [Intents -> the captured event on its way to Orders]
  job,       \* [Workers -> the step a use case is at, and its intent]
  crashes    \* how many crashes there were

vars == <<order, attached, payTime, intent, charged, returned, message, job, crashes>>

payments == <<payTime, intent, charged, returned, message, crashes>>

Order == [status: OrderStatuses, paymentRef: Intents \cup {NoPayment}]

Message == [state: {"none", "pending", "verified", "delivered", "dead"},
            attempts: 0..(MaxAttempts - 1)]

Job == [step: {"idle", "link", "attach", "capture", "captureSettle",
               "complete", "refundIntent", "refundMoney", "refundOrder", "readVoid", "void"},
        intent: Intents \cup {NoPayment}]

Idle == [step |-> "idle", intent |-> NoPayment]

\* The order of a completed checkout.
Init ==
  /\ order = [status |-> "created", paymentRef |-> NoPayment]
  /\ attached = NoPayment
  /\ payTime = {}
  /\ intent = [i \in Intents |-> "none"]
  /\ charged = {}
  /\ returned = [i \in Intents |-> "nobody"]
  /\ message = [i \in Intents |-> [state |-> "none", attempts |-> 0]]
  /\ job = [w \in Workers |-> Idle]
  /\ crashes = 0

-----------------------------------------------------------------------------
(* Jobs. *)

Goto(w, step, i) == job' = [job EXCEPT ![w] = [step |-> step, intent |-> i]]

End(w) == job' = [job EXCEPT ![w] = Idle]

At(w, step) == job[w].step = step

CountCrash == crashes < MaxCrashes /\ crashes' = crashes + 1

\* A process dies, or the call it is making fails.
Crash(w) ==
  /\ job[w] # Idle
  /\ End(w) /\ CountCrash
  /\ UNCHANGED <<order, attached, payTime, intent, charged, returned, message>>

-----------------------------------------------------------------------------
(* InitiatePayment: read the session, open an intent, link it to the order   *)
(* (best effort), attach it to the session.                                  *)

\* createIntentLifecycle with a generated id, for the provider the shopper chose;
\* an intent the provider refuses is cancelled.
OpenIntent(w, step) ==
  /\ \E i \in Intents :
       /\ intent[i] = "none" /\ \A k \in Intents : k < i => intent[k] # "none"
       /\ payTime' \in {payTime, payTime \cup {i}}
       /\ \/ intent' = [intent EXCEPT ![i] = "created"] /\ Goto(w, step, i)
          \/ intent' = [intent EXCEPT ![i] = "cancelled"] /\ End(w)
  /\ UNCHANGED <<order, attached, charged, returned, message, crashes>>

\* The session's reference and the order's status are read, and the intent opened:
\* a new intent concerns nobody else, so the two are one step.
Initiate(w) ==
  /\ job[w] = Idle
  /\ attached = NoPayment
  /\ OpenIntent(w, "link")

\* Mutant: the order is linked whatever its status.
CanLinkAny(i) == order.paymentRef # i

CanLink(i) == order.paymentRef = NoPayment /\ order.status = "created"

\* RecordCheckoutPayment: created to payment_requested in one save.  Refused or
\* failed, the shopper's payment goes on.
Link(w) ==
  /\ At(w, "link")
  /\ \/ /\ CanLink(job[w].intent)
        /\ order' = [order EXCEPT !.status = "payment_requested", !.paymentRef = job[w].intent]
     \/ UNCHANGED order
  /\ Goto(w, "attach", job[w].intent)
  /\ UNCHANGED <<attached, payments>>

Attach(w) ==
  /\ At(w, "attach")
  /\ attached' = IF attached = NoPayment THEN job[w].intent ELSE attached
  /\ End(w)
  /\ UNCHANGED <<order, payments>>

-----------------------------------------------------------------------------
(* RequestPaymentCapture: precheck, create and capture an intent, settle.    *)

RequestPaymentCapture(w) ==
  /\ job[w] = Idle
  /\ order.paymentRef = NoPayment /\ CanTransition(order.status, "payment_requested")
  /\ OpenIntent(w, "capture")

\* Mutant: only the lifecycle's own event is raised, to which nothing subscribes.
CapturedSilently(i) ==
  /\ intent' = [intent EXCEPT ![i] = "captured"]
  /\ charged' = charged \cup {i}
  /\ UNCHANGED message

\* settle, with markCaptured: the intent becomes captured.  The event Orders
\* subscribes to is in the outbox of the same transaction, if the provider settles
\* at pay time.
Captured(i) ==
  /\ intent' = [intent EXCEPT ![i] = "captured"]
  /\ charged' = charged \cup {i}
  /\ message' = IF i \in payTime THEN [message EXCEPT ![i].state = "pending"] ELSE message

\* captureLifecycle: answers captured if it is, and refuses a provider that settles
\* at pay time; a requested capture is resumed, any other intent refused.
CaptureIntent(w) ==
  LET i == job[w].intent IN
  /\ At(w, "capture")
  /\ \/ /\ intent[i] = "captured"
        /\ Goto(w, "captureSettle", i) /\ UNCHANGED <<intent, charged, message>>
     \/ /\ intent[i] = "capture_requested" /\ i \notin payTime
        /\ Captured(i) /\ Goto(w, "captureSettle", i)
     \/ /\ intent[i] # "captured" /\ (intent[i] = "capture_requested" => i \in payTime)
        /\ End(w) /\ UNCHANGED <<intent, charged, message>>
  /\ UNCHANGED <<order, attached, payTime, returned, crashes>>

CaptureSettle(w) ==
  /\ At(w, "captureSettle")
  /\ order' = IF order.paymentRef = NoPayment /\ CanTransition(order.status, "payment_requested")
                THEN [order EXCEPT !.status = "payment_requested", !.paymentRef = job[w].intent]
                ELSE order
  /\ End(w)
  /\ UNCHANGED <<attached, payments>>

-----------------------------------------------------------------------------
(* MarkOrderPaid: the payment is verified first, then the order's            *)
(* transaction completes the payment.                                        *)

\* Mutant: any intent of the order will do.
VerifiedAny(i) == intent[i] # "none"

\* PrismaPaymentVerificationAdapter.hasCapturedPayment
Verified(i) == intent[i] = "captured"

CanComplete == CanTransition(order.status, "payment_received")

\* Order.completePayment
Completed(i) == [status |-> "payment_received", paymentRef |-> i]

BeginMarkPaid(w) ==
  /\ job[w] = Idle
  /\ \E i \in Intents : Verified(i) /\ Goto(w, "complete", i)
  /\ UNCHANGED <<order, attached, payments>>

MarkPaid(w) ==
  /\ At(w, "complete")
  /\ order' = IF CanComplete THEN Completed(job[w].intent) ELSE order
  /\ End(w)
  /\ UNCHANGED <<attached, payments>>

-----------------------------------------------------------------------------
(* PaymentCapturedConsumer: MarkOrderPaid once per delivery of the event.    *)

\* Mutant: a delivery after the last one.
AttemptLate(m) ==
  IF m.attempts = MaxAttempts THEN [state |-> "dead", attempts |-> 0]
  ELSE [state |-> "pending", attempts |-> m.attempts + 1]

\* A delivery throws: it is retried, and dead-lettered when the schedule is exhausted.
Attempt(m) ==
  IF m.attempts + 1 = MaxAttempts THEN [state |-> "dead", attempts |-> 0]
  ELSE [state |-> "pending", attempts |-> m.attempts + 1]

Throw(i) == message' = [message EXCEPT ![i] = Attempt(message[i])]

\* Mutant: a cancelled order is taken for one that needs nothing more.
AlreadyPaidOrCancelled == order.status \in {"payment_received", "cancelled"}

\* The error a duplicate delivery meets, which the consumer takes for success.
AlreadyPaid == order.status = "payment_received"

ConsumeVerify(i) ==
  /\ message[i].state = "pending"
  /\ IF Verified(i) THEN message' = [message EXCEPT ![i].state = "verified"] ELSE Throw(i)
  /\ UNCHANGED <<order, attached, payTime, intent, charged, returned, job, crashes>>

\* The handler has succeeded: the inbox row and the offset follow, unless the
\* consumer dies first and the event is delivered again.
Succeed(i) ==
  \/ /\ message' = [message EXCEPT ![i] = [state |-> "delivered", attempts |-> 0]]
     /\ UNCHANGED crashes
  \/ /\ message' = [message EXCEPT ![i].state = "pending"]
     /\ CountCrash

ConsumeApply(i) ==
  /\ message[i].state = "verified"
  /\ \/ CanComplete /\ order' = Completed(i) /\ Succeed(i)
     \/ ~CanComplete /\ AlreadyPaid /\ Succeed(i) /\ UNCHANGED order
     \/ ~CanComplete /\ ~AlreadyPaid /\ Throw(i) /\ UNCHANGED <<order, crashes>>
  /\ UNCHANGED <<attached, payTime, intent, charged, returned, job>>

\* The delivery fails for another reason: a conflict on the order, no database.
ConsumeFails(i) ==
  /\ message[i].state = "verified"
  /\ Throw(i)
  /\ UNCHANGED <<order, attached, payTime, intent, charged, returned, job, crashes>>

-----------------------------------------------------------------------------
(* Refunding the order through Payments.                                     *)

Refundable(status) ==
  status \in {"payment_received", "ready_for_fulfillment", "fulfillment_requested",
              "partially_fulfilled", "fulfilled", "delivered", "returned"}

\* An order the policy refuses goes to Orders directly; one that names no payment
\* has nothing to refund.
BeginRefund(w) ==
  /\ job[w] = Idle
  /\ \/ /\ ~Refundable(order.status)
        /\ Goto(w, "refundOrder", NoPayment)
     \/ /\ Refundable(order.status) /\ order.paymentRef # NoPayment
        /\ Goto(w, "refundIntent", order.paymentRef)
  /\ UNCHANGED <<order, attached, payments>>

ReadIntentForRefund(w) ==
  LET i == job[w].intent IN
  /\ At(w, "refundIntent")
  /\ \/ intent[i] = "refunded" /\ Goto(w, "refundOrder", i)
     \/ intent[i] = "captured" /\ Goto(w, "refundMoney", i)
     \/ intent[i] \notin {"refunded", "captured"} /\ End(w)
  /\ UNCHANGED <<order, attached, payments>>

\* refundLifecycle of the whole amount, under the order's own key: a repeat is
\* answered with the refund it made, any other refund leaves too little.
RefundMoney(w) ==
  LET i == job[w].intent IN
  /\ At(w, "refundMoney")
  /\ \/ /\ intent[i] = "captured"
        /\ intent' = [intent EXCEPT ![i] = "refunded"]
        /\ returned' = [returned EXCEPT ![i] = "order"]
        /\ Goto(w, "refundOrder", i)
     \/ /\ intent[i] # "captured"
        /\ IF returned[i] = "order" THEN Goto(w, "refundOrder", i) ELSE End(w)
        /\ UNCHANGED <<intent, returned>>
  /\ UNCHANGED <<order, attached, payTime, charged, message, crashes>>

\* RefundOrder
RefundOrder(w) ==
  /\ At(w, "refundOrder")
  /\ order' = IF Refundable(order.status) THEN [order EXCEPT !.status = "refunded"] ELSE order
  /\ End(w)
  /\ UNCHANGED <<attached, payments>>

-----------------------------------------------------------------------------
(* AdvanceOrder, and the void that follows a cancellation.                   *)

Advance(to) ==
  /\ to # "cancelled" /\ CanTransition(order.status, to)
  /\ order' = [order EXCEPT !.status = to]
  /\ UNCHANGED <<attached, payments, job>>

Cancel(w) ==
  /\ job[w] = Idle
  /\ CanTransition(order.status, "cancelled")
  /\ order' = [order EXCEPT !.status = "cancelled"]
  /\ IF order.paymentRef = NoPayment THEN End(w) ELSE Goto(w, "readVoid", order.paymentRef)
  /\ UNCHANGED <<attached, payments>>

\* OrdersPaymentVoidAdapter: only an intent read as created is cancelled.
ReadVoid(w) ==
  /\ At(w, "readVoid")
  /\ IF intent[job[w].intent] = "created" THEN Goto(w, "void", job[w].intent) ELSE End(w)
  /\ UNCHANGED <<order, attached, payments>>

Void(w) ==
  LET i == job[w].intent IN
  /\ At(w, "void")
  /\ intent' = IF Pay!CanTransition(intent[i], "cancelled")
                 THEN [intent EXCEPT ![i] = "cancelled"] ELSE intent
  /\ End(w)
  /\ UNCHANGED <<order, attached, payTime, charged, returned, message, crashes>>

-----------------------------------------------------------------------------
(* What Payments does on its own: webhooks, collections and refunds.         *)

\* At pay time: the webhook's, or the operator's, prepareDirectCapture.  On
\* request: the authorization and the reservation of the capture.
RequestCapture(i) ==
  /\ Pay!CanTransition(Pay!WalkToAuthorized(intent[i]), "capture_requested")
  /\ intent' = [intent EXCEPT ![i] = "capture_requested"]
  /\ UNCHANGED <<order, attached, payTime, charged, returned, message, job, crashes>>

SettleCapture(i) ==
  /\ intent[i] = "capture_requested"
  /\ Captured(i)
  /\ UNCHANGED <<order, attached, payTime, returned, job, crashes>>

FailPayment(i) ==
  /\ Pay!CanTransition(intent[i], "failed")
  /\ intent' = [intent EXCEPT ![i] = "failed"]
  /\ UNCHANGED <<order, attached, payTime, charged, returned, message, job, crashes>>

\* A refund asked for on the payment's own screen, whole or in part.
StaffRefund(i) ==
  /\ \/ /\ intent[i] \in {"captured", "partially_refunded"}
        /\ intent' = [intent EXCEPT ![i] = "refunded"]
        /\ returned' = [returned EXCEPT ![i] = "staff"]
     \/ /\ intent[i] = "captured"
        /\ intent' = [intent EXCEPT ![i] = "partially_refunded"]
        /\ UNCHANGED returned
  /\ UNCHANGED <<order, attached, payTime, charged, message, job, crashes>>

-----------------------------------------------------------------------------
Consume(i) == ConsumeVerify(i) \/ ConsumeApply(i) \/ ConsumeFails(i)

Next ==
  \/ \E w \in Shoppers : Initiate(w) \/ Link(w) \/ Attach(w)
  \/ \E w \in Staff :
       \/ RequestPaymentCapture(w) \/ CaptureIntent(w) \/ CaptureSettle(w)
       \/ BeginMarkPaid(w) \/ MarkPaid(w)
       \/ BeginRefund(w) \/ ReadIntentForRefund(w) \/ RefundMoney(w) \/ RefundOrder(w)
       \/ Cancel(w) \/ ReadVoid(w) \/ Void(w)
  \/ \E w \in Workers : Crash(w)
  \/ \E i \in Intents :
       \/ Consume(i) \/ RequestCapture(i) \/ SettleCapture(i) \/ FailPayment(i) \/ StaffRefund(i)
  \/ \E to \in AdvanceTargets : Advance(to)

Spec == Init /\ [][Next]_vars

\* The consumer keeps running: a pending event is delivered, and a delivery goes on.
FairSpec == Spec /\ \A i \in Intents : WF_vars(Consume(i))

-----------------------------------------------------------------------------
(* Properties. *)

\* Statuses that say the payment has been received.
Paid ==
  {"payment_received", "ready_for_fulfillment", "fulfillment_requested", "partially_fulfilled", "fulfilled",
   "delivered", "return_requested", "returned", "refund_requested"}

\* Every variable has its type; an event is never delivered more often than the
\* retry schedule allows.
TypeOK ==
  /\ order \in Order
  /\ attached \in Intents \cup {NoPayment}
  /\ payTime \subseteq Intents
  /\ intent \in [Intents -> Pay!Statuses]
  /\ charged \subseteq Intents
  /\ returned \in [Intents -> {"nobody", "order", "staff"}]
  /\ message \in [Intents -> Message]
  /\ job \in [Workers -> Job]
  /\ crashes \in 0..MaxCrashes

\* An order whose status says it is paid has been paid: the payment it names has
\* been captured.
\* The verification and the transaction it guards are separate steps, and the
\* reference is written by three use cases (mark-order-paid.use-case.ts,
\* record-checkout-payment.use-case.ts, order-lifecycle.use-cases.ts).
PaidIsCaptured ==
  order.status \in Paid => order.paymentRef \in charged

\* A captured event is acknowledged only for an order that has been paid: one that
\* meets a cancelled order, or one not yet ready for it, is retried and
\* dead-lettered, never swallowed (payment-captured.consumer.ts).
AckedMeansPaid ==
  \A i \in Intents :
    message[i].state = "delivered" => order.status \in Paid \cup {"refunded", "closed"}

\* An order that has been paid stays paid or is refunded or closed, and keeps the
\* payment it names, whatever links, captures and cancellations are under way.
PaymentIsFinal ==
  [][order.status \in Paid =>
       /\ order'.status \in Paid \cup {"refunded", "closed"}
       /\ order'.paymentRef = order.paymentRef]_vars

\* A capture at pay time is always answered: the order becomes paid or the event is
\* dead-lettered for an operator, whatever fails or crashes on the way.  Of a card's
\* capture Orders is not told at all (payment-intent.ts markCaptured).
CaptureIsAnswered ==
  \A i \in Intents :
    i \in charged \cap payTime ~>
      order.status \in Paid \cup {"refunded", "closed"} \/ message[i].state = "dead"

\* What orders.admin-controller.ts says of a refund: only one that succeeded at
\* Payments is recorded on the order.
RefundedMeansReturned ==
  order.status = "refunded" => intent[order.paymentRef] = "refunded"
=============================================================================
