# TLA+ verification of the Lumo commerce platform

The repository is a TypeScript monorepo for multi-tenant commerce: about forty bounded
contexts (`services/*`), the packages they share (`packages/*`) and the processes that run
them (`apps/*`). What can go wrong silently is concentrated in a few places: the **money of
a payment intent**, written by racing requests, webhooks and operators around calls to an
external provider; an **order and its payment**, kept in step by reads before a transaction
and events after it; the **stock** an order is promised; the **subscription billing** jobs
that charge stored cards; and **event delivery**, on which every context relies for the
effects of another's commits. These are modelled, checked and, for the most part, proved
here.

Contents: 1 inventory, 2 modules and code, 3 runs, 4 fairness, 5 proofs, 6 disagreements
found, 7 limits, 8 plan.

## 1. Inventory

| Component | State it keeps | Operations | Interacts through | What is hard | What makes it correct | Here |
|---|---|---|---|---|---|---|
| Payments aggregate (`services/payments/src/domain`) | intent: status, version, provider reference, authorized amount, charges, refunds, webhook receipts | transition, authorize, markCaptured, requestRefund, completeRefund, failRefund, recordWebhook, prepareDirectCapture; legacy capture, refund, fail | called inside use-case transactions | status and money change in different methods | one charge; refunds within it; status agrees with it | `PaymentDomain`, `Money`, `PaymentLedger` |
| Payments use cases and repository (`application`, `infrastructure`) | the row; processed-webhook store | create, advance, authorize, capture, refund, webhook, COD confirmation | provider calls, webhooks, operator, order cancellation | version conflicts, retries, a provider call between two transactions, crashes, redelivery | above, plus: money taken is recorded in the end, an event marked is handled | `PaymentLifecycle` |
| Outbox delivery without a broker (`packages/messaging`, `packages/db`, `apps/runtime`, `packages/redis`) | outbox rows, inbox, dead letters, the relay lock | append, fetchDue, markDelivered, defer, deliver, handleAtomic, deadLetter | polls Postgres; lock in Redis; calls consumers | lock expiry during a pass, crash between effect and mark, failing consumer, partial dead-lettering | no message lost, atomic effect at most once, every row settles | `OutboxDelivery` |
| Kafka transport (`packages/kafka`, `outbox-relay.ts`) | outbox rows, topics, committed offsets, inbox, dead letters | publish, mark, consume, retry, dead-letter, commit | broker; calls consumers | publish-then-mark, handle-then-commit, a retry topic shared by the groups, a record nobody can decode | the same promises, for what can be decoded | `KafkaTransport` |
| Orders (`services/orders`) | order status machine, payment reference, fulfilment reference | create from checkout, link payment, request capture, mark paid, refund, cancel with clean-up, request fulfilment | reads Payments before acting; voids payments and releases stock after commit; captured event | check-then-act across contexts, best-effort clean-up, retried event | paid means captured; an acknowledged event has paid; a paid order keeps its payment | `OrderDomain`, `OrderPayment`, `OrderPlacement` |
| Inventory (`services/inventory`) | stock of a product at a location with its reservations; warehouses | receive, adjust, reserve, release, commit, transfer, register, deactivate | called by Checkout's and Orders' adapters and by staff | racing reservations of the last unit, a location picked from stale levels, partial holds | reserved is what the reservations add up to and never above what is on hand | `Inventory`, `OrderPlacement` |
| Checkout (`services/checkout`, adapters in `apps/admin`) | sessions | complete, refresh discounts, edit, lock, expire, fail, initiate payment | Orders, Inventory, Payments, Coupons, each in transactions of their own | a double submit, an undo that may itself fail, an outer transaction around other contexts' commits | one order per session; a placed order's lines are held | `OrderPlacement`, `OrderPayment` |
| Coupons (`services/coupons`) | code: status, limit, ledger of redemptions | redeem, transition, reconfigure | redeemed by a completed checkout, by staff | a code applied to several carts runs out | used within its limits, no redemption lost | `Coupon`, `OrderPlacement` |
| Subscription billing (`services/licensing`, jobs in `apps/runtime`) | subscription, invoices, checkout sessions, Finance postings | renew (prepare, collect), enter dunning, retry, cancel, re-pin, hosted checkout and callback | PSP under an idempotency key; Finance; two scheduled jobs | a lost PSP answer, two collectors, dunning acting on a stale invoice, a crash between two transactions, a job's run overtaken by the next | one invoice per period, one charge per issue, one posting, grace ends on what a retry came to | `SubscriptionBilling` |
| Cart, Returns | lines; return lifecycle | edit; approve, refund | Checkout; refunds under `<returnId>:refund` | retried refund | one refund per return | its refund is the keyed refund of `PaymentLifecycle` |
| Purchase saga (`packages/temporal`, ADR-0012) | workflow history | steps and compensations | - | - | - | no worker runs it (`apps/runtime/src/worker.ts:109`) |
| Fulfillment, Shipping, Finance | status machines, ledgers | event-driven | events | ordering | - | not modelled |
| Promotions, loyalty; plans, entitlement, usage | counters and limits | evaluate, consume | Checkout | counters at their limit | never above the limit | not modelled |
| Identity, security, tenancy, auth | sessions, roles, tenants | - | HTTP | isolation | - | the models work inside one tenant |
| Catalog, content, search, analytics, tracking, automation, notifications, flags, HTTP, storage, UIs | CRUD aggregates, read models, I/O | - | events | - | - | not modelled |

`PROJECT.json` lists every component with its sources and, under `hazards`, the places
where this code is exposed to what tests hardly reach, each with the properties that would
notice.

## 2. Modules and code

```
Money <- MoneyProofs
Money <- PaymentDomain <- PaymentLifecycle <- MCPayment, PaymentProofs
Money <- PaymentLedger <--(refinement)--- PaymentLifecycle
PaymentProofs, MoneyProofs <- PaymentLedgerProofs
Money <- Inventory, Coupon, OrderDomain <- OrderPlacement <- MCOrderPlacement
OrderPlacement, MoneyProofs <- OrderPlacementProofs
OrderDomain (+ instance of PaymentDomain) <- OrderPayment <- MCOrderPayment, OrderPaymentProofs
OutboxDelivery <- MCOutboxDelivery, OutboxDeliveryProofs
KafkaTransport <- MCKafkaTransport, KafkaTransportProofs
SubscriptionBilling <- MCSubscriptionBilling, SubscriptionBillingProofs
```

One convention throughout: a process (a request thread, a job of the runtime, a consumer) has
a record that says where it is and what it has read. Each transaction that another step
may come between is a read step and a save step, and the save succeeds only if the version
that was read is still current. Use cases of one transaction whose outcome no other
code waits for are single steps: a conflict there changes nothing. A crash ends
the process's record and leaves what was committed.

**Money** sums amounts by counting units, without recursion, so that modules which use it
can be proved about.

**PaymentDomain** is the aggregate, as operators on an intent record: the status table
(`Targets`), `MarkCaptured`, `RequestRefund`, `CompleteRefund` and so on, each the state
change of the method of that name; the method's checks are the `Can...` operators, which
the use cases consult. A refund's id is its position in `refunds`, since rows are only
appended. `completions` counts the events that announced a refund's completion.

**PaymentLifecycle** runs the use cases. One intent, several callers (request threads of
API replicas), one provider. Each caller has a `job`; each transaction of a job is a read
(`Begin` or `Read`, into `snap`) and a decision that saves or returns. `Save` is the
repository's conditional update plus commit. `SaveOnce` is a use case that lets the
`ConcurrencyError` out, `SaveRetrying` one inside `withConcurrencyRetry`, which starts again
from a fresh read at most `MaxAttempts` times. Provider calls (`CallCreate`, `CallCapture`,
`CallRefund`) are steps of their own, outside any transaction, and may fail after having
taken effect. `RecordWebhook` follows the code's two paths: a *deferred* (captured) event
commits its receipt, then settles, then is marked; any other event holds the row lock while
`markProcessed` commits through a client of its own, and only then commits the receipt.
`psp` is what has really happened at the provider; it is written by the provider's steps
only, and no use case decides on it; it limits the inputs (an authorization is reported for
a payment the provider knows, cash is confirmed once it was collected). The provider model:
a capture is reported after it happened, other kinds before; a payment the provider reports
cancelled or expired is never captured; idempotency keys make a repeated capture or refund
call move money once. Best-effort calls to Orders and Notifications after a save change
nothing in Payments and are left out, as are currencies (one intent has one).

**PaymentLedger** is the abstract promise: one charge; each refund entered within what is
left, then settled once; nothing removed or altered. `PaymentLifecycle!LedgerSpec`
instantiates it with the charges and refunds of the committed row.

**OutboxDelivery** is one outbox table, the consumers with their inbox and dead letters,
and relay processes that run passes under a lock with a time-to-live. A pass fetches the
oldest due rows with their attempts *as of the fetch*, settles rows without a subscriber,
then takes row by row and consumer by consumer: inbox pre-check, handler, inbox record
(one step if atomic, two otherwise), and concludes the row: delivered, deferred to a later
round, or dead-lettered consumer by consumer and then delivered. Time is abstracted to
"waiting" or due. Consumers of a row are tried in any order, which includes the code's.
Handlers fail at will; queue and dead-letter writes fail (`PassFails`) and workers die
(`Crash`) up to a bound.

**KafkaTransport** is the other transport: the relay publishes the oldest pending rows, in
order, and marks them afterwards; each group has a consumer on the topic and one on its retry
topic. A consumer takes the record at its committed offset through the inbox, the handler and
the marker, or to the retry topic or the dead letters, and commits the offset last. The retry
topic is the topic's, so every group consumes every retry, and the main and the retry
consumer of a group may hold the same message at once. Decoding and the inbox lookup stand
before the handler's `try`: a record of `Undecodable` throws on every delivery and leaves the
consumer at its offset, and a lookup that fails (`LookupFails`, counted with the crashes) has the
record delivered again without counting an attempt. Partitions, rebalances and the wait before a
retry are not told apart: any consumer may be slow.

**OrderDomain** is the order's transition table. **Inventory** is the stock row: quantities,
reservations, and the save that asks for the version read and refuses two reservations of one
reference (the unique index). **Coupon** is the code's row with its ledger and limit.

**OrderPlacement** composes them. Workers run the use cases that span several transactions:
*complete a checkout* (work the discount out again, validate each line, create the order,
reserve line by line at the location that has most, undo on refusal, write the session,
redeem the code in a transaction of its own while the session's is open, commit), *request
fulfilment* (reserve again what is not held, then settle), *cancel an order* (commit, then
release each reservation, best effort). Staff operations on stock, warehouses, the code and
order statuses, and the session's other writes, are single steps. `givenBack` is a ghost: the
orders whose reservations something has begun to release or commit. `Unlocked` is Postgres'
row lock between the session's update and its commit. A session may have several lines of one
variant; `FirstLine` is the one whose quantity is reserved, since a reservation is looked for,
and a fulfilment scans, by variant.

**OrderPayment** is one order and the payment intents opened for it, across Checkout
(`InitiatePayment`: open, link, attach), Orders (request capture, mark paid after
verification, refund, cancel), the admin API's refund orchestration (which reads the order
twice) and the captured event with its redeliveries and dead letter. The intent follows
`PaymentDomain`'s status table. `payTime` holds the intents of providers that settle when the
shopper pays (Paymob, cash on delivery): only their captures put the event Orders subscribes to
in the outbox, and `captureLifecycle` refuses them; a card's capture is seen by Orders only when
staff mark the order paid.

**SubscriptionBilling** is one subscription over `MaxPeriods` periods: the renewal job and
staff renewals (prepare an invoice and move the subscription on, collect it, advance the
schedule), the dunning job (retry, recover, reschedule or exhaust), staff requests (renew,
collect, cancel, change plan), and the hosted checkout with its callback. Each job has several
instances: `Acquire` lets a run start when none is under way, and otherwise once those under way
have outlived the job's Redis lock, whose time-to-live is the interval and is never renewed. Such
an overlap is counted with the crashes; without that bound any number of runs could pile up. A
collection is three steps: read and key
`<invoiceId>:<version>:collect`, the PSP call (approve, decline, or throw, before or after
charging), the settlement. `charges` is what the PSP has really taken, by key, and `posted`
what Finance was told.

## 3. Runs

Deadlock checking is off because the systems really stop: a payment that is finished, or a
queue that is empty with its fault budget spent, has nothing more to do.

| Run | Instance | Shows |
|---|---|---|
| `refunds` | card or cash on delivery, and intents opened the legacy way; amount 2, authorized 3, refunds of 1 and 2, one key and none; two callers, one crash | `SingleCharge`, `StatusMatchesCharge`, `RefundsCovered`, `OneRefundPerKey`, `CompletionAnnouncedOnce`, and `LedgerSpec`: every step is a step of `PaymentLedger` |
| `webhooks` | card or pay-time wallet, the captured event and one that moves nothing, two callers, one crash, fair | `TypeOK`, `SingleCharge`, `ChargeIsReal`, `SettleableOnceCaptured`, `CaptureIsSettled` |
| `delivery` | two relays, an atomic and a plain consumer, two rows (one nobody consumes), one expiry, one fault, fair | `TypeOK`, `AtomicAtMostOnce`, `NothingLost`, `InboxMeansEffect`, `DeliveredIsFinal`, `EveryRowSettles` |
| `kafka` | a message and, behind it, one that cannot be decoded; an atomic and a plain group, one retry, one crash or failed lookup, fair | `TypeOK`, `NothingLost`, `AtomicAtMostOnce`, `EveryMessageSettles` |
| `placement` | one session with three lines (two of a variant that stops at zero, one of a variant that goes on selling), the last unit, two registered locations and one to register, two orders, two workers, a code of limit 1, one event | `TypeOK`, `StockSound`, `PromisedIsHeld`, `UsageWithinLimits`, `OnHandKept`, `SessionOrderFinal`, `RedemptionsKept` |
| `order_payment` | one order, two intents, each of a pay-time provider or a card, a shopper, staff, one crash, fair | `TypeOK`, `PaidIsCaptured`, `AckedMeansPaid`, `PaymentIsFinal`, `CaptureIsAnswered` |
| `billing` | one period, two instances of the dunning job, one member of staff, one request, two retries, one crash or overlapping run, fair | `TypeOK`, `OneInvoicePerPeriod`, `PaidIsCharged`, `OneChargePerIssue`, `PostedOnce`, `GraceEndsOnResult`, `GraceEnds` |
| `late_failure`, `marked_before_commit`, `refunded_without_money`, `charged_twice`, `failed_unchased` | smallest instance of each disagreement | a statement of the repository that the code does not keep (section 6) |

Bounds and why they suffice.

- *Two callers, two workers, two relays*: every race here is between one step that saves and
  one that read before it; a third actor adds no new pair.
- *`MaxAttempts` 2* (5 in the code) reaches both the retry and its exhaustion; `kafka` uses 1,
  which reaches the retry, the dead letter, and both consumers holding one message.
- *`MaxVersion`* stops new jobs once the intent's row is that old; it is chosen so that a whole
  life (create, pay, capture, two refunds) fits.
- *One crash* at any step: recovery starts from the committed state only. In `placement` the
  crash, a staff operation and an edit of the session share *`MaxEvents` 1*; the jobs, the
  cancellations and the orders' transitions are not counted.
- *Amounts 2 and 3, refunds 1 and 2* make a refund fit, exhaust and exceed what is left, with an
  authorized amount that differs from the intent's.
- *Two messages in `kafka`*, the second undecodable, batches of one: the first shows that what is
  ahead of a stuck consumer settles, the second that it stays under way itself. Messages that can
  be decoded meet only through the order of the topic and the batch, which the proof covers for
  any number of both kinds; two of them are beyond TLC within minutes.
- *One period and one request in `billing`*: a second period adds nothing to a period's own race;
  callbacks are not counted as requests. A crash and an overlapping run share *`MaxCrashes` 1*. The
  proof covers any number of periods, instances, requests, crashes and overlaps.
- *A code of limit 1 in `placement`* makes two submissions and a redemption at the desk race for its
  last use; a limit that is raised or lowered under way is covered by the proof.
- *Three lines in `placement`*: two lines of one variant and another variant reach a line whose
  variant is held already, a partial hold and its undo.
- `effects` in `OutboxDelivery` saturates at 2, "more than once".
- Callers, workers and orders are symmetric where only safety is checked; `LedgerSpec` is of the
  form `[Next]_v` and sound under symmetry.

Inputs are those the program accepts: refunds and authorizations are positive because the
admin routes and Returns validate that (`apps/admin/src/http/payments-routes.ts`); the only
production caller of `AdvancePayment` is the order-void adapter (`created` to `cancelled`).
`processing`, which `AuthorizePayment` needs, is reachable through `AdvancePayment` only, so
the card runs include it as a target; `closed` likewise, in `refunds`.

Each property of a passing run has a mutant in `PROJECT.json`: an operator (marked
`Mutant:` in the modules) with a plausible bug, under which TLC finds that property
violated.

## 4. Fairness

`PaymentLifecycle!FairSpec`: weak fairness of each caller's steps (a request that has
started runs on unless its process crashes); weak fairness of the provider reporting a
capture it made; strong fairness of delivering an event that is not marked, since the
provider redelivers until it gets a success answer, whatever else the replica is doing in
between. Nothing is assumed of the provider's *answers*: every call may fail.

`OutboxDelivery!FairSpec`: weak fairness of a pass's steps, of some idle relay taking a
free lock (the worker's timer), of the lock's expiry, and of `available_at` being reached.
`KafkaTransport!FairSpec`: the relay's timer (`Drain`) and each consumer's polling
(`Consume(c)`). In both, no handler is assumed ever to succeed: rows settle because attempts
are counted and end in a dead letter.

`OrderPayment!FairSpec`: weak fairness of the event's consumer only; shoppers and staff owe
nothing.

`SubscriptionBilling`: weak fairness of the two hourly jobs starting on some instance
(`\E p \in Renewers : BeginRenewal(p)`, `\E p \in Dunners : BeginRetry(p)`) and of a started call
going on (`Step(p)`). Nobody owes a request, a payment, a successful charge or an overlap.
`GraceEnds` holds because retries are counted.

Bounds on crashes make them finite; without that no system could promise an end.

## 5. Proofs

TLAPS checks every proof to the last leaf, for all values of the constants that satisfy the
named assumptions: `AmountAssumption` (amounts are positive), `NoValueAssumption`,
`LifecycleAssumption`, `DeliveryAssumption`, `KafkaAssumption`, `OrderPaymentAssumption`,
`BillingAssumption`, `CouponAssumption`, `PlacementAssumption`. Each says the types and bounds of the constants and no more.

**PaymentProofs.** `PaymentTypeCorrect` (`[]TypeOK`) and `ChargedOnce` (`[]SingleCharge`).
`SingleCharge` is not inductive: a caller may hold a stale snapshot and append a charge to
it. The invariant `IInv` says

- `Rows`: the committed row *and every snapshot* are `Sound`: at most one charge, and none
  unless the status is captured, partially_refunded, refunded or closed; jobs carry the
  inputs their steps rely on (a refund has a positive amount, a receipt has an event);
- `Checked`: an uncommitted receipt was validated against the very row it will be applied
  to, so that its late commit is a legal move;
- `Outside`: types of the provider's state.

The aggregate lemmas (`TransitionSound`, `CaptureSound`, `SettleRefundSound`, ...) show that
each method takes a sound row to a sound row under the guard its callers check; the
transaction lemmas (`GotoRows`, `SaveRows`, `SaveRetryingRows`, ...) lift that to a save, a
retry or a return; then one lemma per group of actions. The proof does not use the version
check: `SingleCharge` rests on the guards alone, since a charge is only ever put on a row
that has none. The version check is what `RefundsCovered`, `OneRefundPerKey` and
`LedgerSpec` need, in `PaymentLedgerProofs`.

**MoneyProofs.** What `Total` of `Money` is for nothing, and what it does when an amount is added
or removed: facts about cardinalities of sets of units, since induction over the summands is out
of reach.

**PaymentLedgerProofs.** `RefundsWithinCharge` (`[]RefundsCovered`), `ReservedOncePerKey`
(`[]OneRefundPerKey`), `AnnouncedOnce` (`[]CompletionAnnouncedOnce`), `StatusShowsCharge`
(`[]StatusMatchesCharge`), `ImplementsLedger` (the refinement `LedgerSpec`), `ChargesAreReal`
(`[]ChargeIsReal`) and `CapturedIsSettleable` (`[]SettleableOnceCaptured`). The invariant `BInv`
adds to `IInv`

- `Fresh`: what a caller has read is the committed row or an older version of it, and rows of
  one version are equal;
- `Locked`: a receipt between its update and its commit holds the row lock, so the row it read
  is the row there is;
- `Fits`: a job's inputs are its caller's, and the refund it settles is on the row;
- `InOrder`: on the committed row, refunds are within the charge, keys are not repeated and
  completions are announced as they are recorded.

So whatever is written is a `Move`, one method of the aggregate applied to the row as it is with
the guards the use case evaluated, and each property and the refinement are shown of one move
on one row. The refinement's mapping leaves out the rest of the row: what the ledger knows are
the charges and, per refund, its amount and its state.

The last two theorems relate the row to the provider: `Honoured` says that a charge on the row
or in a job's hands is one the provider made (`Real`), and that a payment the provider has made
finds an intent that can still record it (`Due`). Three of the theorems have hypotheses on the
constants, each a condition the code or an instance meets:

- `StatusShowsCharge`: nobody advances an intent to captured by hand (no route does);
- `ChargesAreReal`, `CapturedIsSettleable`: intents are opened through a provider, not as the
  legacy `requires_payment`, whose capture records a charge without asking one;
- `CapturedIsSettleable`: no failed, expired or cancelled event and no such advance. Section 6,
  2 is what happens otherwise; the theorem says there is no other way to lose a capture.

**OutboxDeliveryProofs.**

- `TypeCorrect` (`[]TypeOK`) needs `PassTyped`: a relay at work has a row, one running a
  handler has a consumer.
- `InboxSound` (`[]InboxMeansEffect`) and `AtomicOnce` (`[]AtomicAtMostOnce`) from
  `Recorded`: an atomic consumer's effect has its inbox record, an inbox record has its
  effect, and a plain consumer about to record has taken effect.
- `NothingIsLost` (`[]NothingLost`) from `Handled`: for the row a relay has in hand, every
  subscriber is still to do, failed, in hand, or settled (effect or dead letter); a row's
  other relays can only add to what is settled.
- `DeliveredStays` (the action property `DeliveredIsFinal`): every write of the queue is
  conditional on the row being pending.

**KafkaTransportProofs.** `KafkaTypeCorrect`, `NothingIsDropped` (`[]NothingLost`) and
`AtomicHandlersOnce` (`[]AtomicAtMostOnce`), for any number of messages, of which any may be
undecodable, groups and crashes. An undecodable message is not dropped either: it stays under way.
`IInv` adds to the types

- `Marks`: a marker has its effect, and an atomic effect has its marker and is one;
- `Published`: a message that is marked published, *or in the batch about to be*, is effected,
  dead-lettered or under way for every group;
- `Hold(c)`: a consumer that is done with its record has effected it, dead-lettered it, or put
  it on the retry topic behind that topic's offset.

`Grow` says that appending to a topic keeps what is under way; committing an offset passes on
exactly the message `Hold` speaks of; publishing needs that an increasing sequence over a batch
reaches every row of it (by cardinality).

**OrderPaymentProofs.** `OrderPaymentTypeCorrect`, `PaidOrdersAreCaptured`
(`[]PaidIsCaptured`), `AcknowledgedEventsPaid` (`[]AckedMeansPaid`) and `PaymentStays` (the
action property `PaymentIsFinal`). The strengthening `Known` says what each job has learnt
and that it is still true: a payment found captured stays captured or is refunded, a job past
its verification names the order's own payment. The lemmas go by variable (`OrderMove`,
`PaymentMove`, `JobMove`): how a step may change the order, an intent, or a job, and what that
keeps.

**SubscriptionBillingProofs.** `BillingTypeCorrect`, `OnePerPeriod`, `PaidForReal`,
`ChargedOncePerIssue`, `SettlementPostedOnce` and `GraceEndsRight` (the action property
`GraceEndsOnResult`), for any number of periods, instances of each job, staff, requests, crashes
and overlapping runs. The invariant is `Types`, `Books` (an invoice belongs to a period
the subscription has passed; a version is odd while the invoice is open to collection; every
key the PSP has seen names an invoice and a version it had), `Posting` (posted exactly if paid)
and a `Promise` for each process: what the call it is in the middle of may rely on. `Stable` is
the lemma that does the work: what one process's step may do to what another was promised. Since
two runs of the dunning job may hold one invoice, no promise says what its status *is*; it says
what the invoice has been through, which no other run can take back (`Chased`: it has failed, and
if it is paid, it was issued again before; versions only grow).
`ChargedOncePerIssue` counts keys by mapping an invoice's odd versions one-to-one into
`1..n`.

**OrderPlacementProofs.** `TypeCorrect`, `StockStaysSound` (`[]StockSound`), `CodeWithinLimits`
(`[]UsageWithinLimits`), `PromisesAreHeld` (`[]PromisedIsHeld`) and the action properties
`OnHandStays` (`OnHandKept`), `SessionStaysFinal` (`SessionOrderFinal`) and `RedemptionsStay`
(`RedemptionsKept`), for any number of workers, sessions, orders, variants and locations. None
of them is inductive: each depends on what a worker read some steps before it saves. The
invariant `Inv` has a part about the rows (`ItemOK`, `CouponOK`, ...) and a part about each job,
`Good(job)`:

- `StockRead`, `CouponRead`, `SessionRead`: what the job read is the row as it is or an older
  version (`Fresh`), and the guard the use case evaluated holds of what was read, so that a save
  which passes the version check is one the guard allows;
- `Reserving`: the lines the job has passed are held by its order, at the locations it looks at,
  if they are the first of their variant, or the order's stock has been given back.

`Evolves` says what *any* step may do to the rows (a version goes up by one; a new reservation's
id is the version it left behind; a reservation goes only with an order that is given back; only
an open session is written; redemptions stay). `Good` survives every such step whoever takes it,
and each action only shows that its writes are of that kind and that its own job goes on well
(`StepInv`, `JobStep`, `BesideStep`).

`PromisesAreHeld` has no hypothesis: sessions may have any lines. It is about the first line of
each variant, which is all the code holds; section 6 says where that falls short.

**Only model-checked:** the liveness properties `CaptureIsSettled`, `EveryRowSettles`,
`EveryMessageSettles`, `CaptureIsAnswered` and `GraceEnds`, since fairness is outside the
prover's reach. Every invariant, action property and refinement that a passing run checks is
also a theorem.

## 6. Where the code and what is said of it disagree

Each has a run in which TLC exhibits it; `PROJECT.json` quotes the lines.

1. `marked_before_commit`: `markProcessed` commits before the transaction whose work it
   marks; a crash in between leaves an event marked and its effect lost.
2. `late_failure`: a failed webhook of an earlier attempt moves `capture_requested` to
   `failed`, from which the capture that went through can no longer be recorded.
3. `refunded_without_money`: the admin API's refund reads the order twice; when the captured
   event lands in between, the order is recorded refunded and Payments was never asked.
4. `charged_twice`: a charge whose answer was lost is settled as failed; dunning re-issues the
   invoice and charges it again under a new key.
5. `failed_unchased`: a declined renewal that staff started, or whose job dies before
   `EnterDunning`, leaves its invoice failed for ever.

Because of 2, `SettleableOnceCaptured` and `CaptureIsSettled` are checked on an instance without
a failed event and without voids: they show that these are the only ways to lose a capture that
the instance contains.

Behaviours met while modelling that no property is about:

- a refund that settles late moves a closed intent (`payment-intent.ts:429`); a refund of zero
  passes the remaining check (`payment-intent.ts:392`); a captured webhook delivered after a
  refund is refused and redelivered (`payment-lifecycle.use-cases.ts:536`); `AdvancePayment` may
  move `capture_requested` to `captured` without a charge, though no route does;
- voiding a created intent does not stop a customer who is paying at a pay-time provider
  (`orders-payment-void.adapter.ts:52`); an intent opened by an `InitiatePayment` that dies is
  never linked;
- completing a checkout redeems the code before the session's transaction commits
  (`complete-checkout.use-case.ts:209`): a crash in between leaves the code used by an order
  nobody refers to, and the shopper's retry, which places another order, finds a one-use code
  taken. An order whose code ran out after the last look keeps its discount, by design;
- a reservation in flight when its order is cancelled is not released; a coupon lowered to a
  limit it has reached stays active for one more redemption;
- two lines of one variant: `Cart.addItem` and `Cart.merge` add to the line that is there
  (`cart.ts:75`, `:152`), `Cart.replaceItemVariant`, called by the admin API's cart route only,
  does not look for one (`cart.ts:124`). `requestReservation` decides per variant whether the
  order already has its reservation (`orders-inventory.adapter.ts:145-176`) and so skips the second
  line: the order is placed with less held than was ordered, though
  `checkout-stock-reservation.adapters.ts:23-24` says "what is held is exactly what was ordered".
  Hence `PromisedIsHeld` claims the first line of a variant only;
- a Kafka record that cannot be decoded (`consumer-runtime.ts:156`) throws before the `try`, so it
  is neither retried nor dead-lettered and holds up what is behind it, though
  `consumer-runtime.ts:58-59` says "a poison message can loop at most `maxAttempts` times, then
  rests in the DLQ". Hence `EveryMessageSettles` claims the messages ahead of it only;
- a card's capture raises no event that Orders subscribes to
  (`payment-lifecycle.use-cases.ts:536-540`; the comment at `payment-intent.ts:245-249` says so):
  its order is paid only when staff mark it. Hence `CaptureIsAnswered` is about pay-time providers;
- the dunning job's lock is not renewed (`scheduler.ts:381`), so a run can be overtaken. A run that
  has read the invoice as failed may then reschedule or exhaust while the other has re-issued it,
  or has had it paid: one failed charge counts as two attempts, and grace can end expired with the
  invoice paid, though `dunning.use-cases.ts:173-182` gives "the charge failed and the policy's
  `maxAttempts` is used up" as what exhausted means. Hence `GraceEndsOnResult` claims only that
  the invoice had failed, been issued again and that collection been answered;
- a crash between preparing and collecting a renewal leaves an issued invoice no job collects
  (`renewal.use-cases.ts:76`).

## 7. Limits

The map covers a small share of the repository's 260 thousand lines, and no model could cover
much more of it: most of them are user interfaces, message catalogues, routes, validation
schemas, CRUD over single rows, read models and wire formats, where there is no protocol to
check. What is modelled is the part in which several processes change shared state.

- One intent, one order, one subscription, one code, one tenant per model: rows of different
  owners share no state but the provider, and every query is tenant-scoped.
- Redis and Postgres are modelled by what the code uses of them (an atomic set-if-absent with a
  time-to-live; row locks, unique indexes and conditional updates at read committed). Signature
  checks, wire formats and credentials are I/O. What a handler *does* is its effect count only.
- `OrderPlacement`: the levels of one line are read in one step; locations that tie are picked
  nondeterministically; a session's lines and code are fixed; a conflict at the undo's cancel
  has the effect of `Crash`; automatic promotions' counters, and a code's end date, are left
  out; `RefuseDiscount` also stands for the edits that work the discount out again.
- `OrderPayment`: the order row's version is not modelled (its transactions are single steps);
  opening an intent is one step with the reads before it; orders placed the legacy way and
  intents created by staff are left out; a partial refund is only a status.
- `SubscriptionBilling`: the clock is abstracted (a period or a retry may be due at any time); a
  coupon only may bring the total to zero; operations without a route (activate, pause, void,
  drafts by hand) are left out; the PSP is assumed to charge a key once.

Not modelled, and why: the purchase saga (no worker runs it); Returns (a status machine whose
Inventory port is a stub, and whose refund is the keyed refund of `PaymentLifecycle`); Cart,
Fulfillment, Shipping, Finance, loyalty, plans and usage (single versioned rows, the pattern of
`Inventory` and `Coupon` with less at stake); the rest is listed in `PROJECT.json`.

## 8. Plan

Done: Payments, both transports, Orders with Payments, Orders with Inventory, Checkout and
Coupons, and subscription billing.

Proved: every safety property the passing runs check, and the refinement of `PaymentLedger`.

To add: an abstract event delivery that both transports refine, with the two refinement proofs
(`NothingLost` and `AtomicAtMostOnce` are what it would promise); a promotion's usage counter;
Returns once its ports are wired.
