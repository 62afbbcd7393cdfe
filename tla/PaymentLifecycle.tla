-------------------------- MODULE PaymentLifecycle --------------------------
(***************************************************************************)
(* One payment intent, the callers that run the payment use cases on it     *)
(* concurrently, and the payment provider they call.                        *)
(*                                                                          *)
(* A use case is a job that a caller takes through its steps.  Each of its   *)
(* transactions reads the row (`snap`), decides on what it read, and saves   *)
(* under the row's version: a save whose version is no longer current is a   *)
(* ConcurrencyError, retried from a fresh read where the code retries.       *)
(* Provider calls happen outside any transaction.  A caller may crash        *)
(* between any two steps, losing its job and its open transaction.           *)
(***************************************************************************)
EXTENDS PaymentDomain

CONSTANTS
  Callers,           \* threads of the API replicas that run use cases
  NoCaller,          \* nobody holds the row lock
  NoEvent,           \* the job is not about a webhook event
  KindOf,            \* [Events -> kind of the event]
  ProviderRef,       \* the reference the provider answers createIntent with
  Capabilities,      \* what the provider of the intent may be able to do
  AdvanceTargets,    \* statuses callers of AdvancePayment ask for
  Openings,          \* statuses an intent may open in: created, requires_payment
  MaxAttempts,       \* MAX_CONCURRENCY_RETRIES (5 in the code)
  MaxVersion,        \* bound: no new job starts once the row is this old
  MaxCrashes         \* bound on crashes

ASSUME LifecycleAssumption ==
  /\ NoCaller \notin Callers /\ NoEvent \notin Events
  /\ ProviderRef \in Refs
  /\ KindOf \in [Events -> Statuses \cup {"other"}]
  /\ Capabilities \subseteq [settlesAtPayTime: BOOLEAN, deliversWebhooks: BOOLEAN]
  /\ AdvanceTargets \subseteq Statuses \ {"none"}
  /\ Openings \subseteq {"created", "requires_payment"}
  /\ MaxAttempts \in Nat \ {0} /\ MaxVersion \in Nat /\ MaxCrashes \in Nat

VARIABLES
  intent,     \* the committed row
  job,        \* [Callers -> Job]: the step each caller is about to make
  snap,       \* [Callers -> Intent]: what its open transaction read
  rowLock,    \* the caller whose uncommitted update locks the row
  psp,        \* what has happened at the provider
  emitted,    \* webhook events the provider has sent at least once
  processed,  \* events marked in the processed-webhook store
  crashes     \* how many callers have crashed

vars == <<intent, job, snap, rowLock, psp, emitted, processed, crashes>>

external == <<psp, emitted, processed, crashes>>

\* NoIntent doubles as "no transaction open": no job reads a row that is absent.
NoSnap == NoIntent

Steps ==
  {"idle", "callCreate", "recordReference", "cancelCreate", "advance",
   "authorize", "reserveCapture", "callCapture", "settle", "markSettled",
   "reserveRefund", "callRefund", "settleRefund", "receipt", "mark", "commit",
   "collect", "legacyCapture", "legacyFail", "legacyRefund"}

Job == [step: Steps, to: Statuses, ref: Refs \cup {NoRef}, amount: Nat,
        key: Keys \cup {NoKey}, event: Events \cup {NoEvent}, refund: Nat,
        ok: BOOLEAN, tries: Nat]

Idle == [step |-> "idle", to |-> "none", ref |-> NoRef, amount |-> 0,
         key |-> NoKey, event |-> NoEvent, refund |-> 0, ok |-> FALSE,
         tries |-> 0]

Psp == [can: Capabilities, created: BOOLEAN, captured: BOOLEAN, voided: BOOLEAN,
        refunded: SUBSET Nat]

\* The money moves when the customer pays; the provider calls back.
SettlesAtPayTime == psp.can.settlesAtPayTime

DeliversWebhooks == psp.can.deliversWebhooks

Init ==
  /\ intent = NoIntent
  /\ job = [p \in Callers |-> Idle]
  /\ snap = [p \in Callers |-> NoSnap]
  /\ rowLock = NoCaller
  /\ psp \in [can: Capabilities, created: {FALSE}, captured: {FALSE}, voided: {FALSE},
              refunded: {{}}]
  /\ emitted = {} /\ processed = {} /\ crashes = 0

-----------------------------------------------------------------------------
(* Transactions. *)

\* A job starts by opening its first transaction and reading the row.
Begin(p, j) ==
  /\ job[p] = Idle
  /\ intent.version \in 1..(MaxVersion - 1)
  /\ job' = [job EXCEPT ![p] = j]
  /\ snap' = [snap EXCEPT ![p] = intent]
  /\ UNCHANGED <<intent, rowLock, external>>

\* The caller is at this step, inside a transaction that has read the row.
In(p, step) == job[p].step = step /\ snap[p] # NoSnap

\* The transaction, if any, is over and the job goes on (or ends).
Goto(p, j) ==
  /\ job' = [job EXCEPT ![p] = j]
  /\ snap' = [snap EXCEPT ![p] = NoSnap]

Return(p) == Goto(p, Idle) /\ UNCHANGED <<intent, rowLock>>

Continue(p, step) ==
  /\ Goto(p, [job[p] EXCEPT !.step = step, !.tries = 0])
  /\ UNCHANGED <<intent, rowLock>>

Current(p) == snap[p].version = intent.version

\* PrismaPaymentIntentRepository.save, followed by the commit: the update is
\* conditional on the version that was read, and waits for a row lock.
Save(p, new, j) ==
  /\ rowLock = NoCaller /\ Current(p)
  /\ intent' = [new EXCEPT !.version = @ + 1]
  /\ Goto(p, j)
  /\ UNCHANGED rowLock

\* A use case without a retry lets the ConcurrencyError out.
SaveOnce(p, new, j) ==
  \/ Save(p, new, j)
  \/ rowLock = NoCaller /\ ~Current(p) /\ Return(p)

\* withConcurrencyRetry: the whole attempt again, from a fresh read.
SaveRetrying(p, new, j) ==
  \/ Save(p, new, j)
  \/ /\ rowLock = NoCaller /\ ~Current(p)
     /\ job[p].tries + 1 < MaxAttempts
     /\ Goto(p, [job[p] EXCEPT !.tries = @ + 1])
     /\ UNCHANGED <<intent, rowLock>>
  \/ /\ rowLock = NoCaller /\ ~Current(p)
     /\ job[p].tries + 1 >= MaxAttempts
     /\ Return(p)

\* A later transaction of a job (or a retry) reads the row.
Read(p) ==
  /\ job[p].step \in {"recordReference", "cancelCreate", "reserveCapture", "settle",
                      "reserveRefund", "settleRefund"}
  /\ snap[p] = NoSnap
  /\ snap' = [snap EXCEPT ![p] = intent]
  /\ UNCHANGED <<intent, job, rowLock, external>>

-----------------------------------------------------------------------------
(* CreatePaymentIntentLifecycle and CreatePaymentIntent. *)

CreateIntent(p) ==
  /\ "created" \in Openings /\ intent.version = 0 /\ job[p] = Idle
  /\ intent' = [NoIntent EXCEPT !.version = 1, !.status = "created"]
  /\ Goto(p, [Idle EXCEPT !.step = "callCreate"])
  /\ UNCHANGED <<rowLock, external>>

\* provider.createIntent: it answers with its reference, or fails - possibly
\* after having created its side.
CallCreate(p) ==
  /\ job[p].step = "callCreate"
  /\ \/ /\ psp' = [psp EXCEPT !.created = TRUE]
        /\ Continue(p, "recordReference")
     \/ /\ psp' \in {psp, [psp EXCEPT !.created = TRUE]}
        /\ Continue(p, "cancelCreate")
  /\ UNCHANGED <<emitted, processed, crashes>>

RecordReference(p) ==
  /\ In(p, "recordReference")
  /\ IF CanRecordProviderIntent(snap[p], ProviderRef)
       THEN SaveRetrying(p, RecordProviderIntent(snap[p], ProviderRef), Idle)
       ELSE Return(p)
  /\ UNCHANGED external

\* settleFailure: only an intent that is still created is cancelled.
CancelCreate(p) ==
  /\ In(p, "cancelCreate")
  /\ IF snap[p].status = "created"
       THEN SaveOnce(p, Transition(snap[p], "cancelled"), Idle)
       ELSE Return(p)
  /\ UNCHANGED external

CreateLegacyIntent(p) ==
  /\ "requires_payment" \in Openings /\ intent.version = 0 /\ job[p] = Idle
  /\ intent' = [NoIntent EXCEPT !.version = 1, !.status = "requires_payment"]
  /\ UNCHANGED <<job, snap, rowLock, external>>

-----------------------------------------------------------------------------
(* AdvancePayment and AuthorizePayment: one transaction, no retry. *)

BeginAdvance(p) ==
  \E to \in AdvanceTargets : Begin(p, [Idle EXCEPT !.step = "advance", !.to = to])

Advance(p) ==
  /\ In(p, "advance")
  /\ IF CanTransition(snap[p].status, job[p].to)
       THEN SaveOnce(p, Transition(snap[p], job[p].to), Idle)
       ELSE Return(p)
  /\ UNCHANGED external

\* The caller reports an authorization of a payment the provider knows.
BeginAuthorize(p) ==
  \E ref \in Refs, a \in AuthAmounts :
    psp.created /\ Begin(p, [Idle EXCEPT !.step = "authorize", !.ref = ref, !.amount = a])

\* An intent already authorized is never written: a no-op for the same details,
\* an error for different ones.
AuthorizePayment(p) ==
  /\ In(p, "authorize")
  /\ IF CanTransition(snap[p].status, "authorized")
       THEN SaveOnce(p, Authorize(snap[p], job[p].ref, job[p].amount), Idle)
       ELSE Return(p)
  /\ UNCHANGED external

-----------------------------------------------------------------------------
(* CapturePaymentLifecycle: reserve, provider call, settle. *)

BeginCapture(p) == Begin(p, [Idle EXCEPT !.step = "reserveCapture"])

\* Refused: settled at pay time, or no provider reference; nothing to do: captured.
CaptureRefused(i) ==
  \/ SettlesAtPayTime /\ i.status # "captured"
  \/ i.reference = NoRef
  \/ i.status = "captured"

\* Mutant: capture_requested is not made durable before the provider is called.
ReserveCaptureUnsaved(p) ==
  /\ In(p, "reserveCapture")
  /\ IF ~CaptureRefused(snap[p]) /\ CanTransition(snap[p].status, "capture_requested")
       THEN Continue(p, "callCapture")
       ELSE Return(p)
  /\ UNCHANGED external

ReserveCapture(p) ==
  /\ In(p, "reserveCapture")
  /\ LET i == snap[p] IN
     IF CaptureRefused(i) THEN Return(p)
     ELSE IF i.status = "capture_requested" THEN Continue(p, "callCapture")
     ELSE IF CanTransition(i.status, "capture_requested")
       THEN SaveRetrying(p, Transition(i, "capture_requested"),
                         [Idle EXCEPT !.step = "callCapture"])
     ELSE Return(p)
  /\ UNCHANGED external

\* Mutant: a provider error is swallowed and the capture settled.
CallCaptureErrorIgnored(p) ==
  /\ job[p].step = "callCapture"
  /\ Continue(p, "settle")
  /\ UNCHANGED external

\* provider.capture under the key <intentId>:capture, so a repeated call moves
\* the money once.  It succeeds, refuses, or captures without answering.
CallCapture(p) ==
  /\ job[p].step = "callCapture"
  /\ \/ /\ ~psp.voided
        /\ psp' = [psp EXCEPT !.captured = TRUE]
        /\ Continue(p, "settle") \/ Return(p)
     \/ /\ Return(p)
        /\ UNCHANGED psp
  /\ UNCHANGED <<emitted, processed, crashes>>

\* Where settle returns to: RecordWebhook marks its event, other callers are done.
AfterSettle(p) ==
  IF job[p].event = NoEvent THEN Idle
  ELSE [job[p] EXCEPT !.step = "markSettled", !.tries = 0]

\* Mutant: an intent that is captured already is charged again.
SettleAgain(p) ==
  /\ In(p, "settle")
  /\ IF snap[p].status = "captured" \/ CanTransition(snap[p].status, "captured")
       THEN SaveRetrying(p, MarkCaptured(snap[p]), AfterSettle(p))
       ELSE Return(p)
  /\ UNCHANGED external

Settle(p) ==
  /\ In(p, "settle")
  /\ LET i == snap[p] IN
     IF i.status = "captured" THEN Goto(p, AfterSettle(p)) /\ UNCHANGED <<intent, rowLock>>
     ELSE IF CanTransition(i.status, "captured")
       THEN SaveRetrying(p, MarkCaptured(i), AfterSettle(p))
     ELSE Return(p)
  /\ UNCHANGED external

-----------------------------------------------------------------------------
(* RefundPaymentLifecycle: reserve, provider call, settle. *)

BeginRefund(p) ==
  \E a \in RefundAmounts, key \in Keys \cup {NoKey} :
    Begin(p, [Idle EXCEPT !.step = "reserveRefund", !.amount = a, !.key = key])

OperatorConfirmed == SettlesAtPayTime /\ ~DeliversWebhooks

\* What follows the reservation of refund k on intent i: the provider, unless
\* there is none to ask.
AfterReserve(p, i, k) ==
  IF i.reference = NoRef \/ OperatorConfirmed
    THEN [job[p] EXCEPT !.step = "settleRefund", !.refund = k, !.ok = TRUE, !.tries = 0]
    ELSE [job[p] EXCEPT !.step = "callRefund", !.refund = k, !.tries = 0]

ReserveRefund(p) ==
  /\ In(p, "reserveRefund")
  /\ LET i == snap[p] IN
     IF Existing(i, job[p].key) # {}
     THEN \E k \in Existing(i, job[p].key) :
            IF i.refunds[k].amount # job[p].amount \/ i.refunds[k].state # "pending"
              THEN Return(p)
              ELSE Goto(p, AfterReserve(p, i, k)) /\ UNCHANGED <<intent, rowLock>>
     ELSE IF CanReserve(i, job[p].amount)
       THEN SaveRetrying(p, RequestRefund(i, job[p].amount, job[p].key),
                         AfterReserve(p, i, Len(i.refunds) + 1))
     ELSE Return(p)
  /\ UNCHANGED external

\* provider.refund under the key <intentId>:refund:<refundId>.  A call that
\* throws may have been carried out.
CallRefund(p) ==
  /\ job[p].step = "callRefund"
  /\ LET done == [psp EXCEPT !.refunded = @ \cup {job[p].refund}] IN
     \E ok \in BOOLEAN :
       /\ psp' \in IF ok THEN {done} ELSE {psp, done}
       /\ Goto(p, [job[p] EXCEPT !.step = "settleRefund", !.ok = ok])
  /\ UNCHANGED <<intent, rowLock, emitted, processed, crashes>>

\* Mutant: a refund that is settled already is settled again.
SettleRefundAgain(p) ==
  /\ In(p, "settleRefund")
  /\ SaveRetrying(p, IF job[p].ok THEN CompleteRefund(snap[p], job[p].refund)
                     ELSE FailRefund(snap[p], job[p].refund), Idle)
  /\ UNCHANGED external

SettleRefund(p) ==
  /\ In(p, "settleRefund")
  /\ LET i == snap[p]
         k == job[p].refund IN
     IF i.refunds[k].state # "pending" THEN Return(p)
     ELSE SaveRetrying(p, IF job[p].ok THEN CompleteRefund(i, k) ELSE FailRefund(i, k), Idle)
  /\ UNCHANGED external

-----------------------------------------------------------------------------
(* RecordWebhook.  A captured event is deferred: the receipt commits, settle *)
(* runs in its own transaction, and only then is the event marked.           *)

DeliverWebhook(p) ==
  \E e \in emitted \ processed :
    Begin(p, [Idle EXCEPT !.step = "receipt", !.event = e])

\* Mutant: a captured event is applied like any other, as a bare transition.
DeferredNever(e) == FALSE

Deferred(e) == KindOf[e] = "captured"

\* The event may be applied to the row that was read: found by its provider
\* reference, and its kind is no move, the current status or a legal move.
CanApply(i, e) ==
  /\ i.reference = ProviderRef
  /\ \/ KindOf[e] = "other"
     \/ Deferred(e) /\ (SettlesAtPayTime => CanPrepareDirectCapture(i))
     \/ ~Deferred(e) /\ (KindOf[e] = i.status \/ CanTransition(i.status, KindOf[e]))

ApplyWebhook(i, e) ==
  LET received == RecordWebhook(i, e)
  IN  IF KindOf[e] = "other" THEN received
      ELSE IF ~Deferred(e) THEN Transition(received, KindOf[e])
      ELSE IF SettlesAtPayTime THEN PrepareDirectCapture(received)
      ELSE received

\* The receipt of a deferred event commits; that of any other holds the row
\* lock while markProcessed commits in a transaction of its own.
Receipt(p) ==
  /\ In(p, "receipt")
  /\ LET i == snap[p]
         e == job[p].event IN
     IF ~CanApply(i, e) THEN Return(p)
     ELSE IF Deferred(e)
       THEN SaveOnce(p, ApplyWebhook(i, e), [job[p] EXCEPT !.step = "settle"])
     ELSE \/ /\ rowLock = NoCaller /\ Current(p)
             /\ rowLock' = p
             /\ job' = [job EXCEPT ![p].step = "mark"]
             /\ UNCHANGED <<intent, snap>>
          \/ rowLock = NoCaller /\ ~Current(p) /\ Return(p)
  /\ UNCHANGED external

MarkProcessed(p) ==
  /\ job[p].step = "mark"
  /\ processed' = processed \cup {job[p].event}
  /\ job' = [job EXCEPT ![p].step = "commit"]
  /\ UNCHANGED <<intent, snap, rowLock, psp, emitted, crashes>>

CommitReceipt(p) ==
  /\ job[p].step = "commit"
  /\ intent' = [ApplyWebhook(snap[p], job[p].event) EXCEPT !.version = @ + 1]
  /\ rowLock' = NoCaller
  /\ Goto(p, Idle)
  /\ UNCHANGED external

MarkSettled(p) ==
  /\ job[p].step = "markSettled"
  /\ processed' = processed \cup {job[p].event}
  /\ Return(p)
  /\ UNCHANGED <<psp, emitted, crashes>>

-----------------------------------------------------------------------------
(* ConfirmCodCollection: an operator confirms the cash that was collected. *)

BeginCollect(p) ==
  /\ OperatorConfirmed /\ psp.captured
  /\ Begin(p, [Idle EXCEPT !.step = "collect"])

Collect(p) ==
  /\ In(p, "collect")
  /\ LET i == snap[p] IN
     IF i.status = "captured" \/ ~CanPrepareDirectCapture(i) THEN Return(p)
     ELSE IF i.status = "capture_requested" THEN Continue(p, "settle")
     ELSE SaveOnce(p, PrepareDirectCapture(i), [Idle EXCEPT !.step = "settle"])
  /\ UNCHANGED external

-----------------------------------------------------------------------------
(* CapturePayment, FailPayment and RefundPayment, the one-transaction use   *)
(* cases of a requires_payment intent.                                      *)

BeginLegacy(p) ==
  /\ "requires_payment" \in Openings
  /\ \/ \E s \in {"legacyCapture", "legacyFail"} : Begin(p, [Idle EXCEPT !.step = s])
     \/ \E a \in RefundAmounts :
          Begin(p, [Idle EXCEPT !.step = "legacyRefund", !.amount = a])

LegacyCapture(p) ==
  /\ In(p, "legacyCapture")
  /\ IF snap[p].status = "requires_payment"
       THEN SaveOnce(p, Capture(snap[p]), Idle)
       ELSE Return(p)
  /\ UNCHANGED external

LegacyFail(p) ==
  /\ In(p, "legacyFail")
  /\ IF snap[p].status = "requires_payment"
       THEN SaveOnce(p, Transition(snap[p], "failed"), Idle)
       ELSE Return(p)
  /\ UNCHANGED external

LegacyRefund(p) ==
  /\ In(p, "legacyRefund")
  /\ IF snap[p].status = "captured" /\ CanReserve(snap[p], job[p].amount)
       THEN SaveOnce(p, RefundNow(snap[p], job[p].amount), Idle)
       ELSE Return(p)
  /\ UNCHANGED external

-----------------------------------------------------------------------------
(* The world outside: the customer pays, the provider reports, replicas die. *)

\* The customer holds what createIntent answered with once the reference is kept.
MoneyArrives ==
  /\ SettlesAtPayTime /\ intent.reference # NoRef /\ ~psp.captured
  /\ psp' = [psp EXCEPT !.captured = TRUE]
  /\ UNCHANGED <<intent, job, snap, rowLock, emitted, processed, crashes>>

\* The provider reports a capture once it has happened, and anything else only
\* before; a cancelled or expired payment is never captured.
Emit(e) ==
  /\ DeliversWebhooks /\ psp.created /\ e \notin emitted
  /\ (KindOf[e] = "captured") = psp.captured
  /\ emitted' = emitted \cup {e}
  /\ psp' = [psp EXCEPT !.voided = @ \/ KindOf[e] \in {"cancelled", "expired"}]
  /\ UNCHANGED <<intent, job, snap, rowLock, processed, crashes>>

Crash(p) ==
  /\ job[p] # Idle /\ crashes < MaxCrashes
  /\ Goto(p, Idle)
  /\ rowLock' = IF rowLock = p THEN NoCaller ELSE rowLock
  /\ crashes' = crashes + 1
  /\ UNCHANGED <<intent, psp, emitted, processed>>

-----------------------------------------------------------------------------
\* The steps a job takes once started.
Step(p) ==
  \/ Read(p)
  \/ CallCreate(p) \/ RecordReference(p) \/ CancelCreate(p)
  \/ Advance(p) \/ AuthorizePayment(p)
  \/ ReserveCapture(p) \/ CallCapture(p) \/ Settle(p)
  \/ ReserveRefund(p) \/ CallRefund(p) \/ SettleRefund(p)
  \/ Receipt(p) \/ MarkProcessed(p) \/ CommitReceipt(p) \/ MarkSettled(p)
  \/ Collect(p)
  \/ LegacyCapture(p) \/ LegacyFail(p) \/ LegacyRefund(p)

Start(p) ==
  \/ CreateIntent(p) \/ CreateLegacyIntent(p)
  \/ BeginAdvance(p) \/ BeginAuthorize(p) \/ BeginCapture(p)
  \/ BeginRefund(p) \/ DeliverWebhook(p) \/ BeginCollect(p) \/ BeginLegacy(p)

Next ==
  \/ \E p \in Callers : Step(p) \/ Start(p) \/ Crash(p)
  \/ MoneyArrives
  \/ \E e \in Events : Emit(e)

Spec == Init /\ [][Next]_vars

\* Jobs are run to their end, the provider redelivers an event until it is
\* marked, and reports a capture it has made.
FairSpec ==
  /\ Spec
  /\ \A p \in Callers : WF_vars(Step(p)) /\ SF_vars(DeliverWebhook(p))
  /\ \A e \in Events : WF_vars(Emit(e))
-----------------------------------------------------------------------------
(* Properties. *)

\* The intent as a book of money.
Ledger == INSTANCE PaymentLedger WITH
  Amounts <- {Amount} \cup AuthAmounts \cup RefundAmounts,
  charges <- intent.charges,
  book    <- [k \in DOMAIN intent.refunds |->
               [amount |-> intent.refunds[k].amount, state |-> intent.refunds[k].state]]

\* Every use case, retry and crash moves the book only as PaymentLedger allows:
\* one charge, refunds reserved within what is left and settled once.
LedgerSpec == Ledger!Spec

\* Every variable has its type: rows, jobs and provider state are well formed.
TypeOK ==
  /\ intent \in Intent
  /\ job \in [Callers -> Job]
  /\ snap \in [Callers -> Intent]
  /\ rowLock \in Callers \cup {NoCaller}
  /\ psp \in Psp
  /\ emitted \subseteq Events /\ processed \subseteq Events
  /\ crashes \in Nat

\* However captures, webhooks, collections and retries race, one intent is
\* charged at most once (settle's already-captured guard and the version check).
SingleCharge == Len(intent.charges) <= 1

\* Refunds that are pending or completed never add up to more than was charged:
\* the reservation commits under the version it was validated against.
RefundsCovered == Reserved(intent) <= Total(intent.charges)

\* A logical refund has one reservation: no two refunds carry the same key,
\* whatever retries of requestRefund race each other.
OneRefundPerKey ==
  \A k, l \in DOMAIN intent.refunds :
    (k # l /\ intent.refunds[k].key # NoKey) =>
      intent.refunds[k].key # intent.refunds[l].key

\* A refund's completion is announced exactly once, when it completes: racing
\* settlements of one reservation do not repeat the event.
CompletionAnnouncedOnce ==
  \A k \in DOMAIN intent.refunds :
    intent.refunds[k].completions =
      IF intent.refunds[k].state = "completed" THEN 1 ELSE 0

\* A charge is recorded only for money the provider took (or the operator
\* collected): neither a crash, a refusal nor a webhook invents one.
ChargeIsReal == intent.charges # <<>> => psp.captured

\* A charged intent stays in the captured part of the lifecycle, and an intent
\* shown as captured or refunded has its charge.
StatusMatchesCharge ==
  /\ intent.charges # <<>> =>
       intent.status \in {"captured", "partially_refunded", "refunded", "closed"}
  /\ intent.status \in {"captured", "partially_refunded", "refunded"} =>
       intent.charges # <<>>

\* Once the money has moved, the row is at a status from which settle can record
\* it: the durable capture_requested or later or, where the customer's payment is
\* the capture, one that prepareDirectCapture can bring there.
SettleableOnceCaptured ==
  psp.captured =>
    \/ intent.status \in {"capture_requested", "captured", "partially_refunded",
                          "refunded", "closed"}
    \/ SettlesAtPayTime /\ CanPrepareDirectCapture(intent)

\* An event that is marked processed has its receipt and its effect in the row,
\* or is being committed right now: one that was not handled stays replayable.
ProcessedIsRecorded ==
  \A e \in processed :
    e \in intent.receipts \/ \E p \in Callers : job[p].step = "commit" /\ job[p].event = e

\* Captured money gets recorded: whatever crashes, the redelivered webhook (or
\* the caller itself) settles the capture.
CaptureIsSettled == psp.captured ~> intent.charges # <<>>
=============================================================================
