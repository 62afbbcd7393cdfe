--------------------------- MODULE PaymentDomain ---------------------------
(***************************************************************************)
(* The PaymentIntent aggregate of services/payments: the statuses a        *)
(* payment intent goes through, the charges and refunds recorded on it, and *)
(* the pure state changes its methods make.  Nothing here knows about       *)
(* transactions, callers or the payment provider: PaymentLifecycle runs     *)
(* these operators inside the use cases' transactions.                      *)
(*                                                                          *)
(* An intent is the persisted row with its child rows: `version` is the     *)
(* optimistic lock (0 = not yet inserted), `reference` the provider's own   *)
(* id, `authorized` the authorized amount (0 = none), `charges` the charged *)
(* amounts, `refunds` the refunds in the order they were reserved, and      *)
(* `receipts` the webhook events in the attempt log.  A refund's position   *)
(* in `refunds` stands for its generated id: rows are only ever appended.   *)
(***************************************************************************)
EXTENDS Money, Sequences

CONSTANTS
  Amount,         \* the intent's amount, in minor units
  AuthAmounts,    \* amounts a caller may report as authorized
  RefundAmounts,  \* amounts a caller may ask to refund
  Keys,           \* refund idempotency keys callers may supply
  NoKey,          \* no idempotency key supplied
  Refs,           \* provider references
  NoRef,          \* no provider reference recorded yet
  Events          \* provider webhook event ids

ASSUME AmountAssumption ==
  /\ Amount \in Nat \ {0}
  /\ AuthAmounts \subseteq Nat \ {0}
  /\ RefundAmounts \subseteq Nat \ {0}

ASSUME NoValueAssumption == NoKey \notin Keys /\ NoRef \notin Refs

Statuses ==
  {"none", "requires_payment", "created", "processing", "authorized",
   "capture_requested", "captured", "failed", "partially_refunded",
   "refunded", "cancelled", "expired", "closed"}

\* The statuses a status may move to; "none" is the row that does not exist.
Targets(from) ==
  CASE from = "requires_payment"   -> {"captured", "failed"}
    [] from = "created"            -> {"processing", "cancelled"}
    [] from = "processing"         -> {"authorized", "failed"}
    [] from = "authorized"         -> {"capture_requested", "cancelled", "expired"}
    [] from = "capture_requested"  -> {"captured", "failed"}
    [] from = "captured"           -> {"refunded", "partially_refunded", "closed"}
    [] from = "failed"             -> {"processing"}
    [] from = "partially_refunded" -> {"refunded", "closed"}
    [] from \in {"refunded", "cancelled", "expired"} -> {"closed"}
    [] OTHER                       -> {}

CanTransition(from, to) == to \in Targets(from)

RefundStates == {"pending", "completed", "failed"}

\* `completions` counts the events that announced its completion.
Refund == [amount: Nat \ {0}, key: Keys \cup {NoKey}, state: RefundStates,
           completions: Nat]

Intent == [version: Nat, status: Statuses, reference: Refs \cup {NoRef},
           authorized: Nat, charges: Seq(Nat \ {0}), refunds: Seq(Refund),
           receipts: SUBSET Events]

NoIntent == [version |-> 0, status |-> "none", reference |-> NoRef,
             authorized |-> 0, charges |-> <<>>, refunds |-> <<>>,
             receipts |-> {}]

-----------------------------------------------------------------------------
\* Refunds that hold capacity: every one but the failed.
LiveRefunds(i) == {k \in DOMAIN i.refunds : i.refunds[k].state # "failed"}

Reserved(i) == Total([k \in LiveRefunds(i) |-> i.refunds[k].amount])

\* Captured minus refunded-or-reserved.
Remaining(i) == Total(i.charges) - Reserved(i)

-----------------------------------------------------------------------------
(* State changes of the aggregate. *)

Transition(i, to) == [i EXCEPT !.status = to]

Authorize(i, ref, amount) ==
  [Transition(i, "authorized") EXCEPT !.reference = ref, !.authorized = amount]

\* Mutant: the fallback to the intent's own amount is forgotten.
CapturedAmountNoFallback(i) == i.authorized

CapturedAmount(i) == IF i.authorized # 0 THEN i.authorized ELSE Amount

MarkCaptured(i) ==
  [Transition(i, "captured") EXCEPT !.charges = Append(@, CapturedAmount(i))]

CanRecordProviderIntent(i, ref) == i.reference \in {NoRef, ref}

RecordProviderIntent(i, ref) == [i EXCEPT !.reference = ref]

\* The bookkeeping walk created -> processing -> authorized of a direct capture.
WalkToAuthorized(s) == IF s \in {"created", "processing"} THEN "authorized" ELSE s

AtOrPastRequest(i) == i.status \in {"capture_requested", "captured"}

CanPrepareDirectCapture(i) ==
  \/ AtOrPastRequest(i)
  \/ CanTransition(WalkToAuthorized(i.status), "capture_requested")

\* Mutant: the walk goes on to captured, the settled status.
PrepareDirectCaptureTooFar(i) == Transition(i, "captured")

PrepareDirectCapture(i) ==
  IF AtOrPastRequest(i) THEN i ELSE Transition(i, "capture_requested")

\* Mutant: only a refund that has completed is recognised.
ExistingCompleted(i, key) ==
  {k \in DOMAIN i.refunds :
     key # NoKey /\ i.refunds[k].key = key /\ i.refunds[k].state = "completed"}

\* The refunds reserved under an idempotency key (none for a call without one).
Existing(i, key) ==
  {k \in DOMAIN i.refunds : key # NoKey /\ i.refunds[k].key = key}

AddRefund(i, amount, key, state, completions) ==
  [i EXCEPT !.refunds = Append(@, [amount |-> amount, key |-> key,
                                   state |-> state, completions |-> completions])]

\* Mutant: earlier reservations are not counted.
CanReserveGross(i, amount) == amount <= Total(i.charges)

CanReserve(i, amount) == amount <= Remaining(i)

RequestRefund(i, amount, key) == AddRefund(i, amount, key, "pending", 0)

StatusAfterRefund(i) ==
  IF Remaining(i) = 0 THEN "refunded" ELSE "partially_refunded"

CompleteRefund(i, k) ==
  LET refund == [i.refunds[k] EXCEPT !.state = "completed", !.completions = @ + 1]
      done   == [i EXCEPT !.refunds[k] = refund]
  IN  Transition(done, StatusAfterRefund(done))

FailRefund(i, k) == [i EXCEPT !.refunds[k].state = "failed"]

RecordWebhook(i, e) == [i EXCEPT !.receipts = @ \cup {e}]

-----------------------------------------------------------------------------
(* The earlier one-transaction operations, on intents opened as           *)
(* requires_payment.                                                       *)

Capture(i) == [Transition(i, "captured") EXCEPT !.charges = Append(@, Amount)]

RefundNow(i, amount) ==
  LET done == AddRefund(i, amount, NoKey, "completed", 1)
  IN  IF Remaining(done) = 0 THEN Transition(done, "refunded") ELSE done
=============================================================================
