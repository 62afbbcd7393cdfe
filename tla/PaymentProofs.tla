---------------------------- MODULE PaymentProofs ----------------------------
(***************************************************************************)
(* Proofs about PaymentLifecycle, for any number of callers, any provider     *)
(* capabilities, amounts, keys, references and webhook events, and any        *)
(* number of retries, crashes and versions.                                   *)
(*                                                                            *)
(* The argument: a row is sound when it has at most one charge, and none      *)
(* before it reaches the captured part of the lifecycle.  The aggregate's     *)
(* methods take sound rows to sound rows wherever the use cases call them;    *)
(* every transaction starts from a committed row, so what it read is sound    *)
(* however stale; and a webhook receipt that commits late was checked against *)
(* the very row it is applied to.                                             *)
(***************************************************************************)
EXTENDS PaymentLifecycle, SequenceTheorems, TLAPS

\* The statuses of an intent whose money has been taken.
Settled == {"captured", "partially_refunded", "refunded", "closed"}

\* Well-formed rows with at most one charge, and that only once captured.
Sound == {i \in Intent : /\ Len(i.charges) <= 1
                         /\ i.charges # <<>> => i.status \in Settled}

\* Jobs with the inputs their steps rely on: a refund has an amount, a webhook an
\* event.
GoodJob ==
  {j \in Job : /\ j.step \in {"reserveRefund", "legacyRefund"} => j.amount # 0
               /\ j.step \in {"receipt", "mark", "commit", "markSettled"} => j.event \in Events}

\* Jobs that hold no uncommitted receipt.
PlainJob == {j \in GoodJob : j.step \notin {"mark", "commit"}}

\* The variables the transactions work on.
Rows ==
  /\ intent \in Sound
  /\ job \in [Callers -> GoodJob]
  /\ snap \in [Callers -> Sound]
  /\ rowLock \in Callers \cup {NoCaller}

\* An event that is not deferred may be applied, whatever the provider can do.
Applicable(i, e) ==
  /\ ~Deferred(e)
  /\ KindOf[e] = "other" \/ KindOf[e] = i.status \/ CanTransition(i.status, KindOf[e])

\* What an uncommitted receipt will write was checked against what it read.
Checked ==
  \A p \in Callers :
    job[p].step \in {"mark", "commit"} => Applicable(snap[p], job[p].event)

Outside ==
  /\ psp \in Psp
  /\ emitted \subseteq Events /\ processed \subseteq Events
  /\ crashes \in Nat

IInv == Rows /\ Checked /\ Outside

-----------------------------------------------------------------------------
(* The aggregate's methods keep a row well formed and sound. *)

\* The transition table never leads out of the captured part of the lifecycle.
LEMMA SettledClosed ==
  ASSUME NEW s \in Settled, NEW to, CanTransition(s, to)
  PROVE  to \in Settled
BY DEF Settled, CanTransition, Targets

\* The statuses a capture may start from have no charge.
LEMMA SettledSources ==
  ASSUME NEW s \in Statuses,
         \/ CanTransition(s, "captured") \/ CanTransition(s, "capture_requested")
         \/ CanTransition(s, "authorized")
  PROVE  s \notin Settled
BY DEF Settled, CanTransition, Targets, Statuses

\* transition(): a move the table allows keeps a row sound.
LEMMA TransitionSound ==
  ASSUME NEW i \in Sound, NEW to \in Statuses,
         i.status = to \/ CanTransition(i.status, to) \/ i.status \notin Settled \/ to \in Settled
  PROVE  Transition(i, to) \in Sound
<1>1. /\ i \in Intent /\ i.status \in Statuses
      /\ i.charges # <<>> => i.status \in Settled
  BY DEF Sound, Intent
<1>2. Transition(i, to) \in Intent
  BY <1>1 DEF Transition, Intent
<1>3. /\ Transition(i, to).charges = i.charges
      /\ Transition(i, to).status = to
  BY <1>1 DEF Transition, Intent
<1>4. i.charges # <<>> => to \in Settled
  BY <1>1, SettledClosed
<1>5. QED
  BY <1>2, <1>3, <1>4 DEF Sound

\* authorize(): only from a status without a charge.
LEMMA AuthorizeSound ==
  ASSUME NEW i \in Sound, NEW ref \in Refs \cup {NoRef}, NEW a \in Nat,
         CanTransition(i.status, "authorized")
  PROVE  Authorize(i, ref, a) \in Sound
<1>1. Transition(i, "authorized") \in Sound
  BY TransitionSound DEF Statuses
<1>2. Transition(i, "authorized") \in Intent
  BY <1>1 DEF Sound
<1>3. QED
  BY <1>1, <1>2 DEF Authorize, Sound, Intent

\* The first charge on a row without one.
LEMMA ChargeSound ==
  ASSUME NEW i \in Sound, NEW a \in Nat \ {0}, i.status \notin Settled
  PROVE  [Transition(i, "captured") EXCEPT !.charges = Append(@, a)] \in Sound
<1> DEFINE t == Transition(i, "captured")
<1> DEFINE c == [t EXCEPT !.charges = Append(@, a)]
<1>1. i.charges = <<>> /\ i \in Intent
  BY DEF Sound
<1>2. t \in Intent
  BY <1>1 DEF Transition, Intent, Statuses
<1>3. t.charges = <<>> /\ t.status = "captured"
  BY <1>1 DEF Transition, Intent
<1>4. Append(<<>>, a) \in Seq(Nat \ {0}) /\ Len(Append(<<>>, a)) = 1
  OBVIOUS
<1>5. c = [t EXCEPT !.charges = Append(<<>>, a)]
  BY <1>3
<1> HIDE DEF t
<1>6. c \in Intent
  BY <1>2, <1>4, <1>5 DEF Intent
<1>7. c.charges = Append(<<>>, a) /\ c.status = "captured"
  BY <1>2, <1>3, <1>5 DEF Intent
<1> HIDE DEF c
<1>8. c \in Sound
  <2>1. Len(c.charges) <= 1
    BY <1>4, <1>7
  <2>2. c.status \in Settled
    BY <1>7 DEF Settled
  <2>3. QED
    BY <1>6, <2>1, <2>2 DEF Sound
<1>9. QED
  BY <1>8 DEF t, c

\* markCaptured() and capture(): one charge, on a row that can become captured.
LEMMA CaptureSound ==
  ASSUME NEW i \in Sound,
         CanTransition(i.status, "captured") \/ i.status = "requires_payment"
  PROVE  MarkCaptured(i) \in Sound /\ Capture(i) \in Sound
<1>1. i.status \notin Settled
  BY SettledSources DEF Sound, Intent, Settled
<1>2. CapturedAmount(i) \in Nat \ {0}
  BY AmountAssumption DEF CapturedAmount, Sound, Intent
<1>3. QED
  BY <1>1, <1>2, ChargeSound, AmountAssumption DEF MarkCaptured, Capture

\* recordProviderIntent() touches neither charges nor status.
LEMMA ReferenceSound ==
  ASSUME NEW i \in Sound
  PROVE  RecordProviderIntent(i, ProviderRef) \in Sound
BY LifecycleAssumption DEF RecordProviderIntent, Sound, Intent

\* A row with other refunds is as sound as before.
LEMMA RefundsSound ==
  ASSUME NEW i \in Sound, NEW r \in Seq(Refund)
  PROVE  [i EXCEPT !.refunds = r] \in Sound
BY DEF Sound, Intent

\* requestRefund(), and the reservation made by refund().
LEMMA AddRefundSound ==
  ASSUME NEW i \in Sound, NEW a \in Nat \ {0}, NEW key \in Keys \cup {NoKey},
         NEW state \in RefundStates, NEW n \in Nat
  PROVE  AddRefund(i, a, key, state, n) \in Sound
<1> DEFINE x == [amount |-> a, key |-> key, state |-> state, completions |-> n]
<1>1. x \in Refund
  BY DEF Refund
<1>2. i.refunds \in Seq(Refund)
  BY DEF Sound, Intent
<1> HIDE DEF x
<1>3. Append(i.refunds, x) \in Seq(Refund)
  BY <1>1, <1>2
<1>4. [i EXCEPT !.refunds = Append(i.refunds, x)] \in Sound
  BY <1>3, RefundsSound
<1>5. QED
  BY <1>4 DEF AddRefund, x

\* refund(): the one-transaction refund.
LEMMA RefundNowSound ==
  ASSUME NEW i \in Sound, NEW a \in Nat \ {0}
  PROVE  RefundNow(i, a) \in Sound
<1> DEFINE done == AddRefund(i, a, NoKey, "completed", 1)
<1>1. done \in Sound
  BY AddRefundSound DEF RefundStates
<1>2. Transition(done, "refunded") \in Sound
  BY <1>1, TransitionSound DEF Statuses, Settled
<1>3. QED
  BY <1>1, <1>2 DEF RefundNow

\* Rewriting one refund of the list leaves a list of refunds.
LEMMA RefundRewritten ==
  ASSUME NEW s \in Seq(Refund), NEW k, NEW x, k \in DOMAIN s => x \in Refund
  PROVE  [s EXCEPT ![k] = x] \in Seq(Refund)
<1>1. CASE k \in DOMAIN s
  BY <1>1, ExceptSeq
<1>2. CASE k \notin DOMAIN s
  <2>1. [s EXCEPT ![k] = x] = s
    BY <1>2
  <2>2. QED
    BY <2>1
<1>3. QED
  BY <1>1, <1>2

\* completeRefund() and failRefund(), on whichever refund.
LEMMA SettleRefundSound ==
  ASSUME NEW i \in Sound, NEW k \in Nat
  PROVE  CompleteRefund(i, k) \in Sound /\ FailRefund(i, k) \in Sound
<1> DEFINE s == i.refunds
<1> DEFINE y == [s[k] EXCEPT !.state = "completed", !.completions = @ + 1]
<1> DEFINE n == [s[k] EXCEPT !.state = "failed"]
<1>1. s \in Seq(Refund) /\ i \in Intent
  BY DEF Sound, Intent
<1>2. k \in DOMAIN s => s[k] \in Refund
  BY <1>1
<1>3. k \in DOMAIN s => y \in Refund /\ n \in Refund
  <2>1. ASSUME NEW x \in Refund
        PROVE  /\ [x EXCEPT !.state = "completed", !.completions = @ + 1] \in Refund
               /\ [x EXCEPT !.state = "failed"] \in Refund
    <3>1. x.completions + 1 \in Nat
      BY DEF Refund
    <3>2. QED
      BY <3>1 DEF Refund, RefundStates
  <2>2. QED
    BY <1>2, <2>1
<1> HIDE DEF y, n
<1>4. [s EXCEPT ![k] = y] \in Seq(Refund) /\ [s EXCEPT ![k] = n] \in Seq(Refund)
  BY <1>1, <1>3, RefundRewritten
<1> DEFINE done == [i EXCEPT !.refunds = [s EXCEPT ![k] = y]]
<1>5. done \in Sound /\ [i EXCEPT !.refunds = [s EXCEPT ![k] = n]] \in Sound
  BY <1>4, RefundsSound
<1>6. Transition(done, StatusAfterRefund(done)) \in Sound
  BY <1>5, TransitionSound DEF StatusAfterRefund, Statuses, Settled
<1>7. CompleteRefund(i, k) \in Sound
  BY <1>6 DEF CompleteRefund, y
<1>8. FailRefund(i, k) \in Sound
  BY <1>5 DEF FailRefund, n
<1>9. QED
  BY <1>7, <1>8

\* prepareDirectCapture(): the walk starts at statuses without a charge.
LEMMA DirectCaptureSound ==
  ASSUME NEW i \in Sound, CanPrepareDirectCapture(i)
  PROVE  PrepareDirectCapture(i) \in Sound
<1>1. i.status \in Statuses
  BY DEF Sound, Intent
<1>2. CASE ~AtOrPastRequest(i)
  <2>1. i.status \notin Settled
    BY <1>1, <1>2, SettledSources
       DEF CanPrepareDirectCapture, AtOrPastRequest, WalkToAuthorized, Settled, Statuses
  <2>2. QED
    BY <1>2, <2>1, TransitionSound DEF PrepareDirectCapture, Statuses
<1>3. QED
  BY <1>2 DEF PrepareDirectCapture

\* A webhook event that may be applied to a row leaves it sound.
LEMMA WebhookSound ==
  ASSUME NEW i \in Sound, NEW e \in Events, CanApply(i, e) \/ Applicable(i, e)
  PROVE  ApplyWebhook(i, e) \in Sound
<1> DEFINE r == RecordWebhook(i, e)
<1>1. r \in Sound /\ r.status = i.status
  BY DEF RecordWebhook, Sound, Intent
<1>2. CASE KindOf[e] = "other"
  BY <1>1, <1>2 DEF ApplyWebhook
<1>3. CASE KindOf[e] # "other" /\ ~Deferred(e)
  <2>1. KindOf[e] \in Statuses
    BY <1>3, LifecycleAssumption
  <2>2. KindOf[e] = r.status \/ CanTransition(r.status, KindOf[e])
    BY <1>1, <1>3 DEF CanApply, Applicable
  <2>3. QED
    BY <1>1, <1>3, <2>1, <2>2, TransitionSound DEF ApplyWebhook
<1>4. CASE KindOf[e] # "other" /\ Deferred(e)
  <2>1. SettlesAtPayTime => CanPrepareDirectCapture(r)
    BY <1>1, <1>4 DEF CanApply, Applicable, CanPrepareDirectCapture, AtOrPastRequest
  <2>2. QED
    BY <1>1, <1>4, <2>1, DirectCaptureSound DEF ApplyWebhook
<1>5. QED
  BY <1>2, <1>3, <1>4
-----------------------------------------------------------------------------
(* Jobs. *)

\* What the steps of a job that holds no receipt need not look at.
FreeSteps == Steps \ {"reserveRefund", "legacyRefund", "receipt", "mark", "commit", "markSettled"}

\* A job that starts, or goes on, at a step that needs no input is a plain job.
LEMMA FreeJob ==
  ASSUME NEW j \in Job, j.step \in FreeSteps
  PROVE  j \in PlainJob
BY DEF PlainJob, GoodJob, FreeSteps

\* The jobs use cases start with.
LEMMA IdlePlain ==
  /\ Idle \in Job
  /\ \A s \in FreeSteps : [Idle EXCEPT !.step = s] \in PlainJob
  /\ Idle \in PlainJob
<1>1. Idle \in Job
  BY DEF Idle, Job, Steps, Statuses
<1>2. Idle \in PlainJob
  BY <1>1, FreeJob DEF Idle, FreeSteps, Steps
<1>3. ASSUME NEW s \in FreeSteps PROVE [Idle EXCEPT !.step = s] \in PlainJob
  <2>1. [Idle EXCEPT !.step = s] \in Job /\ [Idle EXCEPT !.step = s].step = s
    BY <1>1 DEF Job, FreeSteps
  <2>2. QED
    BY <2>1, FreeJob
<1>4. QED
  BY <1>1, <1>2, <1>3

\* A job that moves to a step without inputs of its own, its counter reset.
LEMMA StepPlain ==
  ASSUME NEW j \in Job, NEW s \in FreeSteps
  PROVE  /\ [j EXCEPT !.step = s] \in PlainJob
         /\ [j EXCEPT !.step = s, !.tries = 0] \in PlainJob
<1>1. /\ [j EXCEPT !.step = s] \in Job /\ [j EXCEPT !.step = s].step = s
      /\ [j EXCEPT !.step = s, !.tries = 0] \in Job
      /\ [j EXCEPT !.step = s, !.tries = 0].step = s
  BY DEF Job, FreeSteps
<1>2. QED
  BY <1>1, FreeJob

\* A retried job is the same job.
LEMMA RetryPlain ==
  ASSUME NEW j \in PlainJob
  PROVE  [j EXCEPT !.tries = @ + 1] \in PlainJob
BY DEF PlainJob, GoodJob, Job

-----------------------------------------------------------------------------
(* Transactions. *)

\* No open transaction is a sound thing to have read.
LEMMA NoSnapSound == NoIntent \in Sound
BY DEF NoIntent, Sound, Intent, Statuses

\* Ending a transaction, with whatever sound row is then committed.
LEMMA GotoRows ==
  ASSUME Rows, Checked, NEW p \in Callers, NEW j \in PlainJob, Goto(p, j),
         intent' \in Sound, rowLock' \in Callers \cup {NoCaller}
  PROVE  Rows' /\ Checked'
<1>1. j \in GoodJob /\ j.step \notin {"mark", "commit"}
  BY DEF PlainJob
<1>2. Rows'
  BY <1>1, NoSnapSound DEF Rows, Goto, NoSnap
<1>3. ASSUME NEW q \in Callers, job'[q].step \in {"mark", "commit"}
      PROVE  Applicable(snap[q], job[q].event)' 
  <2>1. q # p /\ job'[q] = job[q] /\ snap'[q] = snap[q]
    BY <1>1, <1>3 DEF Goto, Rows
  <2>2. Applicable(snap[q], job[q].event)
    BY <1>3, <2>1 DEF Checked
  <2>3. QED
    BY <2>1, <2>2 DEF Applicable, Deferred
<1>4. QED
  BY <1>2, <1>3 DEF Checked

\* Returning an error or a result, without a write.
LEMMA ReturnRows ==
  ASSUME Rows, Checked, NEW p \in Callers, Return(p)
  PROVE  Rows' /\ Checked'
BY GotoRows, IdlePlain DEF Return, Rows

\* Going on without a write.
LEMMA GoOnRows ==
  ASSUME Rows, Checked, NEW p \in Callers, NEW j \in PlainJob,
         Goto(p, j), UNCHANGED <<intent, rowLock>>
  PROVE  Rows' /\ Checked'
BY GotoRows DEF Rows

\* Going on with the next step of the same job.
LEMMA ContinueRows ==
  ASSUME Rows, Checked, NEW p \in Callers, NEW s \in FreeSteps, Continue(p, s)
  PROVE  Rows' /\ Checked'
<1>1. job[p] \in Job
  BY DEF Rows, GoodJob
<1>2. QED
  BY <1>1, StepPlain, GoOnRows DEF Continue

\* The version a save writes touches nothing else.
LEMMA VersionSound ==
  ASSUME NEW i \in Sound
  PROVE  [i EXCEPT !.version = @ + 1] \in Sound
<1>1. ASSUME NEW v \in Nat PROVE [i EXCEPT !.version = v] \in Sound
  BY DEF Sound, Intent
<1>2. i.version + 1 \in Nat
  BY DEF Sound, Intent
<1>3. QED
  BY <1>1, <1>2

\* save(), committed: a sound row stays sound under its next version.
LEMMA SaveRows ==
  ASSUME Rows, Checked, NEW p \in Callers, NEW new \in Sound, NEW j \in PlainJob,
         Save(p, new, j)
  PROVE  Rows' /\ Checked'
<1>1. intent' \in Sound
  BY VersionSound DEF Save
<1>2. QED
  BY <1>1, GotoRows DEF Save, Rows

\* save() without a retry.
LEMMA SaveOnceRows ==
  ASSUME Rows, Checked, NEW p \in Callers, NEW new \in Sound, NEW j \in PlainJob,
         SaveOnce(p, new, j)
  PROVE  Rows' /\ Checked'
BY SaveRows, ReturnRows DEF SaveOnce

\* save() inside withConcurrencyRetry.
LEMMA SaveRetryingRows ==
  ASSUME Rows, Checked, NEW p \in Callers, NEW new \in Sound, NEW j \in PlainJob,
         job[p] \in PlainJob, SaveRetrying(p, new, j)
  PROVE  Rows' /\ Checked'
<1>1. [job[p] EXCEPT !.tries = @ + 1] \in PlainJob
  BY RetryPlain
<1>2. QED
  BY <1>1, SaveRows, ReturnRows, GoOnRows DEF SaveRetrying

\* Opening the first transaction of a job: it reads the committed row.
LEMMA BeginRows ==
  ASSUME Rows, Checked, NEW p \in Callers, NEW j \in PlainJob, Begin(p, j)
  PROVE  Rows' /\ Checked' /\ UNCHANGED external
<1>1. j \in GoodJob /\ j.step \notin {"mark", "commit"}
  BY DEF PlainJob
<1>2. Rows'
  BY <1>1 DEF Rows, Begin
<1>3. ASSUME NEW q \in Callers, job'[q].step \in {"mark", "commit"}
      PROVE  Applicable(snap[q], job[q].event)' 
  <2>1. q # p /\ job'[q] = job[q] /\ snap'[q] = snap[q]
    BY <1>1, <1>3 DEF Begin, Rows
  <2>2. Applicable(snap[q], job[q].event)
    BY <1>3, <2>1 DEF Checked
  <2>3. QED
    BY <2>1, <2>2 DEF Applicable, Deferred
<1>4. QED
  BY <1>2, <1>3 DEF Checked, Begin
-----------------------------------------------------------------------------
(* The steps of a job. *)

\* A caller at a step that holds no receipt has a plain job.
LEMMA AtPlain ==
  ASSUME Rows, NEW p \in Callers, job[p].step \notin {"mark", "commit"}
  PROVE  job[p] \in PlainJob /\ snap[p] \in Sound /\ job[p] \in Job
BY DEF Rows, PlainJob, GoodJob

\* Creating the intent, the provider call, and recording or cancelling it.
LEMMA CreateRows ==
  ASSUME IInv, NEW p \in Callers,
         CallCreate(p) \/ RecordReference(p) \/ CancelCreate(p)
  PROVE  IInv'
<1> USE DEF IInv
<1>1. CASE CallCreate(p)
  <2>1. psp' \in Psp
    BY <1>1 DEF CallCreate, Outside, Psp
  <2>2. Continue(p, "recordReference") \/ Continue(p, "cancelCreate")
    BY <1>1 DEF CallCreate
  <2>3. QED
    BY <1>1, <2>1, <2>2, ContinueRows DEF CallCreate, Outside, FreeSteps, Steps
<1>2. CASE RecordReference(p)
  <2>1. job[p] \in PlainJob /\ snap[p] \in Sound
    BY <1>2, AtPlain DEF RecordReference, In
  <2>2. Rows' /\ Checked'
    BY <1>2, <2>1, ReferenceSound, IdlePlain, SaveRetryingRows, ReturnRows DEF RecordReference
  <2>3. QED
    BY <1>2, <2>2 DEF RecordReference, Outside, external
<1>3. CASE CancelCreate(p)
  <2>1. job[p] \in PlainJob /\ snap[p] \in Sound
    BY <1>3, AtPlain DEF CancelCreate, In
  <2>2. snap[p].status = "created" => Transition(snap[p], "cancelled") \in Sound
    BY <2>1, TransitionSound DEF Settled, Statuses
  <2>3. Rows' /\ Checked'
    BY <1>3, <2>2, IdlePlain, SaveOnceRows, ReturnRows DEF CancelCreate
  <2>4. QED
    BY <1>3, <2>3 DEF CancelCreate, Outside, external
<1>4. QED
  BY <1>1, <1>2, <1>3

\* AdvancePayment and AuthorizePayment.
LEMMA AdvanceRows ==
  ASSUME IInv, NEW p \in Callers, Advance(p) \/ AuthorizePayment(p)
  PROVE  IInv'
<1> USE DEF IInv
<1>1. CASE Advance(p)
  <2>1. job[p] \in Job /\ snap[p] \in Sound
    BY <1>1, AtPlain DEF Advance, In
  <2>2. CanTransition(snap[p].status, job[p].to) => Transition(snap[p], job[p].to) \in Sound
    BY <2>1, TransitionSound DEF Job
  <2>3. Rows' /\ Checked'
    BY <1>1, <2>2, IdlePlain, SaveOnceRows, ReturnRows DEF Advance
  <2>4. QED
    BY <1>1, <2>3 DEF Advance, Outside, external
<1>2. CASE AuthorizePayment(p)
  <2>1. job[p] \in Job /\ snap[p] \in Sound
    BY <1>2, AtPlain DEF AuthorizePayment, In
  <2>2. CanTransition(snap[p].status, "authorized") =>
          Authorize(snap[p], job[p].ref, job[p].amount) \in Sound
    BY <2>1, AuthorizeSound DEF Job
  <2>3. Rows' /\ Checked'
    BY <1>2, <2>2, IdlePlain, SaveOnceRows, ReturnRows DEF AuthorizePayment
  <2>4. QED
    BY <1>2, <2>3 DEF AuthorizePayment, Outside, external
<1>3. QED
  BY <1>1, <1>2

\* Where settle goes next is a plain job.
LEMMA AfterSettlePlain ==
  ASSUME Rows, NEW p \in Callers
  PROVE  AfterSettle(p) \in PlainJob
<1>1. job[p] \in Job
  BY DEF Rows, GoodJob
<1>2. CASE job[p].event # NoEvent
  <2> DEFINE j == [job[p] EXCEPT !.step = "markSettled", !.tries = 0]
  <2>1. j \in Job /\ j.step = "markSettled" /\ j.event = job[p].event
    BY <1>1 DEF Job, Steps
  <2>2. job[p].event \in Events
    BY <1>1, <1>2 DEF Job
  <2> HIDE DEF j
  <2>3. j \in PlainJob
    BY <2>1, <2>2 DEF PlainJob, GoodJob
  <2>4. QED
    BY <1>2, <2>3 DEF AfterSettle, j
<1>3. QED
  BY <1>2, IdlePlain DEF AfterSettle

\* CapturePaymentLifecycle's three steps, and settle wherever it is called from.
LEMMA CaptureRows ==
  ASSUME IInv, NEW p \in Callers, ReserveCapture(p) \/ CallCapture(p) \/ Settle(p)
  PROVE  IInv'
<1> USE DEF IInv
<1>1. CASE ReserveCapture(p)
  <2>1. job[p] \in PlainJob /\ snap[p] \in Sound
    BY <1>1, AtPlain DEF ReserveCapture, In
  <2>2. CanTransition(snap[p].status, "capture_requested") =>
          Transition(snap[p], "capture_requested") \in Sound
    BY <2>1, TransitionSound DEF Statuses
  <2>3. [Idle EXCEPT !.step = "callCapture"] \in PlainJob /\ "callCapture" \in FreeSteps
    BY IdlePlain DEF FreeSteps, Steps
  <2>4. Rows' /\ Checked'
    BY <1>1, <2>1, <2>2, <2>3, SaveRetryingRows, ReturnRows, ContinueRows DEF ReserveCapture
  <2>5. QED
    BY <1>1, <2>4 DEF ReserveCapture, Outside, external
<1>2. CASE CallCapture(p)
  <2>1. psp' \in Psp
    BY <1>2 DEF CallCapture, Outside, Psp
  <2>2. Continue(p, "settle") \/ Return(p)
    BY <1>2 DEF CallCapture
  <2>3. Rows' /\ Checked'
    BY <2>2, ContinueRows, ReturnRows DEF FreeSteps, Steps
  <2>4. QED
    BY <1>2, <2>1, <2>3 DEF CallCapture, Outside
<1>3. CASE Settle(p)
  <2>1. job[p] \in PlainJob /\ snap[p] \in Sound
    BY <1>3, AtPlain DEF Settle, In
  <2>2. CanTransition(snap[p].status, "captured") => MarkCaptured(snap[p]) \in Sound
    BY <2>1, CaptureSound
  <2>3. AfterSettle(p) \in PlainJob
    BY AfterSettlePlain
  <2>4. Rows' /\ Checked'
    BY <1>3, <2>1, <2>2, <2>3, SaveRetryingRows, ReturnRows, GoOnRows DEF Settle
  <2>5. QED
    BY <1>3, <2>4 DEF Settle, Outside, external
<1>4. QED
  BY <1>1, <1>2, <1>3

\* What follows a reservation is a plain job.
LEMMA AfterReservePlain ==
  ASSUME Rows, NEW p \in Callers, NEW i, NEW k \in Nat
  PROVE  AfterReserve(p, i, k) \in PlainJob
<1>1. job[p] \in Job
  BY DEF Rows, GoodJob
<1> DEFINE a == [job[p] EXCEPT !.step = "settleRefund", !.refund = k, !.ok = TRUE, !.tries = 0]
<1> DEFINE b == [job[p] EXCEPT !.step = "callRefund", !.refund = k, !.tries = 0]
<1>2. a \in Job /\ a.step = "settleRefund" /\ b \in Job /\ b.step = "callRefund"
  BY <1>1 DEF Job, Steps
<1> HIDE DEF a, b
<1>3. a \in PlainJob /\ b \in PlainJob
  BY <1>2, FreeJob DEF FreeSteps, Steps
<1>4. QED
  BY <1>3 DEF AfterReserve, a, b

\* RefundPaymentLifecycle's three steps.
LEMMA RefundRows ==
  ASSUME IInv, NEW p \in Callers, ReserveRefund(p) \/ CallRefund(p) \/ SettleRefund(p)
  PROVE  IInv'
<1> USE DEF IInv
<1>1. CASE ReserveRefund(p)
  <2> SUFFICES Rows' /\ Checked'
    BY <1>1 DEF ReserveRefund, Outside, external
  <2>1. job[p] \in PlainJob /\ snap[p] \in Sound /\ job[p] \in Job
    BY <1>1, AtPlain DEF ReserveRefund, In
  <2>2. job[p].amount \in Nat \ {0} /\ job[p].key \in Keys \cup {NoKey}
    BY <1>1, <2>1 DEF ReserveRefund, In, PlainJob, GoodJob, Job
  <2>3. RequestRefund(snap[p], job[p].amount, job[p].key) \in Sound
    BY <2>1, <2>2, AddRefundSound DEF RequestRefund, RefundStates
  <2>4. snap[p].refunds \in Seq(Refund)
    BY <2>1 DEF Sound, Intent
  <2>5. Len(snap[p].refunds) + 1 \in Nat /\ Existing(snap[p], job[p].key) \subseteq Nat
    BY <2>4 DEF Existing
  <2>6. \A k \in Nat : AfterReserve(p, snap[p], k) \in PlainJob
    BY AfterReservePlain
  <2>7. CASE Existing(snap[p], job[p].key) # {}
    <3>1. \/ Return(p)
          \/ \E k \in Nat : Goto(p, AfterReserve(p, snap[p], k)) /\ UNCHANGED <<intent, rowLock>>
      BY <1>1, <2>5, <2>7 DEF ReserveRefund
    <3>2. QED
      BY <3>1, <2>6, ReturnRows, GoOnRows
  <2>8. CASE Existing(snap[p], job[p].key) = {}
    <3>1. \/ Return(p)
          \/ SaveRetrying(p, RequestRefund(snap[p], job[p].amount, job[p].key),
                          AfterReserve(p, snap[p], Len(snap[p].refunds) + 1))
      BY <1>1, <2>8 DEF ReserveRefund
    <3>2. QED
      BY <3>1, <2>1, <2>3, <2>5, <2>6, ReturnRows, SaveRetryingRows
  <2>9. QED
    BY <2>7, <2>8
<1>2. CASE CallRefund(p)
  <2>1. job[p] \in Job
    BY <1>2, AtPlain DEF CallRefund
  <2>2. psp' \in Psp
    <3> DEFINE done == [psp EXCEPT !.refunded = @ \cup {job[p].refund}]
    <3>1. psp' \in {psp, done}
      BY <1>2 DEF CallRefund
    <3>2. done \in Psp
      BY <2>1 DEF Outside, Psp, Job
    <3>3. QED
      BY <3>1, <3>2 DEF Outside
  <2>3. PICK ok \in BOOLEAN : Goto(p, [job[p] EXCEPT !.step = "settleRefund", !.ok = ok])
    BY <1>2 DEF CallRefund
  <2> DEFINE j == [job[p] EXCEPT !.step = "settleRefund", !.ok = ok]
  <2>4. j \in Job /\ j.step = "settleRefund"
    BY <2>1 DEF Job, Steps
  <2> HIDE DEF j
  <2>5. j \in PlainJob
    BY <2>4, FreeJob DEF FreeSteps, Steps
  <2>6. Rows' /\ Checked'
    BY <1>2, <2>3, <2>5, GoOnRows DEF CallRefund, j
  <2>7. QED
    BY <1>2, <2>2, <2>6 DEF CallRefund, Outside
<1>3. CASE SettleRefund(p)
  <2>1. job[p] \in PlainJob /\ snap[p] \in Sound /\ job[p].refund \in Nat
    BY <1>3, AtPlain DEF SettleRefund, In, Job
  <2> DEFINE new == IF job[p].ok THEN CompleteRefund(snap[p], job[p].refund)
                    ELSE FailRefund(snap[p], job[p].refund)
  <2>2. new \in Sound
    BY <2>1, SettleRefundSound
  <2>3. Return(p) \/ SaveRetrying(p, new, Idle)
    BY <1>3 DEF SettleRefund
  <2> HIDE DEF new
  <2>4. Rows' /\ Checked'
    BY <2>1, <2>2, <2>3, IdlePlain, ReturnRows, SaveRetryingRows
  <2>5. QED
    BY <1>3, <2>4 DEF SettleRefund, Outside, external
<1>4. QED
  BY <1>1, <1>2, <1>3
\* A receipt that stops between its update and its commit: the row it read was
\* checked, and stays what it read.
LEMMA ReceiptRows ==
  ASSUME IInv, NEW p \in Callers, Receipt(p)
  PROVE  IInv'
<1> SUFFICES Rows' /\ Checked'
  BY DEF IInv, Receipt, Outside, external
<1> DEFINE e == job[p].event
<1>1. job[p] \in PlainJob /\ snap[p] \in Sound /\ job[p] \in Job /\ Rows /\ Checked
  BY AtPlain DEF Receipt, In, IInv
<1>2. e \in Events
  BY <1>1 DEF Receipt, In, PlainJob, GoodJob
<1>3. CASE Return(p)
  BY <1>1, <1>3, ReturnRows
<1>4. CASE CanApply(snap[p], e) /\ SaveOnce(p, ApplyWebhook(snap[p], e), [job[p] EXCEPT !.step = "settle"])
  <2>1. [job[p] EXCEPT !.step = "settle"] \in PlainJob
    BY <1>1, StepPlain DEF FreeSteps, Steps
  <2>2. ApplyWebhook(snap[p], e) \in Sound
    BY <1>1, <1>2, <1>4, WebhookSound
  <2>3. QED
    BY <1>1, <1>4, <2>1, <2>2, SaveOnceRows
<1>5. CASE /\ Applicable(snap[p], e)
           /\ rowLock' = p
           /\ job' = [job EXCEPT ![p].step = "mark"]
           /\ UNCHANGED <<intent, snap>>
  <2> DEFINE j == [job[p] EXCEPT !.step = "mark"]
  <2>1. j \in Job /\ j.event = e /\ j.step = "mark"
    BY <1>1 DEF Job, Steps
  <2>2. job' = [job EXCEPT ![p] = j]
    BY <1>5
  <2> HIDE DEF j
  <2>3. j \in GoodJob
    BY <1>2, <2>1 DEF GoodJob
  <2>4. Rows'
    BY <1>1, <1>5, <2>2, <2>3 DEF Rows
  <2>5. ASSUME NEW q \in Callers, job'[q].step \in {"mark", "commit"}
        PROVE  Applicable(snap[q], job[q].event)'
    <3>1. Applicable(snap[q], job'[q].event)
      BY <1>1, <1>5, <2>1, <2>2, <2>5 DEF Rows, Checked
    <3>2. QED
      BY <1>5, <3>1 DEF Applicable, Deferred
  <2>6. QED
    BY <2>4, <2>5 DEF Checked
<1>6. QED
  BY <1>3, <1>4, <1>5 DEF Receipt, CanApply, Applicable

\* markProcessed, in its own transaction, for both kinds of event.
LEMMA MarkRows ==
  ASSUME IInv, NEW p \in Callers, MarkProcessed(p) \/ MarkSettled(p)
  PROVE  IInv'
<1>1. job[p] \in GoodJob /\ job[p] \in Job /\ Rows /\ Checked /\ Outside
  BY DEF IInv, Rows, GoodJob
<1>2. job[p].event \in Events
  BY <1>1 DEF MarkProcessed, MarkSettled, GoodJob
<1>3. Outside'
  BY <1>1, <1>2 DEF MarkProcessed, MarkSettled, Outside
<1>4. CASE MarkSettled(p)
  BY <1>1, <1>3, <1>4, ReturnRows DEF MarkSettled, IInv
<1>5. CASE MarkProcessed(p)
  <2> DEFINE j == [job[p] EXCEPT !.step = "commit"]
  <2>1. j \in Job /\ j.event = job[p].event /\ j.step = "commit"
    BY <1>1 DEF Job, Steps
  <2>2. job' = [job EXCEPT ![p] = j]
    BY <1>5 DEF MarkProcessed
  <2> HIDE DEF j
  <2>3. j \in GoodJob
    BY <1>2, <2>1 DEF GoodJob
  <2>4. Rows'
    BY <1>1, <1>5, <2>2, <2>3 DEF Rows, MarkProcessed
  <2>5. ASSUME NEW q \in Callers, job'[q].step \in {"mark", "commit"}
        PROVE  Applicable(snap[q], job[q].event)'
    <3>1. job[q].step \in {"mark", "commit"} /\ job'[q].event = job[q].event
      BY <1>1, <1>5, <2>1, <2>2, <2>5 DEF Rows, MarkProcessed
    <3>2. Applicable(snap[q], job'[q].event)
      BY <1>1, <3>1 DEF Checked
    <3>3. QED
      BY <1>5, <3>2 DEF MarkProcessed, Applicable, Deferred
  <2>6. QED
    BY <1>3, <2>4, <2>5 DEF Checked, IInv
<1>6. QED
  BY <1>4, <1>5

\* The late commit of a receipt applies an event that was checked.
LEMMA CommitRows ==
  ASSUME IInv, NEW p \in Callers, CommitReceipt(p)
  PROVE  IInv'
<1>1. job[p] \in GoodJob /\ Rows /\ Checked /\ Outside /\ snap[p] \in Sound
  BY DEF IInv, Rows
<1>2. job[p].event \in Events /\ Applicable(snap[p], job[p].event)
  BY <1>1 DEF CommitReceipt, GoodJob, Checked
<1> DEFINE new == ApplyWebhook(snap[p], job[p].event)
<1>3. new \in Sound
  BY <1>1, <1>2, WebhookSound
<1> HIDE DEF new
<1>4. [new EXCEPT !.version = @ + 1] \in Sound
  BY <1>3, VersionSound
<1>5. intent' \in Sound
  BY <1>4 DEF CommitReceipt, new
<1>6. Rows' /\ Checked'
  BY <1>1, <1>5, IdlePlain, GotoRows DEF CommitReceipt
<1>7. QED
  BY <1>1, <1>6 DEF IInv, CommitReceipt, Outside, external

\* ConfirmCodCollection.
LEMMA CollectRows ==
  ASSUME IInv, NEW p \in Callers, Collect(p)
  PROVE  IInv'
<1>1. snap[p] \in Sound /\ Rows /\ Checked
  BY AtPlain DEF IInv, Collect, In
<1>2. CanPrepareDirectCapture(snap[p]) => PrepareDirectCapture(snap[p]) \in Sound
  BY <1>1, DirectCaptureSound
<1>3. "settle" \in FreeSteps /\ [Idle EXCEPT !.step = "settle"] \in PlainJob
  BY IdlePlain DEF FreeSteps, Steps
<1>4. Rows' /\ Checked'
  BY <1>1, <1>2, <1>3, ReturnRows, ContinueRows, SaveOnceRows DEF Collect
<1>5. QED
  BY <1>4 DEF IInv, Collect, Outside, external

\* CapturePayment, FailPayment and RefundPayment.
LEMMA LegacyRows ==
  ASSUME IInv, NEW p \in Callers, LegacyCapture(p) \/ LegacyFail(p) \/ LegacyRefund(p)
  PROVE  IInv'
<1>1. job[p] \in PlainJob /\ snap[p] \in Sound /\ job[p] \in Job /\ Rows /\ Checked
  BY AtPlain DEF IInv, LegacyCapture, LegacyFail, LegacyRefund, In
<1>2. Outside'
  BY DEF IInv, LegacyCapture, LegacyFail, LegacyRefund, Outside, external
<1>3. CASE LegacyCapture(p)
  BY <1>1, <1>2, <1>3, CaptureSound, IdlePlain, SaveOnceRows, ReturnRows DEF LegacyCapture, IInv
<1>4. CASE LegacyFail(p)
  <2>1. snap[p].status = "requires_payment" => Transition(snap[p], "failed") \in Sound
    BY <1>1, TransitionSound DEF Settled, Statuses
  <2>2. QED
    BY <1>1, <1>2, <1>4, <2>1, IdlePlain, SaveOnceRows, ReturnRows DEF LegacyFail, IInv
<1>5. CASE LegacyRefund(p)
  <2>1. job[p].amount \in Nat \ {0}
    BY <1>1, <1>5 DEF LegacyRefund, In, PlainJob, GoodJob, Job
  <2>2. RefundNow(snap[p], job[p].amount) \in Sound
    BY <1>1, <2>1, RefundNowSound
  <2>3. QED
    BY <1>1, <1>2, <1>5, <2>2, IdlePlain, SaveOnceRows, ReturnRows DEF LegacyRefund, IInv
<1>6. QED
  BY <1>3, <1>4, <1>5

\* A later transaction of a job reads the committed row.
LEMMA ReadRows ==
  ASSUME IInv, NEW p \in Callers, Read(p)
  PROVE  IInv'
<1>1. Rows'
  BY DEF IInv, Rows, Read
<1>2. ASSUME NEW q \in Callers, job'[q].step \in {"mark", "commit"}
      PROVE  Applicable(snap[q], job[q].event)'
  <2>1. q # p /\ snap'[q] = snap[q] /\ job'[q] = job[q]
    BY <1>2 DEF IInv, Rows, Read
  <2>2. Applicable(snap[q], job[q].event)
    BY <1>2, <2>1 DEF IInv, Checked
  <2>3. QED
    BY <2>1, <2>2 DEF Applicable, Deferred
<1>3. QED
  BY <1>1, <1>2 DEF IInv, Checked, Read, Outside, external
-----------------------------------------------------------------------------
(* The steps that start a job, and the world outside. *)

\* Creating the row: its first version has no charge.
LEMMA NewIntentRows ==
  ASSUME IInv, NEW p \in Callers, CreateIntent(p) \/ CreateLegacyIntent(p)
  PROVE  IInv'
<1>1. Rows /\ Checked /\ Outside
  BY DEF IInv
<1>2. intent' \in Sound
  <2>1. ASSUME NEW st \in Statuses
        PROVE  [NoIntent EXCEPT !.version = 1, !.status = st] \in Sound
    <3> DEFINE n == [NoIntent EXCEPT !.version = 1, !.status = st]
    <3>1. NoIntent \in Intent /\ NoIntent.charges = <<>>
      BY NoSnapSound DEF Sound, NoIntent
    <3>2. n \in Intent /\ n.charges = NoIntent.charges
      BY <3>1 DEF Intent
    <3> HIDE DEF n
    <3>3. Len(n.charges) = 0 /\ n.charges = <<>>
      BY <3>1, <3>2
    <3>4. n \in Sound
      BY <3>2, <3>3 DEF Sound
    <3>5. QED
      BY <3>4 DEF n
  <2>2. QED
    BY <2>1 DEF CreateIntent, CreateLegacyIntent, Statuses
<1>3. CASE CreateIntent(p)
  <2>1. [Idle EXCEPT !.step = "callCreate"] \in PlainJob
    BY IdlePlain DEF FreeSteps, Steps
  <2>2. Rows' /\ Checked'
    BY <1>1, <1>2, <1>3, <2>1, GotoRows DEF CreateIntent, Rows
  <2>3. QED
    BY <1>1, <1>3, <2>2 DEF CreateIntent, IInv, Outside, external
<1>4. CASE CreateLegacyIntent(p)
  <2>1. Rows'
    BY <1>1, <1>2, <1>4 DEF CreateLegacyIntent, Rows
  <2>2. Checked'
    BY <1>1, <1>4 DEF CreateLegacyIntent, Checked, Applicable, Deferred
  <2>3. QED
    BY <1>1, <1>4, <2>1, <2>2 DEF CreateLegacyIntent, IInv, Outside, external
<1>5. QED
  BY <1>3, <1>4

\* The jobs callers start have the inputs their steps rely on.
LEMMA StartPlain ==
  ASSUME NEW p \in Callers, emitted \subseteq Events,
         \/ BeginAdvance(p) \/ BeginAuthorize(p) \/ BeginCapture(p) \/ BeginRefund(p)
         \/ DeliverWebhook(p) \/ BeginCollect(p) \/ BeginLegacy(p)
  PROVE  \E j \in PlainJob : Begin(p, j)
<1>1. Idle \in Job
  BY IdlePlain
<1>2. CASE BeginAdvance(p)
  <2>1. PICK to \in AdvanceTargets : Begin(p, [Idle EXCEPT !.step = "advance", !.to = to])
    BY <1>2 DEF BeginAdvance
  <2>2. to \in Statuses
    BY LifecycleAssumption
  <2> DEFINE j == [Idle EXCEPT !.step = "advance", !.to = to]
  <2>3. j \in Job /\ j.step = "advance"
    BY <1>1, <2>2 DEF Job, Steps
  <2> HIDE DEF j
  <2>4. j \in PlainJob
    BY <2>3, FreeJob DEF FreeSteps, Steps
  <2>5. QED
    BY <2>1, <2>4 DEF j
<1>3. CASE BeginAuthorize(p)
  <2>1. PICK ref \in Refs, a \in AuthAmounts :
          Begin(p, [Idle EXCEPT !.step = "authorize", !.ref = ref, !.amount = a])
    BY <1>3 DEF BeginAuthorize
  <2>2. a \in Nat
    BY AmountAssumption
  <2> DEFINE j == [Idle EXCEPT !.step = "authorize", !.ref = ref, !.amount = a]
  <2>3. j \in Job /\ j.step = "authorize"
    BY <1>1, <2>2 DEF Job, Steps
  <2> HIDE DEF j
  <2>4. j \in PlainJob
    BY <2>3, FreeJob DEF FreeSteps, Steps
  <2>5. QED
    BY <2>1, <2>4 DEF j
<1>4. CASE BeginCapture(p) \/ BeginCollect(p)
  BY <1>4, IdlePlain DEF BeginCapture, BeginCollect, FreeSteps, Steps
<1>5. CASE BeginRefund(p)
  <2>1. PICK a \in RefundAmounts, key \in Keys \cup {NoKey} :
          Begin(p, [Idle EXCEPT !.step = "reserveRefund", !.amount = a, !.key = key])
    BY <1>5 DEF BeginRefund
  <2>2. a \in Nat \ {0}
    BY AmountAssumption
  <2> DEFINE j == [Idle EXCEPT !.step = "reserveRefund", !.amount = a, !.key = key]
  <2>3. j \in Job /\ j.step = "reserveRefund" /\ j.amount = a
    BY <1>1, <2>2 DEF Job, Steps
  <2> HIDE DEF j
  <2>4. j \in PlainJob
    BY <2>2, <2>3 DEF PlainJob, GoodJob
  <2>5. QED
    BY <2>1, <2>4 DEF j
<1>6. CASE DeliverWebhook(p)
  <2>1. PICK e \in Events : Begin(p, [Idle EXCEPT !.step = "receipt", !.event = e])
    BY <1>6 DEF DeliverWebhook
  <2> DEFINE j == [Idle EXCEPT !.step = "receipt", !.event = e]
  <2>2. j \in Job /\ j.step = "receipt" /\ j.event = e
    BY <1>1 DEF Job, Steps
  <2> HIDE DEF j
  <2>3. j \in PlainJob
    BY <2>2 DEF PlainJob, GoodJob
  <2>4. QED
    BY <2>1, <2>3 DEF j
<1>7. CASE BeginLegacy(p)
  <2>1. CASE \E s \in {"legacyCapture", "legacyFail"} : Begin(p, [Idle EXCEPT !.step = s])
    BY <2>1, IdlePlain DEF FreeSteps, Steps
  <2>2. CASE \E a \in RefundAmounts : Begin(p, [Idle EXCEPT !.step = "legacyRefund", !.amount = a])
    <3>1. PICK a \in RefundAmounts : Begin(p, [Idle EXCEPT !.step = "legacyRefund", !.amount = a])
      BY <2>2
    <3>2. a \in Nat \ {0}
      BY AmountAssumption
    <3> DEFINE j == [Idle EXCEPT !.step = "legacyRefund", !.amount = a]
    <3>3. j \in Job /\ j.step = "legacyRefund" /\ j.amount = a
      BY <1>1, <3>2 DEF Job, Steps
    <3> HIDE DEF j
    <3>4. j \in PlainJob
      BY <3>2, <3>3 DEF PlainJob, GoodJob
    <3>5. QED
      BY <3>1, <3>4 DEF j
  <2>3. QED
    BY <1>7, <2>1, <2>2 DEF BeginLegacy
<1>8. QED
  BY <1>2, <1>3, <1>4, <1>5, <1>6, <1>7

\* A caller that crashes leaves the committed row as it is.
LEMMA CrashRows ==
  ASSUME IInv, NEW p \in Callers, Crash(p)
  PROVE  IInv'
<1>1. Rows' /\ Checked'
  BY IdlePlain, GotoRows DEF IInv, Crash, Rows
<1>2. QED
  BY <1>1 DEF IInv, Crash, Outside

\* The provider and the customer touch nothing the transactions work on.
LEMMA WorldRows ==
  ASSUME IInv, MoneyArrives \/ \E e \in Events : Emit(e)
  PROVE  IInv'
<1>1. UNCHANGED <<intent, job, snap, rowLock, processed, crashes>>
  BY DEF MoneyArrives, Emit
<1>2. psp' \in Psp /\ emitted' \subseteq Events
  <2>1. CASE MoneyArrives
    BY <2>1 DEF IInv, Outside, MoneyArrives, Psp
  <2>2. ASSUME NEW e \in Events, Emit(e)
        PROVE  psp' \in Psp /\ emitted' \subseteq Events
    <3>1. (psp.voided \/ KindOf[e] \in {"cancelled", "expired"}) \in BOOLEAN
      OBVIOUS
    <3>2. psp' \in Psp
      BY <2>2, <3>1 DEF IInv, Outside, Emit, Psp
    <3>3. QED
      BY <2>2, <3>2 DEF IInv, Outside, Emit
  <2>3. QED
    BY <2>1, <2>2
<1>3. Rows'
  BY <1>1 DEF IInv, Rows
<1>4. Checked'
  BY <1>1 DEF IInv, Checked, Applicable, Deferred
<1>5. QED
  BY <1>1, <1>2, <1>3, <1>4 DEF IInv, Outside

-----------------------------------------------------------------------------
\* The invariant holds of the empty system.
LEMMA InitRows == Init => IInv
<1> SUFFICES ASSUME Init PROVE IInv
  OBVIOUS
<1>1. Rows
  BY NoSnapSound, IdlePlain DEF Init, Rows, NoSnap, PlainJob
<1>2. Checked
  BY DEF Init, Checked, Idle
<1>3. Outside
  BY DEF Init, Outside, Psp
<1>4. QED
  BY <1>1, <1>2, <1>3 DEF IInv

\* Every step of the system keeps the invariant.
LEMMA NextRows == IInv /\ [Next]_vars => IInv'
<1> SUFFICES ASSUME IInv, [Next]_vars PROVE IInv'
  OBVIOUS
<1>1. CASE UNCHANGED vars
  BY <1>1 DEF vars, IInv, Rows, Checked, Outside, Applicable, Deferred
<1>2. ASSUME NEW p \in Callers, Step(p) PROVE IInv'
  BY <1>2, ReadRows, CreateRows, AdvanceRows, CaptureRows, RefundRows, ReceiptRows, MarkRows,
     CommitRows, CollectRows, LegacyRows DEF Step
<1>3. ASSUME NEW p \in Callers, Start(p) PROVE IInv'
  <2>1. CASE CreateIntent(p) \/ CreateLegacyIntent(p)
    BY <2>1, NewIntentRows
  <2>2. CASE ~(CreateIntent(p) \/ CreateLegacyIntent(p))
    <3>1. PICK j \in PlainJob : Begin(p, j)
      BY <1>3, <2>2, StartPlain DEF Start, IInv, Outside
    <3>2. Rows' /\ Checked' /\ UNCHANGED external
      BY <3>1, BeginRows DEF IInv
    <3>3. QED
      BY <3>2 DEF IInv, Outside, external
  <2>3. QED
    BY <2>1, <2>2
<1>4. QED
  BY <1>1, <1>2, <1>3, CrashRows, WorldRows DEF Next

\* Every variable of PaymentLifecycle keeps its type: whatever races, crashes and
\* retries, rows, jobs and what callers have read stay well formed, and a charge or a
\* refund never has amount zero.
THEOREM PaymentTypeCorrect == Spec => []TypeOK
<1>1. IInv => TypeOK
  BY DEF IInv, Rows, Outside, TypeOK, Sound, GoodJob
<1>2. QED
  BY <1>1, InitRows, NextRows, PTL DEF Spec

\* One intent is charged at most once, for any number of racing captures, webhooks,
\* collections, crashes and retries (CapturePaymentLifecycle.settle).
THEOREM ChargedOnce == Spec => []SingleCharge
<1>1. IInv => SingleCharge
  BY DEF IInv, Rows, Sound, SingleCharge
<1>2. QED
  BY <1>1, InitRows, NextRows, PTL DEF Spec
=============================================================================
