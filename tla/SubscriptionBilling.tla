------------------------- MODULE SubscriptionBilling -------------------------
(***************************************************************************)
(* How the platform bills one merchant's subscription                      *)
(* (services/licensing/src/application and the two billing jobs of         *)
(* apps/runtime/src/scheduler.ts).                                         *)
(*                                                                         *)
(* A renewal creates and issues an invoice and advances the schedule in    *)
(* one transaction, then collects the invoice through the PSP outside any  *)
(* transaction.  A declined renewal puts the subscription into grace, and  *)
(* the dunning job re-issues and collects the invoice again until it is    *)
(* paid or the attempts are used up.  Staff bill, collect, re-pin and      *)
(* cancel at any moment, and the merchant may pay an issued invoice at a   *)
(* hosted checkout, whose callback settles it.                             *)
(*                                                                         *)
(* Each process runs one call.  A job runs on one instance at a time while *)
(* its Redis lock holds; the lock lasts one interval and is not renewed,   *)
(* so a run that takes longer is overtaken by the next one.  Rows carry a  *)
(* version, and a save whose version is stale throws.  A write that checks *)
(* nothing but the row it has just read in its own transaction is one step.*)
(***************************************************************************)
EXTENDS Naturals, Sequences, FiniteSets

CONSTANTS
    Renewers,      \* instances that run the billing-renewals job
    Dunners,       \* instances that run the billing-dunning-retries job
    Admins,        \* staff requests and PSP callbacks under way at once
    MaxPeriods,    \* how many periods fall due
    MaxAttempts,   \* DunningPolicy.maxAttempts
    MaxRequests,   \* how many requests staff make
    MaxCrashes     \* how many calls are cut short or overtaken by the next run

ASSUME BillingAssumption ==
    /\ Renewers \cap Dunners = {}
    /\ (Renewers \cup Dunners) \cap Admins = {}
    /\ MaxPeriods \in Nat \ {0}
    /\ MaxAttempts \in Nat \ {0}
    /\ MaxRequests \in Nat
    /\ MaxCrashes \in Nat

VARIABLES
    sub,           \* the subscription's row
    invoices,      \* the invoices, in the order they were created
    charges,       \* PSP keys under which the stored card was charged
    declined,      \* PSP keys the PSP answered with a decline
    checkouts,     \* hosted checkouts opened for an invoice at a version
    settled,       \* the checkouts the merchant has paid
    ledger,        \* per invoice, the settlements posted to Finance
    job,           \* per process, the call it is in
    requests, crashes

vars == <<sub, invoices, charges, declined, checkouts, settled, ledger, job,
          requests, crashes>>

Process == Renewers \cup Dunners \cup Admins

-----------------------------------------------------------------------------
(* The aggregates.                                                         *)

InvoiceTransitions ==
    [draft  |-> {"issued", "voided"},
     issued |-> {"paid", "failed", "voided"},
     paid   |-> {},
     failed |-> {"issued", "voided"},
     voided |-> {}]

SubscriptionTransitions ==
    [trial     |-> {"active", "cancelled", "expired"},
     active    |-> {"grace", "suspended", "cancelled"},
     grace     |-> {"active", "expired", "cancelled"},
     expired   |-> {"active", "cancelled"},
     suspended |-> {"active", "cancelled"},
     cancelled |-> {}]

\* No dunning schedule: retryPolicy is undefined.
NoRetry == [invoice |-> 0, attempt |-> 0]

\* A call that is not under way.
Idle == [pc |-> "idle", invoice |-> 0, version |-> 0,
         sub |-> [status |-> "active", next |-> 0, retry |-> NoRetry, version |-> 0]]

Invoice(i) == invoices[i]

CanMove(i, to) == to \in InvoiceTransitions[invoices[i].status]

\* PrismaInvoiceRepository.save of a status change.
Moved(i, to) ==
    [invoices EXCEPT ![i].status = to, ![i].version = @ + 1]

\* The subscription was activated, and its first renewal is due.
Init ==
    /\ sub = [status |-> "active", next |-> 0, retry |-> NoRetry, version |-> 1]
    /\ invoices = <<>>
    /\ charges = {} /\ declined = {} /\ checkouts = {} /\ settled = {}
    /\ ledger = <<>>
    /\ job = [p \in Process |-> Idle]
    /\ requests = 0 /\ crashes = 0

Go(p, pc) == job' = [job EXCEPT ![p].pc = pc]

End(p) == job' = [job EXCEPT ![p] = Idle]

\* startJobLoop: a run of the job starts when none is under way, or when those
\* that are have outlived the lock.  It takes the place of an instance that is free.
Acquire(p, instances) ==
    /\ p = CHOOSE q \in instances : job[q].pc = "idle"
    /\ IF \A q \in instances : job[q].pc = "idle"
       THEN UNCHANGED crashes
       ELSE crashes < MaxCrashes /\ crashes' = crashes + 1

\* A process of the staff side takes up a request.
Requested(p) ==
    \/ p \in Admins /\ requests < MaxRequests /\ requests' = requests + 1
    \/ p \notin Admins /\ UNCHANGED requests

\* A read of the subscription inside a transaction that is to save it.
ReadSub(p, pc, i) ==
    job' = [job EXCEPT ![p] = [pc |-> pc, invoice |-> i, version |-> 0, sub |-> sub]]

\* Mutant: the save does not look at the version.
CanSaveSubAny(p) == p \in Process

\* PrismaSubscriptionRepository.save: the version read must still be there.
CanSaveSub(p) == job[p].sub.version = sub.version

-----------------------------------------------------------------------------
(* BillSubscriptionRenewal.                                                *)

\* Mutant: billed one period early.
DueEarly(s) == s.status = "active" /\ s.next <= MaxPeriods

\* The clock may pass nextRenewalAt at any time.
Due(s) == s.status = "active" /\ s.next < MaxPeriods

\* prepare reads the subscription; the job first lists the due ones, with
\* the same conditions.  Anything else is an error and changes nothing.
BeginRenewal(p) ==
    /\ p \notin Dunners
    /\ job[p].pc = "idle"
    /\ IF p \in Renewers THEN Acquire(p, Renewers) ELSE UNCHANGED crashes
    /\ Requested(p)
    /\ Due(sub)
    /\ ReadSub(p, "prepare", 0)
    /\ UNCHANGED <<sub, invoices, charges, declined, checkouts, settled, ledger>>

\* The rest of prepare: invoice, issue and schedule in one transaction.  The
\* merchant's coupon may bring the total to zero.
PrepareRenewal(p) ==
    /\ job[p].pc = "prepare"
    /\ CanSaveSub(p)
    /\ \E free \in BOOLEAN :
          invoices' = Append(invoices, [period |-> job[p].sub.next, status |-> "issued",
                                        version |-> 1, free |-> free])
    /\ ledger' = Append(ledger, 0)
    /\ sub' = [job[p].sub EXCEPT !.next = @ + 1, !.version = @ + 1]
    /\ job' = [job EXCEPT ![p] = [Idle EXCEPT !.pc = "precheck", !.invoice = Len(invoices) + 1]]
    /\ UNCHANGED <<charges, declined, checkouts, settled, requests, crashes>>

\* A lost race rolls prepare back.  The second and third attempt start over,
\* which is what BeginRenewal does.
PrepareConflict(p) ==
    /\ job[p].pc = "prepare"
    /\ ~CanSaveSub(p)
    /\ End(p)
    /\ UNCHANGED <<sub, invoices, charges, declined, checkouts, settled, ledger, requests, crashes>>

-----------------------------------------------------------------------------
(* CollectInvoice.  Renewals and dunning call it, and staff call it alone. *)

BeginCollect(p, i) ==
    /\ p \in Admins
    /\ job[p].pc = "idle"
    /\ Requested(p)
    /\ job' = [job EXCEPT ![p] = [Idle EXCEPT !.pc = "precheck", !.invoice = i]]
    /\ UNCHANGED <<sub, invoices, charges, declined, checkouts, settled, ledger, crashes>>

\* What a caller does with the result "ok": dunning goes on to recover().
AfterOk(p) == IF p \in Dunners THEN Go(p, "recover") ELSE End(p)

\* A thrown error: dunning and renewals read the invoice again.
AfterThrow(p) == IF p \in Admins THEN End(p) ELSE Go(p, "reread")

\* Mutant: an invoice that has moved on is taken for a paid one.
PrecheckLax(p) ==
    /\ job[p].pc = "precheck"
    /\ LET i == job[p].invoice
       IN  \/ /\ Invoice(i).status # "issued"
              /\ AfterOk(p)
           \/ /\ Invoice(i).status = "issued"
              /\ job' = [job EXCEPT ![p].pc = IF Invoice(i).free THEN "settle" ELSE "collect",
                                    ![p].version = IF Invoice(i).free THEN 0 ELSE Invoice(i).version]
    /\ UNCHANGED <<sub, invoices, charges, declined, checkouts, settled, ledger, requests, crashes>>

\* The version is read with the status it belongs to.
Precheck(p) ==
    /\ job[p].pc = "precheck"
    /\ LET i == job[p].invoice
       IN  \/ /\ Invoice(i).status = "paid"
              /\ AfterOk(p)
           \/ /\ Invoice(i).status = "issued"
              /\ job' = [job EXCEPT ![p].pc = IF Invoice(i).free THEN "settle" ELSE "collect",
                                    ![p].version = IF Invoice(i).free THEN 0 ELSE Invoice(i).version]
           \/ /\ Invoice(i).status \notin {"paid", "issued"}
              /\ End(p)
    /\ UNCHANGED <<sub, invoices, charges, declined, checkouts, settled, ledger, requests, crashes>>

\* Mutant: the key is made from the version found at the call.
KeyAtCall(p) == <<job[p].invoice, Invoice(job[p].invoice).version>>

\* `<invoiceId>:<version>:collect`.
Key(p) == <<job[p].invoice, job[p].version>>

\* The PSP (external): a key is charged or declined once, and a repeated key
\* gets the first outcome again.
PspApproves(key) ==
    /\ key \notin declined
    /\ charges' = charges \cup {key}
    /\ UNCHANGED declined

PspDeclines(key) ==
    /\ key \notin charges
    /\ declined' = declined \cup {key}
    /\ UNCHANGED charges

\* StoredMethodBillingPaymentsAdapter.collect returns for an approved charge.
\* It throws for a decline, for a merchant with no card (the PSP is not
\* called), and when the answer to an approved charge is lost.
CollectApproved(p) ==
    /\ job[p].pc = "collect"
    /\ PspApproves(Key(p))
    /\ job' = [job EXCEPT ![p].pc = "settle", ![p].version = 0]
    /\ UNCHANGED <<sub, invoices, checkouts, settled, ledger, requests, crashes>>

\* Mutant: an error of the PSP is taken for an approval.
CollectThrowsSettled(p) ==
    /\ job[p].pc = "collect"
    /\ \/ PspDeclines(Key(p))
       \/ PspApproves(Key(p))
       \/ UNCHANGED <<charges, declined>>
    /\ job' = [job EXCEPT ![p].pc = "settle", ![p].version = 0]
    /\ UNCHANGED <<sub, invoices, checkouts, settled, ledger, requests, crashes>>

CollectThrows(p) ==
    /\ job[p].pc = "collect"
    /\ \/ PspDeclines(Key(p))
       \/ PspApproves(Key(p))
       \/ UNCHANGED <<charges, declined>>
    /\ job' = [job EXCEPT ![p].pc = "settleFailure", ![p].version = 0]
    /\ UNCHANGED <<sub, invoices, checkouts, settled, ledger, requests, crashes>>

\* Mutant: a call that finds the invoice paid posts it as well.
SettleSuccessPosting(p) ==
    /\ job[p].pc = "settle"
    /\ LET i == job[p].invoice
       IN  \/ /\ CanMove(i, "paid")
              /\ invoices' = Moved(i, "paid")
              /\ Go(p, "post")
           \/ /\ Invoice(i).status = "paid"
              /\ Go(p, "post")
              /\ UNCHANGED invoices
           \/ /\ Invoice(i).status # "paid" /\ ~CanMove(i, "paid")
              /\ End(p)
              /\ UNCHANGED invoices
    /\ UNCHANGED <<sub, charges, declined, checkouts, settled, ledger, requests, crashes>>

\* settleSuccess: only the call that marks the invoice paid posts to Finance,
\* and a free invoice has nothing to post.
SettleSuccess(p) ==
    /\ job[p].pc = "settle"
    /\ LET i == job[p].invoice
       IN  \/ /\ CanMove(i, "paid")
              /\ invoices' = Moved(i, "paid")
              /\ IF Invoice(i).free THEN AfterOk(p) ELSE Go(p, "post")
           \/ /\ Invoice(i).status = "paid"
              /\ AfterOk(p)
              /\ UNCHANGED invoices
           \/ /\ Invoice(i).status # "paid" /\ ~CanMove(i, "paid")
              /\ End(p)
              /\ UNCHANGED invoices
    /\ UNCHANGED <<sub, charges, declined, checkouts, settled, ledger, requests, crashes>>

\* financeLedger.postSettlement is best effort.
PostSettlement(p) ==
    /\ job[p].pc = "post"
    /\ \/ ledger' = [ledger EXCEPT ![job[p].invoice] = @ + 1]
       \/ UNCHANGED ledger
    /\ AfterOk(p)
    /\ UNCHANGED <<sub, invoices, charges, declined, checkouts, settled, requests, crashes>>

\* settleFailure: an invoice that is no longer issued is left alone.
SettleFailure(p) ==
    /\ job[p].pc = "settleFailure"
    /\ invoices' = IF Invoice(job[p].invoice).status = "issued"
                   THEN Moved(job[p].invoice, "failed")
                   ELSE invoices
    /\ AfterThrow(p)
    /\ UNCHANGED <<sub, charges, declined, checkouts, settled, ledger, requests, crashes>>

\* The catch of renewals and dunning: only an invoice recorded as failed is a
\* declined charge; any other error is thrown on.
Reread(p) ==
    /\ job[p].pc = "reread"
    /\ IF Invoice(job[p].invoice).status = "failed"
       THEN Go(p, IF p \in Dunners THEN "reschedule" ELSE "enter")
       ELSE End(p)
    /\ UNCHANGED <<sub, invoices, charges, declined, checkouts, settled, ledger, requests, crashes>>

-----------------------------------------------------------------------------
(* EnterDunning and RetryDunningInvoice.                                   *)

\* EnterDunning's transaction reads the subscription.  From any status but
\* active it changes nothing.
EnterDunning(p) ==
    /\ job[p].pc = "enter"
    /\ IF sub.status = "active" THEN ReadSub(p, "enterSave", job[p].invoice) ELSE End(p)
    /\ UNCHANGED <<sub, invoices, charges, declined, checkouts, settled, ledger, requests, crashes>>

\* The dunning job finds a subscription in grace whose retry is due (the
\* intervals are not modelled: it may be due at any time).
BeginRetry(p) ==
    /\ p \in Dunners
    /\ job[p].pc = "idle"
    /\ Acquire(p, Dunners)
    /\ sub.status = "grace" /\ sub.retry # NoRetry
    /\ job' = [job EXCEPT ![p] = [Idle EXCEPT !.pc = "readInvoice", !.invoice = sub.retry.invoice]]
    /\ UNCHANGED <<sub, invoices, charges, declined, checkouts, settled, ledger, requests>>

ReadInvoice(p) ==
    /\ job[p].pc = "readInvoice"
    /\ CASE Invoice(job[p].invoice).status = "failed" -> Go(p, "issue")
         [] Invoice(job[p].invoice).status \in {"issued", "paid"} -> Go(p, "precheck")
         [] OTHER -> End(p)
    /\ UNCHANGED <<sub, invoices, charges, declined, checkouts, settled, ledger, requests, crashes>>

\* IssueInvoice, refused when the invoice has moved on since it was read.
IssueInvoice(p) ==
    /\ job[p].pc = "issue"
    /\ IF CanMove(job[p].invoice, "issued")
       THEN invoices' = Moved(job[p].invoice, "issued") /\ Go(p, "precheck")
       ELSE End(p) /\ UNCHANGED invoices
    /\ UNCHANGED <<sub, charges, declined, checkouts, settled, ledger, requests, crashes>>

\* recover and rescheduleOrExhaust read the subscription; another status
\* than grace is reported, not changed.
ReadGrace(p) ==
    /\ job[p].pc \in {"recover", "reschedule"}
    /\ IF sub.status = "grace"
       THEN ReadSub(p, IF job[p].pc = "recover" THEN "recoverSave" ELSE "rescheduleSave",
                    job[p].invoice)
       ELSE End(p)
    /\ UNCHANGED <<sub, invoices, charges, declined, checkouts, settled, ledger, requests, crashes>>

\* Mutant: the next retry is not recorded.
RescheduledOnce(s, i) ==
    IF s.retry.attempt + 1 >= MaxAttempts
    THEN [s EXCEPT !.status = "expired", !.retry = NoRetry]
    ELSE [s EXCEPT !.retry = NoRetry]

\* The row rescheduleOrExhaust writes.
Rescheduled(s, i) ==
    IF s.retry.attempt + 1 >= MaxAttempts
    THEN [s EXCEPT !.status = "expired", !.retry = NoRetry]
    ELSE [s EXCEPT !.retry = [invoice |-> i, attempt |-> s.retry.attempt + 1]]

\* What the three transactions write.
Updated(pc, s, i) ==
    CASE pc = "enterSave"      -> [s EXCEPT !.status = "grace",
                                            !.retry = [invoice |-> i, attempt |-> 0]]
      [] pc = "recoverSave"    -> [s EXCEPT !.status = "active", !.retry = NoRetry]
      [] pc = "rescheduleSave" -> Rescheduled(s, i)

\* The save; with a stale version it throws, and nothing retries it.
SaveSub(p) ==
    /\ job[p].pc \in {"enterSave", "recoverSave", "rescheduleSave"}
    /\ sub' = IF CanSaveSub(p)
              THEN [Updated(job[p].pc, job[p].sub, job[p].invoice) EXCEPT !.version = @ + 1]
              ELSE sub
    /\ End(p)
    /\ UNCHANGED <<invoices, charges, declined, checkouts, settled, ledger, requests, crashes>>

-----------------------------------------------------------------------------
(* The hosted checkout, and the other requests of staff.                   *)

\* BeginCardEnrolment: only for an issued invoice with something to pay.
BeginCardEnrolment(i) ==
    /\ requests < MaxRequests
    /\ Invoice(i).status = "issued" /\ ~Invoice(i).free
    /\ checkouts' = checkouts \cup {<<i, Invoice(i).version>>}
    /\ requests' = requests + 1
    /\ UNCHANGED <<sub, invoices, charges, declined, settled, ledger, job, crashes>>

\* The merchant pays at the checkout (external).
PayCheckout(c) ==
    /\ c \in checkouts \ settled
    /\ settled' = settled \cup {c}
    /\ UNCHANGED <<sub, invoices, charges, declined, checkouts, ledger, job, requests, crashes>>

\* RecordInvoiceTransaction of a settled payment, delivered any number of
\* times: an invoice that is not issued is left alone.
RecordInvoiceTransaction(p, c) ==
    /\ p \in Admins
    /\ job[p].pc = "idle"
    /\ c \in settled
    /\ IF Invoice(c[1]).status = "issued"
       THEN /\ invoices' = Moved(c[1], "paid")
            /\ job' = [job EXCEPT ![p] = [Idle EXCEPT !.pc = "post", !.invoice = c[1]]]
       ELSE UNCHANGED <<invoices, job>>
    /\ UNCHANGED <<sub, charges, declined, checkouts, settled, ledger, requests, crashes>>

\* CancelSubscription.
Cancel ==
    /\ requests < MaxRequests
    /\ "cancelled" \in SubscriptionTransitions[sub.status]
    /\ sub' = [sub EXCEPT !.status = "cancelled", !.version = @ + 1]
    /\ requests' = requests + 1
    /\ UNCHANGED <<invoices, charges, declined, checkouts, settled, ledger, job, crashes>>

\* RepinSubscription: the price is not modelled, the new version is.
Repin ==
    /\ requests < MaxRequests
    /\ sub' = [sub EXCEPT !.version = @ + 1]
    /\ requests' = requests + 1
    /\ UNCHANGED <<invoices, charges, declined, checkouts, settled, ledger, job, crashes>>

\* The process of a call dies.
Crash(p) ==
    /\ crashes < MaxCrashes
    /\ job[p].pc # "idle"
    /\ crashes' = crashes + 1
    /\ End(p)
    /\ UNCHANGED <<sub, invoices, charges, declined, checkouts, settled, ledger, requests>>

-----------------------------------------------------------------------------
\* The steps of a call that is under way.
Step(p) ==
    \/ PrepareRenewal(p) \/ PrepareConflict(p)
    \/ Precheck(p) \/ CollectApproved(p) \/ CollectThrows(p)
    \/ SettleSuccess(p) \/ PostSettlement(p) \/ SettleFailure(p) \/ Reread(p)
    \/ EnterDunning(p) \/ ReadInvoice(p) \/ IssueInvoice(p)
    \/ ReadGrace(p) \/ SaveSub(p)

Next ==
    \/ \E p \in Process :
          \/ BeginRenewal(p) \/ BeginRetry(p) \/ Step(p) \/ Crash(p)
          \/ \E i \in DOMAIN invoices : BeginCollect(p, i)
          \/ \E c \in settled : RecordInvoiceTransaction(p, c)
    \/ \E i \in DOMAIN invoices : BeginCardEnrolment(i)
    \/ \E c \in checkouts : PayCheckout(c)
    \/ Cancel \/ Repin

\* The jobs run every hour, on some instance, and their calls go on; nobody owes
\* a request, a payment, a crash or an expired lock.
Fairness ==
    /\ WF_vars(\E p \in Renewers : BeginRenewal(p))
    /\ WF_vars(\E p \in Dunners : BeginRetry(p))
    /\ \A p \in Process : WF_vars(Step(p))

Spec == Init /\ [][Next]_vars /\ Fairness

-----------------------------------------------------------------------------
(* Properties.                                                             *)

Subscriptions ==
    [status : DOMAIN SubscriptionTransitions, next : Nat,
     retry : [invoice : Nat, attempt : Nat], version : Nat]

Keys == Nat \X Nat

\* Types.  A call past its start works on an invoice that exists, and the
\* subscription is billed for no period that is not due.
TypeOK ==
    /\ sub \in Subscriptions
    /\ invoices \in Seq([period : Nat, status : DOMAIN InvoiceTransitions,
                         version : Nat, free : BOOLEAN])
    /\ charges \subseteq Keys /\ declined \subseteq Keys
    /\ checkouts \subseteq Keys /\ settled \subseteq checkouts
    /\ ledger \in Seq(Nat) /\ Len(ledger) = Len(invoices)
    /\ DOMAIN job = Process
    /\ \A p \in Process :
          /\ job[p].sub \in Subscriptions
          /\ job[p].pc \notin {"idle", "prepare"} => job[p].invoice \in DOMAIN invoices
    /\ sub.retry # NoRetry => sub.retry.invoice \in DOMAIN invoices
    /\ sub.next <= MaxPeriods

\* "One invoice per period": whatever renewals race for a period, the job's
\* or the staff's, one of them creates its invoice
\* (BillSubscriptionRenewal.prepare under the subscription's version).
OneInvoicePerPeriod ==
    \A i, j \in DOMAIN invoices : invoices[i].period = invoices[j].period => i = j

\* An invoice recorded as paid was paid for: its card was charged, its
\* checkout was paid, or a coupon left nothing to pay, whatever call of
\* CollectInvoice or callback recorded it.
PaidIsCharged ==
    \A i \in DOMAIN invoices :
        invoices[i].status = "paid" =>
            \/ invoices[i].free
            \/ \E k \in charges \cup settled : k[1] = i

\* However many calls collect an invoice, and whatever crashes on the way,
\* its card is charged at most once each time the invoice is issued: the PSP
\* key is the version the status was read with (CollectInvoice.precheck).
OneChargePerIssue ==
    \A i \in DOMAIN invoices :
        Cardinality({k \in charges : k[1] = i}) <= (invoices[i].version + 1) \div 2

\* A settlement is posted to Finance at most once, and only for a paid
\* invoice, though CollectInvoice and the callback may settle the same one.
PostedOnce ==
    \A i \in DOMAIN ledger :
        /\ ledger[i] <= 1
        /\ ledger[i] = 1 => invoices[i].status = "paid"

\* Grace ends only on what a retry came to: back to active only once an invoice
\* that had failed is paid, expired only after an invoice failed, was issued again
\* and that collection was answered too, although overlapping runs of the job, staff
\* and callbacks settle the same invoice.  An invoice's version counts its moves:
\* issued, failed, issued again, and the answer
\* (RetryDunningInvoice.recover and rescheduleOrExhaust).
GraceEndsOnResult ==
    [][sub.status = "grace" =>
          /\ sub'.status = "active"  =>
                \E i \in DOMAIN invoices : invoices[i].status = "paid" /\ invoices[i].version >= 4
          /\ sub'.status = "expired" =>
                \E i \in DOMAIN invoices : invoices[i].version >= 4]_vars

\* Grace ends: the retries are used up, pay or are cancelled, whatever staff
\* collect meanwhile and whatever crashes.
GraceEnds == (sub.status = "grace") ~> (sub.status # "grace")

\* A declined renewal is read by dunning: the invoice of an active
\* subscription does not stay failed
\* (BillSubscriptionRenewalOutput.status, EnterDunning).
FailedIsChased ==
    (\E i \in DOMAIN invoices : invoices[i].status = "failed" /\ sub.status = "active")
        ~> (sub.status # "active" \/ \A i \in DOMAIN invoices : invoices[i].status # "failed")

\* "One invoice per period, and therefore one charge": a renewal is not paid
\* for twice.
PaidOnce ==
    \A i \in DOMAIN invoices : Cardinality({k \in charges : k[1] = i}) <= 1

=============================================================================
