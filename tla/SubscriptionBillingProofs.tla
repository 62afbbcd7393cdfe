---------------------- MODULE SubscriptionBillingProofs ----------------------
(***************************************************************************)
(* What holds of the billing of a subscription for any number of staff       *)
(* requests, periods, dunning attempts and crashes, and of runs of the two   *)
(* jobs that overlap.                                                        *)
(*                                                                           *)
(* None of the invariants is inductive.  Promise says what each half-done    *)
(* call may rely on although every other call goes on meanwhile; Stable is   *)
(* what a step of one process does to everybody else, and keeps a Promise.   *)
(* Books relates the rows to one another, Posting the rows to the calls that *)
(* are about to post a settlement.                                           *)
(***************************************************************************)
EXTENDS SubscriptionBilling, FiniteSetTheorems, TLAPS

Pcs == {"idle", "prepare", "precheck", "collect", "settle", "settleFailure", "post",
        "reread", "enter", "enterSave", "readInvoice", "issue", "recover", "recoverSave",
        "reschedule", "rescheduleSave"}

Jobs == [pc : Pcs, invoice : Nat, version : Nat, sub : Subscriptions]

Invoices == [period : Nat, status : {"issued", "paid", "failed"}, version : Nat,
             free : BOOLEAN]

Types ==
  /\ sub \in Subscriptions
  /\ invoices \in Seq(Invoices)
  /\ charges \subseteq Keys /\ declined \subseteq Keys
  /\ checkouts \subseteq Keys /\ settled \subseteq checkouts
  /\ ledger \in Seq(Nat) /\ Len(ledger) = Len(invoices)
  /\ job \in [Process -> Jobs]

Odd(n) == n % 2 = 1

\* The invoice has failed, and if it was paid, after it was issued again.
Chased(i) ==
  invoices[i].version >= 2 /\ (invoices[i].status = "paid" => invoices[i].version >= 4)

\* The rows among themselves.  An invoice is issued at odd versions and at no
\* others, so a key that was charged names one issue of its invoice.
Books ==
  /\ sub.retry # NoRetry => sub.retry.invoice \in DOMAIN invoices /\ Chased(sub.retry.invoice)
  /\ sub.next <= MaxPeriods
  /\ \A i \in DOMAIN invoices :
       /\ invoices[i].period < sub.next
       /\ invoices[i].version >= 1
       /\ invoices[i].status = "issued" <=> Odd(invoices[i].version)
  /\ OneInvoicePerPeriod
  /\ PaidIsCharged
  /\ \A k \in charges : /\ k[1] \in DOMAIN invoices
                        /\ Odd(k[2]) /\ k[2] <= invoices[k[1]].version
  /\ \A k \in checkouts : k[1] \in DOMAIN invoices

\* A settlement that is about to be posted is of a paid invoice, has not been
\* posted, and no other call is about to post it.
Posting ==
  /\ \A i \in DOMAIN ledger :
       ledger[i] <= 1 /\ (ledger[i] = 1 => invoices[i].status = "paid")
  /\ \A p \in Process :
       job[p].pc = "post" => /\ invoices[job[p].invoice].status = "paid"
                             /\ ledger[job[p].invoice] = 0
  /\ \A p, q \in Process :
       job[p].pc = "post" /\ job[q].pc = "post" /\ job[p].invoice = job[q].invoice => p = q

\* What the call of process q may rely on.
Promise(q) ==
  LET i == job[q].invoice
      pc == job[q].pc
  IN  /\ pc \notin {"idle", "prepare"} => i \in DOMAIN invoices
      /\ pc \in {"prepare", "enterSave", "recoverSave", "rescheduleSave"} =>
           /\ job[q].sub.version <= sub.version
           /\ job[q].sub.version = sub.version => job[q].sub = sub
      /\ pc = "prepare" => Due(job[q].sub)
      /\ pc = "enterSave" => job[q].sub.status = "active"
      /\ pc \in {"recoverSave", "rescheduleSave"} => job[q].sub.status = "grace"
      /\ pc = "settle" => \/ invoices[i].free
                          \/ \E k \in charges \cup settled : k[1] = i
      /\ pc = "collect" => Odd(job[q].version) /\ job[q].version <= invoices[i].version
      /\ pc \in {"recover", "recoverSave"} => invoices[i].status = "paid"
      /\ pc \in {"reschedule", "rescheduleSave"} => invoices[i].version >= 4
      /\ pc \in {"readInvoice", "issue", "recover", "recoverSave", "reschedule",
                 "rescheduleSave"} => q \in Dunners
      /\ pc \in {"prepare", "enter", "enterSave"} => q \notin Dunners
      /\ pc \in {"enter", "enterSave"} => Chased(i)
      /\ q \in Dunners /\ pc # "idle" => Chased(i)
      /\ q \in Dunners /\ pc \in {"collect", "settle", "settleFailure", "post", "reread"} =>
           invoices[i].version >= 3

\* The inductive invariant.
IInv == Types /\ Books /\ Posting /\ \A q \in Process : Promise(q)

-----------------------------------------------------------------------------
(* The fields of the rows.                                                 *)

LEMMA InvoiceFields ==
  ASSUME NEW s \in Seq(Invoices), NEW j \in DOMAIN s
  PROVE  /\ s[j] \in Invoices
         /\ s[j].period \in Nat /\ s[j].version \in Nat /\ s[j].free \in BOOLEAN
         /\ s[j].status \in {"issued", "paid", "failed"}
<1>1. s[j] \in Invoices
  OBVIOUS
<1> QED BY <1>1 DEF Invoices

LEMMA SubFields ==
  ASSUME NEW s \in Subscriptions
  PROVE  /\ s.version \in Nat /\ s.next \in Nat /\ s.retry \in [invoice : Nat, attempt : Nat]
         /\ s.retry.invoice \in Nat /\ s.retry.attempt \in Nat
         /\ s.status \in {"trial", "active", "grace", "expired", "suspended", "cancelled"}
         /\ DOMAIN s = {"status", "next", "retry", "version"}
BY DEF Subscriptions, SubscriptionTransitions

LEMMA JobFields ==
  ASSUME NEW j \in [Process -> Jobs], NEW q \in Process
  PROVE  /\ j[q] \in Jobs /\ DOMAIN j = Process
         /\ j[q].pc \in Pcs /\ j[q].invoice \in Nat /\ j[q].version \in Nat
         /\ j[q].sub \in Subscriptions
BY DEF Jobs

-----------------------------------------------------------------------------
(* What a step does to the calls that do not take it.                      *)

\* Invoices are only added, keep their price, gain versions, and stay paid and
\* chased.
InvoicesMove ==
  /\ DOMAIN invoices \subseteq DOMAIN invoices'
  /\ \A i \in DOMAIN invoices :
       /\ invoices'[i].free = invoices[i].free
       /\ invoices'[i].version >= invoices[i].version
       /\ invoices[i].status = "paid" => invoices'[i].status = "paid"
       /\ Chased(i) => Chased(i)'

\* A change of the subscription is a new version.
SubMove == sub' = sub \/ sub'.version > sub.version

MoneyMove == charges \subseteq charges' /\ settled \subseteq settled'

Stable(q) == job'[q] = job[q] /\ InvoicesMove /\ SubMove /\ MoneyMove

LEMMA PromiseKept ==
  ASSUME Types, Types', NEW q \in Process, Promise(q), Stable(q)
  PROVE  Promise(q)'
<1> DEFINE i == job[q].invoice
           pc == job[q].pc
<1>0. /\ job[q] \in Jobs /\ job[q].sub \in Subscriptions
      /\ job[q].version \in Nat /\ job[q].sub.version \in Nat
      /\ sub.version \in Nat /\ sub'.version \in Nat
      /\ \A j \in DOMAIN invoices : invoices[j].version \in Nat
      /\ \A j \in DOMAIN invoices' : invoices'[j].version \in Nat
  BY InvoiceFields, SubFields, JobFields DEF Types
<1>1. job'[q] = job[q] /\ InvoicesMove /\ SubMove /\ MoneyMove
  BY DEF Stable
<1>2. pc \notin {"idle", "prepare"} => i \in DOMAIN invoices /\ i \in DOMAIN invoices'
  BY <1>1 DEF Promise, InvoicesMove
<1>3. pc \in {"prepare", "enterSave", "recoverSave", "rescheduleSave"} =>
           /\ job[q].sub.version <= sub'.version
           /\ job[q].sub.version = sub'.version => job[q].sub = sub'
  <2> HAVE pc \in {"prepare", "enterSave", "recoverSave", "rescheduleSave"}
  <2>1. /\ job[q].sub.version <= sub.version
        /\ job[q].sub.version = sub.version => job[q].sub = sub
    BY DEF Promise
  <2>2. CASE sub' = sub
    BY <2>1, <2>2
  <2>3. CASE sub'.version > sub.version
    BY <2>1, <2>3, <1>0
  <2> QED BY <1>1, <2>2, <2>3 DEF SubMove
<1>4. pc = "settle" => \/ invoices'[i].free
                       \/ \E k \in charges' \cup settled' : k[1] = i
  BY <1>1, <1>2 DEF Promise, InvoicesMove, MoneyMove
<1>5. pc = "collect" => Odd(job[q].version) /\ job[q].version <= invoices'[i].version
  <2> HAVE pc = "collect"
  <2>1. Odd(job[q].version) /\ job[q].version <= invoices[i].version
    BY DEF Promise
  <2>2. invoices'[i].version >= invoices[i].version
    BY <1>1, <1>2 DEF InvoicesMove
  <2> QED BY <2>1, <2>2, <1>0, <1>2
<1>6. /\ pc \in {"recover", "recoverSave"} => invoices'[i].status = "paid"
      /\ pc \in {"enter", "enterSave"} \/ (q \in Dunners /\ pc # "idle") =>
           /\ invoices'[i].version >= 2
           /\ invoices'[i].status = "paid" => invoices'[i].version >= 4
  <2>1. i \in DOMAIN invoices /\ Chased(i) =>
           /\ invoices'[i].version >= 2
           /\ invoices'[i].status = "paid" => invoices'[i].version >= 4
    BY <1>1 DEF InvoicesMove, Chased
  <2>2. pc \in {"enter", "enterSave"} \/ (q \in Dunners /\ pc # "idle") =>
           i \in DOMAIN invoices /\ Chased(i)
    BY <1>2 DEF Promise
  <2> QED BY <1>1, <1>2, <2>1, <2>2 DEF Promise, InvoicesMove
<1>7. /\ pc \in {"reschedule", "rescheduleSave"} => invoices'[i].version >= 4
      /\ q \in Dunners /\ pc \in {"collect", "settle", "settleFailure", "post", "reread"} =>
           invoices'[i].version >= 3
  <2>1. i \in DOMAIN invoices /\ i \in DOMAIN invoices' =>
          /\ invoices'[i].version >= invoices[i].version
          /\ invoices[i].version \in Nat /\ invoices'[i].version \in Nat
    BY <1>0, <1>1 DEF InvoicesMove
  <2> QED BY <1>2, <2>1 DEF Promise
<1>8. /\ pc = "prepare" => Due(job[q].sub)
      /\ pc = "enterSave" => job[q].sub.status = "active"
      /\ pc \in {"recoverSave", "rescheduleSave"} => job[q].sub.status = "grace"
      /\ pc \in {"readInvoice", "issue", "recover", "recoverSave", "reschedule",
                 "rescheduleSave"} => q \in Dunners
      /\ pc \in {"prepare", "enter", "enterSave"} => q \notin Dunners
  BY DEF Promise
<1> HIDE DEF i, pc
<1>9. job'[q].invoice = i /\ job'[q].pc = pc
  BY <1>1 DEF i, pc
<1> QED BY <1>1, <1>2, <1>3, <1>4, <1>5, <1>6, <1>7, <1>8, <1>9 DEF Promise, Due, Chased

-----------------------------------------------------------------------------
(* What the steps do to the invoices.                                      *)

LEMMA Parity ==
  ASSUME NEW n \in Nat
  PROVE  n + 1 \in Nat /\ n + 1 > n /\ (Odd(n + 1) <=> ~Odd(n))
BY DEF Odd

\* A status change keeps the other invoices, and the price and the period.
LEMMA MovedRow ==
  ASSUME Types, NEW i \in DOMAIN invoices, NEW to \in {"issued", "paid", "failed"},
         invoices' = Moved(i, to)
  PROVE  /\ invoices' \in Seq(Invoices)
         /\ DOMAIN invoices' = DOMAIN invoices /\ Len(invoices') = Len(invoices)
         /\ invoices'[i].status = to /\ invoices'[i].version = invoices[i].version + 1
         /\ invoices'[i].free = invoices[i].free /\ invoices'[i].period = invoices[i].period
         /\ \A j \in DOMAIN invoices : j # i => invoices'[j] = invoices[j]
<1>1. /\ invoices \in Seq(Invoices) /\ invoices[i] \in Invoices
      /\ invoices[i].version + 1 \in Nat
  BY InvoiceFields DEF Types
<1> DEFINE row == [invoices[i] EXCEPT !.status = to, !.version = @ + 1]
<1>2. row \in Invoices
  BY <1>1 DEF Invoices
<1>3. /\ row.status = to /\ row.version = invoices[i].version + 1
      /\ row.free = invoices[i].free /\ row.period = invoices[i].period
  BY <1>1 DEF Invoices
<1>4. invoices' = [invoices EXCEPT ![i] = row]
  BY DEF Moved
<1> HIDE DEF row
<1>5. /\ invoices' \in Seq(Invoices)
      /\ DOMAIN invoices' = DOMAIN invoices /\ Len(invoices') = Len(invoices)
      /\ invoices'[i] = row
      /\ \A j \in DOMAIN invoices : j # i => invoices'[j] = invoices[j]
  BY <1>1, <1>2, <1>4
<1> QED BY <1>3, <1>5

\* A new invoice comes after the others.
LEMMA AppendedRow ==
  ASSUME Types, NEW row \in Invoices, invoices' = Append(invoices, row)
  PROVE  /\ invoices' \in Seq(Invoices)
         /\ Len(invoices') = Len(invoices) + 1
         /\ DOMAIN invoices' = DOMAIN invoices \cup {Len(invoices) + 1}
         /\ Len(invoices) + 1 \notin DOMAIN invoices
         /\ invoices'[Len(invoices) + 1] = row
         /\ \A j \in DOMAIN invoices : invoices'[j] = invoices[j]
BY DEF Types

\* The rows after a legal status change; an invoice becomes paid when it was
\* paid for.
LEMMA BooksMoved ==
  ASSUME Types, Books, NEW i \in DOMAIN invoices, NEW to \in {"issued", "paid", "failed"},
         IF to = "issued" THEN invoices[i].status = "failed" ELSE invoices[i].status = "issued",
         to = "paid" => invoices[i].free \/ \E k \in charges \cup settled : k[1] = i,
         invoices' = Moved(i, to), UNCHANGED <<sub, charges, checkouts, settled>>
  PROVE  Books' /\ InvoicesMove
<1>1. /\ DOMAIN invoices' = DOMAIN invoices
      /\ invoices'[i].status = to /\ invoices'[i].version = invoices[i].version + 1
      /\ invoices'[i].free = invoices[i].free /\ invoices'[i].period = invoices[i].period
      /\ \A j \in DOMAIN invoices : j # i => invoices'[j] = invoices[j]
  BY MovedRow
<1>2. \A j \in DOMAIN invoices : invoices[j].version \in Nat
  BY InvoiceFields DEF Types
<1>3. /\ invoices[i].version + 1 > invoices[i].version
      /\ Odd(invoices[i].version + 1) <=> ~Odd(invoices[i].version)
  BY <1>2, Parity
<1>4. \A j \in DOMAIN invoices :
        /\ invoices'[j].period = invoices[j].period
        /\ invoices'[j].free = invoices[j].free
        /\ invoices'[j].version >= invoices[j].version
  BY <1>1, <1>2, <1>3
<1>a. \A j \in DOMAIN invoices : Chased(j) => Chased(j)'
  <2> SUFFICES ASSUME NEW j \in DOMAIN invoices, Chased(j) PROVE Chased(j)'
    OBVIOUS
  <2>1. CASE j # i
    BY <1>1, <2>1 DEF Chased
  <2>2. CASE j = i
    <3>1. invoices[i].version \in Nat /\ invoices[i].version >= 2
      BY <1>2, <2>2 DEF Chased
    <3>2. to = "paid" => Odd(invoices[i].version)
      BY DEF Books
    <3>3. to = "paid" => invoices[i].version + 1 >= 4
      BY <3>1, <3>2 DEF Odd
    <3> QED BY <1>1, <2>2, <3>1, <3>3 DEF Chased
  <2> QED BY <2>1, <2>2
<1>5. InvoicesMove
  BY <1>1, <1>4, <1>a DEF InvoicesMove
<1>6. \A j \in DOMAIN invoices' :
       /\ invoices'[j].period < sub'.next
       /\ invoices'[j].version >= 1
       /\ invoices'[j].status = "issued" <=> Odd(invoices'[j].version)
  <2>1. \A j \in DOMAIN invoices : invoices'[j].version >= 1
    <3> TAKE j \in DOMAIN invoices
    <3>1. /\ invoices[j].version \in Nat /\ invoices[j].version >= 1
          /\ invoices'[j].version = invoices[j].version \/ invoices'[j].version = invoices[j].version + 1
      BY <1>1, <1>2 DEF Books
    <3> QED BY <3>1
  <2> QED BY <1>1, <1>3, <1>4, <2>1 DEF Books
<1>7. OneInvoicePerPeriod'
  BY <1>1, <1>4 DEF Books, OneInvoicePerPeriod
<1>8. PaidIsCharged'
  BY <1>1, <1>4 DEF Books, PaidIsCharged
<1>9. \A k \in charges' : /\ k[1] \in DOMAIN invoices'
                          /\ Odd(k[2]) /\ k[2] <= invoices'[k[1]].version
  <2> TAKE k \in charges'
  <2>1. k[2] \in Nat /\ k[1] \in DOMAIN invoices /\ Odd(k[2]) /\ k[2] <= invoices[k[1]].version
    BY DEF Books, Types, Keys
  <2> QED BY <2>1, <1>1, <1>2, <1>3, <1>4
<1>10. sub'.retry # NoRetry =>
         sub'.retry.invoice \in DOMAIN invoices' /\ Chased(sub.retry.invoice)'
  BY <1>1, <1>a DEF Books
<1> QED BY <1>1, <1>5, <1>6, <1>7, <1>8, <1>9, <1>10 DEF Books, Chased

\* The rows after prepare: the new period is one that no invoice has.
LEMMA BooksAppended ==
  ASSUME Types, Books, NEW free \in BOOLEAN, sub.next < MaxPeriods,
         invoices' = Append(invoices, [period |-> sub.next, status |-> "issued",
                                       version |-> 1, free |-> free]),
         sub' = [sub EXCEPT !.next = @ + 1, !.version = @ + 1],
         UNCHANGED <<charges, checkouts, settled>>
  PROVE  /\ Books' /\ invoices' \in Seq(Invoices) /\ sub' \in Subscriptions
         /\ InvoicesMove
         /\ Len(invoices') = Len(invoices) + 1 /\ Len(invoices) + 1 \in DOMAIN invoices'
         /\ sub'.version > sub.version /\ sub'.status = sub.status
<1> DEFINE row == [period |-> sub.next, status |-> "issued", version |-> 1, free |-> free]
           n == Len(invoices) + 1
<1>0. /\ sub \in Subscriptions /\ sub.next \in Nat /\ sub.version \in Nat
      /\ DOMAIN sub = {"status", "next", "retry", "version"}
  BY SubFields DEF Types
<1>1. row \in Invoices /\ row.period = sub.next /\ row.status = "issued" /\ row.version = 1
  BY <1>0 DEF Invoices
<1>2. invoices' = Append(invoices, row)
  OBVIOUS
<1> HIDE DEF row
<1>3. /\ invoices' \in Seq(Invoices)
      /\ Len(invoices') = n
      /\ DOMAIN invoices' = DOMAIN invoices \cup {n}
      /\ n \notin DOMAIN invoices
      /\ invoices'[n] = row
      /\ \A j \in DOMAIN invoices : invoices'[j] = invoices[j]
  BY <1>1, <1>2, AppendedRow
<1> HIDE DEF n
<1>4. /\ sub'.next = sub.next + 1 /\ sub'.version = sub.version + 1
      /\ sub'.status = sub.status /\ sub'.retry = sub.retry /\ sub' \in Subscriptions
  <2>1. sub.next + 1 \in Nat /\ sub.version + 1 \in Nat
    BY <1>0
  <2>2. /\ sub'.next = sub.next + 1 /\ sub'.version = sub.version + 1
        /\ sub'.status = sub.status /\ sub'.retry = sub.retry
    BY <1>0
  <2>3. sub' \in Subscriptions
    BY <1>0, <2>1 DEF Subscriptions
  <2> QED BY <2>2, <2>3
<1>5. \A j \in DOMAIN invoices : /\ invoices[j].period \in Nat /\ invoices[j].version \in Nat
                                 /\ invoices[j].period < sub.next
  BY InvoiceFields DEF Types, Books
<1>6. InvoicesMove
  BY <1>3, <1>5 DEF InvoicesMove, Chased
<1>7. \A j \in DOMAIN invoices' :
       /\ invoices'[j].period < sub'.next
       /\ invoices'[j].version >= 1
       /\ invoices'[j].status = "issued" <=> Odd(invoices'[j].version)
  <2>1. Odd(1)
    BY DEF Odd
  <2>2. invoices'[n].period < sub'.next /\ invoices'[n].status = "issued" /\ invoices'[n].version = 1
    BY <1>0, <1>1, <1>3, <1>4
  <2>3. \A j \in DOMAIN invoices : invoices[j].period < sub'.next
    BY <1>0, <1>4, <1>5
  <2>4. \A j \in DOMAIN invoices : /\ invoices[j].version >= 1
                                   /\ invoices[j].status = "issued" <=> Odd(invoices[j].version)
    BY DEF Books
  <2> QED BY <2>1, <2>2, <2>3, <2>4, <1>3
<1>8. OneInvoicePerPeriod'
  <2>1. \A j \in DOMAIN invoices : invoices[j].period # row.period
    BY <1>0, <1>1, <1>5
  <2> QED BY <2>1, <1>3 DEF Books, OneInvoicePerPeriod
<1>9. PaidIsCharged'
  BY <1>1, <1>3 DEF Books, PaidIsCharged
<1>10. \A k \in charges' : /\ k[1] \in DOMAIN invoices'
                           /\ Odd(k[2]) /\ k[2] <= invoices'[k[1]].version
  BY <1>3 DEF Books
<1>11. sub'.next <= MaxPeriods
  BY <1>0, <1>4, BillingAssumption
<1>12. /\ sub'.retry # NoRetry =>
            sub'.retry.invoice \in DOMAIN invoices' /\ Chased(sub.retry.invoice)'
       /\ \A k \in checkouts' : k[1] \in DOMAIN invoices'
  BY <1>3, <1>4 DEF Books, Chased
<1>13. sub'.version > sub.version
  BY <1>0, <1>4
<1> QED BY <1>3, <1>4, <1>6, <1>7, <1>8, <1>9, <1>10, <1>11, <1>12, <1>13 DEF Books, Chased, n

\* A charge under a key of an odd version that the invoice has reached, and a
\* checkout of an invoice that exists.
LEMMA BooksCharged ==
  ASSUME Types, Books, NEW key \in Keys, key[1] \in DOMAIN invoices, Odd(key[2]),
         key[2] <= invoices[key[1]].version,
         charges' = charges \cup {key} \/ charges' = charges,
         UNCHANGED <<sub, invoices, checkouts, settled>>
  PROVE  Books' /\ MoneyMove
<1>1. PaidIsCharged'
  BY DEF Books, PaidIsCharged
<1>2. OneInvoicePerPeriod'
  BY DEF Books, OneInvoicePerPeriod
<1> QED BY <1>1, <1>2 DEF Books, Chased, MoneyMove

LEMMA BooksCheckedOut ==
  ASSUME Types, Books, settled \subseteq settled',
         \A k \in checkouts' \ checkouts : k[1] \in DOMAIN invoices,
         UNCHANGED <<sub, invoices, charges>>
  PROVE  Books' /\ MoneyMove
<1>1. PaidIsCharged'
  BY DEF Books, PaidIsCharged
<1>2. OneInvoicePerPeriod'
  BY DEF Books, OneInvoicePerPeriod
<1> QED BY <1>1, <1>2 DEF Books, Chased, MoneyMove

\* A change of the subscription that is not a renewal.
LEMMA BooksSubscribed ==
  ASSUME Types, Books, sub'.next = sub.next,
         sub'.retry # NoRetry => sub'.retry.invoice \in DOMAIN invoices /\ Chased(sub'.retry.invoice),
         UNCHANGED <<invoices, charges, checkouts, settled>>
  PROVE  Books'
<1>1. PaidIsCharged'
  BY DEF Books, PaidIsCharged
<1>2. OneInvoicePerPeriod'
  BY DEF Books, OneInvoicePerPeriod
<1> QED BY <1>1, <1>2 DEF Books, Chased

\* Nothing changed.
LEMMA BooksKept ==
  ASSUME Types, Books, UNCHANGED <<sub, invoices, charges, checkouts, settled>>
  PROVE  Books' /\ MoneyMove
<1>1. PaidIsCharged'
  BY DEF Books, PaidIsCharged
<1>2. OneInvoicePerPeriod'
  BY DEF Books, OneInvoicePerPeriod
<1> QED BY <1>1, <1>2 DEF Books, Chased, MoneyMove

LEMMA InvoicesKept ==
  ASSUME Types, UNCHANGED invoices
  PROVE  InvoicesMove
<1>1. \A j \in DOMAIN invoices : invoices[j].version \in Nat
  BY InvoiceFields DEF Types
<1> QED BY <1>1 DEF InvoicesMove, Chased

LEMMA SubKept ==
  ASSUME UNCHANGED sub
  PROVE  SubMove
BY DEF SubMove

-----------------------------------------------------------------------------
(* The call of one process.                                                *)

LEMMA JobSet ==
  ASSUME Types, NEW p \in Process, NEW r \in Jobs, job' = [job EXCEPT ![p] = r]
  PROVE  /\ job' \in [Process -> Jobs] /\ job'[p] = r
         /\ \A q \in Process : q # p => job'[q] = job[q]
BY DEF Types

LEMMA JobEnded ==
  ASSUME Types, NEW p \in Process, End(p)
  PROVE  /\ job' \in [Process -> Jobs] /\ job'[p].pc = "idle"
         /\ \A q \in Process : q # p => job'[q] = job[q]
<1>1. Idle \in Jobs /\ Idle.pc = "idle"
  BY DEF Idle, Jobs, Pcs, Subscriptions, NoRetry, SubscriptionTransitions
<1> QED BY <1>1, JobSet DEF End

LEMMA JobGone ==
  ASSUME Types, NEW p \in Process, NEW pc \in Pcs, Go(p, pc)
  PROVE  /\ job' \in [Process -> Jobs] /\ job'[p].pc = pc
         /\ job'[p].invoice = job[p].invoice /\ job'[p].version = job[p].version
         /\ job'[p].sub = job[p].sub
         /\ \A q \in Process : q # p => job'[q] = job[q]
<1> DEFINE r == [job[p] EXCEPT !.pc = pc]
<1>1. job[p] \in Jobs
  BY DEF Types
<1>2. /\ r \in Jobs /\ r.pc = pc
      /\ r.invoice = job[p].invoice /\ r.version = job[p].version /\ r.sub = job[p].sub
  BY <1>1 DEF Jobs
<1>3. job' = [job EXCEPT ![p] = r]
  BY DEF Go
<1> HIDE DEF r
<1> QED BY <1>2, <1>3, JobSet

\* A call that changes its place and the version it works with.
LEMMA JobGoneVersion ==
  ASSUME Types, NEW p \in Process, NEW pc \in Pcs, NEW v \in Nat,
         job' = [job EXCEPT ![p].pc = pc, ![p].version = v]
  PROVE  /\ job' \in [Process -> Jobs] /\ job'[p].pc = pc
         /\ job'[p].invoice = job[p].invoice /\ job'[p].version = v
         /\ \A q \in Process : q # p => job'[q] = job[q]
<1> DEFINE r == [job[p] EXCEPT !.pc = pc, !.version = v]
<1>1. job[p] \in Jobs
  BY DEF Types
<1>2. r \in Jobs /\ r.pc = pc /\ r.invoice = job[p].invoice /\ r.version = v
  BY <1>1 DEF Jobs
<1>3. job' = [job EXCEPT ![p] = r]
  OBVIOUS
<1> HIDE DEF r
<1> QED BY <1>2, <1>3, JobSet

\* A call that starts on an invoice.
LEMMA JobStarted ==
  ASSUME Types, NEW p \in Process, NEW pc \in Pcs, NEW i \in Nat,
         job' = [job EXCEPT ![p] = [Idle EXCEPT !.pc = pc, !.invoice = i]]
  PROVE  /\ job' \in [Process -> Jobs] /\ job'[p].pc = pc /\ job'[p].invoice = i
         /\ \A q \in Process : q # p => job'[q] = job[q]
<1> DEFINE r == [Idle EXCEPT !.pc = pc, !.invoice = i]
<1>1. Idle \in Jobs
  BY DEF Idle, Jobs, Pcs, Subscriptions, NoRetry, SubscriptionTransitions
<1>2. r \in Jobs /\ r.pc = pc /\ r.invoice = i
  BY <1>1 DEF Jobs
<1> HIDE DEF r
<1> QED BY <1>2, JobSet DEF r

LEMMA JobRead ==
  ASSUME Types, NEW p \in Process, NEW pc \in Pcs, NEW i \in Nat, ReadSub(p, pc, i)
  PROVE  /\ job' \in [Process -> Jobs] /\ job'[p].pc = pc /\ job'[p].invoice = i
         /\ job'[p].sub = sub
         /\ \A q \in Process : q # p => job'[q] = job[q]
<1> DEFINE r == [pc |-> pc, invoice |-> i, version |-> 0, sub |-> sub]
<1>1. r \in Jobs /\ r.pc = pc /\ r.invoice = i /\ r.sub = sub
  BY DEF Types, Jobs
<1>2. job' = [job EXCEPT ![p] = r]
  BY DEF ReadSub
<1> HIDE DEF r
<1> QED BY <1>1, <1>2, JobSet

-----------------------------------------------------------------------------
(* What the steps do to the postings.                                      *)

\* The invoice of a call that is about to post exists.
LEMMA PostsExist ==
  ASSUME IInv, NEW q \in Process, job[q].pc = "post"
  PROVE  job[q].invoice \in DOMAIN invoices
BY DEF IInv, Promise

\* Nobody comes to post anything, and nothing is posted.
LEMMA PostingKept ==
  ASSUME IInv, InvoicesMove, UNCHANGED ledger,
         \A q \in Process : job'[q] = job[q] \/ job'[q].pc # "post"
  PROVE  Posting'
<1>1. DOMAIN ledger = DOMAIN invoices
  BY DEF IInv, Types
<1>2. \A i \in DOMAIN invoices : invoices[i].status = "paid" => invoices'[i].status = "paid"
  BY DEF InvoicesMove
<1>3. \A q \in Process : job'[q].pc = "post" =>
        job'[q] = job[q] /\ job[q].pc = "post" /\ job[q].invoice \in DOMAIN invoices
  BY PostsExist
<1> QED BY <1>1, <1>2, <1>3 DEF IInv, Posting

\* A new invoice has no posting.
LEMMA PostingAppended ==
  ASSUME IInv, InvoicesMove, ledger' = Append(ledger, 0),
         \A q \in Process : job'[q] = job[q] \/ job'[q].pc # "post"
  PROVE  Posting' /\ ledger' \in Seq(Nat) /\ Len(ledger') = Len(ledger) + 1
<1>1. DOMAIN ledger = DOMAIN invoices
  BY DEF IInv, Types
<1>2. \A i \in DOMAIN invoices : invoices[i].status = "paid" => invoices'[i].status = "paid"
  BY DEF InvoicesMove
<1>3. \A q \in Process : job'[q].pc = "post" =>
        job'[q] = job[q] /\ job[q].pc = "post" /\ job[q].invoice \in DOMAIN invoices
  BY PostsExist
<1>4. ledger \in Seq(Nat)
  BY DEF IInv, Types
<1>5. /\ ledger' \in Seq(Nat) /\ Len(ledger') = Len(ledger) + 1
      /\ DOMAIN ledger' = DOMAIN ledger \cup {Len(ledger) + 1}
      /\ ledger'[Len(ledger) + 1] = 0
      /\ \A i \in DOMAIN ledger : ledger'[i] = ledger[i]
  BY <1>4
<1> QED BY <1>1, <1>2, <1>3, <1>5 DEF IInv, Posting

\* The call that marks an issued invoice paid is the one that may post it.
LEMMA PostingEntered ==
  ASSUME IInv, NEW p \in Process, NEW i \in DOMAIN invoices, invoices[i].status = "issued",
         InvoicesMove, invoices'[i].status = "paid", UNCHANGED ledger,
         job'[p].pc = "post", job'[p].invoice = i,
         \A q \in Process : q # p => job'[q] = job[q]
  PROVE  Posting'
<1>1. DOMAIN ledger = DOMAIN invoices /\ \A j \in DOMAIN ledger : ledger[j] \in Nat
  BY DEF IInv, Types
<1>2. \A j \in DOMAIN invoices : invoices[j].status = "paid" => invoices'[j].status = "paid"
  BY DEF InvoicesMove
<1>3. \A q \in Process : q # p /\ job'[q].pc = "post" =>
        /\ job'[q] = job[q] /\ job[q].pc = "post" /\ job[q].invoice \in DOMAIN invoices
        /\ invoices[job[q].invoice].status = "paid" /\ job[q].invoice # i
  BY PostsExist DEF IInv, Posting
<1>4. ledger[i] = 0
  <2>1. ledger[i] \in Nat /\ ledger[i] <= 1 /\ ledger[i] # 1
    BY <1>1 DEF IInv, Posting
  <2> QED BY <2>1
<1> QED BY <1>1, <1>2, <1>3, <1>4 DEF IInv, Posting

\* A settlement is posted by the call that held the right to, which ends.
LEMMA PostingDone ==
  ASSUME IInv, NEW p \in Process, job[p].pc = "post", UNCHANGED invoices,
         ledger' = [ledger EXCEPT ![job[p].invoice] = @ + 1],
         job'[p].pc # "post", \A q \in Process : q # p => job'[q] = job[q]
  PROVE  Posting' /\ ledger' \in Seq(Nat) /\ Len(ledger') = Len(ledger)
<1> DEFINE i == job[p].invoice
<1>1. /\ DOMAIN ledger = DOMAIN invoices /\ ledger \in Seq(Nat)
      /\ \A j \in DOMAIN ledger : ledger[j] \in Nat
  BY DEF IInv, Types
<1>2. i \in DOMAIN ledger /\ ledger[i] = 0 /\ invoices[i].status = "paid"
  BY <1>1, PostsExist DEF IInv, Posting
<1>3. /\ ledger' \in Seq(Nat) /\ Len(ledger') = Len(ledger) /\ DOMAIN ledger' = DOMAIN ledger
      /\ ledger'[i] = 1 /\ \A j \in DOMAIN ledger : j # i => ledger'[j] = ledger[j]
  BY <1>1, <1>2
<1>4. \A q \in Process : job'[q].pc = "post" =>
        /\ job'[q] = job[q] /\ job[q].pc = "post" /\ job[q].invoice \in DOMAIN invoices
        /\ job[q].invoice # i
  BY PostsExist DEF IInv, Posting
<1> HIDE DEF i
<1> QED BY <1>1, <1>2, <1>3, <1>4 DEF IInv, Posting

-----------------------------------------------------------------------------
(* One lemma per step.                                                     *)

\* A good step of process p.
Good(p) ==
  /\ Types' /\ Books' /\ Posting' /\ Promise(p)'
  /\ \A q \in Process : q # p => Stable(q)

LEMMA GoodStep ==
  ASSUME IInv, NEW p \in Process, Good(p)
  PROVE  IInv'
<1>1. \A q \in Process : Promise(q)'
  <2> TAKE q \in Process
  <2>1. CASE q = p
    BY <2>1 DEF Good
  <2>2. CASE q # p
    BY <2>2, PromiseKept DEF Good, IInv
  <2> QED BY <2>1, <2>2
<1> QED BY <1>1 DEF Good, IInv

\* A step that changes nothing but the call of p, and does not come to post.
LEMMA Calm ==
  ASSUME IInv, NEW p \in Process,
         UNCHANGED <<sub, invoices, charges, declined, checkouts, settled, ledger>>,
         job' \in [Process -> Jobs], job'[p].pc # "post",
         \A q \in Process : q # p => job'[q] = job[q],
         Promise(p)'
  PROVE  Good(p)
<1>1. Types'
  BY DEF IInv, Types
<1>2. Books' /\ MoneyMove
  BY BooksKept DEF IInv
<1>3. InvoicesMove /\ SubMove
  BY InvoicesKept, SubKept DEF IInv
<1>4. Posting'
  BY <1>3, PostingKept
<1> QED BY <1>1, <1>2, <1>3, <1>4 DEF Good, Stable

LEMMA IdlePromise ==
  ASSUME NEW p, job'[p].pc = "idle"
  PROVE  Promise(p)'
BY DEF Promise

\* A step that ends the call and does nothing else.
LEMMA CalmEnd ==
  ASSUME IInv, NEW p \in Process, End(p),
         UNCHANGED <<sub, invoices, charges, declined, checkouts, settled, ledger>>
  PROVE  Good(p)
<1>1. Types
  BY DEF IInv
<1> QED BY <1>1, Calm, JobEnded, IdlePromise

\* The versions a step leaves behind.
LEMMA VersionsGrow ==
  ASSUME Types, Types', InvoicesMove, NEW i \in DOMAIN invoices
  PROVE  /\ i \in DOMAIN invoices'
         /\ Chased(i) => Chased(i)'
         /\ \A n \in Nat : invoices[i].version >= n => invoices'[i].version >= n
<1>1. invoices[i].version \in Nat /\ i \in DOMAIN invoices' /\ invoices'[i].version >= invoices[i].version
  BY InvoiceFields DEF Types, InvoicesMove
<1>2. invoices'[i].version \in Nat
  BY <1>1, InvoiceFields DEF Types
<1> QED BY <1>1, <1>2 DEF InvoicesMove

\* The call goes on to a place that asks for nothing but its invoice, and of a
\* retry that the invoice was issued again.
LEMMA PlainPromise ==
  ASSUME Types, Types', NEW p \in Process, Promise(p), job[p].pc \notin {"idle", "prepare"},
         InvoicesMove,
         \/ job'[p].pc = "precheck"
         \/ /\ job[p].pc \in {"settle", "settleFailure"}
            /\ job'[p].pc \in {"settleFailure", "post", "reread"},
         job'[p].invoice = job[p].invoice
  PROVE  Promise(p)'
<1>1. PICK i : i = job[p].invoice
  OBVIOUS
<1>2. i \in DOMAIN invoices /\ (p \in Dunners => Chased(i))
  BY <1>1 DEF Promise
<1>3. /\ i \in DOMAIN invoices' /\ (p \in Dunners => Chased(i)')
      /\ invoices[i].version >= 3 => invoices'[i].version >= 3
  BY <1>2, VersionsGrow
<1>4. p \in Dunners /\ job'[p].pc # "precheck" => invoices'[i].version >= 3
  BY <1>1, <1>3 DEF Promise
<1> QED BY <1>1, <1>3, <1>4 DEF Promise, Chased

\* A collected invoice: dunning goes on to recover, the others end.
LEMMA OkPromise ==
  ASSUME Types, NEW p \in Process, Promise(p), job[p].pc \notin {"idle", "prepare"}, AfterOk(p),
         InvoicesMove, invoices'[job[p].invoice].status = "paid"
  PROVE  /\ job' \in [Process -> Jobs] /\ job'[p].pc # "post"
         /\ \A q \in Process : q # p => job'[q] = job[q]
         /\ Promise(p)'
<1>1. CASE p \in Dunners
  <2>1. Go(p, "recover") /\ "recover" \in Pcs
    BY <1>1 DEF AfterOk, Pcs
  <2>2. /\ job' \in [Process -> Jobs] /\ job'[p].pc = "recover"
        /\ job'[p].invoice = job[p].invoice
        /\ \A q \in Process : q # p => job'[q] = job[q]
    BY <2>1, JobGone
  <2>a. PICK i : i = job[p].invoice
    OBVIOUS
  <2>3. i \in DOMAIN invoices /\ Chased(i)
    BY <1>1, <2>a DEF Promise
  <2>4. i \in DOMAIN invoices' /\ Chased(i)'
    BY <2>3 DEF InvoicesMove
  <2>5. Promise(p)'
    BY <1>1, <2>2, <2>a, <2>4 DEF Promise, Chased
  <2> QED BY <2>2, <2>5
<1>2. CASE p \notin Dunners
  <2>1. End(p)
    BY <1>2 DEF AfterOk
  <2> QED BY <2>1, JobEnded, IdlePromise
<1> QED BY <1>1, <1>2

LEMMA BeginRenewalGood ==
  ASSUME IInv, NEW p \in Process, BeginRenewal(p)
  PROVE  Good(p)
<1>0. Types /\ Promise(p) /\ sub.version \in Nat
  BY SubFields DEF IInv, Types
<1>1. ReadSub(p, "prepare", 0) /\ "prepare" \in Pcs /\ 0 \in Nat
  BY DEF BeginRenewal, Pcs
<1>2. /\ job' \in [Process -> Jobs] /\ job'[p].pc = "prepare" /\ job'[p].sub = sub
      /\ \A q \in Process : q # p => job'[q] = job[q]
  BY <1>0, <1>1, JobRead
<1>3. p \notin Dunners /\ Due(sub) /\ UNCHANGED sub
  BY DEF BeginRenewal
<1>4. Promise(p)'
  BY <1>0, <1>2, <1>3 DEF Promise
<1> QED BY <1>2, <1>4, Calm DEF BeginRenewal

LEMMA PrepareRenewalGood ==
  ASSUME IInv, NEW p \in Process, PrepareRenewal(p)
  PROVE  Good(p)
<1>0. Types /\ Books /\ Promise(p)
  BY DEF IInv
<1>1. job[p].sub = sub /\ Due(sub) /\ p \notin Dunners
  BY <1>0 DEF PrepareRenewal, CanSaveSub, Promise
<1>2. PICK free \in BOOLEAN :
         invoices' = Append(invoices, [period |-> sub.next, status |-> "issued",
                                       version |-> 1, free |-> free])
  BY <1>1 DEF PrepareRenewal
<1>3. sub' = [sub EXCEPT !.next = @ + 1, !.version = @ + 1]
  BY <1>1 DEF PrepareRenewal
<1>4. /\ Books' /\ invoices' \in Seq(Invoices) /\ sub' \in Subscriptions
      /\ InvoicesMove
      /\ Len(invoices') = Len(invoices) + 1 /\ Len(invoices) + 1 \in DOMAIN invoices'
      /\ sub'.version > sub.version /\ sub'.status = sub.status
  BY <1>0, <1>1, <1>2, <1>3, BooksAppended DEF PrepareRenewal, Due
<1>5. "precheck" \in Pcs /\ Len(invoices) + 1 \in Nat
  BY <1>0 DEF Pcs, Types
<1>6. /\ job' \in [Process -> Jobs] /\ job'[p].pc = "precheck"
      /\ job'[p].invoice = Len(invoices) + 1
      /\ \A q \in Process : q # p => job'[q] = job[q]
  BY <1>0, <1>5, JobStarted DEF PrepareRenewal
<1>7. Posting' /\ ledger' \in Seq(Nat) /\ Len(ledger') = Len(ledger) + 1
  BY <1>4, <1>6, PostingAppended DEF PrepareRenewal
<1>8. Types'
  BY <1>0, <1>4, <1>6, <1>7 DEF Types, PrepareRenewal
<1>9. Promise(p)'
  BY <1>1, <1>4, <1>6 DEF Promise
<1>10. SubMove
  BY <1>4 DEF SubMove
<1>11. MoneyMove
  BY DEF PrepareRenewal, MoneyMove
<1> QED BY <1>4, <1>6, <1>7, <1>8, <1>9, <1>10, <1>11 DEF Good, Stable

LEMMA BeginCollectGood ==
  ASSUME IInv, NEW p \in Process, NEW i \in DOMAIN invoices, BeginCollect(p, i)
  PROVE  Good(p)
<1>0. Types /\ Promise(p) /\ i \in Nat /\ "precheck" \in Pcs
  BY DEF IInv, Types, Pcs
<1>1. /\ job' \in [Process -> Jobs] /\ job'[p].pc = "precheck" /\ job'[p].invoice = i
      /\ \A q \in Process : q # p => job'[q] = job[q]
  BY <1>0, JobStarted DEF BeginCollect
<1>2. p \notin Dunners /\ UNCHANGED <<sub, invoices>>
  BY BillingAssumption DEF BeginCollect
<1>3. Promise(p)'
  BY <1>1, <1>2 DEF Promise
<1> QED BY <1>1, <1>3, Calm DEF BeginCollect

LEMMA PrecheckGood ==
  ASSUME IInv, NEW p \in Process, Precheck(p)
  PROVE  Good(p)
<1> DEFINE i == job[p].invoice
<1>0. Types /\ Books /\ Promise(p) /\ job[p].pc = "precheck" /\ i \in DOMAIN invoices
  BY DEF IInv, Precheck, Promise
<1>1. UNCHANGED <<sub, invoices, charges, declined, checkouts, settled, ledger>> /\ InvoicesMove
  BY <1>0, InvoicesKept DEF Precheck
<1>2. CASE invoices[i].status = "paid" /\ AfterOk(p)
  <2>1. /\ job' \in [Process -> Jobs] /\ job'[p].pc # "post"
        /\ \A q \in Process : q # p => job'[q] = job[q]
        /\ Promise(p)'
    BY <1>0, <1>1, <1>2, OkPromise
  <2> QED BY <1>1, <2>1, Calm
<1>3. CASE /\ invoices[i].status = "issued"
           /\ job' = [job EXCEPT ![p].pc = IF invoices[i].free THEN "settle" ELSE "collect",
                                 ![p].version = IF invoices[i].free THEN 0 ELSE invoices[i].version]
  <2> DEFINE pc == IF invoices[i].free THEN "settle" ELSE "collect"
             v == IF invoices[i].free THEN 0 ELSE invoices[i].version
  <2>0. invoices[i].version \in Nat /\ Odd(invoices[i].version)
    BY <1>0, <1>3, InvoiceFields DEF Types, Books
  <2>1. pc \in Pcs /\ v \in Nat
    BY <2>0 DEF Pcs
  <2>2. job' = [job EXCEPT ![p].pc = pc, ![p].version = v]
    BY <1>3
  <2>3. /\ pc = "settle" => invoices[i].free
        /\ pc = "collect" => v = invoices[i].version
        /\ pc \in {"settle", "collect"}
    OBVIOUS
  <2> HIDE DEF pc, v
  <2>4. /\ job' \in [Process -> Jobs] /\ job'[p].pc = pc
        /\ job'[p].invoice = job[p].invoice /\ job'[p].version = v
        /\ \A q \in Process : q # p => job'[q] = job[q]
    BY <1>0, <2>1, <2>2, JobGoneVersion
  <2>5. pc = "collect" => Odd(v) /\ v <= invoices'[i].version
    BY <1>1, <2>0, <2>3
  <2>a. p \in Dunners => Chased(i) /\ invoices[i].version >= 3
    BY <1>0, <2>0 DEF Promise, Chased, Odd
  <2>6. Promise(p)'
    BY <1>0, <1>1, <2>3, <2>4, <2>5, <2>a DEF Promise, Chased
  <2>7. pc # "post"
    BY <2>3
  <2> QED BY <1>1, <2>4, <2>6, <2>7, Calm
<1>4. CASE End(p)
  BY <1>1, <1>4, CalmEnd
<1> QED BY <1>2, <1>3, <1>4 DEF Precheck, Invoice

\* Whatever the PSP answers, what it charges is the key of an odd version.
LEMMA CollectGood ==
  ASSUME IInv, NEW p \in Process, CollectApproved(p) \/ CollectThrows(p)
  PROVE  Good(p)
<1> DEFINE i == job[p].invoice
<1>0. /\ Types /\ Books /\ Promise(p) /\ job[p].pc = "collect" /\ i \in DOMAIN invoices
      /\ i \in Nat /\ job[p].version \in Nat
      /\ Odd(job[p].version) /\ job[p].version <= invoices[i].version
  BY JobFields DEF IInv, CollectApproved, CollectThrows, Promise, Types
<1>1. UNCHANGED <<sub, invoices, checkouts, settled, ledger>>
  BY DEF CollectApproved, CollectThrows
<1>2. /\ Key(p) \in Keys /\ Key(p)[1] = i /\ Key(p)[2] = job[p].version
  BY <1>0 DEF Key, Keys
<1>3. /\ charges' = charges \cup {Key(p)} \/ charges' = charges
      /\ declined' = declined \cup {Key(p)} \/ declined' = declined
  BY DEF CollectApproved, CollectThrows, PspApproves, PspDeclines
<1>4. Books' /\ MoneyMove
  BY <1>0, <1>1, <1>2, <1>3, BooksCharged
<1>5. PICK pc \in {"settle", "settleFailure"} :
         /\ job' = [job EXCEPT ![p].pc = pc, ![p].version = 0]
         /\ pc = "settle" => Key(p) \in charges'
  BY DEF CollectApproved, CollectThrows, PspApproves
<1>6. /\ job' \in [Process -> Jobs] /\ job'[p].pc = pc /\ job'[p].invoice = i
      /\ \A q \in Process : q # p => job'[q] = job[q]
  <2>1. pc \in Pcs /\ 0 \in Nat
    BY DEF Pcs
  <2> QED BY <1>0, <1>5, <2>1, JobGoneVersion
<1>7. Types'
  BY <1>0, <1>1, <1>2, <1>3, <1>6 DEF Types
<1>8. InvoicesMove /\ SubMove
  BY <1>0, <1>1, InvoicesKept, SubKept
<1>9. Posting'
  <2>1. pc # "post"
    BY <1>5
  <2> QED BY <1>1, <1>6, <1>8, <2>1, PostingKept
<1>10. Promise(p)'
  <2>1. pc = "settle" => \E k \in charges' \cup settled' : k[1] = i
    BY <1>2, <1>5
  <2> QED BY <1>0, <1>1, <1>5, <1>6, <2>1 DEF Promise, Chased
<1> QED BY <1>4, <1>6, <1>7, <1>8, <1>9, <1>10 DEF Good, Stable

\* The transitions the calls make.
LEMMA Moves ==
  ASSUME Types, NEW i \in DOMAIN invoices
  PROVE  /\ CanMove(i, "paid") <=> invoices[i].status = "issued"
         /\ CanMove(i, "issued") <=> invoices[i].status = "failed"
<1>1. invoices[i].status \in {"issued", "paid", "failed"}
  BY InvoiceFields DEF Types
<1> QED BY <1>1 DEF CanMove, InvoiceTransitions

\* A step of p that moves one invoice.
LEMMA MoveGood ==
  ASSUME IInv, NEW p \in Process, NEW i \in DOMAIN invoices,
         NEW to \in {"issued", "paid", "failed"},
         IF to = "issued" THEN invoices[i].status = "failed" ELSE invoices[i].status = "issued",
         to = "paid" => invoices[i].free \/ \E k \in charges \cup settled : k[1] = i,
         invoices' = Moved(i, to),
         UNCHANGED <<sub, charges, declined, checkouts, settled, ledger>>,
         job' \in [Process -> Jobs], \A q \in Process : q # p => job'[q] = job[q],
         job'[p].pc = "post" => job'[p].invoice = i /\ to = "paid",
         Promise(p)'
  PROVE  Good(p)
<1>0. Types /\ Books
  BY DEF IInv
<1>1. /\ invoices' \in Seq(Invoices) /\ Len(invoices') = Len(invoices)
      /\ invoices'[i].status = to
  BY <1>0, MovedRow
<1>2. Books' /\ InvoicesMove
  BY <1>0, BooksMoved
<1>4. Types'
  BY <1>0, <1>1 DEF Types
<1>5. Posting'
  <2>1. CASE job'[p].pc = "post"
    BY <1>1, <1>2, <2>1, PostingEntered
  <2>2. CASE job'[p].pc # "post"
    BY <1>2, <2>2, PostingKept
  <2> QED BY <2>1, <2>2
<1>6. MoneyMove /\ SubMove
  BY SubKept DEF MoneyMove
<1> QED BY <1>2, <1>4, <1>5, <1>6 DEF Good, Stable

LEMMA SettleSuccessGood ==
  ASSUME IInv, NEW p \in Process, SettleSuccess(p)
  PROVE  Good(p)
<1> DEFINE i == job[p].invoice
<1>0. /\ Types /\ Books /\ Promise(p) /\ job[p].pc = "settle" /\ i \in DOMAIN invoices
      /\ invoices[i].free \/ \E k \in charges \cup settled : k[1] = i
  BY DEF IInv, SettleSuccess, Promise
<1>1. UNCHANGED <<sub, charges, declined, checkouts, settled, ledger>>
  BY DEF SettleSuccess
<1>2. CASE CanMove(i, "paid") /\ invoices' = Moved(i, "paid") /\ AfterOk(p)
  <2>3. invoices[i].status = "issued"
    BY <1>0, <1>2, Moves
  <2>1. invoices'[i].status = "paid" /\ InvoicesMove
    BY <1>0, <1>1, <1>2, <2>3, MovedRow, BooksMoved
  <2>2. /\ job' \in [Process -> Jobs] /\ job'[p].pc # "post"
        /\ \A q \in Process : q # p => job'[q] = job[q]
        /\ Promise(p)'
    BY <1>0, <1>1, <1>2, <2>1, OkPromise
  <2> QED BY <1>0, <1>1, <1>2, <2>2, <2>3, MoveGood
<1>3. CASE CanMove(i, "paid") /\ invoices' = Moved(i, "paid") /\ Go(p, "post")
  <2>4. invoices[i].status = "issued"
    BY <1>0, <1>3, Moves
  <2>1. invoices' \in Seq(Invoices) /\ Len(invoices') = Len(invoices) /\ InvoicesMove
    BY <1>0, <1>1, <1>3, <2>4, MovedRow, BooksMoved
  <2>2. /\ job' \in [Process -> Jobs] /\ job'[p].pc = "post" /\ job'[p].invoice = i
        /\ \A q \in Process : q # p => job'[q] = job[q]
    <3>1. "post" \in Pcs
      BY DEF Pcs
    <3> QED BY <1>0, <1>3, <3>1, JobGone
  <2>a. Types'
    BY <1>0, <1>1, <2>1, <2>2 DEF Types
  <2>3. Promise(p)'
    BY <1>0, <2>1, <2>2, <2>a, PlainPromise
  <2> QED BY <1>0, <1>1, <1>3, <2>2, <2>3, <2>4, MoveGood
<1>4. CASE invoices[i].status = "paid" /\ AfterOk(p) /\ UNCHANGED invoices
  <2>1. /\ job' \in [Process -> Jobs] /\ job'[p].pc # "post"
        /\ \A q \in Process : q # p => job'[q] = job[q]
        /\ Promise(p)'
    BY <1>0, <1>1, <1>4, InvoicesKept, OkPromise
  <2> QED BY <1>1, <1>4, <2>1, Calm
<1>5. CASE End(p) /\ UNCHANGED invoices
  BY <1>1, <1>5, CalmEnd
<1> QED BY <1>2, <1>3, <1>4, <1>5 DEF SettleSuccess, Invoice

LEMMA PostSettlementGood ==
  ASSUME IInv, NEW p \in Process, PostSettlement(p)
  PROVE  Good(p)
<1> DEFINE i == job[p].invoice
<1>0. /\ Types /\ Books /\ Promise(p) /\ job[p].pc = "post" /\ i \in DOMAIN invoices
      /\ invoices[i].status = "paid"
  BY PostsExist DEF IInv, PostSettlement, Posting
<1>1. UNCHANGED <<sub, invoices, charges, declined, checkouts, settled>> /\ AfterOk(p)
  BY DEF PostSettlement
<1>2. /\ job' \in [Process -> Jobs] /\ job'[p].pc # "post"
      /\ \A q \in Process : q # p => job'[q] = job[q]
      /\ Promise(p)'
  BY <1>0, <1>1, InvoicesKept, OkPromise
<1>3. CASE UNCHANGED ledger
  BY <1>1, <1>2, <1>3, Calm
<1>4. CASE ledger' = [ledger EXCEPT ![i] = @ + 1]
  <2>1. Posting' /\ ledger' \in Seq(Nat) /\ Len(ledger') = Len(ledger)
    BY <1>0, <1>1, <1>2, <1>4, PostingDone
  <2>2. Types'
    BY <1>0, <1>1, <1>2, <2>1 DEF Types
  <2>3. Books' /\ MoneyMove
    BY <1>0, <1>1, BooksKept
  <2>4. InvoicesMove /\ SubMove
    BY <1>0, <1>1, InvoicesKept, SubKept
  <2> QED BY <1>2, <2>1, <2>2, <2>3, <2>4 DEF Good, Stable
<1> QED BY <1>3, <1>4 DEF PostSettlement

LEMMA SettleFailureGood ==
  ASSUME IInv, NEW p \in Process, SettleFailure(p)
  PROVE  Good(p)
<1> DEFINE i == job[p].invoice
<1>0. Types /\ Books /\ Promise(p) /\ job[p].pc = "settleFailure" /\ i \in DOMAIN invoices
  BY DEF IInv, SettleFailure, Promise
<1>1. UNCHANGED <<sub, charges, declined, checkouts, settled, ledger>>
  BY DEF SettleFailure
<1>2. \/ invoices[i].status = "issued" /\ invoices' = Moved(i, "failed")
      \/ UNCHANGED invoices
  BY DEF SettleFailure, Invoice
<1>3. /\ invoices' \in Seq(Invoices) /\ Len(invoices') = Len(invoices)
      /\ InvoicesMove
  <2>1. CASE UNCHANGED invoices
    BY <1>0, <2>1, InvoicesKept DEF Types
  <2>2. CASE invoices[i].status = "issued" /\ invoices' = Moved(i, "failed")
    BY <1>0, <1>1, <2>2, MovedRow, BooksMoved
  <2> QED BY <1>2, <2>1, <2>2
<1>4. /\ job' \in [Process -> Jobs] /\ job'[p].pc # "post"
      /\ \A q \in Process : q # p => job'[q] = job[q]
      /\ Promise(p)'
  <2>1. CASE End(p)
    BY <1>0, <2>1, JobEnded, IdlePromise
  <2>2. CASE Go(p, "reread")
    <3>1. "reread" \in Pcs
      BY DEF Pcs
    <3>2. /\ job' \in [Process -> Jobs] /\ job'[p].pc = "reread" /\ job'[p].invoice = i
          /\ \A q \in Process : q # p => job'[q] = job[q]
      BY <1>0, <2>2, <3>1, JobGone
    <3>3. Types'
      BY <1>0, <1>1, <1>3, <3>2 DEF Types
    <3> QED BY <1>0, <1>3, <3>2, <3>3, PlainPromise
  <2> QED BY <2>1, <2>2 DEF SettleFailure, AfterThrow
<1>5. CASE UNCHANGED invoices
  BY <1>1, <1>4, <1>5, Calm
<1>6. CASE invoices[i].status = "issued" /\ invoices' = Moved(i, "failed")
  BY <1>0, <1>1, <1>4, <1>6, MoveGood
<1> QED BY <1>2, <1>5, <1>6

LEMMA RereadGood ==
  ASSUME IInv, NEW p \in Process, Reread(p)
  PROVE  Good(p)
<1>0. Types /\ Promise(p) /\ job[p].pc = "reread" /\ job[p].invoice \in DOMAIN invoices
  BY DEF IInv, Reread, Promise
<1>1. UNCHANGED <<sub, invoices, charges, declined, checkouts, settled, ledger>>
  BY DEF Reread
<1>2. CASE End(p)
  BY <1>1, <1>2, CalmEnd
<1>3. CASE /\ invoices[job[p].invoice].status = "failed"
           /\ Go(p, IF p \in Dunners THEN "reschedule" ELSE "enter")
  <2> DEFINE pc == IF p \in Dunners THEN "reschedule" ELSE "enter"
  <2>1. /\ pc \in Pcs /\ pc \in {"reschedule", "enter"}
        /\ pc = "reschedule" <=> p \in Dunners
    BY DEF Pcs
  <2>2. Go(p, pc)
    BY <1>3
  <2> HIDE DEF pc
  <2>3. /\ job' \in [Process -> Jobs] /\ job'[p].pc = pc /\ job'[p].invoice = job[p].invoice
        /\ \A q \in Process : q # p => job'[q] = job[q]
    BY <1>0, <2>1, <2>2, JobGone
  <2>a. PICK i : i = job[p].invoice
    OBVIOUS
  <2>b. /\ invoices[i].version \in Nat /\ invoices[i].version >= 1 /\ ~Odd(invoices[i].version)
        /\ p \in Dunners => invoices[i].version >= 3
    BY <1>0, <1>3, <2>a, InvoiceFields DEF Promise, Types, Books, IInv
  <2>c. invoices[i].version >= 2 /\ (p \in Dunners => invoices[i].version >= 4)
    BY <2>b DEF Odd
  <2>d. Chased(i)
    BY <1>3, <2>a, <2>c DEF Chased
  <2>4. Promise(p)'
    BY <1>0, <1>1, <2>1, <2>3, <2>a, <2>c, <2>d DEF Promise, Chased
  <2>5. pc # "post"
    BY <2>1
  <2> QED BY <1>1, <2>3, <2>4, <2>5, Calm
<1> QED BY <1>2, <1>3 DEF Reread, Invoice

LEMMA EnterDunningGood ==
  ASSUME IInv, NEW p \in Process, EnterDunning(p)
  PROVE  Good(p)
<1>0. /\ Types /\ Promise(p) /\ job[p].pc = "enter" /\ job[p].invoice \in DOMAIN invoices
      /\ job[p].invoice \in Nat /\ sub.version \in Nat /\ p \notin Dunners
  BY JobFields, SubFields DEF IInv, EnterDunning, Promise, Types
<1>1. UNCHANGED <<sub, invoices, charges, declined, checkouts, settled, ledger>>
  BY DEF EnterDunning
<1>2. CASE End(p)
  BY <1>1, <1>2, CalmEnd
<1>3. CASE sub.status = "active" /\ ReadSub(p, "enterSave", job[p].invoice)
  <2>1. "enterSave" \in Pcs
    BY DEF Pcs
  <2>2. /\ job' \in [Process -> Jobs] /\ job'[p].pc = "enterSave"
        /\ job'[p].invoice = job[p].invoice /\ job'[p].sub = sub
        /\ \A q \in Process : q # p => job'[q] = job[q]
    BY <1>0, <1>3, <2>1, JobRead
  <2>3. Promise(p)'
    BY <1>0, <1>1, <1>3, <2>2 DEF Promise, Chased
  <2> QED BY <1>1, <2>2, <2>3, Calm
<1> QED BY <1>2, <1>3 DEF EnterDunning

LEMMA BeginRetryGood ==
  ASSUME IInv, NEW p \in Process, BeginRetry(p)
  PROVE  Good(p)
<1> DEFINE i == sub.retry.invoice
<1>0. /\ Types /\ Books /\ sub.status = "grace"
      /\ i \in DOMAIN invoices /\ i \in Nat /\ Chased(i)
  BY SubFields DEF IInv, BeginRetry, Books, Types
<1>1. UNCHANGED <<sub, invoices, charges, declined, checkouts, settled, ledger>>
  BY DEF BeginRetry
<1>2. "readInvoice" \in Pcs
  BY DEF Pcs
<1>3. /\ job' \in [Process -> Jobs] /\ job'[p].pc = "readInvoice"
      /\ job'[p].invoice = i
      /\ \A q \in Process : q # p => job'[q] = job[q]
  <2>1. job' = [job EXCEPT ![p] = [Idle EXCEPT !.pc = "readInvoice", !.invoice = i]]
    BY DEF BeginRetry
  <2> HIDE DEF i
  <2> QED BY <1>0, <1>2, <2>1, JobStarted
<1>4. Promise(p)'
  BY <1>0, <1>1, <1>3 DEF Promise, Chased, BeginRetry
<1> QED BY <1>1, <1>3, <1>4, Calm

LEMMA ReadInvoiceGood ==
  ASSUME IInv, NEW p \in Process, ReadInvoice(p)
  PROVE  Good(p)
<1>0. Types /\ Promise(p) /\ job[p].pc = "readInvoice" /\ job[p].invoice \in DOMAIN invoices
  BY DEF IInv, ReadInvoice, Promise
<1>1. UNCHANGED <<sub, invoices, charges, declined, checkouts, settled, ledger>>
  BY DEF ReadInvoice
<1>2. CASE End(p)
  BY <1>1, <1>2, CalmEnd
<1>3. ASSUME NEW pc \in {"issue", "precheck"}, Go(p, pc)
      PROVE  Good(p)
  <2>1. pc \in Pcs /\ pc # "post"
    BY DEF Pcs
  <2>2. /\ job' \in [Process -> Jobs] /\ job'[p].pc = pc /\ job'[p].invoice = job[p].invoice
        /\ \A q \in Process : q # p => job'[q] = job[q]
    BY <1>0, <1>3, <2>1, JobGone
  <2>3. Promise(p)'
    BY <1>0, <1>1, <1>3, <2>2 DEF Promise, Chased
  <2> QED BY <1>1, <2>1, <2>2, <2>3, Calm
<1>4. invoices[job[p].invoice].status \in {"issued", "paid", "failed"}
  BY <1>0, InvoiceFields DEF Types
<1> QED BY <1>2, <1>3, <1>4 DEF ReadInvoice, Invoice

LEMMA IssueInvoiceGood ==
  ASSUME IInv, NEW p \in Process, IssueInvoice(p)
  PROVE  Good(p)
<1> DEFINE i == job[p].invoice
<1>0. Types /\ Books /\ Promise(p) /\ job[p].pc = "issue" /\ i \in DOMAIN invoices
  BY DEF IInv, IssueInvoice, Promise
<1>1. UNCHANGED <<sub, charges, declined, checkouts, settled, ledger>>
  BY DEF IssueInvoice
<1>2. CASE End(p) /\ UNCHANGED invoices
  BY <1>1, <1>2, CalmEnd
<1>3. CASE CanMove(i, "issued") /\ invoices' = Moved(i, "issued") /\ Go(p, "precheck")
  <2>1. "precheck" \in Pcs
    BY DEF Pcs
  <2>2. /\ job' \in [Process -> Jobs] /\ job'[p].pc = "precheck" /\ job'[p].invoice = i
        /\ \A q \in Process : q # p => job'[q] = job[q]
    BY <1>0, <1>3, <2>1, JobGone
  <2>5. invoices[i].status = "failed"
    BY <1>0, <1>3, Moves
  <2>3. invoices' \in Seq(Invoices) /\ Len(invoices') = Len(invoices) /\ InvoicesMove
    BY <1>0, <1>1, <1>3, <2>5, MovedRow, BooksMoved
  <2>a. Types'
    BY <1>0, <1>1, <2>2, <2>3 DEF Types
  <2>4. Promise(p)'
    BY <1>0, <2>2, <2>3, <2>a, PlainPromise
  <2> QED BY <1>0, <1>1, <1>3, <2>2, <2>4, <2>5, MoveGood
<1> QED BY <1>2, <1>3 DEF IssueInvoice

LEMMA ReadGraceGood ==
  ASSUME IInv, NEW p \in Process, ReadGrace(p)
  PROVE  Good(p)
<1>0. /\ Types /\ Promise(p) /\ job[p].pc \in {"recover", "reschedule"}
      /\ job[p].invoice \in DOMAIN invoices /\ job[p].invoice \in Nat
      /\ sub.version \in Nat /\ p \in Dunners
  BY JobFields, SubFields DEF IInv, ReadGrace, Promise, Types
<1>1. UNCHANGED <<sub, invoices, charges, declined, checkouts, settled, ledger>>
  BY DEF ReadGrace
<1>2. CASE End(p)
  BY <1>1, <1>2, CalmEnd
<1>3. CASE /\ sub.status = "grace"
           /\ ReadSub(p, IF job[p].pc = "recover" THEN "recoverSave" ELSE "rescheduleSave",
                      job[p].invoice)
  <2> DEFINE pc == IF job[p].pc = "recover" THEN "recoverSave" ELSE "rescheduleSave"
  <2>1. /\ pc \in Pcs /\ pc \in {"recoverSave", "rescheduleSave"}
        /\ pc = "recoverSave" => job[p].pc = "recover"
        /\ pc = "rescheduleSave" => job[p].pc = "reschedule"
    BY <1>0 DEF Pcs
  <2>2. ReadSub(p, pc, job[p].invoice)
    BY <1>3
  <2> HIDE DEF pc
  <2>3. /\ job' \in [Process -> Jobs] /\ job'[p].pc = pc
        /\ job'[p].invoice = job[p].invoice /\ job'[p].sub = sub
        /\ \A q \in Process : q # p => job'[q] = job[q]
    BY <1>0, <2>1, <2>2, JobRead
  <2>4. Promise(p)'
    BY <1>0, <1>1, <1>3, <2>1, <2>3 DEF Promise, Chased
  <2>5. pc # "post"
    BY <2>1
  <2> QED BY <1>1, <2>3, <2>4, <2>5, Calm
<1> QED BY <1>2, <1>3 DEF ReadGrace

\* What the three transactions write.
LEMMA UpdatedRow ==
  ASSUME NEW s \in Subscriptions, NEW i \in Nat,
         NEW pc \in {"enterSave", "recoverSave", "rescheduleSave"},
         NEW t, t = Updated(pc, s, i)
  PROVE  /\ t \in Subscriptions /\ t.version = s.version /\ t.next = s.next
         /\ t.retry = NoRetry \/ t.retry.invoice = i
         /\ pc = "enterSave" => t.status = "grace"
         /\ pc = "recoverSave" => t.status = "active"
         /\ pc = "rescheduleSave" => t.status \in {"expired", s.status}
<1> DEFINE first == [invoice |-> i, attempt |-> 0]
           more == [invoice |-> i, attempt |-> s.retry.attempt + 1]
<1>0. /\ s.retry.attempt + 1 \in Nat
      /\ NoRetry \in [invoice : Nat, attempt : Nat]
      /\ {"active", "grace", "expired"} \subseteq DOMAIN SubscriptionTransitions
      /\ s.status \in DOMAIN SubscriptionTransitions
  BY SubFields DEF NoRetry, SubscriptionTransitions
<1>1. /\ first \in [invoice : Nat, attempt : Nat] /\ first.invoice = i
      /\ more \in [invoice : Nat, attempt : Nat] /\ more.invoice = i
  BY <1>0
<1>3. \/ pc = "enterSave" /\ t = [s EXCEPT !.status = "grace", !.retry = first]
      \/ pc = "recoverSave" /\ t = [s EXCEPT !.status = "active", !.retry = NoRetry]
      \/ pc = "rescheduleSave" /\ t = [s EXCEPT !.status = "expired", !.retry = NoRetry]
      \/ pc = "rescheduleSave" /\ t = [s EXCEPT !.retry = more]
  BY DEF Updated, Rescheduled
<1> HIDE DEF first, more
<1>4. CASE pc = "enterSave" /\ t = [s EXCEPT !.status = "grace", !.retry = first]
  BY <1>0, <1>1, <1>4 DEF Subscriptions
<1>5. CASE pc = "recoverSave" /\ t = [s EXCEPT !.status = "active", !.retry = NoRetry]
  BY <1>0, <1>5 DEF Subscriptions
<1>6. CASE pc = "rescheduleSave" /\ t = [s EXCEPT !.status = "expired", !.retry = NoRetry]
  BY <1>0, <1>6 DEF Subscriptions
<1>7. CASE pc = "rescheduleSave" /\ t = [s EXCEPT !.retry = more]
  BY <1>0, <1>1, <1>7 DEF Subscriptions
<1> QED BY <1>3, <1>4, <1>5, <1>6, <1>7

\* A save of a row that is still current: a retry writes for the invoice it
\* collected, the others only enter a grace from active.
LEMMA SavedRow ==
  ASSUME IInv, NEW p \in Process, SaveSub(p), CanSaveSub(p)
  PROVE  /\ sub' \in Subscriptions /\ sub'.version > sub.version /\ sub'.next = sub.next
         /\ sub'.retry # NoRetry =>
              sub'.retry.invoice \in DOMAIN invoices /\ Chased(sub'.retry.invoice)
         /\ sub.status = "grace" /\ sub'.status = "active" =>
              \E i \in DOMAIN invoices : invoices[i].status = "paid" /\ invoices[i].version >= 4
         /\ sub.status = "grace" /\ sub'.status = "expired" =>
              \E i \in DOMAIN invoices : invoices[i].version >= 4
<1> DEFINE i == job[p].invoice
           pc == job[p].pc
           row == Updated(pc, sub, i)
<1>0. Types /\ Promise(p) /\ pc \in {"enterSave", "recoverSave", "rescheduleSave"}
  BY DEF IInv, SaveSub
<1>1. /\ job[p].sub = sub /\ i \in DOMAIN invoices /\ i \in Nat
      /\ sub \in Subscriptions /\ sub.version \in Nat
  BY <1>0, JobFields, SubFields DEF Promise, CanSaveSub, Types
<1>2. sub' = [row EXCEPT !.version = @ + 1]
  BY <1>1 DEF SaveSub
<1>a. row = Updated(pc, sub, i)
  OBVIOUS
<1> HIDE DEF pc, i, row
<1>3. /\ row \in Subscriptions
      /\ row.version = sub.version /\ row.next = sub.next
      /\ row.retry = NoRetry \/ row.retry.invoice = i
      /\ pc = "enterSave" => row.status = "grace"
      /\ pc = "recoverSave" => row.status = "active"
      /\ pc = "rescheduleSave" => row.status \in {"expired", sub.status}
  <2>1. sub \in Subscriptions /\ i \in Nat
    BY <1>1
  <2>2. CASE pc = "enterSave"
    BY <1>a, <2>1, <2>2, UpdatedRow
  <2>3. CASE pc = "recoverSave"
    BY <1>a, <2>1, <2>3, UpdatedRow
  <2>4. CASE pc = "rescheduleSave"
    BY <1>a, <2>1, <2>4, UpdatedRow
  <2> QED BY <1>0, <2>2, <2>3, <2>4
<1>4. /\ Chased(i)
      /\ pc = "enterSave" => sub.status = "active"
      /\ pc = "recoverSave" => invoices[i].status = "paid" /\ invoices[i].version >= 4
      /\ pc = "rescheduleSave" => sub.status = "grace" /\ invoices[i].version >= 4
  BY <1>0, <1>1 DEF Promise, Chased, pc, i
<1>5. row.version + 1 \in Nat /\ row.version + 1 > sub.version
  BY <1>1, <1>3
<1>6. /\ sub' \in Subscriptions /\ sub'.version = row.version + 1
      /\ sub'.next = row.next /\ sub'.retry = row.retry /\ sub'.status = row.status
  <2>1. /\ sub'.version = row.version + 1
        /\ sub'.next = row.next /\ sub'.retry = row.retry /\ sub'.status = row.status
    BY <1>2, <1>3 DEF Subscriptions
  <2>2. sub' \in Subscriptions
    BY <1>2, <1>3, <1>5 DEF Subscriptions
  <2> QED BY <2>1, <2>2
<1>7. sub'.retry # NoRetry =>
        sub'.retry.invoice \in DOMAIN invoices /\ Chased(sub'.retry.invoice)
  BY <1>1, <1>3, <1>4, <1>6
<1>8. /\ sub.status = "grace" /\ sub'.status = "active" =>
           invoices[i].status = "paid" /\ invoices[i].version >= 4
      /\ sub.status = "grace" /\ sub'.status = "expired" => invoices[i].version >= 4
  BY <1>0, <1>3, <1>4, <1>6 DEF pc
<1> QED BY <1>1, <1>3, <1>5, <1>6, <1>7, <1>8

LEMMA SaveSubGood ==
  ASSUME IInv, NEW p \in Process, SaveSub(p)
  PROVE  Good(p)
<1>0. /\ Types /\ Books /\ End(p)
      /\ UNCHANGED <<invoices, charges, declined, checkouts, settled, ledger>>
  BY DEF IInv, SaveSub
<1>1. CASE ~CanSaveSub(p)
  BY <1>0, <1>1, CalmEnd DEF SaveSub
<1>2. CASE CanSaveSub(p)
  <2>1. /\ sub' \in Subscriptions /\ sub'.version > sub.version /\ sub'.next = sub.next
        /\ sub'.retry # NoRetry =>
             sub'.retry.invoice \in DOMAIN invoices /\ Chased(sub'.retry.invoice)
    BY <1>2, SavedRow
  <2>2. Books'
    BY <1>0, <2>1, BooksSubscribed
  <2>3. SubMove
    BY <2>1 DEF SubMove
  <2>4. /\ job' \in [Process -> Jobs] /\ job'[p].pc = "idle"
        /\ \A q \in Process : q # p => job'[q] = job[q]
    BY <1>0, JobEnded
  <2>5. Types'
    BY <1>0, <2>1, <2>4 DEF Types
  <2>6. MoneyMove /\ InvoicesMove
    BY <1>0, InvoicesKept DEF MoneyMove
  <2>7. Posting'
    BY <1>0, <2>4, <2>6, PostingKept
  <2>8. Promise(p)'
    BY <2>4, IdlePromise
  <2> QED BY <2>2, <2>3, <2>4, <2>5, <2>6, <2>7, <2>8 DEF Good, Stable
<1> QED BY <1>1, <1>2

LEMMA RecordInvoiceTransactionGood ==
  ASSUME IInv, NEW p \in Process, NEW c \in settled, RecordInvoiceTransaction(p, c)
  PROVE  Good(p)
<1> DEFINE i == c[1]
<1>0. /\ Types /\ Books /\ Promise(p) /\ i \in DOMAIN invoices /\ i \in Nat
      /\ job[p].pc = "idle" /\ p \notin Dunners
  BY BillingAssumption DEF IInv, Types, Books, RecordInvoiceTransaction
<1>1. UNCHANGED <<sub, charges, declined, checkouts, settled, ledger>>
  BY DEF RecordInvoiceTransaction
<1>2. CASE UNCHANGED <<invoices, job>>
  <2>1. Promise(p)'
    BY <1>0, <1>2, IdlePromise
  <2> QED BY <1>0, <1>1, <1>2, <2>1, Calm DEF Types
<1>3. CASE /\ invoices[i].status = "issued" /\ invoices' = Moved(i, "paid")
           /\ job' = [job EXCEPT ![p] = [Idle EXCEPT !.pc = "post", !.invoice = i]]
  <2>1. "post" \in Pcs
    BY DEF Pcs
  <2> HIDE DEF i
  <2>2. /\ job' \in [Process -> Jobs] /\ job'[p].pc = "post" /\ job'[p].invoice = i
        /\ \A q \in Process : q # p => job'[q] = job[q]
    BY <1>0, <1>3, <2>1, JobStarted
  <2>3. DOMAIN invoices' = DOMAIN invoices
    BY <1>0, <1>3, MovedRow
  <2>4. Promise(p)'
    BY <1>0, <2>2, <2>3 DEF Promise
  <2>5. \E k \in charges \cup settled : k[1] = i
    BY DEF i
  <2> QED BY <1>0, <1>1, <1>3, <2>2, <2>4, <2>5, MoveGood
<1> QED BY <1>2, <1>3 DEF RecordInvoiceTransaction, Invoice

\* The steps of nobody's call.
Quiet ==
  \/ \E i \in DOMAIN invoices : BeginCardEnrolment(i)
  \/ \E c \in checkouts : PayCheckout(c)
  \/ Cancel \/ Repin

LEMMA QuietStep ==
  ASSUME IInv, Quiet
  PROVE  IInv'
<1>0. /\ Types /\ Books /\ sub \in Subscriptions /\ sub.version \in Nat
      /\ sub.version + 1 \in Nat /\ sub.version + 1 > sub.version
  <2>1. Types /\ Books /\ sub \in Subscriptions /\ sub.version \in Nat
    BY SubFields DEF IInv, Types
  <2> QED BY <2>1
<1>1. UNCHANGED <<invoices, charges, declined, ledger, job>>
  BY DEF Quiet, BeginCardEnrolment, PayCheckout, Cancel, Repin
<1>2. InvoicesMove
  BY <1>0, <1>1, InvoicesKept
<1>3. Posting'
  BY <1>1, <1>2, PostingKept
<1>4. SUFFICES Types' /\ Books' /\ MoneyMove /\ SubMove
  <2>1. SUFFICES ASSUME NEW q \in Process PROVE Promise(q)'
    BY <1>3, <1>4 DEF IInv
  <2>2. Stable(q) /\ Promise(q)
    BY <1>1, <1>2, <1>4 DEF Stable, IInv
  <2> QED BY <1>0, <1>4, <2>2, PromiseKept
<1>5. ASSUME NEW i \in DOMAIN invoices, BeginCardEnrolment(i)
      PROVE  Types' /\ Books' /\ MoneyMove /\ SubMove
  <2>0. i \in Nat /\ invoices[i].version \in Nat
    BY <1>0, InvoiceFields DEF Types
  <2>1. checkouts' = checkouts \cup {<<i, invoices[i].version>>} /\ UNCHANGED <<sub, settled>>
    BY <1>5 DEF BeginCardEnrolment, Invoice
  <2>2. Types'
    BY <1>0, <1>1, <2>0, <2>1 DEF Types, Keys
  <2>3. \A k \in checkouts' \ checkouts : k[1] \in DOMAIN invoices
    BY <2>1
  <2>4. settled \subseteq settled' /\ UNCHANGED <<sub, invoices, charges>>
    BY <1>1, <2>1
  <2>5. Books' /\ MoneyMove
    BY <1>0, <2>3, <2>4, BooksCheckedOut
  <2> QED BY <2>1, <2>2, <2>5, SubKept
<1>6. ASSUME NEW c \in checkouts, PayCheckout(c)
      PROVE  Types' /\ Books' /\ MoneyMove /\ SubMove
  <2>1. settled' = settled \cup {c} /\ UNCHANGED <<sub, checkouts>>
    BY <1>6 DEF PayCheckout
  <2>2. Types'
    BY <1>0, <1>1, <2>1 DEF Types
  <2>3. \A k \in checkouts' \ checkouts : k[1] \in DOMAIN invoices
    BY <2>1
  <2>4. settled \subseteq settled' /\ UNCHANGED <<sub, invoices, charges>>
    BY <1>1, <2>1
  <2>5. Books' /\ MoneyMove
    BY <1>0, <2>3, <2>4, BooksCheckedOut
  <2> QED BY <2>1, <2>2, <2>5, SubKept
<1>7. ASSUME Cancel \/ Repin
      PROVE  Types' /\ Books' /\ MoneyMove /\ SubMove
  <2>1. /\ sub' \in Subscriptions /\ sub'.version = sub.version + 1
        /\ sub'.next = sub.next /\ sub'.retry = sub.retry
        /\ sub'.status \in {sub.status, "cancelled"}
    <3>1. "cancelled" \in DOMAIN SubscriptionTransitions
      BY DEF SubscriptionTransitions
    <3>2. CASE Cancel
      <4>1. sub' = [sub EXCEPT !.status = "cancelled", !.version = sub.version + 1]
        BY <3>2 DEF Cancel
      <4> QED BY <1>0, <3>1, <4>1 DEF Subscriptions
    <3>3. CASE Repin
      <4>1. sub' = [sub EXCEPT !.version = sub.version + 1]
        BY <3>3 DEF Repin
      <4> QED BY <1>0, <4>1 DEF Subscriptions
    <3> QED BY <1>7, <3>2, <3>3
  <2>2. UNCHANGED <<checkouts, settled>>
    BY <1>7 DEF Cancel, Repin
  <2>3. Types'
    BY <1>0, <1>1, <2>1, <2>2 DEF Types
  <2>4. Books'
    <3>1. sub'.retry # NoRetry =>
            sub'.retry.invoice \in DOMAIN invoices /\ Chased(sub'.retry.invoice)
      BY <1>0, <2>1 DEF Books
    <3> QED BY <1>0, <1>1, <2>1, <2>2, <3>1, BooksSubscribed
  <2>5. SubMove
    BY <1>0, <2>1 DEF SubMove
  <2> QED BY <1>1, <2>2, <2>3, <2>4, <2>5 DEF MoneyMove
<1> QED BY <1>5, <1>6, <1>7 DEF Quiet

\* The steps of a call, its start and its crash.
LEMMA CallStep ==
  ASSUME IInv, NEW p \in Process,
         \/ BeginRenewal(p) \/ BeginRetry(p) \/ Step(p) \/ Crash(p)
         \/ \E i \in DOMAIN invoices : BeginCollect(p, i)
         \/ \E c \in settled : RecordInvoiceTransaction(p, c)
  PROVE  Good(p)
<1>1. CASE Step(p)
  <2>1. CASE PrepareConflict(p)
    BY <2>1, CalmEnd DEF PrepareConflict
  <2> QED BY <1>1, <2>1, PrepareRenewalGood, PrecheckGood, CollectGood, SettleSuccessGood,
             PostSettlementGood, SettleFailureGood, RereadGood, EnterDunningGood,
             ReadInvoiceGood, IssueInvoiceGood, ReadGraceGood, SaveSubGood DEF Step
<1>2. CASE Crash(p)
  BY <1>2, CalmEnd DEF Crash
<1> QED BY <1>1, <1>2, BeginRenewalGood, BeginRetryGood, BeginCollectGood,
           RecordInvoiceTransactionGood

LEMMA InitInvariant ==
  ASSUME Init
  PROVE  IInv
<1>1. Idle \in Jobs /\ Idle.pc = "idle" /\ sub \in Subscriptions
  BY DEF Init, Idle, Jobs, Pcs, Subscriptions, NoRetry, SubscriptionTransitions
<1>2. Types
  BY <1>1 DEF Init, Types
<1>3. Books
  BY BillingAssumption DEF Init, Books, OneInvoicePerPeriod, PaidIsCharged
<1>4. \A p \in Process : job[p].pc = "idle"
  BY <1>1 DEF Init
<1>5. Posting
  BY <1>4 DEF Init, Posting
<1>6. \A q \in Process : Promise(q)
  BY <1>4 DEF Promise
<1> QED BY <1>2, <1>3, <1>5, <1>6 DEF IInv

LEMMA NextInvariant ==
  ASSUME IInv, [Next]_vars
  PROVE  IInv'
<1>1. CASE Quiet
  BY <1>1, QuietStep
<1>2. ASSUME NEW p \in Process,
             \/ BeginRenewal(p) \/ BeginRetry(p) \/ Step(p) \/ Crash(p)
             \/ \E i \in DOMAIN invoices : BeginCollect(p, i)
             \/ \E c \in settled : RecordInvoiceTransaction(p, c)
      PROVE  IInv'
  BY <1>2, CallStep, GoodStep
<1>3. CASE UNCHANGED vars
  BY <1>3 DEF vars, IInv, Types, Books, Chased, Posting, Promise, OneInvoicePerPeriod, PaidIsCharged
<1> QED BY <1>1, <1>2, <1>3 DEF Next, Quiet

LEMMA Inductive == Spec => []IInv
<1>1. Init => IInv
  BY InitInvariant
<1>2. IInv /\ [Next]_vars => IInv'
  BY NextInvariant
<1> QED BY <1>1, <1>2, PTL DEF Spec

-----------------------------------------------------------------------------
(* What follows from the invariant.                                        *)

\* Two odd numbers with the same half are the same.
LEMMA Halves ==
  ASSUME NEW m \in Nat, NEW n \in Nat, Odd(m), Odd(n)
  PROVE  /\ (m + 1) \div 2 = (n + 1) \div 2 => m = n
         /\ (m + 1) \div 2 \in Nat /\ (m + 1) \div 2 >= 1
         /\ m <= n => (m + 1) \div 2 <= (n + 1) \div 2
BY DEF Odd

LEMMA HalfMonotone ==
  ASSUME NEW m \in Nat, NEW n \in Nat, m <= n
  PROVE  (m + 1) \div 2 <= (n + 1) \div 2 /\ (n + 1) \div 2 \in Nat
OBVIOUS

\* The charged keys of an invoice, counted by the issue they name.
LEMMA ChargesCounted ==
  ASSUME IInv
  PROVE  OneChargePerIssue
<1> SUFFICES ASSUME NEW i \in DOMAIN invoices
             PROVE  Cardinality({k \in charges : k[1] = i}) <= (invoices[i].version + 1) \div 2
  BY DEF OneChargePerIssue
<1> DEFINE S == {k \in charges : k[1] = i}
           n == (invoices[i].version + 1) \div 2
           T == 1..n
           f == [k \in S |-> (k[2] + 1) \div 2]
<1>0. Types /\ Books
  BY DEF IInv
<1>1. invoices[i].version \in Nat /\ n \in Nat
  <2>1. invoices[i].version \in Nat
    BY <1>0, InvoiceFields DEF Types
  <2> QED BY <2>1
<1>2. \A k \in S : /\ k = <<i, k[2]>> /\ k[2] \in Nat /\ Odd(k[2])
                   /\ k[2] <= invoices[i].version
  BY <1>0 DEF Types, Books, Keys
<1>3. \A k \in S : (k[2] + 1) \div 2 \in T
  <2> TAKE k \in S
  <2>1. /\ (k[2] + 1) \div 2 \in Nat /\ (k[2] + 1) \div 2 >= 1
        /\ (k[2] + 1) \div 2 <= n
    BY <1>1, <1>2, Halves, HalfMonotone
  <2> QED BY <1>1, <2>1
<1>4. \A k, l \in S : (k[2] + 1) \div 2 = (l[2] + 1) \div 2 => k = l
  <2> TAKE k, l \in S
  <2> HAVE (k[2] + 1) \div 2 = (l[2] + 1) \div 2
  <2>1. k[2] = l[2]
    BY <1>2, Halves
  <2> QED BY <1>2, <2>1
<1> HIDE DEF S, T, n
<1>5. f \in Injection(S, T)
  <2>1. f \in [S -> T]
    BY <1>3
  <2>2. \A k, l \in S : f[k] = f[l] => k = l
    BY <1>4
  <2> QED BY <2>1, <2>2 DEF Injection, IsInjective
<1>6. IsFiniteSet(T) /\ Cardinality(T) = n
  <2>1. /\ IsFiniteSet(1..n)
        /\ Cardinality(1..n) = IF 1 > n THEN 0 ELSE n - 1 + 1
    BY <1>1, FS_Interval
  <2> QED BY <1>1, <2>1 DEF T
<1>7. Cardinality(S) <= Cardinality(T)
  BY <1>5, <1>6, FS_Injection
<1> QED BY <1>6, <1>7 DEF S, n

\* How a grace ends, step by step.
LEMMA GraceStep ==
  ASSUME IInv, [Next]_vars, sub.status = "grace"
  PROVE  /\ sub'.status = "active"  =>
              \E i \in DOMAIN invoices : invoices[i].status = "paid" /\ invoices[i].version >= 4
         /\ sub'.status = "expired" => \E i \in DOMAIN invoices : invoices[i].version >= 4
<1>0. Types /\ sub \in Subscriptions
  BY DEF IInv, Types
<1>1. CASE UNCHANGED sub
  BY <1>1
<1>2. ASSUME NEW p \in Process, SaveSub(p)
      PROVE  /\ sub'.status = "active"  =>
                  \E i \in DOMAIN invoices : invoices[i].status = "paid" /\ invoices[i].version >= 4
             /\ sub'.status = "expired" => \E i \in DOMAIN invoices : invoices[i].version >= 4
  <2>1. CASE CanSaveSub(p)
    BY <1>2, <2>1, SavedRow
  <2>2. CASE ~CanSaveSub(p)
    BY <1>1, <1>2, <2>2 DEF SaveSub
  <2> QED BY <2>1, <2>2
<1>3. ASSUME NEW p \in Process, PrepareRenewal(p)
      PROVE  FALSE
  BY <1>3 DEF IInv, PrepareRenewal, CanSaveSub, Promise, Due
<1>4. ASSUME Cancel
      PROVE  sub'.status = "cancelled"
  BY <1>0, <1>4 DEF Cancel, Subscriptions
<1>5. ASSUME Repin
      PROVE  sub'.status = sub.status
  BY <1>0, <1>5 DEF Repin, Subscriptions
<1>6. \/ UNCHANGED sub \/ Cancel \/ Repin
      \/ \E p \in Process : SaveSub(p) \/ PrepareRenewal(p)
  <2>1. CASE UNCHANGED vars
    BY <2>1 DEF vars
  <2>2. ASSUME NEW p \in Process, Step(p)
        PROVE  UNCHANGED sub \/ SaveSub(p) \/ PrepareRenewal(p)
    BY <2>2 DEF Step, PrepareConflict, Precheck, CollectApproved, CollectThrows, SettleSuccess,
                PostSettlement, SettleFailure, Reread, EnterDunning, ReadInvoice, IssueInvoice,
                ReadGrace
  <2>3. ASSUME NEW p \in Process,
               \/ BeginRenewal(p) \/ BeginRetry(p) \/ Crash(p)
               \/ \E i \in DOMAIN invoices : BeginCollect(p, i)
               \/ \E c \in settled : RecordInvoiceTransaction(p, c)
        PROVE  UNCHANGED sub
    BY <2>3 DEF BeginRenewal, BeginRetry, Crash, BeginCollect, RecordInvoiceTransaction
  <2>4. CASE \/ \E i \in DOMAIN invoices : BeginCardEnrolment(i)
             \/ \E c \in checkouts : PayCheckout(c)
    BY <2>4 DEF BeginCardEnrolment, PayCheckout
  <2> QED BY <2>1, <2>2, <2>3, <2>4 DEF Next
<1> QED BY <1>1, <1>2, <1>3, <1>4, <1>5, <1>6

\* TypeOK for every instance: no call works on an invoice that does not exist,
\* and no period is billed that is not due, whoever bills it.
THEOREM BillingTypeCorrect == Spec => []TypeOK
<1>1. IInv => TypeOK
  <2> HAVE IInv
  <2>1. Types /\ Books /\ \A p \in Process : Promise(p)
    BY DEF IInv
  <2>2. invoices \in Seq([period : Nat, status : DOMAIN InvoiceTransitions,
                          version : Nat, free : BOOLEAN])
    <3>1. Invoices \subseteq [period : Nat, status : DOMAIN InvoiceTransitions,
                              version : Nat, free : BOOLEAN]
      BY DEF Invoices, InvoiceTransitions
    <3>2. ASSUME NEW A, NEW B, A \subseteq B, NEW s \in Seq(A)
          PROVE  s \in Seq(B)
      BY <3>2
    <3> QED BY <2>1, <3>1, <3>2 DEF Types
  <2>3. \A p \in Process :
          /\ job[p].sub \in Subscriptions
          /\ job[p].pc \notin {"idle", "prepare"} => job[p].invoice \in DOMAIN invoices
    BY <2>1, JobFields DEF Types, Promise
  <2> QED BY <2>1, <2>2, <2>3 DEF Types, Books, TypeOK
<1> QED BY <1>1, Inductive, PTL

\* However many renewals race for a period, the job's and any number of staff's,
\* it has one invoice.
THEOREM OnePerPeriod == Spec => []OneInvoicePerPeriod
<1>1. IInv => OneInvoicePerPeriod
  BY DEF IInv, Books
<1> QED BY <1>1, Inductive, PTL

\* An invoice recorded as paid was paid for, however many collections and
\* callbacks settle it and whatever crashes.
THEOREM PaidForReal == Spec => []PaidIsCharged
<1>1. IInv => PaidIsCharged
  BY DEF IInv, Books
<1> QED BY <1>1, Inductive, PTL

\* Collecting an invoice charges its card at most once per issue, for any number
\* of collections under way at once.
THEOREM ChargedOncePerIssue == Spec => []OneChargePerIssue
<1>1. IInv => OneChargePerIssue
  BY ChargesCounted
<1> QED BY <1>1, Inductive, PTL

\* A settlement reaches Finance at most once and only for a paid invoice.
THEOREM SettlementPostedOnce == Spec => []PostedOnce
<1>1. IInv => PostedOnce
  BY DEF IInv, Posting, PostedOnce
<1> QED BY <1>1, Inductive, PTL

\* A grace ends only on what a retry came to, for any number of instances of the
\* dunning job that overlap, of staff requests, callbacks and crashes: neither a
\* stale row nor the result of another call ends it before a failed invoice has been
\* issued again and answered (RetryDunningInvoice).
THEOREM GraceEndsRight == Spec => GraceEndsOnResult
<1>1. IInv /\ [Next]_vars =>
        [sub.status = "grace" =>
          /\ sub'.status = "active"  =>
                \E i \in DOMAIN invoices : invoices[i].status = "paid" /\ invoices[i].version >= 4
          /\ sub'.status = "expired" =>
                \E i \in DOMAIN invoices : invoices[i].version >= 4]_vars
  BY GraceStep
<1> QED BY <1>1, Inductive, PTL DEF Spec, GraceEndsOnResult

=============================================================================
