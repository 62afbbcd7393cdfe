---------------------------- MODULE PaymentLedger ----------------------------
(***************************************************************************)
(* What the payment intent promises as a book of money: it is charged once, *)
(* and every refund is first reserved within what is left of the charge and  *)
(* then settled once, completed or failed.  Entries are never removed,       *)
(* changed in amount, or settled a second time.                              *)
(***************************************************************************)
EXTENDS Money, Sequences

CONSTANT Amounts  \* the amounts that may be charged or refunded

VARIABLES
  charges,  \* the amounts charged
  book      \* the refunds: amount and state, in order of reservation

Held == {k \in DOMAIN book : book[k].state # "failed"}

Free == Total(charges) - Total([k \in Held |-> book[k].amount])

Init == charges = <<>> /\ book = <<>>

Charge(a) == charges = <<>> /\ charges' = <<a>> /\ UNCHANGED book

\* A refund is entered pending; the one-transaction refund enters it completed.
Enter(a, state) ==
  /\ a <= Free
  /\ book' = Append(book, [amount |-> a, state |-> state])
  /\ UNCHANGED charges

SettleEntry(k, state) ==
  /\ book[k].state = "pending"
  /\ book' = [book EXCEPT ![k].state = state]
  /\ UNCHANGED charges

Next ==
  \/ \E a \in Amounts : Charge(a)
  \/ \E a \in Amounts, s \in {"pending", "completed"} : Enter(a, s)
  \/ \E k \in DOMAIN book, s \in {"completed", "failed"} : SettleEntry(k, s)

Spec == Init /\ [][Next]_<<charges, book>>
=============================================================================
