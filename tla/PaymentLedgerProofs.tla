------------------------- MODULE PaymentLedgerProofs -------------------------
(***************************************************************************)
(* That PaymentLifecycle keeps its books: refunds within the charge, one     *)
(* reservation per idempotency key, one announcement per completion, and     *)
(* every step a step of PaymentLedger.                                       *)
(*                                                                           *)
(* The argument.  A transaction that may still save has read the committed   *)
(* row (Fresh), and a receipt between its update and its commit keeps every  *)
(* other writer out (Locked); so whatever is written is one of the           *)
(* aggregate's moves applied to the row as it is now (Move), with the guards *)
(* the use case evaluated.  What the properties say then only has to be      *)
(* shown of one move on one row.                                             *)
(*                                                                           *)
(* The last part relates the row to the provider (Honoured): a charge on the *)
(* row, or in the hands of a job, is one the provider made, and a payment     *)
(* the provider has made finds an intent that can still record it.           *)
(***************************************************************************)
EXTENDS PaymentProofs, MoneyProofs

\* The statuses in which an intent is shown to have been paid.
Shown == {"captured", "partially_refunded", "refunded"}

\* A row is read at the version it was committed under, with no refund that is not
\* still there.
Seen(i) ==
  /\ i.version <= intent.version
  /\ i.version = intent.version => i = intent
  /\ DOMAIN i.refunds \subseteq DOMAIN intent.refunds

Fresh ==
  /\ intent.version = 0 => intent = NoIntent
  /\ \A p \in Callers : Seen(snap[p])

\* An uncommitted receipt holds the row it read.
Locked ==
  \A p \in Callers :
    job[p].step \in {"mark", "commit"} =>
      rowLock = p /\ snap[p] = intent /\ intent.version # 0

\* A job's inputs are ones its caller may give, and its refund is on the row.
Fits(j, i) ==
  /\ j.step = "advance" => j.to \in AdvanceTargets
  /\ j.step = "authorize" => j.amount \in AuthAmounts
  /\ j.step \in {"reserveRefund", "legacyRefund"} => j.amount \in RefundAmounts
  /\ j.step \in {"callRefund", "settleRefund"} => j.refund \in DOMAIN i.refunds

LiveAmounts(i) == [k \in LiveRefunds(i) |-> i.refunds[k].amount]

\* The books of a row are in order.
Balanced(i) ==
  /\ IsFiniteSet(Units(i.charges)) /\ IsFiniteSet(Units(LiveAmounts(i)))
  /\ Reserved(i) <= Total(i.charges)

UniqueKeys(i) ==
  \A k, l \in DOMAIN i.refunds :
    (k # l /\ i.refunds[k].key # NoKey) => i.refunds[k].key # i.refunds[l].key

Announced(i) ==
  \A k \in DOMAIN i.refunds :
    i.refunds[k].completions = IF i.refunds[k].state = "completed" THEN 1 ELSE 0

InOrder(i) ==
  /\ i.authorized \in AuthAmounts \cup {0}
  /\ Balanced(i) /\ UniqueKeys(i) /\ Announced(i)
  /\ ("captured" \notin AdvanceTargets /\ i.status \in Shown) => i.charges # <<>>

Books ==
  /\ Fresh /\ Locked
  /\ \A p \in Callers : Fits(job[p], intent)
  /\ InOrder(intent)

BInv == IInv /\ Books

-----------------------------------------------------------------------------
(* What the aggregate's methods do to the books of a row. *)

\* Nothing is booked.
Kept(i, n) ==
  /\ n.charges = i.charges /\ n.refunds = i.refunds
  /\ n.authorized \in {i.authorized} \cup AuthAmounts
  /\ n.status \in Shown => i.status \in Shown \/ "captured" \in AdvanceTargets

\* The charge.
Charged(i, n) ==
  /\ i.charges = <<>> /\ \E a \in {Amount} \cup AuthAmounts : n.charges = <<a>>
  /\ n.refunds = i.refunds /\ n.authorized = i.authorized

\* A new refund, pending or completed at once.
Entered(i, n) ==
  /\ n.charges = i.charges /\ n.authorized = i.authorized
  /\ \E a \in RefundAmounts, key \in Keys \cup {NoKey}, done \in BOOLEAN :
       /\ CanReserve(i, a) /\ Existing(i, key) = {}
       /\ n.refunds = Append(i.refunds,
                             [amount |-> a, key |-> key,
                              state |-> IF done THEN "completed" ELSE "pending",
                              completions |-> IF done THEN 1 ELSE 0])
       /\ n.status # i.status => done

\* A refund that ended well, and one that did not.
Completed(x) == [x EXCEPT !.state = "completed", !.completions = @ + 1]

Failed(x) == [x EXCEPT !.state = "failed"]

\* The end of a pending refund.
Ended(i, n) ==
  /\ n.charges = i.charges /\ n.authorized = i.authorized
  /\ \E k \in DOMAIN i.refunds :
       /\ i.refunds[k].state = "pending"
       /\ \/ n.refunds = [i.refunds EXCEPT ![k] = Completed(i.refunds[k])]
          \/ /\ n.refunds = [i.refunds EXCEPT ![k] = Failed(i.refunds[k])]
             /\ n.status = i.status

Move(i, n) == Kept(i, n) \/ Charged(i, n) \/ Entered(i, n) \/ Ended(i, n)

\* The committed row changes by one move, under its next version.
Written == intent'.version = intent.version + 1 /\ Move(intent, intent')

-----------------------------------------------------------------------------
(* Every move leaves the books of a row in order. *)

\* The parts of a row the sums are taken over.
LEMMA RowTypes ==
  ASSUME NEW i \in Intent
  PROVE  /\ i.refunds \in Seq(Refund) /\ i.charges \in Seq(Nat \ {0})
         /\ \A k \in DOMAIN i.refunds :
              /\ i.refunds[k] \in Refund /\ i.refunds[k].amount \in Nat \ {0}
              /\ i.refunds[k].completions \in Nat
         /\ DOMAIN i.refunds = 1..Len(i.refunds) /\ Len(i.refunds) \in Nat
<1>1. i.refunds \in Seq(Refund) /\ i.charges \in Seq(Nat \ {0})
  BY DEF Intent
<1>2. DOMAIN i.refunds = 1..Len(i.refunds) /\ Len(i.refunds) \in Nat
  BY <1>1
<1>3. \A k \in DOMAIN i.refunds : i.refunds[k] \in Refund
  BY <1>1
<1>4. QED
  BY <1>1, <1>2, <1>3 DEF Refund

\* What is reserved is a number.
LEMMA BalancedTypes ==
  ASSUME NEW i, Balanced(i)
  PROVE  Reserved(i) \in Nat /\ Total(i.charges) \in Nat /\ Reserved(i) = Total(LiveAmounts(i))
<1>1. Reserved(i) = Total(LiveAmounts(i))
  BY DEF Reserved, LiveAmounts
<1>2. QED
  BY <1>1, FS_CardinalityType DEF Balanced, Total

\* A charge there is something to refund of.
LEMMA SomethingCharged ==
  ASSUME NEW i \in Intent, Total(i.charges) > 0
  PROVE  i.charges # <<>>
<1>1. i.charges = <<>> => DOMAIN i.charges = {}
  BY RowTypes
<1>2. QED
  BY <1>1, TotalEmpty

\* A write that books nothing.
LEMMA KeptInOrder ==
  ASSUME NEW i \in Intent, NEW n \in Intent, InOrder(i), Kept(i, n)
  PROVE  InOrder(n)
<1>1. n.refunds = i.refunds /\ n.charges = i.charges
  BY DEF Kept
<1>2. LiveRefunds(n) = LiveRefunds(i) /\ LiveAmounts(n) = LiveAmounts(i)
  BY <1>1 DEF LiveRefunds, LiveAmounts
<1>3. Balanced(n)
  BY <1>1, <1>2 DEF InOrder, Balanced, Reserved, LiveAmounts
<1>4. UniqueKeys(n) /\ Announced(n)
  BY <1>1 DEF InOrder, UniqueKeys, Announced
<1>5. QED
  BY <1>1, <1>3, <1>4 DEF InOrder, Kept

\* The charge: nothing was reserved against none.
LEMMA ChargedInOrder ==
  ASSUME NEW i \in Intent, NEW n \in Intent, InOrder(i), Charged(i, n)
  PROVE  InOrder(n)
<1>1. PICK a \in {Amount} \cup AuthAmounts : n.charges = <<a>>
  BY DEF Charged
<1>2. n.refunds = i.refunds /\ i.charges = <<>> /\ n.authorized = i.authorized
  BY DEF Charged
<1>3. a \in Nat
  BY AmountAssumption
<1>4. IsFiniteSet(Units(<<>>)) /\ Total(<<>>) = 0
  BY TotalEmpty
<1>5. IsFiniteSet(Units(<<a>>)) /\ Total(<<a>>) = a
  <2>1. DOMAIN <<>> = {} /\ DOMAIN <<a>> = {1} /\ <<a>>[1] = a
    OBVIOUS
  <2>2. QED
    BY <1>3, <1>4, <2>1, TotalAdd
<1>6. LiveRefunds(n) = LiveRefunds(i) /\ LiveAmounts(n) = LiveAmounts(i)
  BY <1>2 DEF LiveRefunds, LiveAmounts
<1>7. Reserved(n) = Reserved(i) /\ Reserved(i) <= 0 /\ Reserved(i) \in Nat
  BY <1>2, <1>4, <1>6, BalancedTypes DEF InOrder, Balanced, Reserved, LiveAmounts
<1>8. Balanced(n)
  BY <1>1, <1>3, <1>5, <1>6, <1>7 DEF InOrder, Balanced
<1>9. UniqueKeys(n) /\ Announced(n)
  BY <1>2 DEF InOrder, UniqueKeys, Announced
<1>10. n.charges # <<>>
  BY <1>1
<1>11. QED
  BY <1>2, <1>8, <1>9, <1>10 DEF InOrder

\* A reservation, or a refund made at once, within what is left.
LEMMA EnteredInOrder ==
  ASSUME NEW i \in Intent, NEW n \in Intent, InOrder(i), Entered(i, n)
  PROVE  InOrder(n)
<1>1. PICK a \in RefundAmounts, key \in Keys \cup {NoKey}, done \in BOOLEAN :
       /\ CanReserve(i, a) /\ Existing(i, key) = {}
       /\ n.refunds = Append(i.refunds,
                             [amount |-> a, key |-> key,
                              state |-> IF done THEN "completed" ELSE "pending",
                              completions |-> IF done THEN 1 ELSE 0])
       /\ n.status # i.status => done
  BY DEF Entered
<1> DEFINE x == [amount |-> a, key |-> key,
                 state |-> IF done THEN "completed" ELSE "pending",
                 completions |-> IF done THEN 1 ELSE 0]
<1> DEFINE m == Len(i.refunds) + 1
<1>2. n.charges = i.charges /\ n.authorized = i.authorized
  BY DEF Entered
<1>3. a \in Nat \ {0}
  BY AmountAssumption
<1>4. /\ x.amount = a /\ x.key = key /\ x.state # "failed"
      /\ x.completions = IF x.state = "completed" THEN 1 ELSE 0
  OBVIOUS
<1>5. n.refunds = Append(i.refunds, x)
  BY <1>1
<1> HIDE DEF x
<1>6. /\ DOMAIN n.refunds = DOMAIN i.refunds \cup {m} /\ m \notin DOMAIN i.refunds
      /\ n.refunds[m] = x /\ \A k \in DOMAIN i.refunds : n.refunds[k] = i.refunds[k]
  BY <1>5, RowTypes
<1> HIDE DEF m
<1>7. /\ IsFiniteSet(Units(LiveAmounts(n)))
      /\ Total(LiveAmounts(n)) = Total(LiveAmounts(i)) + a
  <2>1. LiveRefunds(n) = LiveRefunds(i) \cup {m} /\ m \notin LiveRefunds(i)
    BY <1>4, <1>6 DEF LiveRefunds
  <2>2. /\ DOMAIN LiveAmounts(n) = DOMAIN LiveAmounts(i) \cup {m}
        /\ m \notin DOMAIN LiveAmounts(i)
        /\ LiveAmounts(n)[m] = a
    BY <1>4, <1>6, <2>1 DEF LiveAmounts
  <2>3. \A k \in DOMAIN LiveAmounts(i) : LiveAmounts(n)[k] = LiveAmounts(i)[k]
    BY <1>6, <2>1 DEF LiveAmounts, LiveRefunds
  <2>4. IsFiniteSet(Units(LiveAmounts(i)))
    BY DEF InOrder, Balanced
  <2>5. QED
    BY <1>3, <2>2, <2>3, <2>4, TotalAdd
<1>8. /\ Reserved(i) \in Nat /\ Total(i.charges) \in Nat /\ Reserved(i) = Total(LiveAmounts(i))
      /\ Reserved(n) = Total(LiveAmounts(n)) /\ a <= Total(i.charges) - Reserved(i)
  BY <1>1, BalancedTypes DEF InOrder, CanReserve, Remaining, Reserved, LiveAmounts
<1>9. Balanced(n)
  BY <1>2, <1>3, <1>7, <1>8 DEF Balanced, InOrder
<1>10. UniqueKeys(n)
  <2>1. \A k \in DOMAIN i.refunds : key # NoKey => i.refunds[k].key # key
    BY <1>1 DEF Existing
  <2>2. SUFFICES ASSUME NEW k \in DOMAIN n.refunds, NEW l \in DOMAIN n.refunds,
                        k # l, n.refunds[k].key # NoKey
                 PROVE  n.refunds[k].key # n.refunds[l].key
    BY DEF UniqueKeys
  <2>3. CASE k = m
    BY <1>4, <1>6, <2>1, <2>2, <2>3
  <2>4. CASE l = m
    BY <1>4, <1>6, <2>1, <2>2, <2>4
  <2>5. CASE k # m /\ l # m
    BY <1>6, <2>2, <2>5 DEF InOrder, UniqueKeys
  <2>6. QED
    BY <2>3, <2>4, <2>5
<1>11. Announced(n)
  BY <1>4, <1>6 DEF InOrder, Announced
<1>12. n.charges # <<>>
  BY <1>2, <1>3, <1>8, SomethingCharged
<1>13. QED
  BY <1>2, <1>9, <1>10, <1>11, <1>12 DEF InOrder

\* What the end of a refund changes.
LEMMA EndedRefund ==
  ASSUME NEW x \in Refund
  PROVE  /\ Completed(x).amount = x.amount /\ Completed(x).key = x.key
         /\ Completed(x).state = "completed" /\ Completed(x).completions = x.completions + 1
         /\ Failed(x).amount = x.amount /\ Failed(x).key = x.key
         /\ Failed(x).state = "failed" /\ Failed(x).completions = x.completions
BY DEF Completed, Failed, Refund

\* The end of a reservation, which leaves at most what was reserved.
LEMMA EndedInOrder ==
  ASSUME NEW i \in Intent, NEW n \in Intent, InOrder(i), Ended(i, n)
  PROVE  InOrder(n)
<1>1. PICK k \in DOMAIN i.refunds :
        /\ i.refunds[k].state = "pending"
        /\ \/ n.refunds = [i.refunds EXCEPT ![k] = Completed(i.refunds[k])]
           \/ /\ n.refunds = [i.refunds EXCEPT ![k] = Failed(i.refunds[k])]
              /\ n.status = i.status
  BY DEF Ended
<1>2. n.charges = i.charges /\ n.authorized = i.authorized
  BY DEF Ended
<1>3. /\ i.refunds[k] \in Refund /\ i.refunds[k].amount \in Nat \ {0}
      /\ i.refunds[k].completions = 0
  BY <1>1, RowTypes DEF InOrder, Announced
<1>4. /\ DOMAIN n.refunds = DOMAIN i.refunds
      /\ \A l \in DOMAIN i.refunds : l # k => n.refunds[l] = i.refunds[l]
  BY <1>1
<1>5. /\ n.refunds[k].amount = i.refunds[k].amount /\ n.refunds[k].key = i.refunds[k].key
      /\ \/ n.refunds[k].state = "completed" /\ n.refunds[k].completions = 1
         \/ n.refunds[k].state = "failed" /\ n.refunds[k].completions = 0
  BY <1>1, <1>3, EndedRefund
<1>6. \A l \in DOMAIN i.refunds :
        n.refunds[l].amount = i.refunds[l].amount /\ n.refunds[l].key = i.refunds[l].key
  BY <1>4, <1>5
<1>7. LiveRefunds(n) \subseteq LiveRefunds(i) /\ k \in LiveRefunds(i)
  BY <1>1, <1>4 DEF LiveRefunds
<1>8. /\ DOMAIN LiveAmounts(n) \subseteq DOMAIN LiveAmounts(i)
      /\ \A l \in DOMAIN LiveAmounts(n) : LiveAmounts(n)[l] = LiveAmounts(i)[l]
  BY <1>6, <1>7 DEF LiveAmounts, LiveRefunds
<1>9. IsFiniteSet(Units(LiveAmounts(i)))
  BY DEF InOrder, Balanced
<1>10. /\ IsFiniteSet(Units(LiveAmounts(n)))
       /\ Total(LiveAmounts(n)) <= Total(LiveAmounts(i)) /\ Total(LiveAmounts(n)) \in Nat
  BY <1>8, <1>9, TotalPart
<1>11. /\ Reserved(n) = Total(LiveAmounts(n)) /\ Reserved(i) = Total(LiveAmounts(i))
       /\ Reserved(i) \in Nat /\ Total(i.charges) \in Nat
  BY BalancedTypes DEF Reserved, LiveAmounts, InOrder
<1>12. Balanced(n)
  BY <1>2, <1>10, <1>11 DEF Balanced, InOrder
<1>13. UniqueKeys(n)
  BY <1>4, <1>6 DEF InOrder, UniqueKeys
<1>14. Announced(n)
  BY <1>4, <1>5 DEF InOrder, Announced
<1>15. n.charges # <<>>
  <2>1. LiveAmounts(i)[k] = i.refunds[k].amount /\ k \in DOMAIN LiveAmounts(i)
    BY <1>7 DEF LiveAmounts
  <2>2. i.refunds[k].amount <= Total(LiveAmounts(i))
    BY <1>3, <1>9, <2>1, TotalCovers
  <2>3. Total(i.charges) > 0
    BY <1>3, <1>11, <2>2 DEF InOrder, Balanced
  <2>4. QED
    BY <1>2, <2>3, SomethingCharged
<1>16. QED
  BY <1>2, <1>12, <1>13, <1>14, <1>15 DEF InOrder

\* Every move leaves the books in order, and no refund leaves the row.
LEMMA MoveInOrder ==
  ASSUME NEW i \in Intent, NEW n \in Intent, InOrder(i), Move(i, n)
  PROVE  InOrder(n) /\ DOMAIN i.refunds \subseteq DOMAIN n.refunds
<1>1. InOrder(n)
  BY KeptInOrder, ChargedInOrder, EnteredInOrder, EndedInOrder DEF Move
<1>2. DOMAIN i.refunds \subseteq DOMAIN n.refunds
  <2>1. CASE Kept(i, n) \/ Charged(i, n)
    BY <2>1 DEF Kept, Charged
  <2>2. CASE Entered(i, n)
    BY <2>2, RowTypes DEF Entered
  <2>3. CASE Ended(i, n)
    BY <2>3 DEF Ended
  <2>4. QED
    BY <2>1, <2>2, <2>3 DEF Move
<1>3. QED
  BY <1>1, <1>2
-----------------------------------------------------------------------------
(* Each of the aggregate's methods, under the guards the use cases evaluate,  *)
(* is a move.                                                                 *)

\* A status moves into the paid ones only from within them, or by a bare advance.
LEMMA TransitionMove ==
  ASSUME NEW i \in Intent, NEW to \in Statuses,
         to \in Shown => i.status \in Shown \/ "captured" \in AdvanceTargets
  PROVE  Move(i, Transition(i, to))
BY DEF Transition, Move, Kept, Intent

\* The transition table leads into the paid statuses only through captured.
LEMMA ShownSources ==
  ASSUME NEW s \in Statuses, NEW to, CanTransition(s, to), to \in Shown, to # "captured"
  PROVE  s \in Shown
BY DEF Statuses, CanTransition, Targets, Shown

\* authorize() and recordProviderIntent().
LEMMA DetailsMove ==
  ASSUME NEW i \in Intent, NEW ref, NEW a \in AuthAmounts
  PROVE  Move(i, Authorize(i, ref, a)) /\ Move(i, RecordProviderIntent(i, ref))
<1>1. Kept(i, RecordProviderIntent(i, ref))
  BY DEF RecordProviderIntent, Kept, Intent
<1>2. Kept(i, Authorize(i, ref, a))
  BY DEF Authorize, Transition, Kept, Intent, Shown
<1>3. QED
  BY <1>1, <1>2 DEF Move

\* markCaptured() and capture(): the first charge.
LEMMA CaptureMove ==
  ASSUME NEW i \in Sound, InOrder(i),
         CanTransition(i.status, "captured") \/ i.status = "requires_payment"
  PROVE  Move(i, MarkCaptured(i)) /\ Move(i, Capture(i))
<1>1. i.status \notin Settled /\ i \in Intent
  BY SettledSources DEF Sound, Intent, Settled
<1>2. i.charges = <<>>
  BY <1>1 DEF Sound
<1>3. CapturedAmount(i) \in {Amount} \cup AuthAmounts
  BY DEF CapturedAmount, InOrder
<1>4. ASSUME NEW a \in {Amount} \cup AuthAmounts
      PROVE  Charged(i, [Transition(i, "captured") EXCEPT !.charges = Append(@, a)])
  <2> DEFINE t == Transition(i, "captured")
  <2>1. /\ t.charges = <<>> /\ t.refunds = i.refunds /\ t.authorized = i.authorized
        /\ t \in Intent
    BY <1>1, <1>2 DEF Transition, Intent, Statuses
  <2> HIDE DEF t
  <2> DEFINE n == [t EXCEPT !.charges = Append(@, a)]
  <2>2. /\ n.charges = Append(<<>>, a) /\ n.refunds = i.refunds
        /\ n.authorized = i.authorized
    BY <2>1 DEF Intent
  <2>3. Append(<<>>, a) = <<a>>
    OBVIOUS
  <2>4. Charged(i, n)
    BY <1>2, <2>2, <2>3 DEF Charged
  <2>5. QED
    BY <2>4 DEF t
<1>5. QED
  BY <1>3, <1>4 DEF MarkCaptured, Capture, Move

\* requestRefund(), once no refund has the key and the amount is there.
LEMMA RequestRefundMove ==
  ASSUME NEW i \in Intent, NEW a \in RefundAmounts, NEW key \in Keys \cup {NoKey},
         CanReserve(i, a), Existing(i, key) = {}
  PROVE  Move(i, RequestRefund(i, a, key))
<1> DEFINE n == RequestRefund(i, a, key)
<1>1. /\ n.charges = i.charges /\ n.authorized = i.authorized /\ n.status = i.status
      /\ n.refunds = Append(i.refunds, [amount |-> a, key |-> key,
                                        state |-> "pending", completions |-> 0])
  BY DEF RequestRefund, AddRefund, Intent
<1> HIDE DEF n
<1>2. Entered(i, n)
  <2>1. \E done \in BOOLEAN : ~done
    OBVIOUS
  <2>2. QED
    BY <1>1, <2>1 DEF Entered
<1>3. QED
  BY <1>2 DEF Move, n

\* refund(): a refund without a key that completes at once.
LEMMA RefundNowMove ==
  ASSUME NEW i \in Intent, NEW a \in RefundAmounts, CanReserve(i, a)
  PROVE  Move(i, RefundNow(i, a))
<1> DEFINE d == AddRefund(i, a, NoKey, "completed", 1)
<1> DEFINE n == RefundNow(i, a)
<1>1. /\ d.charges = i.charges /\ d.authorized = i.authorized
      /\ d.refunds = Append(i.refunds, [amount |-> a, key |-> NoKey,
                                        state |-> "completed", completions |-> 1])
      /\ d = [i EXCEPT !.refunds = d.refunds]
  BY DEF AddRefund, Intent
<1> HIDE DEF d
<1>2. n = d \/ n = Transition(d, "refunded")
  BY DEF RefundNow, d
<1> HIDE DEF n
<1>3. n.charges = i.charges /\ n.authorized = i.authorized /\ n.refunds = d.refunds
  BY <1>1, <1>2 DEF Transition, Intent
<1>4. Existing(i, NoKey) = {} /\ NoKey \in Keys \cup {NoKey}
  BY DEF Existing
<1>5. Entered(i, n)
  <2>1. \E done \in BOOLEAN : done
    OBVIOUS
  <2>2. QED
    BY <1>1, <1>3, <1>4, <2>1 DEF Entered
<1>6. QED
  BY <1>5 DEF Move, n

\* completeRefund() and failRefund(), on a refund that is pending.
LEMMA EndRefundMove ==
  ASSUME NEW i \in Intent, NEW k \in DOMAIN i.refunds, i.refunds[k].state = "pending"
  PROVE  Move(i, CompleteRefund(i, k)) /\ Move(i, FailRefund(i, k))
<1>1. Ended(i, FailRefund(i, k))
  <2>1. FailRefund(i, k) = [i EXCEPT !.refunds = [i.refunds EXCEPT ![k] = Failed(i.refunds[k])]]
    BY DEF FailRefund, Failed
  <2>2. QED
    BY <2>1 DEF Ended, Intent
<1>2. Ended(i, CompleteRefund(i, k))
  <2> DEFINE d == [i EXCEPT !.refunds = [i.refunds EXCEPT ![k] = Completed(i.refunds[k])]]
  <2>1. CompleteRefund(i, k) = Transition(d, StatusAfterRefund(d))
    BY DEF CompleteRefund, Completed
  <2>2. ASSUME NEW s PROVE Ended(i, Transition(d, s))
    BY DEF Ended, Transition, Intent
  <2>3. QED
    BY <2>1, <2>2
<1>3. QED
  BY <1>1, <1>2 DEF Move

\* prepareDirectCapture() books nothing.
LEMMA DirectCaptureMove ==
  ASSUME NEW i \in Intent
  PROVE  Move(i, PrepareDirectCapture(i))
<1>1. Move(i, i)
  BY DEF Move, Kept
<1>2. Move(i, Transition(i, "capture_requested"))
  BY TransitionMove DEF Statuses, Shown
<1>3. QED
  BY <1>1, <1>2 DEF PrepareDirectCapture

\* A move looks at neither version nor receipts.
LEMMA MoveAlong ==
  ASSUME NEW i, NEW h, NEW n, NEW m, Move(h, n),
         h.charges = i.charges, h.refunds = i.refunds, h.authorized = i.authorized,
         h.status = i.status, m.charges = n.charges, m.refunds = n.refunds,
         m.authorized = n.authorized, m.status = n.status
  PROVE  Move(i, m)
<1>1. LiveRefunds(i) = LiveRefunds(h)
  BY DEF LiveRefunds
<1>2. Remaining(i) = Remaining(h) /\ \A key : Existing(i, key) = Existing(h, key)
  BY <1>1 DEF Remaining, Reserved, Existing
<1>3. CASE Kept(h, n)
  BY <1>3 DEF Kept, Move
<1>4. CASE Charged(h, n)
  BY <1>4 DEF Charged, Move
<1>5. CASE Entered(h, n)
  BY <1>2, <1>5 DEF Entered, Move, CanReserve
<1>6. CASE Ended(h, n)
  BY <1>6 DEF Ended, Move
<1>7. QED
  BY <1>3, <1>4, <1>5, <1>6 DEF Move

\* A webhook event books nothing: the captured one is settled elsewhere.
LEMMA WebhookMove ==
  ASSUME NEW i \in Intent, NEW e \in Events, CanApply(i, e) \/ Applicable(i, e)
  PROVE  Move(i, ApplyWebhook(i, e))
<1> DEFINE r == RecordWebhook(i, e)
<1>1. /\ r \in Intent /\ r.charges = i.charges /\ r.refunds = i.refunds
      /\ r.authorized = i.authorized /\ r.status = i.status
  BY DEF RecordWebhook, Intent
<1> HIDE DEF r
<1>2. ASSUME NEW n, Move(r, n) PROVE Move(i, n)
  BY <1>1, <1>2, MoveAlong
<1>3. Move(r, r)
  BY DEF Move, Kept
<1>4. CASE KindOf[e] = "other"
  BY <1>2, <1>3, <1>4 DEF ApplyWebhook, r
<1>5. CASE KindOf[e] # "other" /\ ~Deferred(e)
  <2>1. KindOf[e] \in Statuses
    BY <1>5, LifecycleAssumption
  <2>2. KindOf[e] = r.status \/ CanTransition(r.status, KindOf[e])
    BY <1>1, <1>5 DEF CanApply, Applicable
  <2>3. KindOf[e] \in Shown => r.status \in Shown
    BY <1>1, <1>5, <2>1, <2>2, ShownSources DEF Deferred, Intent
  <2>4. Move(r, Transition(r, KindOf[e]))
    BY <1>1, <2>1, <2>3, TransitionMove
  <2>5. QED
    BY <1>2, <1>5, <2>4 DEF ApplyWebhook, r
<1>6. CASE KindOf[e] # "other" /\ Deferred(e)
  BY <1>1, <1>2, <1>3, <1>6, DirectCaptureMove DEF ApplyWebhook, r
<1>7. QED
  BY <1>4, <1>5, <1>6
-----------------------------------------------------------------------------
(* Transactions: what they leave in order, and what they write. *)

\* The books stay in order, and the row is as it was or changed by one move.
Booked == Books' /\ (UNCHANGED intent \/ Written)

\* No row has been read, and a job that has just begun.
LEMMA NothingSeen ==
  /\ NoSnap.version = 0 /\ NoSnap.refunds = <<>> /\ DOMAIN NoSnap.refunds = {}
  /\ \A i : Fits(Idle, i) /\ Idle.step = "idle"
BY DEF NoSnap, NoIntent, Fits, Idle

\* The aggregate's methods leave the version to the repository.
LEMMA VersionKept ==
  ASSUME NEW i \in Intent
  PROVE  /\ \A to : Transition(i, to).version = i.version
         /\ \A ref, a : Authorize(i, ref, a).version = i.version
         /\ \A ref : RecordProviderIntent(i, ref).version = i.version
         /\ MarkCaptured(i).version = i.version /\ Capture(i).version = i.version
         /\ \A a, key : RequestRefund(i, a, key).version = i.version
         /\ \A a : RefundNow(i, a).version = i.version
         /\ \A k : CompleteRefund(i, k).version = i.version /\ FailRefund(i, k).version = i.version
         /\ PrepareDirectCapture(i).version = i.version
         /\ \A e : ApplyWebhook(i, e).version = i.version
<1>1. \A to : Transition(i, to).version = i.version
  BY DEF Transition, Intent
<1>2. /\ \A ref, a : Authorize(i, ref, a).version = i.version
      /\ \A ref : RecordProviderIntent(i, ref).version = i.version
      /\ MarkCaptured(i).version = i.version /\ Capture(i).version = i.version
      /\ \A a, key : RequestRefund(i, a, key).version = i.version
  BY DEF Authorize, RecordProviderIntent, MarkCaptured, Capture, RequestRefund, AddRefund,
         Transition, Intent
<1>3. \A a : RefundNow(i, a).version = i.version
  BY DEF RefundNow, AddRefund, Transition, Intent
<1>4. \A k : CompleteRefund(i, k).version = i.version /\ FailRefund(i, k).version = i.version
  BY DEF CompleteRefund, FailRefund, Transition, Intent
<1>5. PrepareDirectCapture(i).version = i.version
  BY <1>1 DEF PrepareDirectCapture
<1>6. \A e : ApplyWebhook(i, e).version = i.version
  BY DEF ApplyWebhook, RecordWebhook, PrepareDirectCapture, Transition, Intent
<1>7. QED
  BY <1>1, <1>2, <1>3, <1>4, <1>5, <1>6

\* A caller that begins, goes on or ends without a write.
LEMMA QuietBooks ==
  ASSUME BInv, NEW p \in Callers, NEW j, NEW s \in {NoSnap, intent, snap[p]},
         Fits(j, intent), j.step \notin {"mark", "commit"},
         job' = [job EXCEPT ![p] = j], snap' = [snap EXCEPT ![p] = s], intent' = intent,
         \A q \in Callers \ {p} : rowLock = q => rowLock' = q
  PROVE  Booked
<1>1. job \in [Callers -> GoodJob] /\ snap \in [Callers -> Sound] /\ intent.version \in Nat
  BY DEF BInv, IInv, Rows, Sound, Intent
<1>2. Seen(NoSnap) /\ Seen(intent) /\ Seen(snap[p])
  BY <1>1, NothingSeen DEF BInv, Books, Fresh, Seen, NoSnap
<1>3. ASSUME NEW i, Seen(i) PROVE Seen(i)'
  BY <1>3 DEF Seen
<1>4. \A q \in Callers : Seen(snap'[q])
  BY <1>1, <1>2 DEF BInv, Books, Fresh
<1>5. Fresh'
  BY <1>3, <1>4 DEF BInv, Books, Fresh, Seen
<1>6. Locked'
  BY <1>1 DEF BInv, Books, Locked
<1>7. \A q \in Callers : Fits(job'[q], intent')
  BY <1>1 DEF BInv, Books
<1>8. InOrder(intent')
  BY DEF BInv, Books
<1>9. QED
  BY <1>5, <1>6, <1>7, <1>8 DEF Booked, Books

\* A caller that writes the row, nobody else's receipt being under way.
LEMMA WriteBooks ==
  ASSUME BInv, NEW p \in Callers, NEW j, Goto(p, j), Written, intent' \in Intent,
         Fits(j, intent'), j.step \notin {"mark", "commit"},
         \A q \in Callers \ {p} : rowLock # q \/ intent.version = 0
  PROVE  Booked
<1>1. /\ job \in [Callers -> GoodJob] /\ snap \in [Callers -> Sound] /\ intent.version \in Nat
      /\ intent \in Intent
  BY DEF BInv, IInv, Rows, Sound, Intent
<1>2. /\ intent'.version = intent.version + 1 /\ InOrder(intent')
      /\ DOMAIN intent.refunds \subseteq DOMAIN intent'.refunds
  BY <1>1, MoveInOrder DEF BInv, Books, Written
<1>3. \A q \in Callers : Seen(snap[q]) /\ snap[q].version \in Nat
  BY <1>1 DEF BInv, Books, Fresh, Sound, Intent
<1>4. Fresh'
  <2>1. \A q \in Callers : q # p => snap'[q] = snap[q]
    BY <1>1 DEF Goto
  <2>2. snap'[p] = NoSnap
    BY <1>1 DEF Goto
  <2>3. ASSUME NEW q \in Callers PROVE Seen(snap[q])'
    BY <1>1, <1>2, <1>3, <2>1, <2>2, NothingSeen DEF Seen
  <2>4. QED
    BY <1>1, <1>2, <2>3 DEF Fresh
<1>5. Locked'
  <2>1. ASSUME NEW q \in Callers, job'[q].step \in {"mark", "commit"} PROVE FALSE
    <3>1. q # p /\ job'[q] = job[q]
      BY <1>1, <2>1 DEF Goto
    <3>2. QED
      BY <2>1, <3>1 DEF BInv, Books, Locked
  <2>2. QED
    BY <2>1 DEF Locked
<1>6. \A q \in Callers : Fits(job'[q], intent')
  <2>1. \A q \in Callers : Fits(job[q], intent')
    BY <1>2 DEF BInv, Books, Fits
  <2>2. QED
    BY <1>1, <2>1 DEF Goto
<1>7. QED
  BY <1>2, <1>4, <1>5, <1>6 DEF Booked, Books

\* Going on without a write.
LEMMA GoOnBooks ==
  ASSUME BInv, NEW p \in Callers, NEW j, Fits(j, intent), j.step \notin {"mark", "commit"},
         Goto(p, j), UNCHANGED <<intent, rowLock>>
  PROVE  Booked
BY QuietBooks DEF Goto

\* Returning an error or a result, without a write.
LEMMA ReturnBooks ==
  ASSUME BInv, NEW p \in Callers, Return(p)
  PROVE  Booked
BY GoOnBooks, NothingSeen DEF Return

\* Going on with a step that has no input of its own.
LEMMA ContinueBooks ==
  ASSUME BInv, NEW p \in Callers,
         NEW s \in {"recordReference", "cancelCreate", "callCapture", "settle"}, Continue(p, s)
  PROVE  Booked
<1> DEFINE j == [job[p] EXCEPT !.step = s, !.tries = 0]
<1>1. job[p] \in Job
  BY DEF BInv, IInv, Rows, GoodJob
<1>2. j.step = s
  BY <1>1 DEF Job
<1> HIDE DEF j
<1>3. Fits(j, intent) /\ j.step \notin {"mark", "commit"}
  BY <1>2 DEF Fits
<1>4. QED
  BY <1>3, GoOnBooks DEF Continue, j

\* save(), committed.
LEMMA SaveBooks ==
  ASSUME BInv, NEW p \in Callers, NEW new \in Intent, NEW j, Save(p, new, j),
         new.version = snap[p].version, Move(snap[p], new),
         Fits(j, new), j.step \notin {"mark", "commit"}
  PROVE  Booked
<1>1. snap[p] = intent /\ rowLock = NoCaller
  BY DEF Save, Current, BInv, Books, Fresh, Seen
<1>2. /\ intent'.version = new.version + 1 /\ intent' \in Intent
      /\ intent'.charges = new.charges /\ intent'.refunds = new.refunds
      /\ intent'.authorized = new.authorized /\ intent'.status = new.status
  BY DEF Save, Intent
<1>3. Written
  BY <1>1, <1>2, MoveAlong DEF Written
<1>4. Fits(j, intent')
  BY <1>2 DEF Fits
<1>5. \A q \in Callers : rowLock # q
  BY <1>1, LifecycleAssumption
<1>6. QED
  BY <1>2, <1>3, <1>4, <1>5, WriteBooks DEF Save

\* save() without a retry.
LEMMA SaveOnceBooks ==
  ASSUME BInv, NEW p \in Callers, NEW new \in Intent, NEW j, SaveOnce(p, new, j),
         Current(p) => /\ new.version = snap[p].version /\ Move(snap[p], new)
                       /\ Fits(j, new) /\ j.step \notin {"mark", "commit"}
  PROVE  Booked
BY SaveBooks, ReturnBooks DEF SaveOnce, Save

\* save() inside withConcurrencyRetry.
LEMMA SaveRetryingBooks ==
  ASSUME BInv, NEW p \in Callers, NEW new \in Intent, NEW j, SaveRetrying(p, new, j),
         job[p].step \notin {"mark", "commit"},
         Current(p) => /\ new.version = snap[p].version /\ Move(snap[p], new)
                       /\ Fits(j, new) /\ j.step \notin {"mark", "commit"}
  PROVE  Booked
<1>1. CASE Save(p, new, j)
  BY <1>1, SaveBooks DEF Save
<1>2. CASE Return(p)
  BY <1>2, ReturnBooks
<1>3. CASE Goto(p, [job[p] EXCEPT !.tries = @ + 1]) /\ UNCHANGED <<intent, rowLock>>
  <2> DEFINE r == [job[p] EXCEPT !.tries = @ + 1]
  <2>1. job[p] \in Job /\ Fits(job[p], intent)
    BY DEF BInv, IInv, Rows, GoodJob, Books
  <2>2. /\ r.step = job[p].step /\ r.amount = job[p].amount /\ r.refund = job[p].refund
        /\ r.to = job[p].to
    BY <2>1 DEF Job
  <2> HIDE DEF r
  <2>3. Fits(r, intent)
    BY <2>1, <2>2 DEF Fits
  <2>4. QED
    BY <1>3, <2>2, <2>3, GoOnBooks DEF r
<1>4. QED
  BY <1>1, <1>2, <1>3 DEF SaveRetrying
-----------------------------------------------------------------------------
(* The steps of a job. *)

\* What a transaction has read, and what it is if it may still save.
LEMMA ReadRow ==
  ASSUME BInv, NEW p \in Callers
  PROVE  /\ snap[p] \in Sound /\ snap[p] \in Intent /\ job[p] \in Job
         /\ Fits(job[p], intent)
         /\ Current(p) => snap[p] = intent /\ InOrder(snap[p])
BY DEF BInv, IInv, Rows, Sound, GoodJob, Books, Fresh, Seen, Current

\* A job at a step that has no input of its own fits any row.
LEMMA FreeFits ==
  ASSUME NEW s \in {"callCreate", "callCapture", "settle"}, NEW i
  PROVE  Fits([Idle EXCEPT !.step = s], i) /\ [Idle EXCEPT !.step = s].step = s
BY DEF Fits, Idle

\* Creating the intent, the provider call, and recording or cancelling it.
LEMMA CreateBooks ==
  ASSUME BInv, NEW p \in Callers,
         CallCreate(p) \/ RecordReference(p) \/ CancelCreate(p)
  PROVE  Booked
<1>1. CASE CallCreate(p)
  BY <1>1, ContinueBooks DEF CallCreate
<1>2. CASE RecordReference(p)
  <2> DEFINE new == RecordProviderIntent(snap[p], ProviderRef)
  <2>1. new \in Intent
    BY ReadRow, ReferenceSound DEF Sound
  <2>2. new.version = snap[p].version
    BY ReadRow, VersionKept
  <2>3. Move(snap[p], new)
    BY ReadRow DEF RecordProviderIntent, Move, Kept, Intent
  <2> HIDE DEF new
  <2>4. SaveRetrying(p, new, Idle) \/ Return(p)
    BY <1>2 DEF RecordReference, new
  <2>5. job[p].step \notin {"mark", "commit"}
    BY <1>2 DEF RecordReference, In
  <2>6. QED
    BY <2>1, <2>2, <2>3, <2>4, <2>5, ReturnBooks, SaveRetryingBooks, NothingSeen
<1>3. CASE CancelCreate(p)
  <2> DEFINE new == Transition(snap[p], "cancelled")
  <2>1. new \in Intent /\ new.version = snap[p].version
    BY ReadRow, VersionKept DEF Transition, Intent, Statuses
  <2>2. Move(snap[p], new)
    BY ReadRow, TransitionMove DEF Shown, Statuses
  <2> HIDE DEF new
  <2>3. SaveOnce(p, new, Idle) \/ Return(p)
    BY <1>3 DEF CancelCreate, new
  <2>4. QED
    BY <2>1, <2>2, <2>3, ReturnBooks, SaveOnceBooks, NothingSeen
<1>4. QED
  BY <1>1, <1>2, <1>3

\* AdvancePayment and AuthorizePayment.
LEMMA AdvanceBooks ==
  ASSUME BInv, NEW p \in Callers, Advance(p) \/ AuthorizePayment(p)
  PROVE  Booked
<1>1. CASE Advance(p)
  <2> DEFINE new == Transition(snap[p], job[p].to)
  <2>1. new \in Intent /\ new.version = snap[p].version
    BY ReadRow, VersionKept DEF Transition, Intent, Job
  <2>2. job[p].to \in AdvanceTargets
    BY <1>1 DEF Advance, In, BInv, Books, Fits
  <2>3. CanTransition(snap[p].status, job[p].to) => Move(snap[p], new)
    BY <2>2, ReadRow, ShownSources, TransitionMove DEF Job, Intent
  <2> HIDE DEF new
  <2>4. (SaveOnce(p, new, Idle) /\ Move(snap[p], new)) \/ Return(p)
    BY <1>1, <2>3 DEF Advance, new
  <2>5. QED
    BY <2>1, <2>4, ReturnBooks, SaveOnceBooks, NothingSeen
<1>2. CASE AuthorizePayment(p)
  <2> DEFINE new == Authorize(snap[p], job[p].ref, job[p].amount)
  <2>1. job[p].amount \in AuthAmounts
    BY <1>2, ReadRow DEF AuthorizePayment, In, Fits
  <2>2. CanTransition(snap[p].status, "authorized") => new \in Intent
    BY ReadRow, AuthorizeSound DEF Job, Sound
  <2>3. new.version = snap[p].version /\ Move(snap[p], new)
    BY <2>1, ReadRow, VersionKept, DetailsMove
  <2> HIDE DEF new
  <2>4. (SaveOnce(p, new, Idle) /\ new \in Intent) \/ Return(p)
    BY <1>2, <2>2 DEF AuthorizePayment, new
  <2>5. QED
    BY <2>3, <2>4, ReturnBooks, SaveOnceBooks, NothingSeen
<1>3. QED
  BY <1>1, <1>2

\* Where settle goes next needs no refund.
LEMMA AfterSettleFits ==
  ASSUME BInv, NEW p \in Callers, NEW i
  PROVE  Fits(AfterSettle(p), i) /\ AfterSettle(p).step \notin {"mark", "commit"}
<1>1. job[p] \in Job
  BY ReadRow
<1>2. [job[p] EXCEPT !.step = "markSettled", !.tries = 0].step = "markSettled"
  BY <1>1 DEF Job
<1>3. QED
  BY <1>2, NothingSeen DEF AfterSettle, Fits

\* CapturePaymentLifecycle's three steps, and settle wherever it is called from.
LEMMA CaptureBooks ==
  ASSUME BInv, NEW p \in Callers, ReserveCapture(p) \/ CallCapture(p) \/ Settle(p)
  PROVE  Booked
<1>1. CASE ReserveCapture(p)
  <2> DEFINE new == Transition(snap[p], "capture_requested")
  <2> DEFINE j == [Idle EXCEPT !.step = "callCapture"]
  <2>1. new \in Intent /\ new.version = snap[p].version
    BY ReadRow, VersionKept DEF Transition, Intent, Statuses
  <2>2. Move(snap[p], new)
    BY ReadRow, TransitionMove DEF Shown, Statuses
  <2>3. Fits(j, new) /\ j.step = "callCapture"
    BY FreeFits
  <2>4. Return(p) \/ Continue(p, "callCapture") \/ SaveRetrying(p, new, j)
    BY <1>1 DEF ReserveCapture
  <2>5. job[p].step \notin {"mark", "commit"}
    BY <1>1 DEF ReserveCapture, In
  <2> HIDE DEF new, j
  <2>6. QED
    BY <2>1, <2>2, <2>3, <2>4, <2>5, ReturnBooks, ContinueBooks, SaveRetryingBooks
<1>2. CASE CallCapture(p)
  BY <1>2, ContinueBooks, ReturnBooks DEF CallCapture
<1>3. CASE Settle(p)
  <2> DEFINE new == MarkCaptured(snap[p])
  <2>1. job[p].step \notin {"mark", "commit"}
    BY <1>3 DEF Settle, In
  <2>2. CASE CanTransition(snap[p].status, "captured")
    <3>1. new \in Intent
      BY <2>2, ReadRow, CaptureSound DEF Sound
    <3>2. Current(p) => new.version = snap[p].version /\ Move(snap[p], new)
      BY <2>2, ReadRow, VersionKept, CaptureMove
    <3>3. SaveRetrying(p, new, AfterSettle(p))
      BY <1>3, <2>2 DEF Settle, CanTransition, Targets
    <3> HIDE DEF new
    <3>4. QED
      BY <2>1, <3>1, <3>2, <3>3, AfterSettleFits, SaveRetryingBooks
  <2>3. CASE ~CanTransition(snap[p].status, "captured")
    <3>1. \/ Return(p)
          \/ Goto(p, AfterSettle(p)) /\ UNCHANGED <<intent, rowLock>>
      BY <1>3, <2>3 DEF Settle
    <3>2. QED
      BY <3>1, AfterSettleFits, GoOnBooks, ReturnBooks
  <2>4. QED
    BY <2>2, <2>3
<1>4. QED
  BY <1>1, <1>2, <1>3

\* What follows the reservation of a refund that is on the row.
LEMMA AfterReserveFits ==
  ASSUME BInv, NEW p \in Callers, NEW i, NEW n, NEW k \in DOMAIN n.refunds
  PROVE  Fits(AfterReserve(p, i, k), n) /\ AfterReserve(p, i, k).step \notin {"mark", "commit"}
<1> DEFINE a == [job[p] EXCEPT !.step = "settleRefund", !.refund = k, !.ok = TRUE, !.tries = 0]
<1> DEFINE b == [job[p] EXCEPT !.step = "callRefund", !.refund = k, !.tries = 0]
<1>1. job[p] \in Job
  BY ReadRow
<1>2. a.step = "settleRefund" /\ a.refund = k /\ b.step = "callRefund" /\ b.refund = k
  BY <1>1 DEF Job
<1> HIDE DEF a, b
<1>3. Fits(a, n) /\ Fits(b, n)
  BY <1>2 DEF Fits
<1>4. QED
  BY <1>2, <1>3 DEF AfterReserve, a, b

\* RefundPaymentLifecycle: reserve, under a key nothing was reserved under before.
LEMMA ReserveRefundBooks ==
  ASSUME BInv, NEW p \in Callers, ReserveRefund(p)
  PROVE  Booked
<1> DEFINE i == snap[p]
<1> DEFINE key == job[p].key
<1> DEFINE new == RequestRefund(i, job[p].amount, key)
<1>1. /\ job[p].step = "reserveRefund" /\ job[p].amount \in RefundAmounts
      /\ key \in Keys \cup {NoKey} /\ i \in Intent
  BY ReadRow DEF ReserveRefund, In, Fits, Job
<1>2. CASE Existing(i, key) # {}
  <2>1. \/ Return(p)
        \/ \E k \in Existing(i, key) : Goto(p, AfterReserve(p, i, k)) /\ UNCHANGED <<intent, rowLock>>
    BY <1>2 DEF ReserveRefund
  <2>2. Existing(i, key) \subseteq DOMAIN intent.refunds
    BY DEF Existing, BInv, Books, Fresh, Seen
  <2> HIDE DEF i, key
  <2>3. QED
    BY <2>1, <2>2, AfterReserveFits, ReturnBooks, GoOnBooks
<1>3. CASE Existing(i, key) = {}
  <2> DEFINE m == Len(i.refunds) + 1
  <2>1. \/ Return(p)
        \/ CanReserve(i, job[p].amount) /\ SaveRetrying(p, new, AfterReserve(p, i, m))
    BY <1>3 DEF ReserveRefund
  <2>2. new \in Intent
    BY <1>1, ReadRow, AddRefundSound, AmountAssumption DEF RequestRefund, RefundStates, Sound
  <2>3. new.version = i.version /\ (CanReserve(i, job[p].amount) => Move(i, new))
    BY <1>1, <1>3, VersionKept, RequestRefundMove
  <2>4. m \in DOMAIN new.refunds
    <3>1. new.refunds = Append(i.refunds, [amount |-> job[p].amount, key |-> key,
                                           state |-> "pending", completions |-> 0])
      BY <1>1 DEF RequestRefund, AddRefund, Intent
    <3>2. QED
      BY <1>1, <3>1, RowTypes
  <2> HIDE DEF new, m
  <2>5. QED
    BY <1>1, <2>1, <2>2, <2>3, <2>4, AfterReserveFits, ReturnBooks, SaveRetryingBooks
<1>4. QED
  BY <1>2, <1>3

\* RefundPaymentLifecycle: the provider call, and settle of a refund that is pending.
LEMMA RefundBooks ==
  ASSUME BInv, NEW p \in Callers, CallRefund(p) \/ SettleRefund(p)
  PROVE  Booked
<1>1. CASE CallRefund(p)
  <2>1. job[p] \in Job /\ job[p].refund \in DOMAIN intent.refunds
    BY <1>1, ReadRow DEF CallRefund, Fits
  <2>2. PICK ok \in BOOLEAN : Goto(p, [job[p] EXCEPT !.step = "settleRefund", !.ok = ok])
    BY <1>1 DEF CallRefund
  <2> DEFINE j == [job[p] EXCEPT !.step = "settleRefund", !.ok = ok]
  <2>3. j.step = "settleRefund" /\ j.refund = job[p].refund
    BY <2>1 DEF Job
  <2> HIDE DEF j
  <2>4. Fits(j, intent)
    BY <2>1, <2>3 DEF Fits
  <2>5. QED
    BY <1>1, <2>2, <2>3, <2>4, GoOnBooks DEF CallRefund, j
<1>2. CASE SettleRefund(p)
  <2> DEFINE i == snap[p]
  <2> DEFINE k == job[p].refund
  <2> DEFINE new == IF job[p].ok THEN CompleteRefund(i, k) ELSE FailRefund(i, k)
  <2>1. job[p].step = "settleRefund" /\ k \in DOMAIN intent.refunds /\ k \in Nat
    BY <1>2, ReadRow DEF SettleRefund, In, Fits, Job
  <2>2. new \in Intent
    BY <2>1, ReadRow, SettleRefundSound DEF Sound
  <2>3. new.version = i.version
    BY ReadRow, VersionKept
  <2>4. Current(p) /\ i.refunds[k].state = "pending" => Move(i, new)
    BY <2>1, ReadRow, EndRefundMove
  <2>5. Return(p) \/ (i.refunds[k].state = "pending" /\ SaveRetrying(p, new, Idle))
    BY <1>2 DEF SettleRefund
  <2> HIDE DEF new
  <2>6. QED
    BY <2>1, <2>2, <2>3, <2>4, <2>5, ReturnBooks, SaveRetryingBooks, NothingSeen
<1>3. QED
  BY <1>1, <1>2
\* RecordWebhook's first transaction: committed, or holding the row it has read.
LEMMA ReceiptBooks ==
  ASSUME BInv, NEW p \in Callers, Receipt(p)
  PROVE  Booked
<1> DEFINE e == job[p].event
<1> DEFINE new == ApplyWebhook(snap[p], e)
<1>1. e \in Events /\ snap[p] \in Intent /\ snap[p] # NoSnap /\ job[p].step = "receipt"
  BY ReadRow DEF Receipt, In, BInv, IInv, Rows, GoodJob
<1>2. CASE Return(p)
  BY <1>2, ReturnBooks
<1>3. CASE CanApply(snap[p], e) /\ SaveOnce(p, new, [job[p] EXCEPT !.step = "settle"])
  <2>1. new \in Intent
    BY <1>1, <1>3, ReadRow, WebhookSound DEF Sound
  <2>2. new.version = snap[p].version /\ Move(snap[p], new)
    BY <1>1, <1>3, VersionKept, WebhookMove
  <2> DEFINE j == [job[p] EXCEPT !.step = "settle"]
  <2>3. j.step = "settle"
    BY ReadRow DEF Job
  <2> HIDE DEF j
  <2>4. Fits(j, new)
    BY <2>3 DEF Fits
  <2> HIDE DEF new
  <2>5. QED
    BY <1>3, <2>1, <2>2, <2>3, <2>4, SaveOnceBooks DEF j
<1>4. CASE /\ rowLock = NoCaller /\ Current(p) /\ rowLock' = p
           /\ job' = [job EXCEPT ![p].step = "mark"]
           /\ UNCHANGED <<intent, snap>>
  <2> DEFINE j == [job[p] EXCEPT !.step = "mark"]
  <2>1. job \in [Callers -> GoodJob] /\ job' = [job EXCEPT ![p] = j]
    BY <1>4 DEF BInv, IInv, Rows
  <2>2. j.step = "mark"
    BY ReadRow DEF Job
  <2> HIDE DEF j
  <2>3. Fits(j, intent)
    BY <2>2 DEF Fits
  <2>4. snap[p] = intent /\ intent.version # 0
    BY <1>1, <1>4, ReadRow DEF BInv, Books, Fresh, NoSnap
  <2>5. Fresh' /\ InOrder(intent')
    BY <1>4 DEF BInv, Books, Fresh, Seen
  <2>6. \A q \in Callers : q # p => job[q].step \notin {"mark", "commit"}
    BY <1>4, LifecycleAssumption DEF BInv, Books, Locked
  <2>7. Locked'
    BY <1>4, <2>1, <2>4, <2>6 DEF Locked
  <2>8. \A q \in Callers : Fits(job'[q], intent')
    BY <1>4, <2>1, <2>3 DEF BInv, Books
  <2>9. QED
    BY <1>4, <2>5, <2>7, <2>8 DEF Booked, Books
<1>5. QED
  BY <1>2, <1>3, <1>4 DEF Receipt

\* markProcessed, in its own transaction, for both kinds of event.
LEMMA MarkBooks ==
  ASSUME BInv, NEW p \in Callers, MarkProcessed(p) \/ MarkSettled(p)
  PROVE  Booked
<1>1. CASE MarkSettled(p)
  BY <1>1, ReturnBooks DEF MarkSettled
<1>2. CASE MarkProcessed(p)
  <2> DEFINE j == [job[p] EXCEPT !.step = "commit"]
  <2>1. job \in [Callers -> GoodJob] /\ job' = [job EXCEPT ![p] = j]
    BY <1>2 DEF BInv, IInv, Rows, MarkProcessed
  <2>2. j.step = "commit"
    BY ReadRow DEF Job
  <2> HIDE DEF j
  <2>3. Fits(j, intent)
    BY <2>2 DEF Fits
  <2>4. UNCHANGED <<intent, snap, rowLock>> /\ job[p].step = "mark"
    BY <1>2 DEF MarkProcessed
  <2>5. Fresh' /\ InOrder(intent')
    BY <2>4 DEF BInv, Books, Fresh, Seen
  <2>6. Locked'
    BY <2>1, <2>4 DEF BInv, Books, Locked
  <2>7. \A q \in Callers : Fits(job'[q], intent')
    BY <2>1, <2>3, <2>4 DEF BInv, Books
  <2>8. QED
    BY <2>4, <2>5, <2>6, <2>7 DEF Booked, Books
<1>3. QED
  BY <1>1, <1>2

\* The late commit of a receipt writes the row it has locked.
LEMMA CommitBooks ==
  ASSUME BInv, NEW p \in Callers, CommitReceipt(p)
  PROVE  Booked
<1> DEFINE new == ApplyWebhook(snap[p], job[p].event)
<1>1. /\ job[p].event \in Events /\ Applicable(snap[p], job[p].event)
      /\ snap[p] = intent /\ rowLock = p
  BY DEF BInv, IInv, Rows, GoodJob, Checked, Books, Locked, CommitReceipt
<1>2. new \in Intent /\ new.version = intent.version /\ Move(intent, new)
  BY <1>1, ReadRow, WebhookSound, VersionKept, WebhookMove DEF Sound
<1>0. intent' = [new EXCEPT !.version = @ + 1]
  BY DEF CommitReceipt
<1> HIDE DEF new
<1>3. /\ intent'.version = new.version + 1 /\ intent' \in Intent
      /\ intent'.charges = new.charges /\ intent'.refunds = new.refunds
      /\ intent'.authorized = new.authorized /\ intent'.status = new.status
  <2>1. ASSUME NEW n \in Intent
        PROVE  LET m == [n EXCEPT !.version = @ + 1]
               IN  /\ m.version = n.version + 1 /\ m \in Intent
                   /\ m.charges = n.charges /\ m.refunds = n.refunds
                   /\ m.authorized = n.authorized /\ m.status = n.status
    BY DEF Intent
  <2>2. QED
    BY <1>0, <1>2, <2>1
<1>4. Written
  BY <1>2, <1>3, MoveAlong DEF Written
<1>5. QED
  BY <1>1, <1>3, <1>4, WriteBooks, NothingSeen DEF CommitReceipt

\* ConfirmCodCollection.
LEMMA CollectBooks ==
  ASSUME BInv, NEW p \in Callers, Collect(p)
  PROVE  Booked
<1> DEFINE new == PrepareDirectCapture(snap[p])
<1> DEFINE j == [Idle EXCEPT !.step = "settle"]
<1>1. \/ Return(p) \/ Continue(p, "settle")
      \/ CanPrepareDirectCapture(snap[p]) /\ SaveOnce(p, new, j)
  BY DEF Collect
<1>2. CanPrepareDirectCapture(snap[p]) => new \in Intent
  BY ReadRow, DirectCaptureSound DEF Sound
<1>3. new.version = snap[p].version /\ Move(snap[p], new)
  BY ReadRow, VersionKept, DirectCaptureMove
<1>4. Fits(j, new) /\ j.step = "settle"
  BY FreeFits
<1> HIDE DEF new, j
<1>5. QED
  BY <1>1, <1>2, <1>3, <1>4, ReturnBooks, ContinueBooks, SaveOnceBooks

\* CapturePayment, FailPayment and RefundPayment.
LEMMA LegacyBooks ==
  ASSUME BInv, NEW p \in Callers, LegacyCapture(p) \/ LegacyFail(p) \/ LegacyRefund(p)
  PROVE  Booked
<1>1. CASE LegacyCapture(p)
  <2> DEFINE new == Capture(snap[p])
  <2>1. Return(p) \/ (snap[p].status = "requires_payment" /\ SaveOnce(p, new, Idle))
    BY <1>1 DEF LegacyCapture
  <2>2. snap[p].status = "requires_payment" =>
          /\ new \in Intent
          /\ Current(p) => new.version = snap[p].version /\ Move(snap[p], new)
    BY ReadRow, CaptureSound, VersionKept, CaptureMove DEF Sound
  <2> HIDE DEF new
  <2>3. QED
    BY <2>1, <2>2, ReturnBooks, SaveOnceBooks, NothingSeen
<1>2. CASE LegacyFail(p)
  <2> DEFINE new == Transition(snap[p], "failed")
  <2>1. Return(p) \/ SaveOnce(p, new, Idle)
    BY <1>2 DEF LegacyFail
  <2>2. new \in Intent /\ new.version = snap[p].version
    BY ReadRow, VersionKept DEF Transition, Intent, Statuses
  <2>3. Move(snap[p], new)
    BY ReadRow, TransitionMove DEF Shown, Statuses
  <2> HIDE DEF new
  <2>4. QED
    BY <2>1, <2>2, <2>3, ReturnBooks, SaveOnceBooks, NothingSeen
<1>3. CASE LegacyRefund(p)
  <2> DEFINE new == RefundNow(snap[p], job[p].amount)
  <2>1. job[p].amount \in RefundAmounts
    BY <1>3, ReadRow DEF LegacyRefund, In, Fits
  <2>2. Return(p) \/ (CanReserve(snap[p], job[p].amount) /\ SaveOnce(p, new, Idle))
    BY <1>3 DEF LegacyRefund
  <2>3. new \in Intent
    BY <2>1, ReadRow, RefundNowSound, AmountAssumption DEF Sound
  <2>4. /\ new.version = snap[p].version
        /\ CanReserve(snap[p], job[p].amount) => Move(snap[p], new)
    BY <2>1, ReadRow, VersionKept, RefundNowMove
  <2> HIDE DEF new
  <2>5. QED
    BY <2>2, <2>3, <2>4, ReturnBooks, SaveOnceBooks, NothingSeen
<1>4. QED
  BY <1>1, <1>2, <1>3

\* A later transaction of a job reads the committed row.
LEMMA ReadBooks ==
  ASSUME BInv, NEW p \in Callers, Read(p)
  PROVE  Booked
<1>1. job \in [Callers -> GoodJob]
  BY DEF BInv, IInv, Rows
<1>2. job' = [job EXCEPT ![p] = job[p]]
  BY <1>1 DEF Read
<1>3. QED
  BY <1>2, ReadRow, QuietBooks DEF Read
-----------------------------------------------------------------------------
(* The steps that start a job, and the world outside. *)

\* Creating the row: nothing is booked yet.
LEMMA NewIntentBooks ==
  ASSUME BInv, NEW p \in Callers, CreateIntent(p) \/ CreateLegacyIntent(p)
  PROVE  Booked
<1>1. intent = NoIntent /\ intent.version = 0
  BY DEF CreateIntent, CreateLegacyIntent, BInv, Books, Fresh
<1>2. ASSUME NEW st \in {"created", "requires_payment"},
             intent' = [NoIntent EXCEPT !.version = 1, !.status = st]
      PROVE  Written /\ intent' \in Intent
  <2>1. NoIntent \in Intent
    BY NoSnapSound DEF Sound
  <2>2. intent' \in Intent
    BY <1>2, <2>1 DEF Intent, Statuses
  <2>3. /\ intent'.version = 1 /\ intent'.charges = NoIntent.charges
        /\ intent'.refunds = NoIntent.refunds /\ intent'.authorized = NoIntent.authorized
        /\ intent'.status = st
    BY <1>2, <2>1 DEF Intent
  <2>4. Kept(intent, intent')
    BY <1>1, <2>3 DEF Kept, Shown
  <2>5. QED
    BY <1>1, <2>2, <2>3, <2>4 DEF Written, Move
<1>3. Written /\ intent' \in Intent
  BY <1>2 DEF CreateIntent, CreateLegacyIntent
<1>4. CASE CreateIntent(p)
  BY <1>1, <1>3, <1>4, FreeFits, WriteBooks DEF CreateIntent
<1>5. CASE CreateLegacyIntent(p)
  <2>1. /\ job[p] = Idle /\ job \in [Callers -> GoodJob] /\ snap \in [Callers -> Sound]
        /\ UNCHANGED <<job, snap>>
    BY <1>5 DEF CreateLegacyIntent, BInv, IInv, Rows
  <2>2. snap[p].version = 0
    BY <1>1, <2>1 DEF BInv, Books, Fresh, Seen, Sound, Intent
  <2>3. snap[p] = NoSnap
    BY <1>1, <2>2 DEF BInv, Books, Fresh, Seen, NoSnap
  <2>4. Goto(p, Idle)
    BY <2>1, <2>3 DEF Goto
  <2>5. QED
    BY <1>1, <1>3, <2>4, NothingSeen, WriteBooks
<1>6. QED
  BY <1>4, <1>5

\* The jobs callers start have inputs a caller may give.
LEMMA StartBooks ==
  ASSUME BInv, NEW p \in Callers,
         \/ BeginAdvance(p) \/ BeginAuthorize(p) \/ BeginCapture(p) \/ BeginRefund(p)
         \/ DeliverWebhook(p) \/ BeginCollect(p) \/ BeginLegacy(p)
  PROVE  Booked
<1>1. ASSUME NEW j, Begin(p, j), Fits(j, intent), j.step \notin {"mark", "commit"}
      PROVE  Booked
  BY <1>1, QuietBooks DEF Begin
<1>2. CASE BeginAdvance(p)
  <2>1. PICK to \in AdvanceTargets : Begin(p, [Idle EXCEPT !.step = "advance", !.to = to])
    BY <1>2 DEF BeginAdvance
  <2> DEFINE j == [Idle EXCEPT !.step = "advance", !.to = to]
  <2>2. Fits(j, intent) /\ j.step = "advance"
    BY DEF Idle, Fits
  <2> HIDE DEF j
  <2>3. QED
    BY <1>1, <2>1, <2>2 DEF j
<1>3. CASE BeginAuthorize(p)
  <2>1. PICK ref \in Refs, a \in AuthAmounts :
          Begin(p, [Idle EXCEPT !.step = "authorize", !.ref = ref, !.amount = a])
    BY <1>3 DEF BeginAuthorize
  <2> DEFINE j == [Idle EXCEPT !.step = "authorize", !.ref = ref, !.amount = a]
  <2>2. Fits(j, intent) /\ j.step = "authorize"
    BY DEF Idle, Fits
  <2> HIDE DEF j
  <2>3. QED
    BY <1>1, <2>1, <2>2 DEF j
<1>4. ASSUME NEW s \in {"reserveCapture", "collect", "legacyCapture", "legacyFail"},
             Begin(p, [Idle EXCEPT !.step = s])
      PROVE  Booked
  <2> DEFINE j == [Idle EXCEPT !.step = s]
  <2>1. Fits(j, intent) /\ j.step = s
    BY DEF Idle, Fits
  <2> HIDE DEF j
  <2>2. QED
    BY <1>1, <1>4, <2>1 DEF j
<1>5. CASE BeginRefund(p)
  <2>1. PICK a \in RefundAmounts, key \in Keys \cup {NoKey} :
          Begin(p, [Idle EXCEPT !.step = "reserveRefund", !.amount = a, !.key = key])
    BY <1>5 DEF BeginRefund
  <2> DEFINE j == [Idle EXCEPT !.step = "reserveRefund", !.amount = a, !.key = key]
  <2>2. Fits(j, intent) /\ j.step = "reserveRefund"
    BY DEF Idle, Fits
  <2> HIDE DEF j
  <2>3. QED
    BY <1>1, <2>1, <2>2 DEF j
<1>6. CASE DeliverWebhook(p)
  <2>1. PICK e \in emitted \ processed : Begin(p, [Idle EXCEPT !.step = "receipt", !.event = e])
    BY <1>6 DEF DeliverWebhook
  <2> DEFINE j == [Idle EXCEPT !.step = "receipt", !.event = e]
  <2>2. Fits(j, intent) /\ j.step = "receipt"
    BY DEF Idle, Fits
  <2> HIDE DEF j
  <2>3. QED
    BY <1>1, <2>1, <2>2 DEF j
<1>7. CASE BeginLegacy(p)
  <2>1. CASE \E a \in RefundAmounts : Begin(p, [Idle EXCEPT !.step = "legacyRefund", !.amount = a])
    <3>1. PICK a \in RefundAmounts : Begin(p, [Idle EXCEPT !.step = "legacyRefund", !.amount = a])
      BY <2>1
    <3> DEFINE j == [Idle EXCEPT !.step = "legacyRefund", !.amount = a]
    <3>2. Fits(j, intent) /\ j.step = "legacyRefund"
      BY DEF Idle, Fits
    <3> HIDE DEF j
    <3>3. QED
      BY <1>1, <3>1, <3>2 DEF j
  <2>2. QED
    BY <1>4, <1>7, <2>1 DEF BeginLegacy
<1>8. QED
  BY <1>2, <1>3, <1>4, <1>5, <1>6, <1>7 DEF BeginCapture, BeginCollect

\* A caller that crashes, and what the provider and the customer do, book nothing.
LEMMA OutsideBooks ==
  ASSUME BInv, \/ \E p \in Callers : Crash(p)
               \/ MoneyArrives \/ \E e \in Events : Emit(e)
               \/ UNCHANGED vars
  PROVE  Booked
<1>1. ASSUME NEW p \in Callers, Crash(p) PROVE Booked
  BY <1>1, QuietBooks, NothingSeen DEF Crash, Goto
<1>2. ASSUME UNCHANGED <<intent, job, snap, rowLock>> PROVE Booked
  BY <1>2 DEF BInv, Books, Booked, Fresh, Seen, Locked
<1>3. QED
  BY <1>1, <1>2 DEF MoneyArrives, Emit, vars
-----------------------------------------------------------------------------
\* The books of the empty system are in order.
LEMMA InitBooks == Init => BInv
<1> SUFFICES ASSUME Init PROVE BInv
  OBVIOUS
<1>1. IInv
  BY InitRows
<1>2. intent = NoIntent /\ intent.version = 0 /\ intent.refunds = <<>> /\ intent.charges = <<>>
  BY DEF Init, NoIntent
<1>3. Fresh
  BY <1>2 DEF Init, Fresh, Seen, NoSnap
<1>4. Locked /\ \A p \in Callers : Fits(job[p], intent)
  BY NothingSeen DEF Init, Locked
<1>5. InOrder(intent)
  <2>1. DOMAIN intent.refunds = {} /\ DOMAIN intent.charges = {} /\ LiveRefunds(intent) = {}
    BY <1>2 DEF LiveRefunds
  <2>2. DOMAIN LiveAmounts(intent) = {} /\ Reserved(intent) = Total(LiveAmounts(intent))
    BY <2>1 DEF LiveAmounts, Reserved
  <2>3. Balanced(intent)
    <3>1. IsFiniteSet(Units(intent.charges)) /\ Total(intent.charges) = 0
      BY <2>1, TotalEmpty
    <3>2. IsFiniteSet(Units(LiveAmounts(intent))) /\ Total(LiveAmounts(intent)) = 0
      BY <2>2, TotalEmpty
    <3>3. QED
      BY <2>2, <3>1, <3>2 DEF Balanced
  <2>4. intent.authorized = 0 /\ intent.status = "none"
    BY DEF Init, NoIntent
  <2>5. QED
    BY <2>1, <2>3, <2>4 DEF InOrder, UniqueKeys, Announced, Shown
<1>6. QED
  BY <1>1, <1>3, <1>4, <1>5 DEF BInv, Books

\* Every step keeps the books in order, and changes the row by a move or not at all.
LEMMA NextBooks == BInv /\ [Next]_vars => BInv' /\ Booked
<1> SUFFICES ASSUME BInv, [Next]_vars PROVE BInv' /\ Booked
  OBVIOUS
<1>1. ASSUME NEW p \in Callers, Step(p) PROVE Booked
  BY <1>1, ReadBooks, CreateBooks, AdvanceBooks, CaptureBooks, ReserveRefundBooks, RefundBooks,
     ReceiptBooks, MarkBooks, CommitBooks, CollectBooks, LegacyBooks DEF Step
<1>2. ASSUME NEW p \in Callers, Start(p) PROVE Booked
  BY <1>2, NewIntentBooks, StartBooks DEF Start
<1>3. Booked
  BY <1>1, <1>2, OutsideBooks DEF Next
<1>4. IInv'
  BY NextRows DEF BInv
<1>5. QED
  BY <1>3, <1>4 DEF BInv, Booked

\* The invariant, for the theorems that rest on it.
LEMMA BooksKept == Spec => []BInv
BY InitBooks, NextBooks, PTL DEF Spec

\* Refunds that are pending or completed never add up to more than was charged,
\* for any number of racing refund requests, retries and crashes
\* (RefundPaymentLifecycle reserves under the version it validated against).
THEOREM RefundsWithinCharge == Spec => []RefundsCovered
<1>1. BInv => RefundsCovered
  BY DEF BInv, Books, InOrder, Balanced, RefundsCovered
<1>2. QED
  BY <1>1, BooksKept, PTL

\* No two refunds carry the same idempotency key, however requests with one key
\* race and retry (PaymentIntent.requestRefund).
THEOREM ReservedOncePerKey == Spec => []OneRefundPerKey
<1>1. BInv => OneRefundPerKey
  BY DEF BInv, Books, InOrder, UniqueKeys, OneRefundPerKey
<1>2. QED
  BY <1>1, BooksKept, PTL

\* A refund's completion is announced once, when it completes, however many
\* settlements of one reservation race (RefundPaymentLifecycle.settle).
THEOREM AnnouncedOnce == Spec => []CompletionAnnouncedOnce
<1>1. BInv => CompletionAnnouncedOnce
  BY DEF BInv, Books, InOrder, Announced, CompletionAnnouncedOnce
<1>2. QED
  BY <1>1, BooksKept, PTL

\* An intent is shown as captured or refunded exactly when it has its charge, as long
\* as AdvancePayment is not asked for the bare status captured, which no route does.
THEOREM StatusShowsCharge == "captured" \notin AdvanceTargets => (Spec => []StatusMatchesCharge)
<1> SUFFICES ASSUME "captured" \notin AdvanceTargets PROVE Spec => []StatusMatchesCharge
  OBVIOUS
<1>1. BInv => StatusMatchesCharge
  BY DEF BInv, IInv, Rows, Sound, Settled, Books, InOrder, Shown, StatusMatchesCharge
<1>2. QED
  BY <1>1, BooksKept, PTL
-----------------------------------------------------------------------------
(* The refinement: every move is a step of PaymentLedger. *)

\* The book of a row, as PaymentLedger sees it.
Book(i) ==
  [k \in DOMAIN i.refunds |-> [amount |-> i.refunds[k].amount, state |-> i.refunds[k].state]]

\* What is free in the book is what remains of the charge.
LEMMA FreeIsRemaining ==
  ASSUME NEW i \in Intent
  PROVE  Total(i.charges) - Total([k \in {l \in DOMAIN Book(i) : Book(i)[l].state # "failed"} |->
                                     Book(i)[k].amount]) = Remaining(i)
<1>1. {l \in DOMAIN Book(i) : Book(i)[l].state # "failed"} = LiveRefunds(i)
  BY DEF Book, LiveRefunds
<1>2. [k \in LiveRefunds(i) |-> Book(i)[k].amount] = [k \in LiveRefunds(i) |-> i.refunds[k].amount]
  BY DEF Book, LiveRefunds
<1>3. QED
  BY <1>1, <1>2 DEF Remaining, Reserved

\* A refund appended to the row is an entry appended to the book.
LEMMA BookAppend ==
  ASSUME NEW i \in Intent, NEW n \in Intent, NEW x, n.refunds = Append(i.refunds, x)
  PROVE  Book(n) = Append(Book(i), [amount |-> x.amount, state |-> x.state])
<1> DEFINE y == [amount |-> x.amount, state |-> x.state]
<1> DEFINE m == Len(i.refunds)
<1>1. m \in Nat /\ DOMAIN i.refunds = 1..m
  BY RowTypes
<1>2. Book(i) = [k \in 1..m |-> Book(i)[k]]
  BY <1>1 DEF Book
<1>3. Book(i) \in Seq({Book(i)[k] : k \in 1..m})
  BY <1>1, <1>2, IsASeq
<1>4. Len(Book(i)) = m
  BY <1>1, <1>2, <1>3
<1>5. Append(Book(i), y) = [k \in 1..(m + 1) |-> IF k \in 1..m THEN Book(i)[k] ELSE y]
  BY <1>1, <1>3, <1>4
<1>6. /\ DOMAIN n.refunds = 1..(m + 1) /\ n.refunds[m + 1] = x
      /\ \A k \in 1..m : n.refunds[k] = i.refunds[k]
  BY <1>1, RowTypes
<1>7. Book(n) = [k \in 1..(m + 1) |-> IF k \in 1..m THEN Book(i)[k] ELSE y]
  BY <1>1, <1>6 DEF Book
<1>8. QED
  BY <1>5, <1>7

\* A move is a charge, an entry or a settlement in the book, or leaves it alone.
LEMMA MoveInLedger ==
  ASSUME intent \in Intent, intent' \in Intent, Move(intent, intent')
  PROVE  [Ledger!Next]_<<intent.charges, Book(intent)>>
<1>1. CASE Kept(intent, intent')
  BY <1>1 DEF Kept, Book
<1>2. CASE Charged(intent, intent')
  <2>1. PICK a \in {Amount} \cup AuthAmounts : intent'.charges = <<a>>
    BY <1>2 DEF Charged
  <2>2. Ledger!Charge(a)
    BY <1>2, <2>1 DEF Charged, Ledger!Charge, Book
  <2>3. QED
    BY <2>2 DEF Ledger!Next
<1>3. CASE Entered(intent, intent')
  <2>1. PICK a \in RefundAmounts, key \in Keys \cup {NoKey}, done \in BOOLEAN :
          /\ CanReserve(intent, a)
          /\ intent'.refunds = Append(intent.refunds,
                                      [amount |-> a, key |-> key,
                                       state |-> IF done THEN "completed" ELSE "pending",
                                       completions |-> IF done THEN 1 ELSE 0])
    BY <1>3 DEF Entered
  <2> DEFINE st == IF done THEN "completed" ELSE "pending"
  <2>2. Book(intent') = Append(Book(intent), [amount |-> a, state |-> st])
    BY <2>1, BookAppend
  <2>3. a <= Ledger!Free
    BY <2>1, FreeIsRemaining
       DEF Ledger!Free, Ledger!Held, Ledger!Total, Ledger!Units, Ledger!Cardinality, Total,
           Units, Cardinality, Book, CanReserve
  <2>4. Ledger!Enter(a, st)
    BY <1>3, <2>2, <2>3 DEF Entered, Ledger!Enter, Book
  <2>5. st \in {"pending", "completed"} /\ a \in {Amount} \cup AuthAmounts \cup RefundAmounts
    OBVIOUS
  <2> HIDE DEF st
  <2>6. QED
    BY <2>4, <2>5 DEF Ledger!Next
<1>4. CASE Ended(intent, intent')
  <2>1. PICK k \in DOMAIN intent.refunds :
          /\ intent.refunds[k].state = "pending"
          /\ \/ intent'.refunds = [intent.refunds EXCEPT ![k] = Completed(intent.refunds[k])]
             \/ intent'.refunds = [intent.refunds EXCEPT ![k] = Failed(intent.refunds[k])]
    BY <1>4 DEF Ended
  <2>2. /\ DOMAIN intent'.refunds = DOMAIN intent.refunds
        /\ \A l \in DOMAIN intent.refunds : l # k => intent'.refunds[l] = intent.refunds[l]
    BY <2>1
  <2>3. intent'.refunds[k].amount = intent.refunds[k].amount
    BY <2>1, RowTypes, EndedRefund
  <2>4. PICK st \in {"completed", "failed"} : intent'.refunds[k].state = st
    BY <2>1, RowTypes, EndedRefund
  <2>5. Book(intent') = [Book(intent) EXCEPT ![k] = [amount |-> intent.refunds[k].amount, state |-> st]]
    BY <2>2, <2>3, <2>4 DEF Book
  <2>6. [Book(intent)[k] EXCEPT !.state = st] = [amount |-> intent.refunds[k].amount, state |-> st]
    BY DEF Book
  <2>7. Book(intent') = [Book(intent) EXCEPT ![k].state = st]
    BY <2>5, <2>6
  <2>8. Ledger!SettleEntry(k, st)
    BY <1>4, <2>1, <2>7 DEF Ended, Ledger!SettleEntry, Book
  <2>9. k \in DOMAIN Book(intent)
    BY DEF Book
  <2>10. QED
    BY <2>8, <2>9 DEF Ledger!Next, Book
<1>5. QED
  BY <1>1, <1>2, <1>3, <1>4 DEF Move

\* Every use case, retry, webhook and crash moves the book only as PaymentLedger
\* allows: the payment service implements the ledger, for any number of callers.
THEOREM ImplementsLedger == Spec => LedgerSpec
<1>1. Init => Ledger!Init
  BY DEF Init, Ledger!Init, NoIntent
<1>2. BInv /\ [Next]_vars => [Ledger!Next]_<<intent.charges, Book(intent)>>
  <2> SUFFICES ASSUME BInv, [Next]_vars
               PROVE  [Ledger!Next]_<<intent.charges, Book(intent)>>
    OBVIOUS
  <2>1. BInv' /\ (UNCHANGED intent \/ Written)
    BY NextBooks DEF Booked
  <2>2. intent \in Intent /\ intent' \in Intent
    BY <2>1 DEF BInv, IInv, Rows, Sound
  <2>3. CASE UNCHANGED intent
    BY <2>3 DEF Book
  <2>4. CASE Written
    BY <2>2, <2>4, MoveInLedger DEF Written
  <2>5. QED
    BY <2>1, <2>3, <2>4
<1>3. QED
  BY <1>1, <1>2, BooksKept, PTL DEF Spec, LedgerSpec, Ledger!Spec, Book

-----------------------------------------------------------------------------
(* That a charge stands for money, and that captured money can be recorded. *)

\* Intents go through the provider: CreatePaymentIntent and its one-transaction
\* operations, which ask nobody, are not used.
ThroughProvider == "requires_payment" \notin Openings

\* The statuses from which the capture is, or can be, recorded.
Late == {"capture_requested", "captured", "partially_refunded", "refunded", "closed"}

\* The statuses that give an attempt up.
Dead == {"failed", "expired", "cancelled"}

\* Neither a caller of AdvancePayment nor an event gives an attempt up.
Persistent == AdvanceTargets \cap Dead = {} /\ \A e \in Events : KindOf[e] \notin Dead

\* A job that will record a capture knows that the money has moved, or has it from
\* an event the provider sent.
Honest(j) ==
  /\ j.step \in {"settle", "collect"} => psp.captured
  /\ j.step = "receipt" => j.event \in emitted
  /\ j.step # "legacyCapture"

Real ==
  /\ intent.charges # <<>> => psp.captured
  /\ \A e \in emitted : Deferred(e) => psp.captured
  /\ \A p \in Callers : Honest(job[p])

Creating(j) == j.step \in {"callCreate", "recordReference", "cancelCreate"}

\* A capture is asked for at a durable capture_requested; a creation that is under way
\* is the only one to set the reference of a row that is still created.
Ready(j, i) ==
  /\ j.step = "callCapture" => ~SettlesAtPayTime /\ i.status \in Late
  /\ j.step \in {"callCreate", "recordReference"} => i.status \notin {"none", "cancelled"}
  /\ j.step \in {"callCreate", "cancelCreate"} => (i.status = "created" => i.reference = NoRef)
  /\ j.step = "authorize" => j.ref # NoRef
  /\ j.step # "legacyFail"

\* A row that is not given up: one with a reference can still be paid, and one that
\* has been paid can be settled.
Payable(i) ==
  /\ i.status \notin {"failed", "expired", "requires_payment"}
  /\ i.reference # NoRef => i.status \notin {"none", "cancelled"}
  /\ psp.captured => IF SettlesAtPayTime THEN i.reference # NoRef ELSE i.status \in Late

Due ==
  /\ Payable(intent)
  /\ intent.version = 0 => \A p \in Callers : ~Creating(job[p])
  /\ \A p, q \in Callers : Creating(job[p]) /\ Creating(job[q]) => p = q
  /\ \A p \in Callers : Ready(job[p], intent) /\ (snap[p].status \in Late => intent.status \in Late)

Honoured == Real /\ (Persistent => Due)

\* Caller p goes on with job j, and the row becomes n as far as this part is concerned.
Went(p, j, n) ==
  /\ job' = [job EXCEPT ![p] = j]
  /\ \A q \in Callers : snap'[q] \in {snap[q], NoSnap, intent}
  /\ intent'.status = n.status /\ intent'.reference = n.reference
  /\ intent'.charges = n.charges /\ (intent'.version = 0 => intent.version = 0)
  /\ psp'.captured = psp.captured /\ psp'.can = psp.can /\ emitted' = emitted

\* What a step may do to status and reference while an attempt is not given up: a
\* move that gives nothing up, an authorization, and the end of the creation.
Turn(p, j, n) ==
  \/ /\ n.reference = intent.reference
     /\ \/ n.status = intent.status \/ n.status \in Late
        \/ CanTransition(intent.status, n.status) /\ n.status \notin Dead
  \/ CanTransition(intent.status, "authorized") /\ n.status = "authorized" /\ n.reference # NoRef
  \/ /\ job[p].step = "recordReference" /\ j.step \notin {"callCreate", "cancelCreate"}
     /\ n.status = intent.status /\ n.reference # NoRef
  \/ /\ job[p].step = "cancelCreate" /\ ~Creating(j) /\ intent.status = "created"
     /\ n.status = "cancelled" /\ n.reference = intent.reference

\* What has to be shown of a step.
Allowed(p, j, n) ==
  /\ n.charges # <<>> => psp.captured
  /\ Honest(j)
  /\ Persistent => Turn(p, j, n) /\ Ready(j, n) /\ (Creating(j) => Creating(job[p]))

\* The status and the reference, while an attempt is not given up.
LEMMA TurnDue ==
  ASSUME BInv, Persistent, Due, NEW p \in Callers, NEW j, NEW n, Went(p, j, n),
         Turn(p, j, n), Ready(j, n), Creating(j) => Creating(job[p])
  PROVE  Due'
<1>1. /\ job \in [Callers -> GoodJob] /\ intent.status \in Statuses
  BY DEF BInv, IInv, Rows, Sound, Intent
<1>2. /\ intent.status \in Late => n.status \in Late
      /\ intent.status \in {"none", "cancelled"} /\ n.status # intent.status => n.status \in Late
  <2>1. \A s \in Late : Targets(s) \subseteq Late \cup Dead
    BY DEF Late, Dead, Targets
  <2>2. "created" \notin Late /\ ~CanTransition("cancelled", "authorized") /\ ~CanTransition("none", "authorized")
    BY DEF Late, CanTransition, Targets
  <2>3. Targets("none") = {} /\ Targets("cancelled") = {"closed"} /\ \A s \in Late : "authorized" \notin Targets(s)
    BY DEF Targets, Late
  <2>4. QED
    BY <2>1, <2>2, <2>3 DEF Turn, CanTransition, Late
<1>3. n.status \notin {"failed", "expired", "requires_payment"}
  <2>1. \A s \in Statuses : "requires_payment" \notin Targets(s)
    BY DEF Targets, Statuses
  <2>2. QED
    BY <1>1, <2>1 DEF Turn, Due, Payable, Late, Dead, CanTransition
<1>4. n.reference # NoRef => n.status \notin {"none", "cancelled"}
  <2>1. \A s \in Statuses : "none" \notin Targets(s)
    BY DEF Targets, Statuses
  <2>2. job[p].step = "recordReference" => intent.status \notin {"none", "cancelled"}
    BY DEF Due, Ready
  <2>3. job[p].step = "cancelCreate" /\ intent.status = "created" => intent.reference = NoRef
    BY DEF Due, Ready
  <2>4. QED
    BY <1>1, <2>1, <2>2, <2>3 DEF Turn, Due, Payable, Late, Dead, CanTransition
<1>5. intent.reference # NoRef => n.reference # NoRef
  BY DEF Turn
<1>6. SettlesAtPayTime' = SettlesAtPayTime /\ psp'.captured = psp.captured
  BY DEF Went, SettlesAtPayTime
<1>7. Payable(intent)'
  BY <1>2, <1>3, <1>4, <1>5, <1>6 DEF Payable, Due, Went
<1>8. \A q \in Callers : Creating(job'[q]) => Creating(job[q])
  BY <1>1 DEF Went
<1>9. ASSUME NEW q \in Callers PROVE Ready(job[q], intent)'
  <2>1. ASSUME NEW k, Ready(k, n) PROVE Ready(k, intent)'
    BY <1>6, <2>1 DEF Ready, Went
  <2>2. CASE q = p
    BY <1>1, <2>1, <2>2 DEF Went
  <2>3. CASE q # p
    <3>1. job'[q] = job[q] /\ Ready(job[q], intent)
      BY <1>1, <2>3 DEF Went, Due
    <3>2. job[q].step \in {"callCreate", "recordReference", "cancelCreate"} => ~Creating(job[p])
      BY <2>3 DEF Due, Creating
    <3>3. job[q].step \in {"callCreate", "cancelCreate"} /\ n.status = "created"
             => n.reference = NoRef
      <4>1. \A s \in Statuses : "created" \notin Targets(s)
        BY DEF Targets, Statuses
      <4>2. QED
        BY <1>1, <3>1, <3>2, <4>1 DEF Turn, Ready, Late, CanTransition, Creating
    <3>4. job[q].step \in {"callCreate", "recordReference"} => n.status \notin {"none", "cancelled"}
      <4>1. \A s \in Statuses : "none" \notin Targets(s)
        BY DEF Targets, Statuses
      <4>2. QED
        BY <1>1, <3>1, <3>2, <4>1 DEF Turn, Ready, Late, Dead, CanTransition, Creating
    <3>5. Ready(job[q], n)
      BY <1>2, <3>1, <3>3, <3>4 DEF Ready
    <3>6. QED
      BY <2>1, <3>1, <3>5
  <2>4. QED
    BY <2>2, <2>3
<1>10. \A q \in Callers : snap'[q].status \in Late => intent'.status \in Late
  BY <1>2 DEF Went, Due, NoSnap, NoIntent, Late
<1>11. QED
  BY <1>7, <1>8, <1>9, <1>10 DEF Due, Went

\* A step that is allowed keeps what is said here.
LEMMA AllowedHonoured ==
  ASSUME BInv, Honoured, NEW p \in Callers, NEW j, NEW n, Went(p, j, n), Allowed(p, j, n)
  PROVE  Honoured'
<1>1. job \in [Callers -> GoodJob]
  BY DEF BInv, IInv, Rows
<1>2. ASSUME NEW k, Honest(k) PROVE Honest(k)'
  BY <1>2 DEF Honest, Went
<1>3. Real'
  <2>1. \A q \in Callers : Honest(job'[q])
    BY <1>1 DEF Honoured, Real, Went, Allowed
  <2>2. \A q \in Callers : Honest(job[q])'
    BY <1>2, <2>1
  <2>3. QED
    BY <2>2 DEF Honoured, Real, Went, Allowed, Deferred
<1>4. Persistent => Due'
  BY TurnDue DEF Honoured, Allowed
<1>5. QED
  BY <1>3, <1>4 DEF Honoured

\* Nothing is asked of an idle caller, nor of a row that stays as it is.
LEMMA IdleAllowed ==
  ASSUME Honoured, NEW p \in Callers, NEW j, Honest(j), Persistent => Ready(j, intent),
         Creating(j) => Creating(job[p])
  PROVE  Allowed(p, j, intent) /\ Allowed(p, Idle, intent)
BY DEF Allowed, Honoured, Real, Turn, Honest, Ready, Creating, Idle

\* The facts about a caller that the steps start from.
LEMMA CallerFacts ==
  ASSUME BInv, Honoured, NEW p \in Callers
  PROVE  /\ job[p] \in Job /\ snap[p] \in Intent /\ intent \in Intent /\ psp \in Psp
         /\ Honest(job[p])
         /\ Persistent => Due /\ Ready(job[p], intent)
         /\ Current(p) => snap[p] = intent
         /\ intent.charges # <<>> => psp.captured
BY ReadRow DEF BInv, IInv, Rows, Outside, Sound, Honoured, Real, Due

\* Going on without a write.
LEMMA GoOnHonoured ==
  ASSUME BInv, Honoured, NEW p \in Callers, NEW j, Goto(p, j), UNCHANGED intent,
         psp'.captured = psp.captured, psp'.can = psp.can, emitted' = emitted,
         Honest(j), Persistent => Ready(j, intent), Creating(j) => Creating(job[p])
  PROVE  Honoured'
<1>1. snap \in [Callers -> Sound]
  BY DEF BInv, IInv, Rows
<1>2. Went(p, j, intent)
  BY <1>1 DEF Went, Goto
<1>3. QED
  BY <1>2, IdleAllowed, AllowedHonoured

\* Returning, without a write.
LEMMA ReturnHonoured ==
  ASSUME BInv, Honoured, NEW p \in Callers, Return(p),
         psp'.captured = psp.captured, psp'.can = psp.can, emitted' = emitted
  PROVE  Honoured'
<1>1. Honest(Idle) /\ Ready(Idle, intent) /\ ~Creating(Idle)
  BY DEF Honest, Ready, Creating, Idle
<1>2. QED
  BY <1>1, GoOnHonoured DEF Return

\* save(), committed: the row that was read is the committed one.
LEMMA SaveHonoured ==
  ASSUME BInv, Honoured, NEW p \in Callers, NEW new \in Intent, NEW j, Save(p, new, j),
         UNCHANGED external, snap[p] = intent => Allowed(p, j, new)
  PROVE  Honoured'
<1>1. snap[p] = intent /\ snap \in [Callers -> Sound]
  BY CallerFacts DEF Save, BInv, IInv, Rows
<1>2. /\ intent'.status = new.status /\ intent'.reference = new.reference
      /\ intent'.charges = new.charges /\ intent'.version # 0
  BY DEF Save, Intent
<1>3. Went(p, j, new)
  BY <1>1, <1>2 DEF Went, Save, Goto, external
<1>4. QED
  BY <1>1, <1>3, AllowedHonoured

\* save() without a retry.
LEMMA SaveOnceHonoured ==
  ASSUME BInv, Honoured, NEW p \in Callers, NEW new \in Intent, NEW j, SaveOnce(p, new, j),
         UNCHANGED external, snap[p] = intent => Allowed(p, j, new)
  PROVE  Honoured'
BY SaveHonoured, ReturnHonoured DEF SaveOnce, external

\* save() inside withConcurrencyRetry.
LEMMA SaveRetryingHonoured ==
  ASSUME BInv, Honoured, NEW p \in Callers, NEW new \in Intent, NEW j, SaveRetrying(p, new, j),
         UNCHANGED external, snap[p] = intent => Allowed(p, j, new)
  PROVE  Honoured'
<1>1. CASE Save(p, new, j)
  BY <1>1, SaveHonoured
<1>2. CASE Return(p)
  BY <1>2, ReturnHonoured DEF external
<1>3. CASE Goto(p, [job[p] EXCEPT !.tries = @ + 1]) /\ UNCHANGED <<intent, rowLock>>
  <2> DEFINE r == [job[p] EXCEPT !.tries = @ + 1]
  <2>1. r.step = job[p].step /\ r.event = job[p].event /\ r.ref = job[p].ref
    BY CallerFacts DEF Job
  <2> HIDE DEF r
  <2>2. Honest(r) /\ (Persistent => Ready(r, intent)) /\ (Creating(r) => Creating(job[p]))
    BY <2>1, CallerFacts DEF Honest, Ready, Creating
  <2>3. QED
    BY <1>3, <2>2, GoOnHonoured DEF r, external
<1>4. QED
  BY <1>1, <1>2, <1>3 DEF SaveRetrying

\* What the aggregate's methods do to the charges, the status and the reference.
LEMMA MethodFields ==
  ASSUME NEW i \in Intent
  PROVE  /\ \A to : /\ Transition(i, to).charges = i.charges /\ Transition(i, to).status = to
                    /\ Transition(i, to).reference = i.reference
         /\ \A ref, a : LET n == Authorize(i, ref, a)
                        IN  n.charges = i.charges /\ n.status = "authorized" /\ n.reference = ref
         /\ \A ref : LET n == RecordProviderIntent(i, ref)
                     IN  n.charges = i.charges /\ n.status = i.status /\ n.reference = ref
         /\ MarkCaptured(i).status = "captured" /\ MarkCaptured(i).reference = i.reference
         /\ \A a, key : LET n == RequestRefund(i, a, key)
                        IN  /\ n.charges = i.charges /\ n.status = i.status
                            /\ n.reference = i.reference
         /\ \A a : LET n == RefundNow(i, a)
                   IN  /\ n.charges = i.charges /\ n.status \in {i.status, "refunded"}
                       /\ n.reference = i.reference
         /\ \A k : LET n == CompleteRefund(i, k)
                   IN  /\ n.charges = i.charges /\ n.status \in {"refunded", "partially_refunded"}
                       /\ n.reference = i.reference
         /\ \A k : LET n == FailRefund(i, k)
                   IN  /\ n.charges = i.charges /\ n.status = i.status
                       /\ n.reference = i.reference
         /\ LET n == PrepareDirectCapture(i)
            IN  /\ n.charges = i.charges /\ n.status \in {"capture_requested", "captured"}
                /\ n.reference = i.reference
         /\ \A e : LET n == ApplyWebhook(i, e)
                   IN  /\ n.charges = i.charges /\ n.reference = i.reference
                       /\ \/ n.status = i.status
                          \/ n.status = KindOf[e] /\ ~Deferred(e) /\ KindOf[e] # "other"
                          \/ n.status \in {"capture_requested", "captured"}
<1>1. \A to : /\ Transition(i, to).charges = i.charges /\ Transition(i, to).status = to
              /\ Transition(i, to).reference = i.reference
  BY DEF Transition, Intent
<1>2. /\ \A ref, a : LET n == Authorize(i, ref, a)
                     IN  n.charges = i.charges /\ n.status = "authorized" /\ n.reference = ref
      /\ \A ref : LET n == RecordProviderIntent(i, ref)
                  IN  n.charges = i.charges /\ n.status = i.status /\ n.reference = ref
      /\ MarkCaptured(i).status = "captured" /\ MarkCaptured(i).reference = i.reference
      /\ \A a, key : LET n == RequestRefund(i, a, key)
                     IN  /\ n.charges = i.charges /\ n.status = i.status
                         /\ n.reference = i.reference
  BY DEF Authorize, RecordProviderIntent, MarkCaptured, RequestRefund, AddRefund, Transition, Intent
<1>3. \A a : LET n == RefundNow(i, a)
             IN  /\ n.charges = i.charges /\ n.status \in {i.status, "refunded"}
                 /\ n.reference = i.reference
  BY DEF RefundNow, AddRefund, Transition, Intent
<1>4. \A k : LET n == CompleteRefund(i, k)
             IN  /\ n.charges = i.charges /\ n.status \in {"refunded", "partially_refunded"}
                 /\ n.reference = i.reference
  BY DEF CompleteRefund, Transition, StatusAfterRefund, Intent
<1>5. \A k : LET n == FailRefund(i, k)
             IN  /\ n.charges = i.charges /\ n.status = i.status
                 /\ n.reference = i.reference
  BY DEF FailRefund, Intent
<1>6. LET n == PrepareDirectCapture(i)
      IN  /\ n.charges = i.charges /\ n.status \in {"capture_requested", "captured"}
          /\ n.reference = i.reference
  BY <1>1 DEF PrepareDirectCapture, AtOrPastRequest
<1>7. ASSUME NEW e
      PROVE  LET n == ApplyWebhook(i, e)
             IN  /\ n.charges = i.charges /\ n.reference = i.reference
                 /\ \/ n.status = i.status
                    \/ n.status = KindOf[e] /\ ~Deferred(e) /\ KindOf[e] # "other"
                    \/ n.status \in {"capture_requested", "captured"}
  <2> DEFINE r == RecordWebhook(i, e)
  <2>1. /\ r.charges = i.charges /\ r.reference = i.reference /\ r.status = i.status
        /\ \A to : /\ Transition(r, to).charges = i.charges /\ Transition(r, to).status = to
                   /\ Transition(r, to).reference = i.reference
    BY DEF RecordWebhook, Transition, Intent
  <2> HIDE DEF r
  <2>2. QED
    BY <2>1 DEF ApplyWebhook, r, PrepareDirectCapture, AtOrPastRequest
<1>8. QED
  BY <1>1, <1>2, <1>3, <1>4, <1>5, <1>6, <1>7

\* A row at another status is a row.
LEMMA TransitionRow ==
  ASSUME NEW i \in Intent, NEW to \in Statuses
  PROVE  Transition(i, to) \in Intent
BY DEF Transition, Intent

\* A step that is none of those the invariant speaks of.
Plain(j) ==
  j.step \notin {"settle", "collect", "receipt", "legacyCapture", "legacyFail", "callCapture",
                 "callCreate", "recordReference", "cancelCreate", "authorize"}

\* Nothing is asked of those steps.
LEMMA PlainSteps ==
  /\ Plain(Idle)
  /\ \A j : Plain(j) => Honest(j) /\ ~Creating(j) /\ \A i : Ready(j, i)
BY DEF Plain, Idle, Honest, Creating, Ready

\* A save that gives nothing up, and after which nothing particular follows.
LEMMA PlainAllowed ==
  ASSUME Honoured, NEW p \in Callers, NEW j, Plain(j), NEW n,
         n.charges = intent.charges \/ psp.captured, n.reference = intent.reference,
         Persistent => \/ n.status = intent.status \/ n.status \in Late
                       \/ CanTransition(intent.status, n.status) /\ n.status \notin Dead
  PROVE  Allowed(p, j, n)
BY PlainSteps DEF Allowed, Turn, Honoured, Real

\* Creating the intent, the provider call, and recording or cancelling it.
LEMMA CreateHonoured ==
  ASSUME BInv, Honoured, NEW p \in Callers,
         CallCreate(p) \/ RecordReference(p) \/ CancelCreate(p)
  PROVE  Honoured'
<1>1. CASE CallCreate(p)
  <2>1. PICK s \in {"recordReference", "cancelCreate"} : Continue(p, s)
    BY <1>1 DEF CallCreate
  <2> DEFINE j == [job[p] EXCEPT !.step = s, !.tries = 0]
  <2>2. j.step = s
    BY CallerFacts DEF Job
  <2> HIDE DEF j
  <2>3. psp'.captured = psp.captured /\ psp'.can = psp.can /\ emitted' = emitted
    BY <1>1, CallerFacts DEF CallCreate, Psp
  <2>4. Honest(j) /\ (Persistent => Ready(j, intent)) /\ (Creating(j) => Creating(job[p]))
    BY <1>1, <2>2, CallerFacts DEF CallCreate, Honest, Ready, Creating
  <2>5. QED
    BY <2>1, <2>3, <2>4, GoOnHonoured DEF Continue, j
<1>2. CASE RecordReference(p)
  <2> DEFINE new == RecordProviderIntent(snap[p], ProviderRef)
  <2>1. new \in Intent
    BY ReadRow, ReferenceSound DEF Sound
  <2>2. new.charges = snap[p].charges /\ new.status = snap[p].status /\ new.reference # NoRef
    BY CallerFacts, MethodFields, LifecycleAssumption, NoValueAssumption
  <2> HIDE DEF new
  <2>3. snap[p] = intent => Allowed(p, Idle, new)
    BY <1>2, <2>2, CallerFacts, PlainSteps DEF RecordReference, In, Allowed, Turn, Idle
  <2>4. SaveRetrying(p, new, Idle) \/ Return(p)
    BY <1>2 DEF RecordReference, new
  <2>5. QED
    BY <1>2, <2>1, <2>3, <2>4, SaveRetryingHonoured, ReturnHonoured DEF RecordReference, external
<1>3. CASE CancelCreate(p)
  <2> DEFINE new == Transition(snap[p], "cancelled")
  <2>1. /\ new \in Intent /\ new.charges = snap[p].charges /\ new.status = "cancelled"
        /\ new.reference = snap[p].reference
    BY CallerFacts, MethodFields, TransitionRow DEF Statuses
  <2> HIDE DEF new
  <2>2. snap[p] = intent /\ snap[p].status = "created" => Allowed(p, Idle, new)
    BY <1>3, <2>1, CallerFacts, PlainSteps DEF CancelCreate, In, Allowed, Turn
  <2>3. (snap[p].status = "created" /\ SaveOnce(p, new, Idle)) \/ Return(p)
    BY <1>3 DEF CancelCreate, new
  <2>4. QED
    BY <1>3, <2>1, <2>2, <2>3, SaveOnceHonoured, ReturnHonoured DEF CancelCreate, external
<1>4. QED
  BY <1>1, <1>2, <1>3

\* AdvancePayment asks only for statuses that give nothing up; AuthorizePayment
\* brings the provider's reference.
LEMMA AdvanceHonoured ==
  ASSUME BInv, Honoured, NEW p \in Callers, Advance(p) \/ AuthorizePayment(p)
  PROVE  Honoured'
<1>1. CASE Advance(p)
  <2> DEFINE new == Transition(snap[p], job[p].to)
  <2>1. /\ new \in Intent /\ new.charges = snap[p].charges /\ new.status = job[p].to
        /\ new.reference = snap[p].reference
    BY CallerFacts, MethodFields, TransitionRow DEF Job
  <2>2. job[p].to \in AdvanceTargets
    BY <1>1, ReadRow DEF Advance, In, Fits
  <2> HIDE DEF new
  <2>3. snap[p] = intent /\ CanTransition(snap[p].status, job[p].to) => Allowed(p, Idle, new)
    BY <2>1, <2>2, PlainAllowed, PlainSteps DEF Persistent
  <2>4. (CanTransition(snap[p].status, job[p].to) /\ SaveOnce(p, new, Idle)) \/ Return(p)
    BY <1>1 DEF Advance, new
  <2>5. QED
    BY <1>1, <2>1, <2>3, <2>4, SaveOnceHonoured, ReturnHonoured DEF Advance, external
<1>2. CASE AuthorizePayment(p)
  <2> DEFINE new == Authorize(snap[p], job[p].ref, job[p].amount)
  <2>1. /\ new.charges = snap[p].charges /\ new.status = "authorized"
        /\ new.reference = job[p].ref
    BY CallerFacts, MethodFields
  <2>2. CanTransition(snap[p].status, "authorized") => new \in Intent
    BY ReadRow, AuthorizeSound DEF Sound, Job
  <2>3. Persistent => job[p].ref # NoRef
    BY <1>2, CallerFacts DEF AuthorizePayment, In, Ready
  <2> HIDE DEF new
  <2>4. snap[p] = intent /\ CanTransition(snap[p].status, "authorized") => Allowed(p, Idle, new)
    BY <2>1, <2>3, CallerFacts, PlainSteps DEF Allowed, Turn
  <2>5. (CanTransition(snap[p].status, "authorized") /\ SaveOnce(p, new, Idle)) \/ Return(p)
    BY <1>2 DEF AuthorizePayment, new
  <2>6. QED
    BY <1>2, <2>2, <2>4, <2>5, SaveOnceHonoured, ReturnHonoured DEF AuthorizePayment, external
<1>3. QED
  BY <1>1, <1>2

\* The provider's capture: the durable capture_requested is there to settle it.
LEMMA CallCaptureHonoured ==
  ASSUME BInv, Honoured, NEW p \in Callers, CallCapture(p)
  PROVE  Honoured'
<1>1. PICK j \in {Idle, [job[p] EXCEPT !.step = "settle", !.tries = 0]} :
        Goto(p, j) /\ UNCHANGED intent /\ (j # Idle => psp'.captured)
  BY CallerFacts DEF CallCapture, Continue, Return, Psp
<1>2. /\ psp'.can = psp.can /\ emitted' = emitted /\ (psp.captured => psp'.captured)
      /\ job \in [Callers -> GoodJob] /\ snap \in [Callers -> Sound]
  BY CallerFacts DEF CallCapture, Psp, BInv, IInv, Rows
<1>3. /\ Idle.step = "idle" /\ [job[p] EXCEPT !.step = "settle", !.tries = 0].step = "settle"
  BY CallerFacts DEF Idle, Job
<1>4. Real'
  <2>1. ASSUME NEW q \in Callers PROVE Honest(job[q])'
    <3>1. CASE q = p
      BY <1>1, <1>2, <1>3, <3>1 DEF Goto, Honest
    <3>2. CASE q # p
      <4>1. job'[q] = job[q] /\ Honest(job[q])
        BY <1>1, <1>2, <3>2 DEF Goto, Honoured, Real
      <4>2. QED
        BY <1>2, <4>1 DEF Honest
    <3>3. QED
      BY <3>1, <3>2
  <2>2. QED
    BY <1>1, <1>2, <2>1 DEF Honoured, Real, Deferred
<1>5. ASSUME Persistent PROVE Due'
  <2>1. Due /\ ~SettlesAtPayTime /\ intent.status \in Late
    BY <1>5, CallerFacts DEF CallCapture, Ready
  <2>2. SettlesAtPayTime' = SettlesAtPayTime
    BY <1>2 DEF SettlesAtPayTime
  <2>3. Payable(intent)'
    BY <1>1, <2>1, <2>2 DEF Payable, Due
  <2>4. ~Creating(j) /\ Ready(j, intent)
    BY <1>1, <1>3 DEF Creating, Ready
  <2>5. ASSUME NEW q \in Callers
        PROVE  Ready(job[q], intent)' /\ (snap'[q].status \in Late => intent'.status \in Late)
    <3>1. Ready(job'[q], intent)
      BY <1>1, <1>2, <2>1, <2>4 DEF Goto, Due
    <3>2. QED
      BY <1>1, <2>1, <2>2, <3>1 DEF Ready
  <2>6. \A q \in Callers : Creating(job'[q]) => Creating(job[q])
    BY <1>1, <1>2, <2>4 DEF Goto
  <2>7. QED
    BY <1>1, <2>1, <2>3, <2>5, <2>6 DEF Due
<1>6. QED
  BY <1>4, <1>5 DEF Honoured

\* A capture is reserved at a durable capture_requested, and settled only by a job
\* that knows of the money.
LEMMA CaptureHonoured ==
  ASSUME BInv, Honoured, NEW p \in Callers, ReserveCapture(p) \/ Settle(p)
  PROVE  Honoured'
<1>1. CASE ReserveCapture(p)
  <2> DEFINE new == Transition(snap[p], "capture_requested")
  <2> DEFINE j == [Idle EXCEPT !.step = "callCapture"]
  <2> DEFINE k == [job[p] EXCEPT !.step = "callCapture", !.tries = 0]
  <2>1. /\ new \in Intent /\ new.charges = snap[p].charges /\ new.status = "capture_requested"
        /\ new.reference = snap[p].reference
    BY CallerFacts, MethodFields, TransitionRow DEF Statuses
  <2>2. j.step = "callCapture" /\ k.step = "callCapture"
    BY CallerFacts DEF Idle, Job
  <2>3. \/ Return(p)
        \/ /\ ~SettlesAtPayTime
           /\ \/ snap[p].status = "capture_requested" /\ Goto(p, k) /\ UNCHANGED <<intent, rowLock>>
              \/ SaveRetrying(p, new, j)
    BY <1>1 DEF ReserveCapture, CaptureRefused, Continue
  <2> HIDE DEF new, j, k
  <2>4. /\ Honest(j) /\ ~Creating(j) /\ Honest(k) /\ ~Creating(k)
        /\ ~SettlesAtPayTime => Ready(j, new)
        /\ ~SettlesAtPayTime /\ intent.status \in Late => Ready(k, intent)
    BY <2>1, <2>2 DEF Honest, Creating, Ready, Late
  <2>5. CASE ~SettlesAtPayTime /\ SaveRetrying(p, new, j)
    <3>1. snap[p] = intent => Allowed(p, j, new)
      BY <2>1, <2>4, <2>5, CallerFacts DEF Allowed, Turn, Late
    <3>2. QED
      BY <1>1, <2>1, <2>5, <3>1, SaveRetryingHonoured DEF ReserveCapture
  <2>6. CASE /\ ~SettlesAtPayTime /\ snap[p].status = "capture_requested"
             /\ Goto(p, k) /\ UNCHANGED <<intent, rowLock>>
    <3>1. Persistent => intent.status \in Late
      BY <2>6, CallerFacts DEF Due, Late
    <3>2. QED
      BY <1>1, <2>4, <2>6, <3>1, GoOnHonoured DEF ReserveCapture, external
  <2>7. QED
    BY <1>1, <2>3, <2>5, <2>6, ReturnHonoured DEF ReserveCapture, external
<1>2. CASE Settle(p)
  <2> DEFINE new == MarkCaptured(snap[p])
  <2>1. CanTransition(snap[p].status, "captured") => new \in Intent
    BY ReadRow, CaptureSound DEF Sound
  <2>2. new.status = "captured" /\ new.reference = snap[p].reference
    BY CallerFacts, MethodFields
  <2>3. psp.captured
    BY <1>2, CallerFacts DEF Settle, In, Honest
  <2>4. Plain(AfterSettle(p))
    <3>1. [job[p] EXCEPT !.step = "markSettled", !.tries = 0].step = "markSettled"
      BY CallerFacts DEF Job
    <3>2. QED
      BY <3>1, PlainSteps DEF AfterSettle, Plain
  <2>5. \/ Return(p)
        \/ Goto(p, AfterSettle(p)) /\ UNCHANGED <<intent, rowLock>>
        \/ CanTransition(snap[p].status, "captured") /\ SaveRetrying(p, new, AfterSettle(p))
    BY <1>2 DEF Settle
  <2> HIDE DEF new
  <2>6. snap[p] = intent => Allowed(p, AfterSettle(p), new)
    BY <2>2, <2>3, <2>4, PlainAllowed DEF Late
  <2>7. QED
    BY <1>2, <2>1, <2>4, <2>5, <2>6, PlainSteps, ReturnHonoured, GoOnHonoured, SaveRetryingHonoured
       DEF Settle, external
<1>3. QED
  BY <1>1, <1>2

\* Refunds leave the charge and the reference alone, and the status settled.
LEMMA RefundHonoured ==
  ASSUME BInv, Honoured, NEW p \in Callers, ReserveRefund(p) \/ CallRefund(p) \/ SettleRefund(p)
  PROVE  Honoured'
<1>1. CASE ReserveRefund(p)
  <2> DEFINE new == RequestRefund(snap[p], job[p].amount, job[p].key)
  <2>1. ASSUME NEW i, NEW k PROVE Plain(AfterReserve(p, i, k))
    <3>1. /\ [job[p] EXCEPT !.step = "settleRefund", !.refund = k, !.ok = TRUE, !.tries = 0].step
               = "settleRefund"
          /\ [job[p] EXCEPT !.step = "callRefund", !.refund = k, !.tries = 0].step = "callRefund"
      BY CallerFacts DEF Job
    <3>2. QED
      BY <3>1 DEF AfterReserve, Plain
  <2>2. new \in Intent
    <3>1. job[p] \in GoodJob
      BY DEF BInv, IInv, Rows
    <3>2. job[p].amount \in Nat \ {0} /\ job[p].key \in Keys \cup {NoKey}
      BY <1>1, <3>1 DEF ReserveRefund, In, GoodJob, Job
    <3>3. QED
      BY <3>2, ReadRow, AddRefundSound DEF RequestRefund, RefundStates, Sound
  <2>3. /\ new.charges = snap[p].charges /\ new.status = snap[p].status
        /\ new.reference = snap[p].reference
    BY CallerFacts, MethodFields
  <2>4. \/ Return(p)
        \/ \E i, k : Goto(p, AfterReserve(p, i, k)) /\ UNCHANGED <<intent, rowLock>>
        \/ \E i, k : SaveRetrying(p, new, AfterReserve(p, i, k))
    BY <1>1 DEF ReserveRefund
  <2> HIDE DEF new
  <2>5. \A j : Plain(j) /\ snap[p] = intent => Allowed(p, j, new)
    BY <2>3, PlainAllowed
  <2>6. CASE \E i, k : Goto(p, AfterReserve(p, i, k)) /\ UNCHANGED <<intent, rowLock>>
    BY <1>1, <2>1, <2>6, PlainSteps, GoOnHonoured DEF ReserveRefund, external
  <2>7. CASE \E i, k : SaveRetrying(p, new, AfterReserve(p, i, k))
    BY <1>1, <2>1, <2>2, <2>5, <2>7, SaveRetryingHonoured DEF ReserveRefund
  <2>8. QED
    BY <1>1, <2>4, <2>6, <2>7, ReturnHonoured DEF ReserveRefund, external
<1>2. CASE CallRefund(p)
  <2>1. PICK ok \in BOOLEAN : Goto(p, [job[p] EXCEPT !.step = "settleRefund", !.ok = ok])
    BY <1>2 DEF CallRefund
  <2> DEFINE j == [job[p] EXCEPT !.step = "settleRefund", !.ok = ok]
  <2>2. Plain(j)
    BY CallerFacts DEF Job, Plain
  <2> HIDE DEF j
  <2>3. psp'.captured = psp.captured /\ psp'.can = psp.can /\ emitted' = emitted
    BY <1>2, CallerFacts DEF CallRefund, Psp
  <2>4. QED
    BY <1>2, <2>1, <2>2, <2>3, PlainSteps, GoOnHonoured DEF CallRefund, j
<1>3. CASE SettleRefund(p)
  <2> DEFINE new == IF job[p].ok THEN CompleteRefund(snap[p], job[p].refund)
                    ELSE FailRefund(snap[p], job[p].refund)
  <2>1. new \in Intent
    BY ReadRow, SettleRefundSound DEF Sound, Job
  <2>2. /\ new.charges = snap[p].charges /\ new.reference = snap[p].reference
        /\ new.status \in {snap[p].status, "refunded", "partially_refunded"}
    BY CallerFacts, MethodFields
  <2>3. Return(p) \/ SaveRetrying(p, new, Idle)
    BY <1>3 DEF SettleRefund
  <2> HIDE DEF new
  <2>4. snap[p] = intent => Allowed(p, Idle, new)
    BY <2>2, PlainAllowed, PlainSteps DEF Late
  <2>5. QED
    BY <1>3, <2>1, <2>3, <2>4, ReturnHonoured, SaveRetryingHonoured DEF SettleRefund, external
<1>4. QED
  BY <1>1, <1>2, <1>3

\* A webhook that may be applied gives nothing up.
LEMMA WebhookAllowed ==
  ASSUME BInv, Honoured, NEW p \in Callers, NEW e \in Events, NEW j,
         CanApply(intent, e) \/ Applicable(intent, e),
         Honest(j), \A i : Ready(j, i), ~Creating(j)
  PROVE  Allowed(p, j, ApplyWebhook(intent, e))
<1> DEFINE n == ApplyWebhook(intent, e)
<1>1. /\ n.charges = intent.charges /\ n.reference = intent.reference
      /\ \/ n.status = intent.status
         \/ n.status = KindOf[e] /\ ~Deferred(e) /\ KindOf[e] # "other"
         \/ n.status \in {"capture_requested", "captured"}
  BY CallerFacts, MethodFields
<1> HIDE DEF n
<1>2. Persistent => \/ n.status = intent.status \/ n.status \in Late
                    \/ CanTransition(intent.status, n.status) /\ n.status \notin Dead
  BY <1>1 DEF Persistent, CanApply, Applicable, Late
<1>3. Allowed(p, j, n)
  BY <1>1, <1>2 DEF Allowed, Turn, Honoured, Real
<1>4. QED
  BY <1>3 DEF n

\* The receipt of an event, and its two later steps.
LEMMA ReceiptHonoured ==
  ASSUME BInv, Honoured, NEW p \in Callers,
         Receipt(p) \/ MarkProcessed(p) \/ MarkSettled(p) \/ CommitReceipt(p)
  PROVE  Honoured'
<1> DEFINE e == job[p].event
<1>1. ASSUME NEW s \in {"mark", "commit"}, job' = [job EXCEPT ![p].step = s],
             UNCHANGED <<intent, snap, psp, emitted>>
      PROVE  Honoured'
  <2> DEFINE j == [job[p] EXCEPT !.step = s]
  <2>1. Plain(j) /\ job' = [job EXCEPT ![p] = j]
    BY <1>1, CallerFacts DEF Plain, Job
  <2> HIDE DEF j
  <2>2. Went(p, j, intent)
    BY <1>1, <2>1 DEF Went
  <2>3. QED
    BY <2>1, <2>2, PlainSteps, IdleAllowed, AllowedHonoured
<1>2. CASE Receipt(p)
  <2>1. e \in Events /\ e \in emitted
    BY <1>2, CallerFacts DEF Receipt, In, Honest, BInv, IInv, Rows, GoodJob
  <2>2. CASE /\ CanApply(snap[p], e) /\ Deferred(e)
             /\ SaveOnce(p, ApplyWebhook(snap[p], e), [job[p] EXCEPT !.step = "settle"])
    <3> DEFINE j == [job[p] EXCEPT !.step = "settle"]
    <3>1. j.step = "settle"
      BY CallerFacts DEF Job
    <3>2. psp.captured
      BY <2>1, <2>2 DEF Honoured, Real
    <3> HIDE DEF j
    <3>3. Honest(j) /\ ~Creating(j) /\ \A i : Ready(j, i)
      BY <3>1, <3>2 DEF Honest, Creating, Ready
    <3>4. snap[p] = intent => Allowed(p, j, ApplyWebhook(snap[p], e))
      BY <2>1, <2>2, <3>3, WebhookAllowed
    <3>5. ApplyWebhook(snap[p], e) \in Intent
      BY <2>1, <2>2, ReadRow, WebhookSound DEF Sound
    <3>6. QED
      BY <1>2, <2>2, <3>4, <3>5, SaveOnceHonoured DEF Receipt, j
  <2>3. CASE job' = [job EXCEPT ![p].step = "mark"] /\ UNCHANGED <<intent, snap>>
    BY <1>1, <1>2, <2>3 DEF Receipt, external
  <2>4. QED
    BY <1>2, <2>2, <2>3, ReturnHonoured DEF Receipt, external
<1>3. CASE MarkProcessed(p)
  BY <1>1, <1>3 DEF MarkProcessed
<1>4. CASE MarkSettled(p)
  BY <1>4, ReturnHonoured DEF MarkSettled
<1>5. CASE CommitReceipt(p)
  <2> DEFINE new == ApplyWebhook(intent, e)
  <2>1. e \in Events /\ Applicable(snap[p], e) /\ snap[p] = intent
    BY <1>5 DEF BInv, IInv, Rows, GoodJob, Checked, Books, Locked, CommitReceipt
  <2>2. new \in Intent
    BY <2>1, ReadRow, WebhookSound DEF Sound
  <2>3. Allowed(p, Idle, new)
    BY <2>1, PlainSteps, WebhookAllowed
  <2>4. intent' = [new EXCEPT !.version = @ + 1]
    BY <1>5, <2>1 DEF CommitReceipt
  <2> HIDE DEF new
  <2>5. /\ intent'.status = new.status /\ intent'.reference = new.reference
        /\ intent'.charges = new.charges /\ intent'.version # 0
    <3>1. ASSUME NEW n \in Intent
          PROVE  LET m == [n EXCEPT !.version = @ + 1]
                 IN  /\ m.status = n.status /\ m.reference = n.reference
                     /\ m.charges = n.charges /\ m.version # 0
      BY DEF Intent
    <3>2. QED
      BY <2>2, <2>4, <3>1
  <2>6. snap \in [Callers -> Sound]
    BY DEF BInv, IInv, Rows
  <2>7. Went(p, Idle, new)
    BY <1>5, <2>5, <2>6 DEF Went, CommitReceipt, Goto, external
  <2>8. QED
    BY <2>3, <2>7, AllowedHonoured
<1>6. QED
  BY <1>2, <1>3, <1>4, <1>5

\* ConfirmCodCollection: the operator has the cash.
LEMMA CollectHonoured ==
  ASSUME BInv, Honoured, NEW p \in Callers, Collect(p)
  PROVE  Honoured'
<1> DEFINE new == PrepareDirectCapture(snap[p])
<1> DEFINE j == [Idle EXCEPT !.step = "settle"]
<1> DEFINE k == [job[p] EXCEPT !.step = "settle", !.tries = 0]
<1>1. \/ Return(p)
      \/ Goto(p, k) /\ UNCHANGED <<intent, rowLock>>
      \/ CanPrepareDirectCapture(snap[p]) /\ SaveOnce(p, new, j)
  BY DEF Collect, Continue
<1>2. CanPrepareDirectCapture(snap[p]) => new \in Intent
  BY ReadRow, DirectCaptureSound DEF Sound
<1>3. /\ new.charges = snap[p].charges /\ new.status \in {"capture_requested", "captured"}
      /\ new.reference = snap[p].reference
  BY CallerFacts, MethodFields
<1>4. j.step = "settle" /\ k.step = "settle" /\ psp.captured
  BY CallerFacts DEF Idle, Job, Collect, In, Honest
<1> HIDE DEF new, j, k
<1>5. /\ Honest(j) /\ ~Creating(j) /\ \A i : Ready(j, i)
      /\ Honest(k) /\ ~Creating(k) /\ \A i : Ready(k, i)
  BY <1>4 DEF Honest, Creating, Ready
<1>6. snap[p] = intent => Allowed(p, j, new)
  BY <1>3, <1>4, <1>5 DEF Allowed, Turn, Late
<1>7. QED
  BY <1>1, <1>2, <1>5, <1>6, ReturnHonoured, GoOnHonoured, SaveOnceHonoured DEF Collect, external

\* The one-transaction operations: no job captures, none fails while attempts are not
\* given up, and a refund leaves the charge alone.
LEMMA LegacyHonoured ==
  ASSUME BInv, Honoured, NEW p \in Callers, LegacyCapture(p) \/ LegacyFail(p) \/ LegacyRefund(p)
  PROVE  Honoured'
<1>1. ~LegacyCapture(p)
  BY CallerFacts DEF LegacyCapture, In, Honest
<1>2. CASE LegacyFail(p)
  <2> DEFINE new == Transition(snap[p], "failed")
  <2>1. /\ new \in Intent /\ new.charges = snap[p].charges /\ new.reference = snap[p].reference
    BY CallerFacts, MethodFields, TransitionRow DEF Statuses
  <2>2. ~Persistent
    BY <1>2, CallerFacts DEF LegacyFail, In, Ready
  <2> HIDE DEF new
  <2>3. snap[p] = intent => Allowed(p, Idle, new)
    BY <2>1, <2>2, PlainAllowed, PlainSteps
  <2>4. Return(p) \/ SaveOnce(p, new, Idle)
    BY <1>2 DEF LegacyFail, new
  <2>5. QED
    BY <1>2, <2>1, <2>3, <2>4, ReturnHonoured, SaveOnceHonoured DEF LegacyFail, external
<1>3. CASE LegacyRefund(p)
  <2> DEFINE new == RefundNow(snap[p], job[p].amount)
  <2>1. new \in Intent
    <3>1. job[p] \in GoodJob
      BY DEF BInv, IInv, Rows
    <3>2. job[p].amount \in Nat \ {0}
      BY <1>3, <3>1 DEF LegacyRefund, In, GoodJob, Job
    <3>3. QED
      BY <3>2, ReadRow, RefundNowSound DEF Sound
  <2>2. /\ new.charges = snap[p].charges /\ new.status \in {snap[p].status, "refunded"}
        /\ new.reference = snap[p].reference
    BY CallerFacts, MethodFields
  <2> HIDE DEF new
  <2>3. snap[p] = intent => Allowed(p, Idle, new)
    BY <2>2, PlainAllowed, PlainSteps DEF Late
  <2>4. Return(p) \/ SaveOnce(p, new, Idle)
    BY <1>3 DEF LegacyRefund, new
  <2>5. QED
    BY <1>3, <2>1, <2>3, <2>4, ReturnHonoured, SaveOnceHonoured DEF LegacyRefund, external
<1>4. QED
  BY <1>1, <1>2, <1>3

\* The jobs use cases start with, and the transactions they open.
LEMMA StartHonoured ==
  ASSUME ThroughProvider, BInv, Honoured, NEW p \in Callers,
         \/ BeginAdvance(p) \/ BeginAuthorize(p) \/ BeginCapture(p) \/ BeginRefund(p)
         \/ DeliverWebhook(p) \/ BeginCollect(p) \/ BeginLegacy(p)
  PROVE  Honoured'
<1>1. ASSUME NEW j, Begin(p, j), Honest(j), Ready(j, intent), ~Creating(j)
      PROVE  Honoured'
  <2>1. snap \in [Callers -> Sound]
    BY DEF BInv, IInv, Rows
  <2>2. Went(p, j, intent)
    BY <1>1, <2>1 DEF Went, Begin, external
  <2>3. QED
    BY <1>1, <2>2, IdleAllowed, AllowedHonoured
<1>2. ASSUME NEW j, Begin(p, j), Plain(j) PROVE Honoured'
  BY <1>1, <1>2, PlainSteps
<1>3. CASE BeginAdvance(p)
  <2>1. PICK to \in AdvanceTargets : Begin(p, [Idle EXCEPT !.step = "advance", !.to = to])
    BY <1>3 DEF BeginAdvance
  <2>2. Plain([Idle EXCEPT !.step = "advance", !.to = to])
    BY DEF Idle, Plain
  <2>3. QED
    BY <1>2, <2>1, <2>2
<1>4. CASE BeginAuthorize(p)
  <2>1. PICK ref \in Refs, a \in AuthAmounts :
          Begin(p, [Idle EXCEPT !.step = "authorize", !.ref = ref, !.amount = a])
    BY <1>4 DEF BeginAuthorize
  <2> DEFINE j == [Idle EXCEPT !.step = "authorize", !.ref = ref, !.amount = a]
  <2>2. j.step = "authorize" /\ j.ref # NoRef
    BY NoValueAssumption DEF Idle
  <2> HIDE DEF j
  <2>3. Honest(j) /\ Ready(j, intent) /\ ~Creating(j)
    BY <2>2 DEF Honest, Ready, Creating
  <2>4. QED
    BY <1>1, <2>1, <2>3 DEF j
<1>5. CASE BeginCapture(p)
  <2>1. Plain([Idle EXCEPT !.step = "reserveCapture"])
    BY DEF Idle, Plain
  <2>2. QED
    BY <1>2, <1>5, <2>1 DEF BeginCapture
<1>6. CASE BeginRefund(p)
  <2>1. PICK a \in RefundAmounts, key \in Keys \cup {NoKey} :
          Begin(p, [Idle EXCEPT !.step = "reserveRefund", !.amount = a, !.key = key])
    BY <1>6 DEF BeginRefund
  <2>2. Plain([Idle EXCEPT !.step = "reserveRefund", !.amount = a, !.key = key])
    BY DEF Idle, Plain
  <2>3. QED
    BY <1>2, <2>1, <2>2
<1>7. CASE DeliverWebhook(p)
  <2>1. PICK e \in emitted \ processed : Begin(p, [Idle EXCEPT !.step = "receipt", !.event = e])
    BY <1>7 DEF DeliverWebhook
  <2> DEFINE j == [Idle EXCEPT !.step = "receipt", !.event = e]
  <2>2. j.step = "receipt" /\ j.event = e
    BY DEF Idle
  <2> HIDE DEF j
  <2>3. Honest(j) /\ Ready(j, intent) /\ ~Creating(j)
    BY <2>1, <2>2 DEF Honest, Ready, Creating
  <2>4. QED
    BY <1>1, <2>1, <2>3 DEF j
<1>8. CASE BeginCollect(p)
  <2> DEFINE j == [Idle EXCEPT !.step = "collect"]
  <2>1. j.step = "collect" /\ psp.captured /\ Begin(p, j)
    BY <1>8 DEF Idle, BeginCollect
  <2> HIDE DEF j
  <2>2. Honest(j) /\ Ready(j, intent) /\ ~Creating(j)
    BY <2>1 DEF Honest, Ready, Creating
  <2>3. QED
    BY <1>1, <2>1, <2>2
<1>9. ~BeginLegacy(p)
  BY DEF ThroughProvider, BeginLegacy
<1>10. QED
  BY <1>3, <1>4, <1>5, <1>6, <1>7, <1>8, <1>9

\* CreatePaymentIntentLifecycle: the one creation of the row.
LEMMA NewIntentHonoured ==
  ASSUME ThroughProvider, BInv, Honoured, NEW p \in Callers,
         CreateIntent(p) \/ CreateLegacyIntent(p)
  PROVE  Honoured'
<1>1. CreateIntent(p)
  BY DEF ThroughProvider, CreateLegacyIntent
<1> DEFINE j == [Idle EXCEPT !.step = "callCreate"]
<1>2. j.step = "callCreate" /\ job' = [job EXCEPT ![p] = j] /\ snap' = [snap EXCEPT ![p] = NoSnap]
  BY <1>1 DEF CreateIntent, Goto, Idle
<1> HIDE DEF j
<1>3. /\ intent.version = 0 /\ intent = NoIntent /\ intent.charges = <<>>
      /\ intent.status = "none" /\ intent.reference = NoRef
  BY <1>1 DEF CreateIntent, BInv, Books, Fresh, NoIntent
<1>4. /\ intent'.version = 1 /\ intent'.status = "created" /\ intent'.reference = NoRef
      /\ intent'.charges = <<>> /\ UNCHANGED <<psp, emitted>>
  BY <1>1 DEF CreateIntent, NoIntent, external
<1>5. job \in [Callers -> GoodJob] /\ snap \in [Callers -> Sound]
  BY DEF BInv, IInv, Rows
<1>6. Real'
  <2>1. ASSUME NEW q \in Callers PROVE Honest(job[q])'
    <3>1. Honest(job'[q])
      BY <1>2, <1>5 DEF Honoured, Real, Honest
    <3>2. QED
      BY <1>4, <3>1 DEF Honest
  <2>2. QED
    BY <1>4, <2>1 DEF Honoured, Real, Deferred
<1>7. ASSUME Persistent PROVE Due'
  <2>1. Due
    BY <1>7 DEF Honoured
  <2>2. /\ \A q \in Callers : ~Creating(job[q]) /\ job[q].step # "callCapture"
        /\ ~psp.captured
    BY <1>3, <2>1 DEF Due, Payable, Ready, Late
  <2>3. Payable(intent)'
    BY <1>4, <2>2 DEF Payable
  <2>4. ASSUME NEW q \in Callers PROVE Ready(job[q], intent)'
    BY <1>2, <1>4, <1>5, <2>1, <2>2 DEF Ready, Due, Creating
  <2>5. \A q \in Callers : snap'[q].status \notin Late
    BY <1>2, <1>3, <1>5, <2>1 DEF Due, NoSnap, NoIntent, Late
  <2>6. \A q, r \in Callers : Creating(job'[q]) /\ Creating(job'[r]) => q = r
    BY <1>2, <1>5, <2>2
  <2>7. QED
    BY <1>4, <2>3, <2>4, <2>5, <2>6 DEF Due
<1>8. QED
  BY <1>6, <1>7 DEF Honoured

\* A later transaction reads the row, and a caller crashes.
LEMMA ReadHonoured ==
  ASSUME BInv, Honoured, NEW p \in Callers, Read(p) \/ Crash(p)
  PROVE  Honoured'
<1>1. snap \in [Callers -> Sound] /\ job \in [Callers -> GoodJob]
  BY DEF BInv, IInv, Rows
<1>2. CASE Read(p)
  <2>1. Went(p, job[p], intent)
    BY <1>1, <1>2 DEF Went, Read, external
  <2>2. QED
    BY <2>1, CallerFacts, IdleAllowed, AllowedHonoured
<1>3. CASE Crash(p)
  BY <1>3, PlainSteps, GoOnHonoured DEF Crash
<1>4. QED
  BY <1>2, <1>3

\* The customer pays a row that can be settled; the provider reports what happened.
LEMMA OutsideHonoured ==
  ASSUME BInv, Honoured, MoneyArrives \/ (\E e \in Events : Emit(e)) \/ UNCHANGED vars
  PROVE  Honoured'
<1>1. psp \in Psp /\ UNCHANGED <<intent, job, snap>>
  BY DEF BInv, IInv, Outside, MoneyArrives, Emit, vars
<1>2. /\ psp'.can = psp.can /\ (psp.captured => psp'.captured) /\ emitted \subseteq emitted'
      /\ psp'.captured => psp.captured \/ (SettlesAtPayTime /\ intent.reference # NoRef)
      /\ \A e \in emitted' \ emitted : Deferred(e) => psp'.captured
  BY <1>1 DEF MoneyArrives, Emit, vars, Psp, Deferred
<1>3. Real'
  <2>1. \A q \in Callers : Honest(job[q])'
    BY <1>1, <1>2 DEF Honoured, Real, Honest
  <2>2. QED
    BY <1>1, <1>2, <2>1 DEF Honoured, Real, Deferred
<1>4. Persistent => Due'
  <2>1. SettlesAtPayTime' = SettlesAtPayTime
    BY <1>2 DEF SettlesAtPayTime
  <2>2. Persistent => Payable(intent)'
    BY <1>1, <1>2, <2>1 DEF Honoured, Due, Payable
  <2>3. Persistent => \A q \in Callers : Ready(job[q], intent)'
    BY <1>1, <2>1 DEF Honoured, Due, Ready
  <2>4. QED
    BY <1>1, <2>2, <2>3 DEF Honoured, Due
<1>5. QED
  BY <1>3, <1>4 DEF Honoured

\* Where every intent goes through the provider, what is said here always holds.
LEMMA HonouredKept == ThroughProvider => (Spec => []Honoured)
<1> SUFFICES ASSUME ThroughProvider PROVE Spec => []Honoured
  OBVIOUS
<1>1. Init => Honoured
  <2> SUFFICES ASSUME Init PROVE Honoured
    OBVIOUS
  <2>1. /\ intent.charges = <<>> /\ intent.status = "none" /\ intent.reference = NoRef
        /\ \A p \in Callers : job[p] = Idle /\ snap[p].status = "none"
    BY DEF Init, NoIntent, NoSnap
  <2>2. Real
    BY <2>1, PlainSteps DEF Real, Init
  <2>3. Payable(intent)
    BY <2>1 DEF Payable, Init
  <2>4. Due
    BY <2>1, <2>3, PlainSteps DEF Due, Late
  <2>5. QED
    BY <2>2, <2>4 DEF Honoured
<1>2. BInv /\ Honoured /\ [Next]_vars => Honoured'
  <2> SUFFICES ASSUME BInv, Honoured, [Next]_vars PROVE Honoured'
    OBVIOUS
  <2>1. ASSUME NEW p \in Callers, Step(p) PROVE Honoured'
    BY <2>1, ReadHonoured, CreateHonoured, AdvanceHonoured, CaptureHonoured, CallCaptureHonoured,
       RefundHonoured, ReceiptHonoured, CollectHonoured, LegacyHonoured DEF Step
  <2>2. ASSUME NEW p \in Callers, Start(p) PROVE Honoured'
    BY <2>2, NewIntentHonoured, StartHonoured DEF Start
  <2>3. QED
    BY <2>1, <2>2, ReadHonoured, OutsideHonoured DEF Next
<1>3. QED
  BY <1>1, <1>2, BooksKept, PTL DEF Spec

\* Where every intent goes through the provider, a charge is recorded only for money
\* it took or an operator collected: no crash, refusal, retry or webhook invents one.
\* (The one-transaction CapturePayment asks nobody, and is excluded.)
THEOREM ChargesAreReal == "requires_payment" \notin Openings => (Spec => []ChargeIsReal)
<1>1. Honoured => ChargeIsReal
  BY DEF Honoured, Real, ChargeIsReal
<1>2. QED
  BY <1>1, HonouredKept, PTL DEF ThroughProvider

\* Where besides no caller and no event gives an attempt up, captured money always
\* finds the row at a status from which settle can record it.  (The late_failure run
\* shows what one late payment.failed event does to it.)
THEOREM CapturedIsSettleable ==
  ASSUME "requires_payment" \notin Openings,
         AdvanceTargets \cap {"failed", "expired", "cancelled"} = {},
         \A e \in Events : KindOf[e] \notin {"failed", "expired", "cancelled"}
  PROVE  Spec => []SettleableOnceCaptured
<1>1. ThroughProvider /\ Persistent
  BY DEF ThroughProvider, Persistent, Dead
<1>2. BInv /\ Honoured => SettleableOnceCaptured
  <2> SUFFICES ASSUME BInv, Honoured, psp.captured PROVE SettleableOnceCaptured
    BY DEF SettleableOnceCaptured
  <2>1. Payable(intent) /\ intent.status \in Statuses
    BY <1>1 DEF Honoured, Due, BInv, IInv, Rows, Sound, Intent
  <2>2. ASSUME SettlesAtPayTime, intent.status \notin Late PROVE CanPrepareDirectCapture(intent)
    <3>1. intent.status \in {"created", "processing", "authorized"}
      BY <2>1, <2>2 DEF Payable, Statuses, Late
    <3>2. QED
      BY <3>1 DEF CanPrepareDirectCapture, WalkToAuthorized, CanTransition, Targets
  <2>3. QED
    BY <2>1, <2>2 DEF Payable, SettleableOnceCaptured, Late
<1>3. QED
  BY <1>1, <1>2, HonouredKept, BooksKept, PTL
=============================================================================
