--------------------------- MODULE OrderPlacement ---------------------------
(***************************************************************************)
(* Placing orders against stock: checkout sessions, the orders they create,  *)
(* the inventory rows the orders are reserved on, the locations of the shop,  *)
(* and the discount code the orders are placed with.                         *)
(*                                                                           *)
(* Workers run the three use cases that span several transactions: complete  *)
(* a checkout, request an order's fulfillment, cancel an order.  Every stock *)
(* row they touch is read in one step and saved in a later one, under the    *)
(* version that was read.  The use cases of one transaction whose outcome no *)
(* other code looks at (the staff's stock operations, the edits of a         *)
(* session, the transitions of an order) are single steps: a version         *)
(* conflict there changes nothing.                                           *)
(***************************************************************************)
EXTENDS Inventory, Coupon, OrderDomain, Sequences

CONSTANTS
  Products,      \* variants: what a stock row is about
  Tracked,       \* variants whose quantity is tracked
  Deny,          \* tracked variants that stop selling at zero
  Locations,     \* warehouses
  Registered,    \* the warehouses registered at the start
  InitialStock,  \* [Products \X Locations -> quantity received at the start]
  Sessions,      \* checkout sessions
  Lines,         \* [Sessions -> sequence of [product, quantity]]
  Coded,         \* sessions whose shopper has entered the code
  CustomerOf,    \* [Sessions -> who the session is for]
  Orders,        \* identifiers of orders
  Workers,       \* threads that run the use cases
  NoSession, NoOrder,
  Quantities,    \* quantities staff receive, adjust to, transfer and reserve
  AdvanceTargets,\* statuses staff ask for, other than cancelled
  MaxEvents      \* bound on what happens beside the jobs and the orders' transitions

Places == Products \X Locations

ASSUME PlacementAssumption ==
  /\ Tracked \subseteq Products /\ Deny \subseteq Tracked
  /\ Registered \subseteq Locations
  /\ InitialStock \in [Places -> Nat]
  /\ Lines \in [Sessions -> Seq([product: Products, quantity: Nat \ {0}])]
  /\ \A s \in Sessions : Lines[s] # <<>>
  /\ Coded \subseteq Sessions /\ CustomerOf \in [Sessions -> Customers]
  /\ UsageLimits # {} /\ Orders \subseteq Keys
  /\ Orders \subseteq References /\ NoOrder \notin Orders /\ NoSession \notin Sessions
  /\ Quantities \subseteq Nat \ {0}
  /\ AdvanceTargets \subseteq OrderStatuses \ {"none", "cancelled"}
  /\ MaxEvents \in Nat

VARIABLES
  stock,      \* [Places -> Item]
  warehouse,  \* [Locations -> none, active, inactive]
  order,      \* [Orders -> status, the session it is for, whether fulfillmentRef is set]
  session,    \* [Sessions -> state, orderRef, whether its totals carry the discount, version]
  coupon,     \* the code's row
  job,        \* [Workers -> Job]
  givenBack,  \* orders whose reservations were released or committed, or began to be
  events      \* how many staff operations, session edits and crashes there were

vars == <<stock, warehouse, order, session, coupon, job, givenBack, events>>

Job == [step: {"idle", "validate", "create", "reserve", "readStock", "saveStock", "save",
               "redeem", "saveRedeem", "commit", "settle", "scan", "release", "saveRelease", "cancel"},
        session: Sessions \cup {NoSession}, version: Nat, order: Orders \cup {NoOrder},
        locations: SUBSET Locations, line: Nat \ {0}, location: Locations \cup {NoSession},
        quantity: Nat, read: Item, redeeming: CouponRow, todo: SUBSET (Locations \X Nat), then: {"idle", "cancel"}]

\* No coupon has been read.
NoRead == NewCoupon(CHOOSE n \in UsageLimits : TRUE)

Idle == [step |-> "idle", session |-> NoSession, version |-> 0, order |-> NoOrder,
         locations |-> {}, line |-> 1, location |-> NoSession, quantity |-> 0,
         read |-> NoItem, redeeming |-> NoRead, todo |-> {}, then |-> "idle"]

Open == {"started", "locked"}

\* The stock at the start has been received; the sessions have been started and
\* filled in, with the code where the shopper has one.
Init ==
  /\ stock = [at \in Places |->
               IF InitialStock[at] = 0 THEN NoItem
               ELSE Saved(Receive(NoItem, InitialStock[at]))]
  /\ warehouse = [l \in Locations |-> IF l \in Registered THEN "active" ELSE "none"]
  /\ order = [o \in Orders |-> [status |-> "none", session |-> NoSession, fulfillment |-> FALSE]]
  /\ session = [s \in Sessions |-> [state |-> "started", orderRef |-> NoOrder,
                                 discounted |-> s \in Coded, version |-> 1]]
  /\ \E n \in UsageLimits : coupon = NewCoupon(n)
  /\ job = [w \in Workers |-> Idle]
  /\ givenBack = {} /\ events = 0

-----------------------------------------------------------------------------
(* Jobs. *)

LinesOf(o) == Lines[order[o].session]

\* The line a job is at: of the session while it is checked, of the order after.
Line(j) == IF j.order = NoOrder THEN Lines[j.session][j.line] ELSE LinesOf(j.order)[j.line]

LastLine(j) ==
  j.line = Len(IF j.order = NoOrder THEN Lines[j.session] ELSE LinesOf(j.order))

Place(j) == <<Line(j).product, j.location>>

\* The k-th line of the order is the first one about its variant.
FirstLine(o, k) == \A i \in 1..(k - 1) : LinesOf(o)[i].product # LinesOf(o)[k].product

Active == {l \in Locations : warehouse[l] = "active"}

Goto(w, j) == job' = [job EXCEPT ![w] = j]

End(w) == Goto(w, Idle)

\* Something happens beside the jobs.
Event == events < MaxEvents /\ events' = events + 1

\* pickLocation: a location that holds the most.
Best(p, locations) ==
  {l \in locations : \A m \in locations : Available(stock[<<p, m>>]) <= Available(stock[<<p, l>>])}

Covers(p, l, q) == Available(stock[<<p, l>>]) >= q

-----------------------------------------------------------------------------
(* CompleteCheckout up to the order: the session is read and its discount    *)
(* worked out once more, its lines are checked against the stock, and the    *)
(* order is created in a transaction of its own.                             *)

\* refreshDiscounts: whether the session's code takes something off now.
Discount(s) == s \in Coded /\ Applicable(coupon, CustomerOf[s])

\* A completion that has written the session holds its row until it commits.
Unlocked(s) ==
  \A w \in Workers :
    job[w].session = s => job[w].step \notin {"redeem", "saveRedeem", "commit"}

Completable(s) == session[s].orderRef = NoOrder /\ session[s].state \in Open

\* The discount moved: the new totals are saved, and the shopper is asked again.
RefuseDiscount(s) ==
  /\ Completable(s) /\ Unlocked(s)
  /\ session[s].discounted # Discount(s)
  /\ session' = [session EXCEPT ![s].discounted = Discount(s), ![s].version = @ + 1]
  /\ UNCHANGED <<stock, warehouse, order, coupon, job, givenBack, events>>

BeginComplete(w, s) ==
  /\ job[w] = Idle
  /\ Completable(s) /\ session[s].discounted = Discount(s)
  /\ Goto(w, [Idle EXCEPT !.step = "validate", !.session = s,
                          !.version = session[s].version, !.locations = Active])
  /\ UNCHANGED <<stock, warehouse, order, session, coupon, givenBack, events>>

\* InventoryValidationAdapter: a line that stock limits needs one location that
\* covers it.
ValidateLine(w) ==
  LET j == job[w]
      p == Line(j).product
      valid == p \in Deny => \E l \in Best(p, j.locations) : Covers(p, l, Line(j).quantity)
  IN  /\ j.step = "validate"
      /\ IF ~valid THEN End(w)
         ELSE IF LastLine(j) THEN Goto(w, [j EXCEPT !.step = "create", !.line = 1])
         ELSE Goto(w, [j EXCEPT !.line = @ + 1])
      /\ UNCHANGED <<stock, warehouse, order, session, coupon, givenBack, events>>

CreateOrder(w) ==
  /\ job[w].step = "create"
  /\ \E o \in Orders :
       /\ order[o].status = "none"
       /\ order' = [order EXCEPT ![o].status = "created", ![o].session = job[w].session]
       /\ Goto(w, [job[w] EXCEPT !.step = "reserve", !.order = o, !.locations = Active])
  /\ UNCHANGED <<stock, warehouse, session, coupon, givenBack, events>>

-----------------------------------------------------------------------------
(* OrdersInventoryAdapter.requestReservation, for CompleteCheckout and       *)
(* RequestFulfillment: line by line, unless the line is held already at one  *)
(* of the locations listed when the call began.                              *)

\* The line is done: the next one, or what follows the call.
NextLine(w, j) ==
  IF ~LastLine(j) THEN Goto(w, [j EXCEPT !.step = "reserve", !.line = @ + 1,
                                         !.location = NoSession, !.quantity = 0, !.read = NoItem])
  ELSE Goto(w, [Idle EXCEPT !.step = IF j.session = NoSession THEN "settle" ELSE "save",
                            !.session = j.session, !.version = j.version, !.order = j.order])

\* The call throws: RequestFulfillment lets the error out, CompleteCheckout
\* undoes the order.
Refused(w, j) ==
  IF j.session = NoSession
    THEN End(w) /\ UNCHANGED givenBack
    ELSE /\ Goto(w, [Idle EXCEPT !.step = "scan", !.order = j.order, !.then = "cancel"])
         /\ givenBack' = givenBack \cup {j.order}

HeldAt(p, l, o) == HoldsFor(stock[<<p, l>>], o) # {}

AlreadyReserved(j) == \E l \in j.locations : HeldAt(Line(j).product, l, j.order)

ReserveLine(w) ==
  LET j == job[w]
      p == Line(j).product
      q == Line(j).quantity
      best == Best(p, j.locations)
  IN  /\ j.step = "reserve"
      /\ \/ /\ p \notin Tracked \/ AlreadyReserved(j)
            /\ NextLine(w, j) /\ UNCHANGED givenBack
         \/ /\ p \in Tracked /\ ~AlreadyReserved(j)
            /\ best = {} \/ (p \in Deny /\ \E l \in best : ~Covers(p, l, q))
            /\ Refused(w, j)
         \/ /\ p \in Tracked /\ ~AlreadyReserved(j)
            /\ \E l \in best :
                 LET amount == IF Covers(p, l, q) THEN q ELSE Available(stock[<<p, l>>]) IN
                 /\ p \in Deny => Covers(p, l, q)
                 /\ IF amount = 0 THEN NextLine(w, j)
                    ELSE Goto(w, [j EXCEPT !.step = "readStock", !.location = l,
                                           !.quantity = amount])
            /\ UNCHANGED givenBack
      /\ UNCHANGED <<stock, warehouse, order, session, coupon, events>>

\* ReserveStock: the row is read and the reservation decided on...
ReserveRead(w) ==
  LET j == job[w]
      item == stock[Place(j)]
  IN  /\ j.step = "readStock"
      /\ IF Exists(item) /\ CanReserve(item, j.quantity)
           THEN Goto(w, [j EXCEPT !.step = "saveStock", !.read = item]) /\ UNCHANGED givenBack
           ELSE Refused(w, j)
      /\ UNCHANGED <<stock, warehouse, order, session, coupon, events>>

\* ...and saved, if nobody has written the row since.
ReserveSave(w) ==
  LET j == job[w]
      new == Reserve(j.read, j.quantity, j.order)
  IN  /\ j.step = "saveStock"
      /\ IF CanSave(stock[Place(j)], j.read, new)
           THEN /\ stock' = [stock EXCEPT ![Place(j)] = Saved(new)]
                /\ NextLine(w, j) /\ UNCHANGED givenBack
           ELSE Refused(w, j) /\ UNCHANGED stock
      /\ UNCHANGED <<warehouse, order, session, coupon, events>>

-----------------------------------------------------------------------------
(* The end of CompleteCheckout: the session's own write, in whose            *)
(* transaction the discount's use is counted by one of its own; or the       *)
(* undoing of the order.                                                     *)

\* The transaction that began with the read of the session commits.
Complete(w, j) ==
  /\ session' = [session EXCEPT ![j.session].state = "completed",
                                ![j.session].orderRef = j.order,
                                ![j.session].version = @ + 1]
  /\ End(w)

\* Mutant: the session is written whatever happened to it meanwhile.
SaveSessionUnchecked(w) ==
  /\ job[w].step = "save"
  /\ Complete(w, job[w])
  /\ UNCHANGED <<stock, warehouse, order, coupon, givenBack, events>>

\* A session that changed since it was read is a ConcurrencyError: the order
\* stays, and nothing refers to it.
SaveSession(w) ==
  LET j == job[w] IN
  /\ j.step = "save" /\ Unlocked(j.session)
  /\ \/ session[j.session].version # j.version /\ End(w) /\ UNCHANGED session
     \/ /\ session[j.session].version = j.version
        /\ IF session[j.session].discounted
             THEN Goto(w, [j EXCEPT !.step = "redeem"]) /\ UNCHANGED session
             ELSE Complete(w, j)
  /\ UNCHANGED <<stock, warehouse, order, coupon, givenBack, events>>

\* DiscountUsageAdapter.record, RedeemCoupon under the order's key: read...
RedeemRead(w) ==
  LET j == job[w] IN
  /\ j.step = "redeem"
  /\ Goto(w, IF ~HasRedemption(coupon, j.order) /\ CanRedeem(coupon, CustomerOf[j.session])
               THEN [j EXCEPT !.step = "saveRedeem", !.redeeming = coupon]
               ELSE [j EXCEPT !.step = "commit"])
  /\ UNCHANGED <<stock, warehouse, order, session, coupon, givenBack, events>>

\* ...and save; a conflict is swallowed like any other failure to count.
RedeemSave(w) ==
  LET j == job[w] IN
  /\ j.step = "saveRedeem"
  /\ coupon' = IF CanSaveCoupon(coupon, j.redeeming)
                 THEN SavedCoupon(Redeem(j.redeeming, j.order, CustomerOf[j.session]))
                 ELSE coupon
  /\ Goto(w, [j EXCEPT !.step = "commit", !.redeeming = NoRead])
  /\ UNCHANGED <<stock, warehouse, order, session, givenBack, events>>

CommitSession(w) ==
  /\ job[w].step = "commit"
  /\ Complete(w, job[w])
  /\ UNCHANGED <<stock, warehouse, order, coupon, givenBack, events>>

\* CheckoutOrderCancellationAdapter: AdvanceOrder to cancelled, then its cleanup.
CancelUndone(w) ==
  LET j == job[w] IN
  /\ j.step = "cancel"
  /\ IF CanTransition(order[j.order].status, "cancelled")
       THEN /\ order' = [order EXCEPT ![j.order].status = "cancelled"]
            /\ Goto(w, [Idle EXCEPT !.step = "scan", !.order = j.order])
       ELSE End(w) /\ UNCHANGED order
  /\ UNCHANGED <<stock, warehouse, session, coupon, givenBack, events>>

-----------------------------------------------------------------------------
(* OrdersStockReleaseAdapter.releaseOrderStock: product by product, each     *)
(* once, at every location, each reservation released in a transaction of    *)
(* its own whose failure is logged and passed over.                          *)

\* The product of the line is done.
NextRelease(w, j) ==
  IF LastLine(j) THEN Goto(w, IF j.then = "idle" THEN Idle
                              ELSE [Idle EXCEPT !.step = j.then, !.order = j.order])
  ELSE Goto(w, [Idle EXCEPT !.step = "scan", !.line = j.line + 1, !.order = j.order,
                            !.then = j.then])

\* One reservation is done.
NextHold(w, j) ==
  LET rest == j.todo \ {<<j.location, j.quantity>>} IN
  IF rest = {} THEN NextRelease(w, j)
  ELSE Goto(w, [j EXCEPT !.step = "release", !.todo = rest, !.location = NoSession,
                         !.quantity = 0, !.read = NoItem])

\* Mutant: the reservations of every order are given back.
OrderHoldsAny(p, o) == UNION {{<<l, h.id>> : h \in stock[<<p, l>>].holds} : l \in Locations}

OrderHolds(p, o) == UNION {{<<l, h.id>> : h \in HoldsFor(stock[<<p, l>>], o)} : l \in Locations}

ScanHolds(w) ==
  LET j == job[w]
      found == {t \in OrderHolds(Line(j).product, j.order) : FirstLine(j.order, j.line)}
  IN  /\ j.step = "scan"
      /\ IF found = {} THEN NextRelease(w, j)
         ELSE Goto(w, [j EXCEPT !.step = "release", !.todo = found])
      /\ UNCHANGED <<stock, warehouse, order, session, coupon, givenBack, events>>

\* ReleaseReservation reads the row; a reservation that is gone is refused.
\* The job keeps the reservation's id where it keeps quantities.
ReleaseRead(w) ==
  LET j == job[w] IN
  /\ j.step = "release"
  /\ \E t \in j.todo :
       LET at == [j EXCEPT !.location = t[1], !.quantity = t[2]]
           item == stock[Place(at)]
       IN  IF \E h \in item.holds : h.id = t[2]
             THEN Goto(w, [at EXCEPT !.step = "saveRelease", !.read = item])
             ELSE NextHold(w, at)
  /\ UNCHANGED <<stock, warehouse, order, session, coupon, givenBack, events>>

ReleaseSave(w) ==
  LET j == job[w] IN
  /\ j.step = "saveRelease"
  /\ \E h \in j.read.holds :
       LET new == Release(j.read, h) IN
       /\ h.id = j.quantity
       /\ stock' = IF CanSave(stock[Place(j)], j.read, new)
                     THEN [stock EXCEPT ![Place(j)] = Saved(new)] ELSE stock
  /\ NextHold(w, j)
  /\ UNCHANGED <<warehouse, order, session, coupon, givenBack, events>>

-----------------------------------------------------------------------------
(* RequestFulfillment and AdvanceOrder. *)

BeginFulfillment(w, o) ==
  /\ job[w] = Idle
  /\ ~order[o].fulfillment /\ CanTransition(order[o].status, "fulfillment_requested")
  /\ Goto(w, [Idle EXCEPT !.step = "reserve", !.order = o, !.locations = Active])
  /\ UNCHANGED <<stock, warehouse, order, session, coupon, givenBack, events>>

\* settle: nothing to do if another call has recorded its fulfillment.
SettleFulfillment(w) ==
  LET o == job[w].order IN
  /\ job[w].step = "settle"
  /\ order' = IF ~order[o].fulfillment /\ CanTransition(order[o].status, "fulfillment_requested")
               THEN [order EXCEPT ![o].status = "fulfillment_requested", ![o].fulfillment = TRUE]
               ELSE order
  /\ End(w)
  /\ UNCHANGED <<stock, warehouse, session, coupon, givenBack, events>>

AdvanceOrder(o, to) ==
  /\ CanTransition(order[o].status, to)
  /\ order' = [order EXCEPT ![o].status = to]
  /\ UNCHANGED <<stock, warehouse, session, coupon, job, givenBack, events>>

\* Staff cancel an order: committed first, the stock is given back afterwards.
CancelOrder(w, o) ==
  /\ job[w] = Idle
  /\ CanTransition(order[o].status, "cancelled")
  /\ order' = [order EXCEPT ![o].status = "cancelled"]
  /\ Goto(w, [Idle EXCEPT !.step = "scan", !.order = o])
  /\ givenBack' = givenBack \cup {o}
  /\ UNCHANGED <<stock, warehouse, session, coupon, events>>

-----------------------------------------------------------------------------
(* The checkout session's other use cases. *)

EndSession(s, state) ==
  /\ session[s].state \in Open /\ Unlocked(s)
  /\ Event
  /\ session' = [session EXCEPT ![s].state = state, ![s].version = @ + 1]
  /\ UNCHANGED <<stock, warehouse, order, coupon, job, givenBack>>

\* Details and totals: any write of an open session but its state.
EditSession(s) == EndSession(s, session[s].state)

Lock(s) == session[s].state = "started" /\ EndSession(s, "locked")

ExpireCheckout(s) == EndSession(s, "expired")

FailCheckout(s) == EndSession(s, "failed")

-----------------------------------------------------------------------------
(* The staff's operations: the code, the stock, the warehouse registry. *)

CouponOperation(new) ==
  /\ Event
  /\ coupon' = SavedCoupon(new)
  /\ UNCHANGED <<stock, warehouse, order, session, job, givenBack>>

AdvanceCoupon(to) ==
  /\ to \in CouponTransitions[coupon.status]
  /\ CouponOperation([coupon EXCEPT !.status = to])

ReconfigureCoupon(limit) == CouponOperation(Reconfigure(coupon, limit))

RedeemByHand(key, customer) ==
  /\ ~HasRedemption(coupon, key) /\ CanRedeem(coupon, customer)
  /\ CouponOperation(Redeem(coupon, key, customer))

\* One use case on the row at a place: what it may save instead.
StockOperation(at, new) ==
  /\ Event
  /\ CanSave(stock[at], stock[at], new)
  /\ stock' = [stock EXCEPT ![at] = Saved(new)]
  /\ UNCHANGED <<warehouse, order, session, coupon, job>>

ReceiveStock(at, q) == StockOperation(at, Receive(stock[at], q)) /\ UNCHANGED givenBack

AdjustInventory(at, n) ==
  /\ Exists(stock[at]) /\ CanAdjust(stock[at], n)
  /\ StockOperation(at, Adjust(stock[at], n))
  /\ UNCHANGED givenBack

ReserveByHand(at, q, reference) ==
  /\ Exists(stock[at]) /\ CanReserve(stock[at], q)
  /\ StockOperation(at, Reserve(stock[at], q, reference))
  /\ UNCHANGED givenBack

ReleaseByHand(at) ==
  \E h \in stock[at].holds :
    /\ StockOperation(at, Release(stock[at], h))
    /\ givenBack' = givenBack \cup ({h.reference} \cap Orders)

CommitByHand(at) ==
  \E h \in stock[at].holds :
    /\ CanCommit(stock[at], h)
    /\ StockOperation(at, Commit(stock[at], h))
    /\ givenBack' = givenBack \cup ({h.reference} \cap Orders)

TransferStock(p, l, m, q) ==
  /\ l # m /\ Exists(stock[<<p, l>>]) /\ CanRemove(stock[<<p, l>>], q)
  /\ Event
  /\ stock' = [stock EXCEPT ![<<p, l>>] = Saved(Remove(@, q)),
                            ![<<p, m>>] = Saved(Receive(@, q))]
  /\ UNCHANGED <<warehouse, order, session, coupon, job, givenBack>>

RegisterWarehouse(l) ==
  /\ warehouse[l] = "none"
  /\ Event
  /\ warehouse' = [warehouse EXCEPT ![l] = "active"]
  /\ UNCHANGED <<stock, order, session, coupon, job, givenBack>>

DeactivateWarehouse(l) ==
  /\ warehouse[l] = "active"
  /\ Event
  /\ warehouse' = [warehouse EXCEPT ![l] = "inactive"]
  /\ UNCHANGED <<stock, order, session, coupon, job, givenBack>>

-----------------------------------------------------------------------------
\* A replica dies, or an error its caller swallows ends the job early.
Crash(w) ==
  /\ job[w] # Idle
  /\ Event
  /\ End(w)
  /\ UNCHANGED <<stock, warehouse, order, session, coupon, givenBack>>

Step(w) ==
  \/ ValidateLine(w) \/ CreateOrder(w)
  \/ ReserveLine(w) \/ ReserveRead(w) \/ ReserveSave(w)
  \/ SaveSession(w) \/ RedeemRead(w) \/ RedeemSave(w) \/ CommitSession(w) \/ CancelUndone(w)
  \/ ScanHolds(w) \/ ReleaseRead(w) \/ ReleaseSave(w)
  \/ SettleFulfillment(w)

Start(w) ==
  \/ \E s \in Sessions : BeginComplete(w, s)
  \/ \E o \in Orders : BeginFulfillment(w, o) \/ CancelOrder(w, o)

Staff ==
  \/ \E o \in Orders, to \in AdvanceTargets : AdvanceOrder(o, to)
  \/ \E to \in CouponStatuses : AdvanceCoupon(to)
  \/ \E n \in UsageLimits : ReconfigureCoupon(n)
  \/ \E k \in Keys \ Orders, c \in Customers : RedeemByHand(k, c)
  \/ \E at \in Places :
       \/ \E q \in Quantities : ReceiveStock(at, q) \/ AdjustInventory(at, q)
       \/ \E q \in Quantities, r \in References \ Orders : ReserveByHand(at, q, r)
       \/ ReleaseByHand(at) \/ CommitByHand(at)
  \/ \E p \in Products, l, m \in Locations, q \in Quantities : TransferStock(p, l, m, q)
  \/ \E l \in Locations : RegisterWarehouse(l) \/ DeactivateWarehouse(l)

Shopper ==
  \E s \in Sessions :
    RefuseDiscount(s) \/ EditSession(s) \/ Lock(s) \/ ExpireCheckout(s) \/ FailCheckout(s)

Next ==
  \/ \E w \in Workers : Step(w) \/ Start(w) \/ Crash(w)
  \/ Staff
  \/ Shopper

Spec == Init /\ [][Next]_vars

-----------------------------------------------------------------------------
(* Properties. *)

\* Every variable has its type.
TypeOK ==
  /\ stock \in [Places -> Item]
  /\ warehouse \in [Locations -> {"none", "active", "inactive"}]
  /\ order \in [Orders -> [status: OrderStatuses, session: Sessions \cup {NoSession},
                           fulfillment: BOOLEAN]]
  /\ session \in [Sessions -> [state: {"started", "locked", "completed", "failed", "expired"},
                               orderRef: Orders \cup {NoOrder}, discounted: BOOLEAN, version: Nat]]
  /\ coupon \in CouponRow
  /\ job \in [Workers -> Job]
  /\ givenBack \subseteq Orders
  /\ events \in Nat

\* However reservations, releases and the staff's operations race on a row, its
\* reserved quantity is what its reservations add up to, and never more than is
\* on hand: nothing is sold twice.
StockSound == \A at \in Places : SoundItem(stock[at])

\* The order holds a line in full, at one location.
HoldsLine(o, line) ==
  \E l \in Locations :
    \E h \in HoldsFor(stock[<<line.product, l>>], o) : h.quantity >= line.quantity

\* An order a shopper was told is placed, and one whose fulfillment was requested,
\* holds what stock limits, until its stock is given back: no failed reservation,
\* stale pick or lost update goes unnoticed.  Of several lines about one variant it
\* is the first that is held: requestReservation takes the variant for reserved at
\* the next.
PromisedIsHeld ==
  \A o \in Orders :
    (order[o].fulfillment \/ \E s \in Sessions : session[s].orderRef = o) =>
      \/ o \in givenBack
      \/ \A k \in DOMAIN LinesOf(o) :
           LinesOf(o)[k].product \in Deny /\ FirstLine(o, k) => HoldsLine(o, LinesOf(o)[k])

\* What staff receive, adjust, commit or transfer stays booked: a reservation or a
\* release that read the row before and saves it after never writes the old
\* quantity on hand back.
OnHandKept ==
  [][job' # job => \A at \in Places : stock'[at].onHand = stock[at].onHand]_vars

\* A checkout is completed once, with one order: whatever completions, edits and
\* expiries race, a session that has its order keeps it, and one that expired or
\* failed gets none.
SessionOrderFinal ==
  [][\A s \in Sessions :
       session[s].state \notin Open =>
         session'[s].state = session[s].state /\ session'[s].orderRef = session[s].orderRef]_vars

\* The code's ledger is append-only: completions, staff redemptions and edits of
\* the code that read the row at the same time do not write over each other's
\* redemption (coupon.use-cases.ts RedeemCoupon, PrismaCouponRepository.save).
RedemptionsKept == [][coupon.redemptions \subseteq coupon'.redemptions]_vars

\* The code is used no more often than the largest limit it has had, once per order
\* or request, and once per customer unless it is for several uses, however many
\* carts had it applied before it ran out.
UsageWithinLimits ==
  /\ coupon.count = Cardinality(coupon.redemptions) /\ coupon.count <= coupon.peak
  /\ \A q, r \in coupon.redemptions :
       q.key = r.key \/ (~MultiUse /\ q.customer = r.customer) => q = r
=============================================================================
