------------------------ MODULE OrderPlacementProofs ------------------------
(***************************************************************************)
(* Proofs about OrderPlacement, for any number of workers, sessions, orders,  *)
(* products and locations, any stock, any coupon limits and any number of     *)
(* staff operations and crashes.                                              *)
(*                                                                            *)
(* The argument.  A job carries what it read over to a later transaction.     *)
(* What it read is either the current row or an older version of it (Fresh),  *)
(* because every write of a row takes its version one further; so a save that  *)
(* passes the version check starts from the row as it is, with the guards the *)
(* use case evaluated on it.  Evolves says what any step does to the rows;     *)
(* whatever is said of a job (Good) survives it, and each action only has to  *)
(* show that its own writes are of that kind and that its job goes on well.    *)
(***************************************************************************)
EXTENDS OrderPlacement, MoneyProofs

-----------------------------------------------------------------------------
(* What is said of rows. *)

Amounts(item) == [h \in item.holds |-> h.quantity]

\* A stock row is sound, its reservations can be counted, and their ids are different
\* versions the row has left behind.
ItemOK(item) ==
  /\ SoundItem(item) /\ IsFiniteSet(Units(Amounts(item)))
  /\ \A h \in item.holds : h.id < item.version
  /\ \A g, h \in item.holds : g.id = h.id => g = h

\* The code is in order: what it may still be used for is left of its limits.
CouponOK(c) ==
  /\ IsFiniteSet(c.redemptions) /\ c.count = Cardinality(c.redemptions)
  /\ c.limit <= c.peak /\ c.count <= c.peak
  /\ c.status \in {"active", "disabled"} => c.count < c.peak
  /\ \A q, r \in c.redemptions :
       q.key = r.key \/ (~MultiUse /\ q.customer = r.customer) => q = r

\* A shopper was told that the order is placed, or its fulfillment was requested.
Promised(o) == order[o].fulfillment \/ \E s \in Sessions : session[s].orderRef = o

\* An order that exists is for a session, and only such an order is promised.
OrdersOK ==
  \A o \in Orders :
    /\ order[o].status # "none" => order[o].session \in Sessions
    /\ Promised(o) => order[o].status # "none"

\* A reservation made for an order is for one that exists, and covers the first line
\* of a variant that stops selling at zero, unless the order's stock is being given
\* back: once the first line's reservation is gone, a call may reserve a later line.
HoldOK(p, h) ==
  h.reference \in Orders =>
    /\ order[h.reference].status # "none"
    /\ p \in Deny => \/ h.reference \in givenBack
                      \/ \A k \in DOMAIN LinesOf(h.reference) :
                           LinesOf(h.reference)[k].product = p /\ FirstLine(h.reference, k) =>
                             h.quantity >= LinesOf(h.reference)[k].quantity

HoldsOK == \A p \in Products, l \in Locations : \A h \in stock[<<p, l>>].holds : HoldOK(p, h)

-----------------------------------------------------------------------------
(* What is said of jobs. *)

\* A job has the inputs its steps look at, and is at a line there is.
WellFormed(j) ==
  /\ j.order \in Orders => order[j.order].status # "none" /\ j.line \in DOMAIN LinesOf(j.order)
  /\ j.order = NoOrder /\ j.session \in Sessions => j.line \in DOMAIN Lines[j.session]
  /\ j.step \in {"validate", "create"} => j.session \in Sessions /\ j.order = NoOrder
  /\ j.step = "create" => j.line = 1
  /\ j.step \notin {"idle", "validate", "create"} => j.order \in Orders
  /\ j.step \in {"save", "redeem", "saveRedeem", "commit"} => j.session \in Sessions
  /\ j.step \in {"readStock", "saveStock", "saveRelease"} => j.location \in Locations
  /\ j.step \in {"readStock", "saveStock"} => j.quantity # 0

\* What was read is the row, or an earlier version of it.
Fresh(read, row) ==
  read.version <= row.version /\ (read.version = row.version => read = row)

StockRead(j) ==
  /\ j.step \in {"saveStock", "saveRelease"} => Fresh(j.read, stock[Place(j)])
  /\ j.step = "saveStock" => CanReserve(j.read, j.quantity)

CouponRead(j) ==
  j.step = "saveRedeem" =>
    /\ Fresh(j.redeeming, coupon)
    /\ ~HasRedemption(j.redeeming, j.order)
    /\ CanRedeem(j.redeeming, CustomerOf[j.session])

\* A completion that has written the session and not committed.
Locking(j) == j.step \in {"redeem", "saveRedeem", "commit"}

\* A session a job read is still open, or has been written since.
SessionRead(j) ==
  /\ j.session \in Sessions =>
       /\ j.version <= session[j.session].version
       /\ j.version = session[j.session].version => session[j.session].state \in Open
  /\ Locking(j) => j.version = session[j.session].version

\* At one of these locations the order has a reservation for the line's variant; for
\* its first line, one that covers the line.
LineHeld(o, k, locations) ==
  LinesOf(o)[k].product \in Deny =>
    \E l \in locations : \E h \in HoldsFor(stock[<<LinesOf(o)[k].product, l>>], o) :
      FirstLine(o, k) => h.quantity >= LinesOf(o)[k].quantity

\* The order holds what it has to, unless its stock is being given back.
Secured(o) == o \in givenBack \/ \A k \in DOMAIN LinesOf(o) : LineHeld(o, k, Locations)

\* A reservation this job may release is one of its order.
Own(j, l, id) ==
  LET item == stock[<<Line(j).product, l>>]
  IN  id < item.version /\ \A h \in item.holds : h.id = id => h.reference = j.order

\* What a job has reserved so far is held at the locations it looks at, so that it
\* reserves only the first line of a variant, unless the order's stock is being given
\* back; and only such an order's reservations are released.
Reserving(j) ==
  /\ j.step \in {"reserve", "readStock", "saveStock"} =>
       j.order \in givenBack \/ \A k \in 1..(j.line - 1) : LineHeld(j.order, k, j.locations)
  /\ j.step \in {"save", "redeem", "saveRedeem", "commit", "settle"} => Secured(j.order)
  /\ j.step \in {"readStock", "saveStock"} =>
       /\ j.location \in j.locations
       /\ Line(j).product \in Deny =>
            /\ j.quantity >= Line(j).quantity
            /\ j.order \in givenBack \/ FirstLine(j.order, j.line)
  /\ j.step \in {"scan", "release", "saveRelease", "cancel"} => j.order \in givenBack
  /\ j.step \in {"release", "saveRelease"} => \A t \in j.todo : Own(j, t[1], t[2])
  /\ j.step = "saveRelease" => <<j.location, j.quantity>> \in j.todo

Good(j) ==
  /\ WellFormed(j) /\ StockRead(j) /\ CouponRead(j) /\ SessionRead(j) /\ Reserving(j)

\* One completion at a time has written a session.
Locks ==
  \A v, w \in Workers :
    Locking(job[v]) /\ Locking(job[w]) /\ job[v].session = job[w].session => v = w

Inv ==
  /\ TypeOK /\ OrdersOK /\ CouponOK(coupon) /\ Locks
  /\ \A at \in Places : ItemOK(stock[at])
  /\ HoldsOK /\ \A o \in Orders : Promised(o) => Secured(o)
  /\ \A w \in Workers : Good(job[w])

-----------------------------------------------------------------------------
(* What any step does to the rows. *)

\* A stock row is as it was, or one version further; a new reservation has the id of
\* the version left behind, and one that is gone was of an order whose stock is
\* being given back, or of none.  A step of a job leaves what is on hand.
StockEvolves(at) ==
  /\ \/ stock'[at] = stock[at]
     \/ stock'[at].version = stock[at].version + 1 /\ ItemOK(stock'[at])
  /\ \A h \in stock'[at].holds :
       h \in stock[at].holds \/ (h.id = stock[at].version /\ HoldOK(at[1], h)')
  /\ \A h \in stock[at].holds :
       h \in stock'[at].holds \/ (h.reference \in Orders => h.reference \in givenBack')
  /\ job' # job => stock'[at].onHand = stock[at].onHand

\* An order that exists keeps its session, only an open session is written, and the
\* code's redemptions stay.
Evolves ==
  /\ \A at \in Places : StockEvolves(at)
  /\ \A o \in Orders : order[o].status # "none" =>
       order'[o].status # "none" /\ order'[o].session = order[o].session
  /\ \A s \in Sessions :
       \/ session'[s] = session[s]
       \/ session'[s].version = session[s].version + 1 /\ session[s].state \in Open
  /\ coupon' = coupon \/ coupon'.version = coupon.version + 1
  /\ coupon.redemptions \subseteq coupon'.redemptions
  /\ givenBack \subseteq givenBack'

\* The lines of sessions are numbered from one, and name products and quantities.
LEMMA LineTypes ==
  /\ \A s \in Sessions :
       /\ DOMAIN Lines[s] = 1..Len(Lines[s]) /\ Len(Lines[s]) \in Nat /\ 1 \in DOMAIN Lines[s]
       /\ \A k \in DOMAIN Lines[s] :
            Lines[s][k].product \in Products /\ Lines[s][k].quantity \in Nat \ {0}
<1> SUFFICES ASSUME NEW s \in Sessions
             PROVE  /\ DOMAIN Lines[s] = 1..Len(Lines[s]) /\ Len(Lines[s]) \in Nat
                    /\ 1 \in DOMAIN Lines[s]
                    /\ \A k \in DOMAIN Lines[s] :
                         Lines[s][k].product \in Products /\ Lines[s][k].quantity \in Nat \ {0}
  OBVIOUS
<1>1. Lines[s] \in Seq([product: Products, quantity: Nat \ {0}]) /\ Lines[s] # <<>>
  BY PlacementAssumption
<1>2. DOMAIN Lines[s] = 1..Len(Lines[s]) /\ Len(Lines[s]) \in Nat /\ Len(Lines[s]) # 0
  BY <1>1
<1>3. \A k \in DOMAIN Lines[s] : Lines[s][k] \in [product: Products, quantity: Nat \ {0}]
  <2>1. ASSUME NEW S, NEW q \in Seq(S), NEW k \in DOMAIN q PROVE q[k] \in S
    OBVIOUS
  <2>2. QED
    BY <1>1, <2>1
<1>4. QED
  BY <1>2, <1>3

\* What the line a job is at is, and that it is somewhere.
LEMMA JobLine ==
  ASSUME Inv, NEW j \in Job, WellFormed(j), j.step # "idle"
  PROVE  /\ Line(j).product \in Products /\ Line(j).quantity \in Nat \ {0}
         /\ j.line \in Nat \ {0} /\ j.quantity \in Nat
         /\ j.location \in Locations => Place(j) \in Places
         /\ j.order \in Orders => /\ Line(j) = LinesOf(j.order)[j.line]
                                  /\ order[j.order].session \in Sessions
                                  /\ LastLine(j) = (j.line = Len(LinesOf(j.order)))
                                  /\ DOMAIN LinesOf(j.order) = 1..Len(LinesOf(j.order))
                                  /\ Len(LinesOf(j.order)) \in Nat
         /\ j.order \notin Orders => /\ Line(j) = Lines[j.session][j.line]
                                     /\ j.session \in Sessions
                                     /\ LastLine(j) = (j.line = Len(Lines[j.session]))
<1>1. j.line \in Nat \ {0} /\ j.order \in Orders \cup {NoOrder} /\ NoOrder \notin Orders /\ j.quantity \in Nat
  BY PlacementAssumption DEF Job
<1>2. CASE j.order \in Orders
  <2>1. order[j.order].session \in Sessions /\ j.line \in DOMAIN LinesOf(j.order)
    BY <1>2 DEF Inv, OrdersOK, WellFormed
  <2>2. Line(j) = LinesOf(j.order)[j.line]
    BY <1>1, <1>2 DEF Line
  <2>3. Line(j).product \in Products /\ Line(j).quantity \in Nat \ {0}
    BY <2>1, <2>2, LineTypes DEF LinesOf
  <2>4. /\ LastLine(j) = (j.line = Len(LinesOf(j.order))) /\ Len(LinesOf(j.order)) \in Nat
        /\ DOMAIN LinesOf(j.order) = 1..Len(LinesOf(j.order))
    BY <1>1, <1>2, <2>1, LineTypes DEF LastLine, LinesOf
  <2>5. QED
    BY <1>1, <1>2, <2>1, <2>2, <2>3, <2>4 DEF Place, Places
<1>3. CASE j.order \notin Orders
  <2>1. j.order = NoOrder /\ j.session \in Sessions /\ j.line \in DOMAIN Lines[j.session]
    BY <1>1, <1>3 DEF WellFormed
  <2>2. Line(j) = Lines[j.session][j.line] /\ LastLine(j) = (j.line = Len(Lines[j.session]))
    BY <2>1 DEF Line, LastLine
  <2>3. QED
    BY <1>1, <1>3, <2>1, <2>2, LineTypes DEF Place, Places
<1>4. QED
  BY <1>2, <1>3

\* The type invariant, row by row.
LEMMA RowTypes ==
  ASSUME TypeOK
  PROVE  /\ \A at \in Places :
              /\ stock[at] \in Item /\ stock[at].version \in Nat /\ stock[at].onHand \in Nat
              /\ stock[at].reserved \in Nat /\ stock[at].holds \subseteq Hold
              /\ \A h \in stock[at].holds : h.id \in Nat /\ h.quantity \in Nat \ {0}
         /\ \A o \in Orders : order[o].status \in OrderStatuses
         /\ \A s \in Sessions : session[s].version \in Nat
         /\ \A w \in Workers :
              /\ job[w] \in Job /\ job[w].read \in Item /\ job[w].read.version \in Nat
              /\ job[w].redeeming \in CouponRow /\ job[w].redeeming.version \in Nat
         /\ coupon \in CouponRow /\ coupon.version \in Nat
<1>1. /\ \A at \in Places : stock[at] \in Item
      /\ \A o \in Orders : order[o].status \in OrderStatuses
      /\ \A s \in Sessions : session[s].version \in Nat
      /\ \A w \in Workers : job[w] \in Job
      /\ coupon \in CouponRow
  BY DEF TypeOK
<1>2. \A w \in Workers : job[w].read \in Item /\ job[w].redeeming \in CouponRow
  BY <1>1 DEF Job
<1>3. \A i \in Item : /\ i.version \in Nat /\ i.onHand \in Nat /\ i.reserved \in Nat
                      /\ i.holds \subseteq Hold
                      /\ \A h \in i.holds : h.id \in Nat /\ h.quantity \in Nat \ {0}
  BY DEF Item, Hold
<1>4. \A c \in CouponRow : c.version \in Nat
  BY DEF CouponRow
<1>5. QED
  BY <1>1, <1>2, <1>3, <1>4

\* What was read stays the row or an earlier version of it.
LEMMA FreshStays ==
  ASSUME NEW read, NEW row, NEW new, Fresh(read, row), read.version \in Nat, row.version \in Nat,
         new = row \/ new.version = row.version + 1
  PROVE  Fresh(read, new)
BY DEF Fresh

-----------------------------------------------------------------------------
(* What is said of a job survives every step of the others. *)

\* The lines of an order that exists stay, and so does the line a job is at.
LEMMA LineStays ==
  ASSUME Inv, Evolves, NEW j \in Job, WellFormed(j), j.step # "idle"
  PROVE  /\ Line(j)' = Line(j) /\ Place(j)' = Place(j)
         /\ j.order \in Orders => LinesOf(j.order)' = LinesOf(j.order)
<1>1. j.order \in Orders =>
        order'[j.order].session = order[j.order].session /\ order'[j.order].status # "none"
  BY DEF Evolves, WellFormed
<1>2. j.order \in Orders => LinesOf(j.order)' = LinesOf(j.order)
  BY <1>1 DEF LinesOf
<1>3. Line(j)' = Line(j)
  BY <1>2 DEF Line, Job
<1>4. QED
  BY <1>2, <1>3 DEF Place

\* A job stays well-formed: its order and its lines are still there.
LEMMA WellFormedStays ==
  ASSUME Inv, Evolves, NEW j \in Job, WellFormed(j)
  PROVE  WellFormed(j)'
<1>1. j.order \in Orders =>
        /\ order'[j.order].session = order[j.order].session /\ order'[j.order].status # "none"
        /\ LinesOf(j.order)' = LinesOf(j.order)
  BY DEF Evolves, WellFormed, LinesOf
<1>2. QED
  BY <1>1 DEF WellFormed

\* A line that is held stays held, or the order's stock is being given back.
LEMMA LineHeldStays ==
  ASSUME Evolves, NEW o \in Orders, order[o].status # "none", order[o].session \in Sessions,
         NEW locations \in SUBSET Locations,
         NEW k \in DOMAIN LinesOf(o), LineHeld(o, k, locations)
  PROVE  LineHeld(o, k, locations)' \/ o \in givenBack'
<1>1. LinesOf(o)' = LinesOf(o) /\ (FirstLine(o, k)' <=> FirstLine(o, k))
  BY DEF Evolves, LinesOf, FirstLine
<1> DEFINE line == LinesOf(o)[k]
<1>2. CASE line.product \notin Deny
  BY <1>1, <1>2 DEF LineHeld
<1>3. CASE line.product \in Deny
  <2>1. PICK l \in locations : \E h \in HoldsFor(stock[<<line.product, l>>], o) :
          FirstLine(o, k) => h.quantity >= line.quantity
    BY <1>3 DEF LineHeld
  <2>2. PICK h \in stock[<<line.product, l>>].holds :
          h.reference = o /\ (FirstLine(o, k) => h.quantity >= line.quantity)
    BY <2>1 DEF HoldsFor
  <2>3. <<line.product, l>> \in Places
    BY LineTypes DEF LinesOf, Places
  <2>4. h \in stock'[<<line.product, l>>].holds \/ o \in givenBack'
    BY <2>2, <2>3 DEF Evolves, StockEvolves
  <2>5. CASE h \in stock'[<<line.product, l>>].holds
    <3>1. h \in HoldsFor(stock'[<<line.product, l>>], o)
      BY <2>2, <2>5 DEF HoldsFor
    <3>2. QED
      BY <1>1, <2>2, <3>1 DEF LineHeld, HoldsFor
  <2>6. QED
    BY <2>4, <2>5
<1>4. QED
  BY <1>2, <1>3

\* An order that is secured stays secured.
LEMMA SecuredStays ==
  ASSUME Inv, Evolves, NEW o \in Orders, order[o].status # "none", Secured(o)
  PROVE  Secured(o)'
<1>1. LinesOf(o)' = LinesOf(o) /\ order[o].session \in Sessions
  BY DEF Evolves, LinesOf, Inv, OrdersOK
<1>2. QED
  BY <1>1, LineHeldStays DEF Secured, Evolves

\* What a job has reserved stays held, and what it may release stays its own.
LEMMA ReservingStays ==
  ASSUME Inv, Evolves, NEW j \in Job, WellFormed(j), Reserving(j)
  PROVE  Reserving(j)'
<1>1. CASE j.step \in {"idle", "validate", "create"}
  BY <1>1 DEF Reserving
<1>2. CASE j.step \notin {"idle", "validate", "create"}
  <2>1. /\ j.order \in Orders /\ order[j.order].status # "none"
        /\ j.line \in DOMAIN LinesOf(j.order)
    BY <1>2 DEF WellFormed
  <2>2. /\ Line(j)' = Line(j) /\ LinesOf(j.order)' = LinesOf(j.order)
        /\ order[j.order].session \in Sessions /\ Line(j).product \in Products
        /\ j.line \in Nat \ {0} /\ Len(LinesOf(j.order)) \in Nat
        /\ DOMAIN LinesOf(j.order) = 1..Len(LinesOf(j.order))
    BY <1>2, <2>1, LineStays, JobLine
  <2>3. givenBack \subseteq givenBack'
    BY DEF Evolves
  <2>4. (j.order \in givenBack \/ \A k \in 1..(j.line - 1) : LineHeld(j.order, k, j.locations)) =>
          j.order \in givenBack' \/ \A k \in 1..(j.line - 1) : LineHeld(j.order, k, j.locations)'
    <3>1. 1..(j.line - 1) \subseteq DOMAIN LinesOf(j.order) /\ j.locations \in SUBSET Locations
      BY <2>1, <2>2 DEF Job
    <3>2. QED
      BY <2>1, <2>2, <2>3, <3>1, LineHeldStays
  <2>5. Secured(j.order) => Secured(j.order)'
    BY <2>1, SecuredStays
  <2>6. ASSUME NEW l \in Locations, NEW id \in Nat, Own(j, l, id) PROVE Own(j, l, id)'
    <3> DEFINE at == <<Line(j).product, l>>
    <3>1. at \in Places
      BY <2>2 DEF Places
    <3>2. StockEvolves(at) /\ stock[at].version \in Nat
      BY <3>1, RowTypes DEF Evolves, Inv
    <3>3. id < stock[at].version /\ \A h \in stock[at].holds : h.id = id => h.reference = j.order
      BY <2>6 DEF Own
    <3> HIDE DEF at
    <3>4. id < stock'[at].version /\ \A h \in stock'[at].holds : h.id = id => h.reference = j.order
      BY <3>2, <3>3 DEF StockEvolves
    <3>5. QED
      BY <2>2, <3>4 DEF Own, at
  <2>7. j.todo \subseteq Locations \X Nat
    BY DEF Job
  <2>8. \A t \in j.todo : t[1] \in Locations /\ t[2] \in Nat
    BY <2>7
  <2>9. (\A t \in j.todo : Own(j, t[1], t[2])) => \A t \in j.todo : Own(j, t[1], t[2])'
    BY <2>6, <2>8
  <2>10. FirstLine(j.order, j.line)' <=> FirstLine(j.order, j.line)
    BY <2>2 DEF FirstLine
  <2>11. QED
    BY <2>2, <2>3, <2>4, <2>5, <2>9, <2>10 DEF Reserving
<1>3. QED
  BY <1>1, <1>2

\* Whatever is said of a job stays true, as long as a completion that has written its
\* session is let alone.
LEMMA GoodStays ==
  ASSUME Inv, Evolves, NEW j \in Job, Good(j),
         Locking(j) => session'[j.session] = session[j.session]
  PROVE  Good(j)'
<1>1. WellFormed(j) /\ WellFormed(j)'
  BY WellFormedStays DEF Good
<1>2. j.read.version \in Nat /\ j.redeeming.version \in Nat /\ j.version \in Nat
  BY DEF Job, Item, CouponRow
<1>3. StockRead(j)'
  <2>1. CASE j.step \in {"saveStock", "saveRelease"}
    <3>1. Place(j) \in Places /\ Place(j)' = Place(j)
      BY <1>1, <2>1, JobLine, LineStays DEF WellFormed
    <3>2. Fresh(j.read, stock[Place(j)]) /\ stock[Place(j)].version \in Nat
      BY <2>1, <3>1, RowTypes DEF Good, StockRead, Inv
    <3>3. Fresh(j.read, stock'[Place(j)])
      BY <1>2, <3>1, <3>2, FreshStays DEF Evolves, StockEvolves
    <3>4. QED
      BY <3>1, <3>3 DEF Good, StockRead, Fresh
  <2>2. QED
    BY <2>1 DEF StockRead
<1>4. CouponRead(j)'
  <2>1. coupon.version \in Nat
    BY RowTypes DEF Inv
  <2>2. CASE j.step = "saveRedeem"
    <3>1. Fresh(j.redeeming, coupon')
      BY <1>2, <2>1, <2>2, FreshStays DEF Good, CouponRead, Evolves
    <3>2. QED
      BY <3>1 DEF Good, CouponRead, Fresh
  <2>3. QED
    BY <2>2 DEF CouponRead
<1>5. SessionRead(j)'
  <2>1. Locking(j) => j.session \in Sessions
    BY <1>1 DEF Locking, WellFormed
  <2>2. CASE j.session \in Sessions
    BY <1>2, <2>1, <2>2, RowTypes DEF Good, SessionRead, Evolves, Inv
  <2>3. QED
    BY <2>1, <2>2 DEF SessionRead
<1>6. Reserving(j)'
  BY <1>1, ReservingStays DEF Good
<1>7. QED
  BY <1>1, <1>3, <1>4, <1>5, <1>6 DEF Good

-----------------------------------------------------------------------------
(* A step whose writes are of that kind keeps the invariant. *)

\* It does if the job it moves goes on well, if it lets the sessions other completions
\* have written alone, and if an order it promises is secured.
LEMMA StepInv ==
  ASSUME Inv, TypeOK', OrdersOK', CouponOK(coupon)', Locks', Evolves,
         \A v \in Workers :
           \/ Good(job[v])'
           \/ /\ job'[v] = job[v]
              /\ Locking(job[v]) => session'[job[v].session] = session[job[v].session],
         \A o \in Orders : Promised(o)' => Promised(o) \/ Secured(o)'
  PROVE  Inv'
<1>1. \A v \in Workers : Good(job[v])'
  <2>1. SUFFICES ASSUME NEW v \in Workers, job'[v] = job[v],
                        Locking(job[v]) => session'[job[v].session] = session[job[v].session]
                 PROVE  Good(job[v])'
    OBVIOUS
  <2>2. PICK j \in Job : j = job[v]
    BY RowTypes DEF Inv
  <2>3. Good(j) /\ (Locking(j) => session'[j.session] = session[j.session])
    BY <2>1, <2>2 DEF Inv
  <2>4. Good(j)'
    BY <2>3, GoodStays
  <2>5. QED
    BY <2>1, <2>2, <2>4
<1>2. \A at \in Places : ItemOK(stock[at])'
  <2>1. SUFFICES ASSUME NEW at \in Places PROVE ItemOK(stock'[at])
    BY DEF ItemOK, SoundItem, Held, Amounts
  <2>2. ItemOK(stock[at]) /\ StockEvolves(at)
    BY DEF Inv, Evolves
  <2>3. QED
    BY <2>2 DEF StockEvolves
<1>3. HoldsOK'
  <2>1. SUFFICES ASSUME NEW p \in Products, NEW l \in Locations,
                        NEW h \in stock'[<<p, l>>].holds
                 PROVE  HoldOK(p, h)'
    BY DEF HoldsOK
  <2>2. <<p, l>> \in Places /\ <<p, l>>[1] = p
    BY DEF Places
  <2>3. h \in stock[<<p, l>>].holds \/ HoldOK(p, h)'
    BY <2>1, <2>2 DEF Evolves, StockEvolves
  <2>4. CASE h \in stock[<<p, l>>].holds
    <3>1. HoldOK(p, h)
      BY <2>1, <2>4 DEF Inv, HoldsOK
    <3>2. QED
      BY <3>1 DEF HoldOK, LinesOf, FirstLine, Evolves
  <2>5. QED
    BY <2>3, <2>4
<1>4. \A o \in Orders : Promised(o)' => Secured(o)'
  <2>1. SUFFICES ASSUME NEW o \in Orders, Promised(o)' PROVE Secured(o)'
    OBVIOUS
  <2>2. CASE Promised(o)
    <3>1. Secured(o)
      BY <2>2 DEF Inv
    <3>2. order[o].status # "none"
      BY <2>2 DEF Inv, OrdersOK
    <3>3. QED
      BY <2>1, <3>1, <3>2, SecuredStays
  <2>3. QED
    BY <2>1, <2>2
<1>5. QED
  BY <1>1, <1>2, <1>3, <1>4 DEF Inv

\* Where no row of the stock is written, the stock evolves.
LEMMA StockKept ==
  ASSUME UNCHANGED stock
  PROVE  \A at \in Places : StockEvolves(at)
BY DEF StockEvolves

\* A step of one job that writes no row.
LEMMA QuietStep ==
  ASSUME Inv, NEW w \in Workers, NEW j \in Job, Goto(w, j), Good(j)',
         UNCHANGED <<stock, warehouse, order, session, coupon>>,
         givenBack \subseteq givenBack', givenBack' \subseteq Orders, events' \in Nat,
         Locking(j) => \/ Unlocked(j.session)
                       \/ Locking(job[w]) /\ job[w].session = j.session
  PROVE  Inv' /\ Evolves
<1>1. job \in [Workers -> Job]
  BY DEF Inv, TypeOK
<1>2. job'[w] = j /\ \A v \in Workers \ {w} : job'[v] = job[v]
  BY <1>1 DEF Goto
<1>3. TypeOK'
  BY <1>1 DEF Inv, TypeOK, Goto
<1>4. OrdersOK'
  BY DEF Inv, OrdersOK, Promised
<1>5. CouponOK(coupon)'
  BY DEF Inv, CouponOK
<1>6. Locks'
  <2>1. SUFFICES ASSUME NEW u \in Workers, NEW v \in Workers, u # v,
                        Locking(job'[u]), Locking(job'[v]), job'[u].session = job'[v].session
                 PROVE  FALSE
    BY DEF Locks, Locking
  <2>2. Locks
    BY DEF Inv
  <2>3. QED
    BY <1>2, <2>1, <2>2 DEF Locks, Locking, Unlocked
<1>7. Evolves
  BY StockKept DEF Evolves
<1>8. \A v \in Workers :
        \/ Good(job[v])'
        \/ job'[v] = job[v] /\ session' = session
  BY <1>2
<1>9. \A o \in Orders : Promised(o)' => Promised(o)
  BY DEF Promised
<1>10. QED
  BY <1>3, <1>4, <1>5, <1>6, <1>7, <1>8, <1>9, StepInv

-----------------------------------------------------------------------------
(* The operations on a stock row keep it sound. *)

\* Operations on the quantity on hand.
LEMMA QuantityOperations ==
  ASSUME NEW item \in Item, ItemOK(item), NEW onHand \in Nat, onHand >= item.reserved,
         NEW new \in Item, new.onHand = onHand, new.reserved = item.reserved,
         new.holds = item.holds, new.version = item.version + 1
  PROVE  ItemOK(new)
<1>1. Amounts(new) = Amounts(item) /\ Held(new) = Held(item)
  BY DEF Amounts, Held
<1>2. \A h \in item.holds : h.id \in Nat
  BY DEF Item, Hold
<1>3. item.version \in Nat
  BY DEF Item
<1>4. QED
  BY <1>1, <1>2, <1>3 DEF ItemOK, SoundItem, Item

\* A row that is saved is the same, one version further.
LEMMA SavedItem ==
  ASSUME NEW item \in Item
  PROVE  /\ Saved(item) \in Item /\ Saved(item).version = item.version + 1
         /\ Saved(item).onHand = item.onHand /\ Saved(item).reserved = item.reserved
         /\ Saved(item).holds = item.holds
BY DEF Saved, Item

\* ReceiveStock, AdjustInventory and the two ends of a transfer.
LEMMA OnHandWrites ==
  ASSUME NEW item \in Item, ItemOK(item), NEW q \in Nat
  PROVE  /\ Saved(Receive(item, q)) \in Item /\ ItemOK(Saved(Receive(item, q)))
         /\ Saved(Receive(item, q)).version = item.version + 1
         /\ Saved(Receive(item, q)).holds = item.holds
         /\ CanAdjust(item, q) =>
              /\ Saved(Adjust(item, q)) \in Item /\ ItemOK(Saved(Adjust(item, q)))
              /\ Saved(Adjust(item, q)).version = item.version + 1
              /\ Saved(Adjust(item, q)).holds = item.holds
         /\ CanRemove(item, q) =>
              /\ Saved(Remove(item, q)) \in Item /\ ItemOK(Saved(Remove(item, q)))
              /\ Saved(Remove(item, q)).version = item.version + 1
              /\ Saved(Remove(item, q)).holds = item.holds
<1>1. /\ item.onHand \in Nat /\ item.reserved \in Nat /\ item.version \in Nat
      /\ item.holds \in SUBSET Hold /\ item.reserved <= item.onHand
  BY DEF Item, ItemOK, SoundItem
<1>2. /\ Saved(Receive(item, q)) \in Item /\ Saved(Receive(item, q)).holds = item.holds
      /\ Saved(Receive(item, q)).version = item.version + 1
      /\ Saved(Receive(item, q)).reserved = item.reserved
      /\ Saved(Receive(item, q)).onHand = item.onHand + q
  <2>1. /\ Receive(item, q) \in Item /\ Receive(item, q).holds = item.holds
        /\ Receive(item, q).version = item.version
        /\ Receive(item, q).reserved = item.reserved /\ Receive(item, q).onHand = item.onHand + q
    BY <1>1 DEF Receive, Item
  <2>2. QED
    BY <2>1, SavedItem
<1>3. /\ Saved(Adjust(item, q)) \in Item /\ Saved(Adjust(item, q)).holds = item.holds
      /\ Saved(Adjust(item, q)).version = item.version + 1
      /\ Saved(Adjust(item, q)).reserved = item.reserved
      /\ Saved(Adjust(item, q)).onHand = q
  <2>1. /\ Adjust(item, q) \in Item /\ Adjust(item, q).holds = item.holds
        /\ Adjust(item, q).version = item.version
        /\ Adjust(item, q).reserved = item.reserved /\ Adjust(item, q).onHand = q
    BY <1>1 DEF Adjust, Item
  <2>2. QED
    BY <2>1, SavedItem
<1>4. ASSUME CanRemove(item, q)
      PROVE  /\ Saved(Remove(item, q)) \in Item /\ Saved(Remove(item, q)).holds = item.holds
             /\ Saved(Remove(item, q)).version = item.version + 1
             /\ Saved(Remove(item, q)).reserved = item.reserved
             /\ Saved(Remove(item, q)).onHand = item.onHand - q
             /\ item.onHand - q \in Nat /\ item.onHand - q >= item.reserved
  <2>1. item.onHand - q \in Nat /\ item.onHand - q >= item.reserved
    BY <1>1, <1>4 DEF CanRemove, Available
  <2>2. /\ Remove(item, q) \in Item /\ Remove(item, q).holds = item.holds
        /\ Remove(item, q).version = item.version
        /\ Remove(item, q).reserved = item.reserved /\ Remove(item, q).onHand = item.onHand - q
    BY <1>1, <2>1 DEF Remove, Item
  <2>3. QED
    BY <2>1, <2>2, SavedItem
<1>5. ItemOK(Saved(Receive(item, q)))
  BY <1>1, <1>2, QuantityOperations
<1>6. CanAdjust(item, q) => ItemOK(Saved(Adjust(item, q)))
  BY <1>1, <1>3, QuantityOperations DEF CanAdjust
<1>7. CanRemove(item, q) => ItemOK(Saved(Remove(item, q)))
  BY <1>1, <1>4, QuantityOperations
<1>8. QED
  BY <1>2, <1>3, <1>4, <1>5, <1>6, <1>7

\* A reservation within what is available.
LEMMA ReserveWrites ==
  ASSUME NEW item \in Item, ItemOK(item), NEW q \in Nat \ {0}, NEW reference \in References,
         CanReserve(item, q)
  PROVE  LET new == Saved(Reserve(item, q, reference))
             h == [id |-> item.version, reference |-> reference, quantity |-> q]
         IN  /\ new \in Item /\ ItemOK(new) /\ new.version = item.version + 1
             /\ new.onHand = item.onHand /\ new.holds = item.holds \cup {h}
<1> DEFINE new == Saved(Reserve(item, q, reference))
           h == [id |-> item.version, reference |-> reference, quantity |-> q]
<1>1. /\ item.onHand \in Nat /\ item.reserved \in Nat /\ item.version \in Nat
      /\ item.holds \in SUBSET Hold
  BY DEF Item
<1>2. h \in Hold /\ h.id = item.version /\ h.quantity = q
  BY <1>1 DEF Hold
<1>3. /\ new \in Item /\ new.version = item.version + 1 /\ new.onHand = item.onHand
      /\ new.holds = item.holds \cup {h} /\ new.reserved = item.reserved + q
  <2>1. /\ Reserve(item, q, reference) \in Item
        /\ Reserve(item, q, reference).version = item.version
        /\ Reserve(item, q, reference).onHand = item.onHand
        /\ Reserve(item, q, reference).holds = item.holds \cup {h}
        /\ Reserve(item, q, reference).reserved = item.reserved + q
    <3>1. PICK r \in Nat : r = item.reserved + q
      BY <1>1
    <3>2. PICK H \in SUBSET Hold : H = item.holds \cup {h}
      BY <1>1, <1>2
    <3>3. Reserve(item, q, reference) = [item EXCEPT !.reserved = r, !.holds = H]
      BY <3>1, <3>2 DEF Reserve
    <3> HIDE DEF h
    <3>4. QED
      BY <3>1, <3>2, <3>3 DEF Item
  <2>2. QED
    BY <2>1, SavedItem
<1> HIDE DEF new, h
<1>4. h \notin item.holds
  BY <1>1, <1>2 DEF ItemOK, Hold
<1>5. /\ IsFiniteSet(Units(Amounts(new))) /\ Total(Amounts(item)) \in Nat
      /\ Total(Amounts(new)) = Total(Amounts(item)) + q
  <2>1. /\ DOMAIN Amounts(new) = DOMAIN Amounts(item) \cup {h} /\ h \notin DOMAIN Amounts(item)
        /\ \A x \in DOMAIN Amounts(item) : Amounts(new)[x] = Amounts(item)[x]
        /\ Amounts(new)[h] = q
    BY <1>2, <1>3, <1>4 DEF Amounts
  <2>2. IsFiniteSet(Units(Amounts(item)))
    BY DEF ItemOK
  <2>3. QED
    BY <2>1, <2>2, TotalAdd
<1>6. SoundItem(new)
  BY <1>1, <1>3, <1>5 DEF ItemOK, SoundItem, Held, Amounts, CanReserve, Available
<1>7. \A g \in new.holds : g.id < new.version
  BY <1>1, <1>2, <1>3 DEF ItemOK, Hold
<1>8. ItemOK(new)
  <2>1. \A f, g \in new.holds : f.id = g.id => f = g
    BY <1>1, <1>2, <1>3 DEF ItemOK, Hold
  <2>2. QED
    BY <1>5, <1>6, <1>7, <2>1 DEF ItemOK
<1>9. QED
  BY <1>3, <1>8 DEF new, h

\* A reservation that is released or committed.
LEMMA HoldGone ==
  ASSUME NEW item \in Item, ItemOK(item), NEW h \in item.holds
  PROVE  /\ LET new == Saved(Release(item, h))
            IN  /\ new \in Item /\ ItemOK(new) /\ new.version = item.version + 1
                /\ new.onHand = item.onHand /\ new.holds = item.holds \ {h}
         /\ CanCommit(item, h) =>
              LET new == Saved(Commit(item, h))
              IN  /\ new \in Item /\ ItemOK(new) /\ new.version = item.version + 1
                  /\ new.holds = item.holds \ {h}
<1>1. /\ item.onHand \in Nat /\ item.reserved \in Nat /\ item.version \in Nat
      /\ item.holds \in SUBSET Hold /\ h.quantity \in Nat /\ item.holds \ {h} \in SUBSET Hold
  BY DEF Item, Hold
<1>2. h.quantity <= item.reserved /\ item.reserved <= item.onHand
  <2>1. IsFiniteSet(Units(Amounts(item))) /\ item.reserved = Total(Amounts(item))
    BY DEF ItemOK, SoundItem, Held, Amounts
  <2>2. h \in DOMAIN Amounts(item) /\ Amounts(item)[h] = h.quantity
    BY DEF Amounts
  <2>3. h.quantity <= Total(Amounts(item))
    BY <1>1, <2>1, <2>2, TotalCovers
  <2>4. QED
    BY <2>1, <2>3 DEF ItemOK, SoundItem
<1>3. ASSUME NEW new \in Item, new.holds = item.holds \ {h}, new.version = item.version + 1,
             new.reserved = item.reserved - h.quantity, new.reserved <= new.onHand
      PROVE  ItemOK(new)
  <2>1. /\ DOMAIN Amounts(item) = DOMAIN Amounts(new) \cup {h} /\ h \notin DOMAIN Amounts(new)
        /\ \A x \in DOMAIN Amounts(new) : Amounts(item)[x] = Amounts(new)[x]
        /\ Amounts(item)[h] = h.quantity
    BY <1>3 DEF Amounts
  <2>2. IsFiniteSet(Units(Amounts(item)))
    BY DEF ItemOK
  <2>3. /\ IsFiniteSet(Units(Amounts(new)))
        /\ Total(Amounts(new)) = Total(Amounts(item)) - h.quantity
    BY <1>1, <2>1, <2>2, TotalRemove
  <2>4. SoundItem(new)
    BY <1>3, <2>3 DEF ItemOK, SoundItem, Held, Amounts
  <2>5. \A g \in new.holds : g.id < new.version
    BY <1>1, <1>3 DEF ItemOK, Hold
  <2>6. \A f, g \in new.holds : f.id = g.id => f = g
    BY <1>3 DEF ItemOK
  <2>7. QED
    BY <2>3, <2>4, <2>5, <2>6 DEF ItemOK
<1>4. LET new == Saved(Release(item, h))
      IN  /\ new \in Item /\ new.version = item.version + 1 /\ new.onHand = item.onHand
          /\ new.holds = item.holds \ {h} /\ new.reserved = item.reserved - h.quantity
          /\ new.reserved <= new.onHand
  <2>1. /\ Release(item, h) \in Item /\ Release(item, h).version = item.version
        /\ Release(item, h).onHand = item.onHand /\ Release(item, h).holds = item.holds \ {h}
        /\ Release(item, h).reserved = item.reserved - h.quantity
    <3>1. PICK r \in Nat : r = item.reserved - h.quantity
      BY <1>1, <1>2
    <3>2. PICK H \in SUBSET Hold : H = item.holds \ {h}
      BY <1>1
    <3>3. (IF h.quantity > item.reserved THEN 0 ELSE item.reserved - h.quantity) = r
      BY <1>1, <1>2, <3>1
    <3>4. Release(item, h) = [item EXCEPT !.holds = H, !.reserved = r]
      BY <3>2, <3>3 DEF Release
    <3>5. QED
      BY <3>1, <3>2, <3>4 DEF Item
  <2>2. QED
    BY <1>1, <1>2, <2>1, SavedItem
<1>5. LET new == Saved(Commit(item, h))
      IN  /\ new \in Item /\ new.version = item.version + 1
          /\ new.holds = item.holds \ {h} /\ new.reserved = item.reserved - h.quantity
          /\ new.reserved <= new.onHand
  <2>1. /\ Commit(item, h) \in Item /\ Commit(item, h).version = item.version
        /\ Commit(item, h).onHand = item.onHand - h.quantity
        /\ Commit(item, h).holds = item.holds \ {h}
        /\ Commit(item, h).reserved = item.reserved - h.quantity
    <3>1. PICK r \in Nat : r = item.reserved - h.quantity
      BY <1>1, <1>2
    <3>2. PICK n \in Nat : n = item.onHand - h.quantity
      BY <1>1, <1>2
    <3>3. PICK H \in SUBSET Hold : H = item.holds \ {h}
      BY <1>1
    <3>4. Commit(item, h) = [item EXCEPT !.holds = H, !.onHand = n, !.reserved = r]
      BY <3>1, <3>2, <3>3 DEF Commit
    <3>5. QED
      BY <3>1, <3>2, <3>3, <3>4 DEF Item
  <2>2. QED
    BY <1>1, <1>2, <2>1, SavedItem
<1>6. QED
  BY <1>3, <1>4, <1>5

-----------------------------------------------------------------------------
(* Steps by what they write. *)

\* A write of one stock row.
LEMMA StockWritten ==
  ASSUME Inv, NEW at \in Places, NEW new \in Item,
         stock' = [stock EXCEPT ![at] = new],
         new.version = stock[at].version + 1, ItemOK(new),
         \A h \in new.holds :
           h \in stock[at].holds \/ (h.id = stock[at].version /\ HoldOK(at[1], h)'),
         \A h \in stock[at].holds :
           h \in new.holds \/ (h.reference \in Orders => h.reference \in givenBack'),
         job' # job => new.onHand = stock[at].onHand
  PROVE  stock' \in [Places -> Item] /\ \A a \in Places : StockEvolves(a)
<1>1. stock \in [Places -> Item]
  BY DEF Inv, TypeOK
<1>2. stock' \in [Places -> Item] /\ stock'[at] = new
  BY <1>1
<1>3. \A a \in Places \ {at} : stock'[a] = stock[a]
  BY <1>1
<1>4. StockEvolves(at)
  BY <1>2 DEF StockEvolves
<1>5. \A a \in Places \ {at} : StockEvolves(a)
  BY <1>3 DEF StockEvolves
<1>6. QED
  BY <1>2, <1>4, <1>5

\* A step beside the jobs.
LEMMA BesideStep ==
  ASSUME Inv, UNCHANGED job, TypeOK', CouponOK(coupon)', Evolves,
         \A o \in Orders : order'[o].fulfillment = order[o].fulfillment,
         \A o \in Orders : order[o].status = "none" => order'[o].status = "none",
         \A s \in Sessions :
           /\ session'[s] = session[s] \/ Unlocked(s)
           /\ session'[s].orderRef = session[s].orderRef
  PROVE  Inv'
<1>1. \A o \in Orders : Promised(o)' => Promised(o)
  BY DEF Promised
<1>2. OrdersOK'
  BY <1>1 DEF Inv, OrdersOK, Evolves, TypeOK
<1>3. Locks'
  BY DEF Inv, Locks, Locking
<1>4. ASSUME NEW v \in Workers, Locking(job[v])
      PROVE  session'[job[v].session] = session[job[v].session]
  <2>1. job[v].session \in Sessions
    BY <1>4 DEF Inv, Good, WellFormed, Locking
  <2>2. ~Unlocked(job[v].session)
    BY <1>4 DEF Unlocked, Locking
  <2>3. QED
    BY <2>1, <2>2
<1>5. QED
  BY <1>1, <1>2, <1>3, <1>4, StepInv

\* Staff write a stock row.
LEMMA StaffStock ==
  ASSUME Inv, NEW at \in Places, NEW new, StockOperation(at, new),
         givenBack \subseteq givenBack', givenBack' \subseteq Orders,
         Saved(new) \in Item, Saved(new).version = stock[at].version + 1, ItemOK(Saved(new)),
         \A h \in Saved(new).holds :
           h \in stock[at].holds \/ (h.id = stock[at].version /\ h.reference \notin Orders),
         \A h \in stock[at].holds :
           h \in Saved(new).holds \/ (h.reference \in Orders => h.reference \in givenBack')
  PROVE  Inv' /\ Evolves
<1>1. UNCHANGED <<warehouse, order, session, coupon, job>> /\ events' = events + 1
      /\ stock' = [stock EXCEPT ![at] = Saved(new)]
  BY DEF StockOperation, Event
<1>2. PICK row \in Item : row = Saved(new)
  OBVIOUS
<1>3. stock' \in [Places -> Item] /\ \A a \in Places : StockEvolves(a)
  <2>1. \A h \in row.holds :
          h \in stock[at].holds \/ (h.id = stock[at].version /\ HoldOK(at[1], h)')
    BY <1>2 DEF HoldOK
  <2>2. QED
    BY <1>1, <1>2, <2>1, StockWritten
<1>4. TypeOK'
  BY <1>1, <1>3 DEF Inv, TypeOK
<1>5. Evolves
  BY <1>1, <1>3 DEF Evolves
<1>6. CouponOK(coupon)'
  BY <1>1 DEF Inv, CouponOK
<1>7. QED
  BY <1>1, <1>4, <1>5, <1>6, BesideStep

\* A worker that is done.
LEMMA IdleGood == Idle \in Job /\ Good(Idle)' /\ ~Locking(Idle)
<1>1. NoRead \in CouponRow
  <2>1. PICK n \in UsageLimits : n = (CHOOSE m \in UsageLimits : TRUE)
    BY PlacementAssumption
  <2>2. NewCoupon(n) \in CouponRow
    BY DEF NewCoupon, CouponRow, CouponStatuses, CouponTransitions
  <2>3. QED
    BY <2>1, <2>2 DEF NoRead
<1>2. NoItem \in Item
  BY DEF NoItem, Item
<1>3. Idle \in Job
  BY <1>1, <1>2 DEF Idle, Job
<1>4. /\ Idle.step = "idle" /\ Idle.session = NoSession /\ Idle.order = NoOrder
      /\ NoSession \notin Sessions /\ NoOrder \notin Orders
  BY PlacementAssumption DEF Idle
<1>5. /\ WellFormed(Idle)' /\ StockRead(Idle)' /\ CouponRead(Idle)' /\ SessionRead(Idle)'
      /\ Reserving(Idle)' /\ ~Locking(Idle)
  BY <1>4 DEF WellFormed, StockRead, CouponRead, SessionRead, Reserving, Locking
<1>6. QED
  BY <1>3, <1>5 DEF Good

-----------------------------------------------------------------------------
(* The operations on the code keep it in order. *)

\* A coupon that is saved is the same, one version further.
LEMMA SavedCouponRow ==
  ASSUME NEW c \in CouponRow
  PROVE  /\ SavedCoupon(c) \in CouponRow /\ SavedCoupon(c).version = c.version + 1
         /\ SavedCoupon(c).status = c.status /\ SavedCoupon(c).limit = c.limit
         /\ SavedCoupon(c).peak = c.peak /\ SavedCoupon(c).count = c.count
         /\ SavedCoupon(c).redemptions = c.redemptions
BY DEF SavedCoupon, CouponRow

\* What a write of the code has to show.
CouponWrite(c, new) ==
  /\ new \in CouponRow /\ CouponOK(new) /\ new.version = c.version + 1
  /\ c.redemptions \subseteq new.redemptions

\* A redemption that the code allows, under a new key.
LEMMA RedeemWrites ==
  ASSUME NEW c \in CouponRow, CouponOK(c), NEW key \in Keys, NEW customer \in Customers,
         ~HasRedemption(c, key), CanRedeem(c, customer)
  PROVE  CouponWrite(c, SavedCoupon(Redeem(c, key, customer)))
<1> DEFINE r == [key |-> key, customer |-> customer]
           new == Redeem(c, key, customer)
<1>1. /\ c.count \in Nat /\ c.limit \in Nat /\ c.peak \in Nat /\ c.version \in Nat
      /\ c.redemptions \in SUBSET [key: Keys, customer: Customers] /\ c.status = "active"
  BY CouponAssumption DEF CouponRow, CanRedeem
<1>2. r \in [key: Keys, customer: Customers] /\ r.key = key /\ r.customer = customer
  OBVIOUS
<1>3. PICK st \in CouponStatuses : /\ st = IF c.count + 1 >= c.limit THEN "depleted" ELSE c.status
  BY <1>1 DEF CouponStatuses, CouponTransitions
<1>4. PICK R \in SUBSET [key: Keys, customer: Customers] : R = c.redemptions \cup {r}
  BY <1>1, <1>2
<1>5. PICK n \in Nat : n = c.count + 1
  BY <1>1
<1>6. new = [c EXCEPT !.redemptions = R, !.count = n, !.status = st]
  BY <1>3, <1>4, <1>5 DEF Redeem
<1> HIDE DEF r, new
<1>7. /\ new \in CouponRow /\ new.redemptions = R /\ new.count = n /\ new.status = st
      /\ new.limit = c.limit /\ new.peak = c.peak /\ new.version = c.version
  BY <1>6 DEF CouponRow
<1>8. /\ SavedCoupon(new) \in CouponRow /\ SavedCoupon(new).version = c.version + 1
      /\ SavedCoupon(new).redemptions = R /\ SavedCoupon(new).count = n
      /\ SavedCoupon(new).status = st
      /\ SavedCoupon(new).limit = c.limit /\ SavedCoupon(new).peak = c.peak
  BY <1>7, SavedCouponRow
<1>9. r \notin c.redemptions
  BY <1>2 DEF HasRedemption
<1>10. IsFiniteSet(R) /\ Cardinality(R) = Cardinality(c.redemptions) + 1
  <2>1. IsFiniteSet(c.redemptions)
    BY DEF CouponOK
  <2>2. QED
    BY <1>4, <1>9, <2>1, FS_AddElement
<1>11. n <= c.peak /\ (st \in {"active", "disabled"} => n < c.peak)
  BY <1>1, <1>3, <1>5 DEF CouponOK
<1>12. \A p, q \in R : p.key = q.key \/ (~MultiUse /\ p.customer = q.customer) => p = q
  <2>1. \A q \in c.redemptions : q.key # key /\ (~MultiUse => q.customer # customer)
    BY DEF HasRedemption, CanRedeem, UsedBy
  <2>2. \A p, q \in c.redemptions :
          p.key = q.key \/ (~MultiUse /\ p.customer = q.customer) => p = q
    BY DEF CouponOK
  <2>3. QED
    BY <1>2, <1>4, <2>1, <2>2
<1>13. CouponOK(SavedCoupon(new))
  <2>1. c.count = Cardinality(c.redemptions) /\ c.limit <= c.peak
    BY DEF CouponOK
  <2>2. QED
    BY <1>5, <1>8, <1>10, <1>11, <1>12, <2>1 DEF CouponOK
<1>14. QED
  BY <1>4, <1>8, <1>13 DEF CouponWrite, new

\* A move of the code's status.
LEMMA StatusWrites ==
  ASSUME NEW c \in CouponRow, CouponOK(c), NEW to \in CouponTransitions[c.status]
  PROVE  CouponWrite(c, SavedCoupon([c EXCEPT !.status = to]))
<1>1. to \in CouponStatuses /\ c.status \in {"active", "disabled"}
  BY DEF CouponRow, CouponStatuses, CouponTransitions
<1>2. PICK new \in CouponRow : new = [c EXCEPT !.status = to]
  BY <1>1 DEF CouponRow
<1>3. /\ new.redemptions = c.redemptions /\ new.count = c.count /\ new.limit = c.limit
      /\ new.peak = c.peak /\ new.version = c.version
  BY <1>2 DEF CouponRow
<1>4. QED
  BY <1>1, <1>2, <1>3, SavedCouponRow DEF CouponWrite, CouponOK

\* A change of the code's limit.
LEMMA LimitWrites ==
  ASSUME NEW c \in CouponRow, CouponOK(c), NEW limit \in UsageLimits
  PROVE  CouponWrite(c, SavedCoupon(Reconfigure(c, limit)))
<1>1. c.peak \in Nat /\ limit \in Nat /\ c.count \in Nat
  BY CouponAssumption DEF CouponRow
<1>2. PICK peak \in UsageLimits : /\ peak = IF limit > c.peak THEN limit ELSE c.peak
  BY DEF CouponRow
<1>3. Reconfigure(c, limit) = [c EXCEPT !.limit = limit, !.peak = peak]
  BY <1>2 DEF Reconfigure
<1>4. PICK new \in CouponRow : new = [c EXCEPT !.limit = limit, !.peak = peak]
  BY DEF CouponRow
<1>5. /\ new.redemptions = c.redemptions /\ new.count = c.count /\ new.limit = limit
      /\ new.peak = peak /\ new.version = c.version /\ new.status = c.status
  BY <1>4 DEF CouponRow
<1>6. limit <= peak /\ c.peak <= peak /\ peak \in Nat
  BY <1>1, <1>2
<1>7. /\ SavedCoupon(new) \in CouponRow /\ SavedCoupon(new).version = c.version + 1
      /\ SavedCoupon(new).redemptions = c.redemptions /\ SavedCoupon(new).count = c.count
      /\ SavedCoupon(new).status = c.status
      /\ SavedCoupon(new).limit = limit /\ SavedCoupon(new).peak = peak
  BY <1>5, SavedCouponRow
<1>8. c.count <= peak /\ (c.status \in {"active", "disabled"} => c.count < peak)
  BY <1>1, <1>6 DEF CouponOK
<1>9. CouponOK(SavedCoupon(new))
  BY <1>6, <1>7, <1>8 DEF CouponOK
<1>10. QED
  BY <1>3, <1>4, <1>7, <1>9 DEF CouponWrite

-----------------------------------------------------------------------------
(* What staff and shoppers do. *)

\* Staff write the code.
LEMMA CouponStep ==
  ASSUME Inv, NEW new, CouponOperation(new), CouponWrite(coupon, SavedCoupon(new))
  PROVE  Inv' /\ Evolves
<1>1. /\ UNCHANGED <<stock, warehouse, order, session, job, givenBack>>
      /\ events' = events + 1 /\ CouponWrite(coupon, coupon')
  BY DEF CouponOperation, Event
<1>2. TypeOK'
  BY <1>1 DEF Inv, TypeOK, CouponWrite
<1>3. CouponOK(coupon)'
  BY <1>1 DEF CouponWrite, CouponOK
<1>4. Evolves
  BY <1>1, StockKept DEF Evolves, CouponWrite
<1>5. QED
  BY <1>1, <1>2, <1>3, <1>4, BesideStep

\* The staff's operations on the code.
LEMMA CouponActions ==
  ASSUME Inv,
         \/ \E to \in CouponStatuses : AdvanceCoupon(to)
         \/ \E n \in UsageLimits : ReconfigureCoupon(n)
         \/ \E k \in Keys \ Orders, c \in Customers : RedeemByHand(k, c)
  PROVE  Inv' /\ Evolves
<1>1. coupon \in CouponRow /\ CouponOK(coupon)
  BY DEF Inv, TypeOK
<1>2. ASSUME NEW to \in CouponStatuses, AdvanceCoupon(to) PROVE Inv' /\ Evolves
  BY <1>1, <1>2, StatusWrites, CouponStep DEF AdvanceCoupon
<1>3. ASSUME NEW n \in UsageLimits, ReconfigureCoupon(n) PROVE Inv' /\ Evolves
  BY <1>1, <1>3, LimitWrites, CouponStep DEF ReconfigureCoupon
<1>4. ASSUME NEW k \in Keys \ Orders, NEW c \in Customers, RedeemByHand(k, c) PROVE Inv' /\ Evolves
  BY <1>1, <1>4, RedeemWrites, CouponStep DEF RedeemByHand
<1>5. QED
  BY <1>2, <1>3, <1>4

\* The staff's operations on a stock row.
LEMMA StockActions ==
  ASSUME Inv, NEW at \in Places,
         \/ \E q \in Quantities : ReceiveStock(at, q) \/ AdjustInventory(at, q)
         \/ \E q \in Quantities, r \in References \ Orders : ReserveByHand(at, q, r)
         \/ ReleaseByHand(at) \/ CommitByHand(at)
  PROVE  Inv' /\ Evolves
<1>1. stock[at] \in Item /\ ItemOK(stock[at]) /\ stock[at].version \in Nat /\ givenBack \subseteq Orders
  BY RowTypes DEF Inv, TypeOK
<1>2. Quantities \subseteq Nat \ {0}
  BY PlacementAssumption
<1>3. ASSUME NEW q \in Quantities, ReceiveStock(at, q) PROVE Inv' /\ Evolves
  <2>1. StockOperation(at, Receive(stock[at], q)) /\ UNCHANGED givenBack
    BY <1>3 DEF ReceiveStock
  <2>2. PICK item \in Item : item = stock[at] /\ ItemOK(item)
    BY <1>1
  <2>3. /\ Saved(Receive(item, q)) \in Item /\ ItemOK(Saved(Receive(item, q)))
        /\ Saved(Receive(item, q)).version = item.version + 1
        /\ Saved(Receive(item, q)).holds = item.holds
    BY <1>2, <2>2, OnHandWrites
  <2>4. QED
    BY <1>1, <2>1, <2>2, <2>3, StaffStock
<1>4. ASSUME NEW q \in Quantities, AdjustInventory(at, q) PROVE Inv' /\ Evolves
  <2>1. /\ StockOperation(at, Adjust(stock[at], q)) /\ UNCHANGED givenBack
        /\ CanAdjust(stock[at], q)
    BY <1>4 DEF AdjustInventory
  <2>2. PICK item \in Item : item = stock[at] /\ ItemOK(item)
    BY <1>1
  <2>3. /\ Saved(Adjust(item, q)) \in Item /\ ItemOK(Saved(Adjust(item, q)))
        /\ Saved(Adjust(item, q)).version = item.version + 1
        /\ Saved(Adjust(item, q)).holds = item.holds
    BY <1>2, <2>1, <2>2, OnHandWrites
  <2>4. QED
    BY <1>1, <2>1, <2>2, <2>3, StaffStock
<1>5. ASSUME NEW q \in Quantities, NEW r \in References \ Orders, ReserveByHand(at, q, r)
      PROVE  Inv' /\ Evolves
  <2>1. /\ StockOperation(at, Reserve(stock[at], q, r)) /\ UNCHANGED givenBack
        /\ CanReserve(stock[at], q)
    BY <1>5 DEF ReserveByHand
  <2>2. PICK item \in Item : item = stock[at] /\ ItemOK(item)
    BY <1>1
  <2>3. PICK h : h = [id |-> item.version, reference |-> r, quantity |-> q]
    OBVIOUS
  <2>4. /\ Saved(Reserve(item, q, r)) \in Item /\ ItemOK(Saved(Reserve(item, q, r)))
        /\ Saved(Reserve(item, q, r)).version = item.version + 1
        /\ Saved(Reserve(item, q, r)).holds = item.holds \cup {h}
    BY <1>2, <2>1, <2>2, <2>3, ReserveWrites
  <2>5. h.id = item.version /\ h.reference \notin Orders
    BY <2>3
  <2>6. QED
    BY <1>1, <2>1, <2>2, <2>4, <2>5, StaffStock
<1>6. ASSUME ReleaseByHand(at) PROVE Inv' /\ Evolves
  <2>1. PICK h \in stock[at].holds :
          /\ StockOperation(at, Release(stock[at], h))
          /\ givenBack' = givenBack \cup ({h.reference} \cap Orders)
    BY <1>6 DEF ReleaseByHand
  <2>2. PICK item \in Item : item = stock[at] /\ ItemOK(item)
    BY <1>1
  <2>3. /\ Saved(Release(item, h)) \in Item /\ ItemOK(Saved(Release(item, h)))
        /\ Saved(Release(item, h)).version = item.version + 1
        /\ Saved(Release(item, h)).holds = item.holds \ {h}
    BY <2>1, <2>2, HoldGone
  <2>4. QED
    BY <1>1, <2>1, <2>2, <2>3, StaffStock
<1>7. ASSUME CommitByHand(at) PROVE Inv' /\ Evolves
  <2>1. PICK h \in stock[at].holds :
          /\ CanCommit(stock[at], h) /\ StockOperation(at, Commit(stock[at], h))
          /\ givenBack' = givenBack \cup ({h.reference} \cap Orders)
    BY <1>7 DEF CommitByHand
  <2>2. PICK item \in Item : item = stock[at] /\ ItemOK(item)
    BY <1>1
  <2>3. /\ Saved(Commit(item, h)) \in Item /\ ItemOK(Saved(Commit(item, h)))
        /\ Saved(Commit(item, h)).version = item.version + 1
        /\ Saved(Commit(item, h)).holds = item.holds \ {h}
    BY <2>1, <2>2, HoldGone
  <2>4. QED
    BY <1>1, <2>1, <2>2, <2>3, StaffStock
<1>8. QED
  BY <1>3, <1>4, <1>5, <1>6, <1>7

\* Stock is moved from one location to another.
LEMMA TransferAction ==
  ASSUME Inv, NEW p \in Products, NEW l \in Locations, NEW m \in Locations, NEW q \in Quantities,
         TransferStock(p, l, m, q)
  PROVE  Inv' /\ Evolves
<1> DEFINE a == <<p, l>>
           b == <<p, m>>
<1>1. /\ l # m /\ CanRemove(stock[a], q) /\ events' = events + 1
      /\ UNCHANGED <<warehouse, order, session, coupon, job, givenBack>>
  BY DEF TransferStock, Event
<1>2. a \in Places /\ b \in Places /\ a # b /\ q \in Nat
  BY <1>1, PlacementAssumption DEF Places
<1>3. stock \in [Places -> Item]
  BY DEF Inv, TypeOK
<1>4. /\ stock'[a] = Saved(Remove(stock[a], q)) /\ stock'[b] = Saved(Receive(stock[b], q))
      /\ \A at \in Places \ {a, b} : stock'[at] = stock[at]
      /\ DOMAIN stock' = Places /\ stock' = [at \in Places |-> stock'[at]]
  BY <1>2, <1>3 DEF TransferStock
<1> HIDE DEF a, b
<1>5. \A at \in Places : stock[at] \in Item /\ ItemOK(stock[at])
  BY <1>3 DEF Inv
<1>6. /\ stock'[a] \in Item /\ ItemOK(stock'[a]) /\ stock'[a].version = stock[a].version + 1
      /\ stock'[a].holds = stock[a].holds
  <2>1. PICK item \in Item : item = stock[a] /\ ItemOK(item)
    BY <1>2, <1>5
  <2>2. QED
    BY <1>1, <1>2, <1>4, <2>1, OnHandWrites
<1>7. /\ stock'[b] \in Item /\ ItemOK(stock'[b]) /\ stock'[b].version = stock[b].version + 1
      /\ stock'[b].holds = stock[b].holds
  <2>1. PICK item \in Item : item = stock[b] /\ ItemOK(item)
    BY <1>2, <1>5
  <2>2. QED
    BY <1>2, <1>4, <2>1, OnHandWrites
<1>8. stock' \in [Places -> Item]
  BY <1>4, <1>5, <1>6, <1>7
<1>9. \A at \in Places : StockEvolves(at)
  BY <1>1, <1>4, <1>6, <1>7 DEF StockEvolves
<1>10. TypeOK'
  BY <1>1, <1>8 DEF Inv, TypeOK
<1>11. Evolves
  BY <1>1, <1>9 DEF Evolves
<1>12. CouponOK(coupon)'
  BY <1>1 DEF Inv, CouponOK
<1>13. QED
  BY <1>1, <1>10, <1>11, <1>12, BesideStep

\* A warehouse is registered or deactivated, or an order goes through its lifecycle.
LEMMA RegistryActions ==
  ASSUME Inv,
         \/ \E l \in Locations : RegisterWarehouse(l) \/ DeactivateWarehouse(l)
         \/ \E o \in Orders, to \in AdvanceTargets : AdvanceOrder(o, to)
  PROVE  Inv' /\ Evolves
<1>1. ASSUME NEW l \in Locations, RegisterWarehouse(l) \/ DeactivateWarehouse(l)
      PROVE  Inv' /\ Evolves
  <2>1. UNCHANGED <<stock, order, session, coupon, job, givenBack>> /\ events' = events + 1
    BY <1>1 DEF RegisterWarehouse, DeactivateWarehouse, Event
  <2>2. warehouse' \in [Locations -> {"none", "active", "inactive"}]
    BY <1>1 DEF RegisterWarehouse, DeactivateWarehouse, Inv, TypeOK
  <2>3. TypeOK'
    BY <2>1, <2>2 DEF Inv, TypeOK
  <2>4. Evolves /\ CouponOK(coupon)'
    BY <2>1, StockKept DEF Evolves, Inv, CouponOK
  <2>5. QED
    BY <2>1, <2>3, <2>4, BesideStep
<1>2. ASSUME NEW o \in Orders, NEW to \in AdvanceTargets, AdvanceOrder(o, to)
      PROVE  Inv' /\ Evolves
  <2>1. /\ UNCHANGED <<stock, warehouse, session, coupon, job, givenBack, events>>
        /\ order' = [order EXCEPT ![o].status = to] /\ to \in Transitions[order[o].status]
    BY <1>2 DEF AdvanceOrder, CanTransition
  <2>2. to \in OrderStatuses \ {"none"} /\ order[o].status # "none"
    BY <2>1, PlacementAssumption DEF Transitions
  <2>3. TypeOK'
    BY <2>1, <2>2 DEF Inv, TypeOK
  <2>4. /\ \A x \in Orders : order'[x].fulfillment = order[x].fulfillment
                            /\ order'[x].session = order[x].session
        /\ \A x \in Orders : order[x].status = "none" <=> order'[x].status = "none"
    BY <2>1, <2>2 DEF Inv, TypeOK
  <2>5. Evolves /\ CouponOK(coupon)'
    BY <2>1, <2>4, StockKept DEF Evolves, Inv, CouponOK
  <2>6. QED
    BY <2>1, <2>3, <2>4, <2>5, BesideStep
<1>3. QED
  BY <1>1, <1>2

\* A write of a session that nobody is completing.
LEMMA SessionWritten ==
  ASSUME Inv, NEW s \in Sessions, Unlocked(s), session[s].state \in Open,
         UNCHANGED <<stock, warehouse, order, coupon, job, givenBack>>, events' \in Nat,
         session' \in [Sessions -> [state: {"started", "locked", "completed", "failed", "expired"},
                                    orderRef: Orders \cup {NoOrder}, discounted: BOOLEAN,
                                    version: Nat]],
         session'[s].version = session[s].version + 1,
         session'[s].orderRef = session[s].orderRef,
         \A x \in Sessions \ {s} : session'[x] = session[x]
  PROVE  Inv' /\ Evolves
<1>1. TypeOK'
  BY DEF Inv, TypeOK
<1>2. Evolves /\ CouponOK(coupon)'
  BY StockKept DEF Evolves, Inv, CouponOK
<1>3. QED
  BY <1>1, <1>2, BesideStep

\* What shoppers do to a session.
LEMMA ShopperActions ==
  ASSUME Inv, Shopper
  PROVE  Inv' /\ Evolves
<1>1. PICK s \in Sessions :
        RefuseDiscount(s) \/ EditSession(s) \/ Lock(s) \/ ExpireCheckout(s) \/ FailCheckout(s)
  BY DEF Shopper
<1>2. /\ session \in [Sessions -> [state: {"started", "locked", "completed", "failed", "expired"},
                                   orderRef: Orders \cup {NoOrder}, discounted: BOOLEAN,
                                   version: Nat]]
      /\ events \in Nat
  BY DEF Inv, TypeOK
<1>3. CASE RefuseDiscount(s)
  <2>1. /\ Unlocked(s) /\ session[s].state \in Open
        /\ UNCHANGED <<stock, warehouse, order, coupon, job, givenBack, events>>
        /\ session' = [session EXCEPT ![s].discounted = Discount(s), ![s].version = @ + 1]
    BY <1>3 DEF RefuseDiscount, Completable
  <2>2. Discount(s) \in BOOLEAN
    BY DEF Discount
  <2>3. /\ session' \in [Sessions -> [state: {"started", "locked", "completed", "failed", "expired"},
                                      orderRef: Orders \cup {NoOrder}, discounted: BOOLEAN,
                                      version: Nat]]
        /\ session'[s].version = session[s].version + 1
        /\ session'[s].orderRef = session[s].orderRef
        /\ \A x \in Sessions \ {s} : session'[x] = session[x]
    BY <1>2, <2>1, <2>2
  <2>4. QED
    BY <1>2, <2>1, <2>3, SessionWritten
<1>4. ASSUME NEW state \in {"started", "locked", "failed", "expired"}, EndSession(s, state)
      PROVE  Inv' /\ Evolves
  <2>1. /\ Unlocked(s) /\ session[s].state \in Open /\ events' = events + 1
        /\ UNCHANGED <<stock, warehouse, order, coupon, job, givenBack>>
        /\ session' = [session EXCEPT ![s].state = state, ![s].version = @ + 1]
    BY <1>4 DEF EndSession, Event
  <2>2. /\ session' \in [Sessions -> [state: {"started", "locked", "completed", "failed", "expired"},
                                      orderRef: Orders \cup {NoOrder}, discounted: BOOLEAN,
                                      version: Nat]]
        /\ session'[s].version = session[s].version + 1
        /\ session'[s].orderRef = session[s].orderRef
        /\ \A x \in Sessions \ {s} : session'[x] = session[x]
    BY <1>2, <2>1
  <2>3. QED
    BY <1>2, <2>1, <2>2, SessionWritten
<1>5. CASE EditSession(s)
  <2>1. session[s].state \in {"started", "locked"}
    BY <1>5 DEF EditSession, EndSession, Open
  <2>2. QED
    BY <1>4, <1>5, <2>1 DEF EditSession
<1>6. QED
  BY <1>1, <1>3, <1>4, <1>5 DEF Lock, ExpireCheckout, FailCheckout

\* Everything staff do keeps the invariant.
LEMMA StaffActions ==
  ASSUME Inv, Staff
  PROVE  Inv' /\ Evolves
BY CouponActions, StockActions, TransferAction, RegistryActions DEF Staff

\* A job ends, or its replica dies.
LEMMA EndStep ==
  ASSUME Inv, NEW w \in Workers, End(w),
         UNCHANGED <<stock, warehouse, order, session, coupon, givenBack>>, events' \in Nat
  PROVE  Inv' /\ Evolves
BY IdleGood, QuietStep DEF End, Inv, TypeOK

\* A job dies at any step.
LEMMA CrashAction ==
  ASSUME Inv, NEW w \in Workers, Crash(w)
  PROVE  Inv' /\ Evolves
BY EndStep DEF Crash, Event, Inv, TypeOK

-----------------------------------------------------------------------------
(* CompleteCheckout up to the order, RequestFulfillment. *)

\* A checkout is read.
LEMMA BeginCompleteAction ==
  ASSUME Inv, NEW w \in Workers, NEW s \in Sessions, BeginComplete(w, s)
  PROVE  Inv' /\ Evolves
<1>1. session[s].version \in Nat /\ Active \in SUBSET Locations
  BY RowTypes DEF Inv, Active
<1>2. PICK j \in Job : j = [Idle EXCEPT !.step = "validate", !.session = s,
                                       !.version = session[s].version, !.locations = Active]
  BY <1>1, IdleGood DEF Idle, Job
<1>3. /\ Goto(w, j) /\ session[s].state \in Open
      /\ UNCHANGED <<stock, warehouse, order, session, coupon, givenBack, events>>
  BY <1>2 DEF BeginComplete, Completable
<1>4. /\ j.step = "validate" /\ j.session = s /\ j.order = NoOrder /\ j.line = 1
      /\ j.version = session[s].version
  BY <1>2 DEF Idle
<1>5. NoOrder \notin Orders /\ 1 \in DOMAIN Lines[s]
  BY PlacementAssumption, LineTypes
<1>6. Good(j)' /\ ~Locking(j)
  BY <1>1, <1>3, <1>4, <1>5 DEF Good, WellFormed, StockRead, CouponRead, SessionRead, Reserving, Locking
<1>7. QED
  BY <1>3, <1>6, QuietStep DEF Inv, TypeOK

\* A line of the checkout is checked.
LEMMA ValidateLineAction ==
  ASSUME Inv, NEW w \in Workers, ValidateLine(w)
  PROVE  Inv' /\ Evolves
<1>1. PICK j \in Job : j = job[w] /\ Good(j)
  BY RowTypes DEF Inv
<1>2. /\ j.step = "validate"
      /\ UNCHANGED <<stock, warehouse, order, session, coupon, givenBack, events>>
      /\ \/ End(w)
         \/ LastLine(j) /\ Goto(w, [j EXCEPT !.step = "create", !.line = 1])
         \/ ~LastLine(j) /\ Goto(w, [j EXCEPT !.line = @ + 1])
  BY <1>1 DEF ValidateLine
<1>3. j.session \in Sessions /\ j.order = NoOrder /\ NoOrder \notin Orders
  BY <1>1, <1>2, PlacementAssumption DEF Good, WellFormed
<1>4. ASSUME NEW i \in Job, i.step \in {"validate", "create"}, i.step = "create" => i.line = 1,
             i.session = j.session, i.version = j.version, i.order = j.order,
             i.line \in DOMAIN Lines[j.session], Goto(w, i)
      PROVE  Inv' /\ Evolves
  <2>1. SessionRead(j) /\ j.version \in Nat
    BY <1>1 DEF Good, Job
  <2>2. Good(i)' /\ ~Locking(i)
    BY <1>2, <1>3, <1>4, <2>1 DEF Good, WellFormed, StockRead, CouponRead, SessionRead, Reserving, Locking
  <2>3. QED
    BY <1>2, <1>4, <2>2, QuietStep DEF Inv, TypeOK
<1>5. DOMAIN Lines[j.session] = 1..Len(Lines[j.session]) /\ 1 \in DOMAIN Lines[j.session]
  BY <1>3, LineTypes
<1>6. CASE End(w)
  BY <1>2, <1>6, EndStep DEF Inv, TypeOK
<1>7. CASE LastLine(j) /\ Goto(w, [j EXCEPT !.step = "create", !.line = 1])
  <2>1. PICK i \in Job : i = [j EXCEPT !.step = "create", !.line = 1]
    <3>1. PICK n \in Nat \ {0} : n = 1
      OBVIOUS
    <3>2. [j EXCEPT !.step = "create", !.line = n] \in Job
      BY DEF Job
    <3>3. QED
      BY <3>1, <3>2
  <2>2. /\ i.step = "create" /\ i.line = 1 /\ i.session = j.session /\ i.version = j.version
        /\ i.order = j.order
    BY <2>1 DEF Job
  <2>3. QED
    BY <1>4, <1>5, <1>7, <2>1, <2>2
<1>8. CASE ~LastLine(j) /\ Goto(w, [j EXCEPT !.line = @ + 1])
  <2>1. j.line \in Nat \ {0} /\ j.line \in DOMAIN Lines[j.session]
    BY <1>1, <1>3 DEF Good, WellFormed, Job
  <2>2. j.line # Len(Lines[j.session]) /\ Len(Lines[j.session]) \in Nat
    BY <1>3, <1>8, LineTypes DEF LastLine
  <2>3. PICK i \in Job : i = [j EXCEPT !.line = j.line + 1]
    <3>1. PICK n \in Nat \ {0} : n = j.line + 1
      BY <2>1
    <3>2. [j EXCEPT !.line = n] \in Job
      BY DEF Job
    <3>3. QED
      BY <3>1, <3>2
  <2>4. /\ i.step = j.step /\ i.line = j.line + 1 /\ i.session = j.session /\ i.version = j.version
        /\ i.order = j.order
    BY <2>3 DEF Job
  <2>5. i.line \in DOMAIN Lines[j.session]
    BY <1>5, <2>1, <2>2, <2>4
  <2>6. QED
    BY <1>2, <1>4, <1>8, <2>3, <2>4, <2>5
<1>9. QED
  BY <1>2, <1>6, <1>7, <1>8

\* A step of one job that writes rows.
LEMMA JobStep ==
  ASSUME Inv, NEW w \in Workers, NEW j \in Job, Goto(w, j), Good(j)',
         TypeOK', OrdersOK', CouponOK(coupon)', Evolves,
         Locking(j) => Locking(job[w]) /\ job[w].session = j.session,
         \A v \in Workers \ {w} :
           Locking(job[v]) => session'[job[v].session] = session[job[v].session],
         \A o \in Orders : Promised(o)' => Promised(o) \/ Secured(o)'
  PROVE  Inv'
<1>1. job'[w] = j /\ \A v \in Workers \ {w} : job'[v] = job[v]
  BY DEF Inv, TypeOK, Goto
<1>2. Locks'
  <2>1. SUFFICES ASSUME NEW u \in Workers, NEW v \in Workers, u # v,
                        Locking(job'[u]), Locking(job'[v]), job'[u].session = job'[v].session
                 PROVE  FALSE
    BY DEF Locks, Locking
  <2>2. Locks
    BY DEF Inv
  <2>3. QED
    BY <1>1, <2>1, <2>2 DEF Locks
<1>3. \A v \in Workers :
        \/ Good(job[v])'
        \/ /\ job'[v] = job[v]
           /\ Locking(job[v]) => session'[job[v].session] = session[job[v].session]
  BY <1>1
<1>4. QED
  BY <1>2, <1>3, StepInv

\* What is left as it is.
LEMMA Unwritten ==
  ASSUME Inv
  PROVE  /\ UNCHANGED coupon => CouponOK(coupon)'
         /\ (UNCHANGED <<order, session>> => OrdersOK' /\ \A o \in Orders : Promised(o)' => Promised(o))
BY DEF Inv, CouponOK, OrdersOK, Promised

\* The order is created.
LEMMA CreateOrderAction ==
  ASSUME Inv, NEW w \in Workers, CreateOrder(w)
  PROVE  Inv' /\ Evolves
<1>1. PICK j \in Job : j = job[w] /\ Good(j)
  BY RowTypes DEF Inv
<1>2. PICK o \in Orders :
        /\ order[o].status = "none"
        /\ order' = [order EXCEPT ![o].status = "created", ![o].session = j.session]
        /\ Goto(w, [j EXCEPT !.step = "reserve", !.order = o, !.locations = Active])
        /\ UNCHANGED <<stock, warehouse, session, coupon, givenBack, events>>
  BY <1>1 DEF CreateOrder
<1>3. j.step = "create" /\ j.session \in Sessions /\ j.line = 1 /\ j.version \in Nat
  BY <1>1 DEF CreateOrder, Good, WellFormed, Job
<1>4. Active \in SUBSET Locations
  BY DEF Active
<1>5. PICK i \in Job : i = [j EXCEPT !.step = "reserve", !.order = o, !.locations = Active]
  BY <1>4 DEF Job
<1>6. /\ i.step = "reserve" /\ i.order = o /\ i.line = 1 /\ i.session = j.session
      /\ i.version = j.version
  BY <1>3, <1>5 DEF Job
<1>7. /\ order'[o].status = "created" /\ order'[o].session = j.session
      /\ order'[o].fulfillment = order[o].fulfillment
      /\ \A x \in Orders \ {o} : order'[x] = order[x]
      /\ order' \in [Orders -> [status: OrderStatuses, session: Sessions \cup {NoSession},
                                fulfillment: BOOLEAN]]
  <2>1. "created" \in OrderStatuses
    BY DEF OrderStatuses, Transitions
  <2>2. QED
    BY <1>2, <1>3, <2>1 DEF Inv, TypeOK
<1>8. \A x \in Orders : Promised(x)' => Promised(x)
  <2>1. \A x \in Orders : order'[x].fulfillment = order[x].fulfillment
    BY <1>7
  <2>2. QED
    BY <1>2, <2>1 DEF Promised
<1>9. OrdersOK'
  BY <1>3, <1>7, <1>8 DEF Inv, OrdersOK
<1>10. TypeOK'
  BY <1>2, <1>5, <1>7 DEF Inv, TypeOK, Goto
<1>11. Evolves
  BY <1>2, <1>7, StockKept DEF Evolves
<1>12. Good(i)' /\ ~Locking(i)
  <2>1. LinesOf(o)' = Lines[j.session]
    BY <1>7 DEF LinesOf
  <2>2. WellFormed(i)'
    <3>1. 1 \in DOMAIN Lines[j.session] /\ NoOrder \notin Orders
      BY <1>3, LineTypes, PlacementAssumption
    <3>2. QED
      BY <1>3, <1>6, <1>7, <2>1, <3>1 DEF WellFormed
  <2>3. SessionRead(i)' /\ ~Locking(i)
    BY <1>1, <1>2, <1>3, <1>6 DEF Good, SessionRead, Locking
  <2>4. Reserving(i)'
    BY <1>6 DEF Reserving
  <2>5. StockRead(i)' /\ CouponRead(i)'
    BY <1>6 DEF StockRead, CouponRead
  <2>6. QED
    BY <2>2, <2>3, <2>4, <2>5 DEF Good
<1>13. QED
  BY <1>2, <1>5, <1>8, <1>9, <1>10, <1>11, <1>12, JobStep, Unwritten

\* A job that begins to reserve, or to give back, what an order holds.
LEMMA FreshJob ==
  ASSUME NEW o \in Orders, NEW j \in Job, j.order = o, j.line = 1, j.session = NoSession,
         \/ j.step = "reserve"
         \/ j.step \in {"scan", "cancel"} /\ o \in givenBack'
         \/ j.step = "settle" /\ Secured(o)',
         order'[o].status # "none", order'[o].session \in Sessions
  PROVE  Good(j)' /\ ~Locking(j)
<1>1. 1 \in DOMAIN LinesOf(o)' /\ NoSession \notin Sessions /\ NoOrder \notin Orders
  BY LineTypes, PlacementAssumption DEF LinesOf
<1>2. WellFormed(j)'
  BY <1>1 DEF WellFormed
<1>3. StockRead(j)' /\ CouponRead(j)' /\ SessionRead(j)' /\ ~Locking(j)
  BY <1>1 DEF StockRead, CouponRead, SessionRead, Locking
<1>4. Reserving(j)'
  BY DEF Reserving
<1>5. QED
  BY <1>2, <1>3, <1>4 DEF Good

\* A fulfillment is requested.
LEMMA BeginFulfillmentAction ==
  ASSUME Inv, NEW w \in Workers, NEW o \in Orders, BeginFulfillment(w, o)
  PROVE  Inv' /\ Evolves
<1>1. Active \in SUBSET Locations
  BY DEF Active
<1>2. PICK j \in Job : j = [Idle EXCEPT !.step = "reserve", !.order = o, !.locations = Active]
  BY <1>1, IdleGood DEF Idle, Job
<1>3. /\ Goto(w, j)
      /\ UNCHANGED <<stock, warehouse, order, session, coupon, givenBack, events>>
      /\ "fulfillment_requested" \in Transitions[order[o].status]
  BY <1>2 DEF BeginFulfillment, CanTransition
<1>4. j.step = "reserve" /\ j.session = NoSession /\ j.order = o /\ j.line = 1
  BY <1>2 DEF Idle
<1>5. order[o].status # "none" /\ order[o].session \in Sessions
  BY <1>3 DEF Transitions, Inv, OrdersOK
<1>6. Good(j)' /\ ~Locking(j)
  BY <1>3, <1>4, <1>5, FreshJob
<1>7. QED
  BY <1>3, <1>6, QuietStep DEF Inv, TypeOK

-----------------------------------------------------------------------------
(* requestReservation, line by line. *)

\* A line is done: the job goes on to the next, or to what follows the call with all
\* of the order's lines held.
LEMMA NextLineGood ==
  ASSUME Inv, Evolves, UNCHANGED <<order, session>>, NEW w \in Workers, NEW j \in Job, j = job[w],
         j.step \in {"reserve", "saveStock"}, NextLine(w, j),
         LineHeld(j.order, j.line, j.locations)' \/ j.order \in givenBack'
  PROVE  \E i \in Job : Goto(w, i) /\ Good(i)' /\ ~Locking(i)
<1>1. Good(j) /\ ~Locking(j)
  BY DEF Inv, Locking
<1>2. WellFormed(j) /\ WellFormed(j)' /\ SessionRead(j)' /\ Reserving(j)'
  BY <1>1, GoodStays DEF Good
<1>3. j.order \in Orders /\ order[j.order].status # "none" /\ j.line \in DOMAIN LinesOf(j.order)
  BY <1>2 DEF WellFormed
<1>4. /\ order[j.order].session \in Sessions /\ LastLine(j) = (j.line = Len(LinesOf(j.order)))
      /\ DOMAIN LinesOf(j.order) = 1..Len(LinesOf(j.order)) /\ Len(LinesOf(j.order)) \in Nat
      /\ j.line \in Nat \ {0} /\ j.version \in Nat /\ NoOrder \notin Orders
      /\ j.session \in Sessions \cup {NoSession} /\ NoSession \notin Sessions
  BY <1>2, <1>3, JobLine, PlacementAssumption DEF Job
<1>5. LinesOf(j.order)' = LinesOf(j.order)
  BY DEF LinesOf
<1>6. j.order \in givenBack' \/ \A k \in 1..j.line : LineHeld(j.order, k, j.locations)'
  <2>1. j.order \in givenBack' \/ \A k \in 1..(j.line - 1) : LineHeld(j.order, k, j.locations)'
    BY <1>2 DEF Reserving
  <2>2. 1..j.line = (1..(j.line - 1)) \cup {j.line}
    BY <1>4
  <2>3. QED
    BY <2>1, <2>2
<1>7. CASE ~LastLine(j)
  <2>1. PICK n \in Nat \ {0} : n = j.line + 1
    BY <1>4
  <2>2. PICK z \in Nat : z = 0
    OBVIOUS
  <2>3. NoItem \in Item
    BY DEF NoItem, Item
  <2>4. PICK i \in Job : i = [j EXCEPT !.step = "reserve", !.line = n, !.location = NoSession,
                                       !.quantity = z, !.read = NoItem]
    BY <2>3 DEF Job
  <2>5. /\ i.step = "reserve" /\ i.line = n /\ i.order = j.order /\ i.session = j.session
        /\ i.version = j.version /\ i.locations = j.locations
    BY <2>4 DEF Job
  <2>6. Goto(w, i)
    BY <1>7, <2>1, <2>2, <2>4 DEF NextLine
  <2>7. n \in DOMAIN LinesOf(j.order)'
    <3>1. j.line # Len(LinesOf(j.order))
      BY <1>4, <1>7
    <3>2. n \in 1..Len(LinesOf(j.order))
      BY <1>3, <1>4, <2>1, <3>1
    <3>3. QED
      BY <1>4, <1>5, <3>2
  <2>8. WellFormed(i)'
    BY <1>2, <1>3, <1>4, <2>5, <2>7 DEF WellFormed
  <2>9. StockRead(i)' /\ CouponRead(i)' /\ SessionRead(i)' /\ ~Locking(i)
    BY <1>2, <2>5 DEF StockRead, CouponRead, SessionRead, Locking
  <2>10. Reserving(i)'
    <3>1. i.line - 1 = j.line
      BY <1>4, <2>1, <2>5
    <3>2. QED
      BY <1>6, <2>5, <3>1 DEF Reserving
  <2>11. QED
    BY <2>6, <2>8, <2>9, <2>10 DEF Good
<1>8. CASE LastLine(j)
  <2>1. Secured(j.order)'
    <3>1. DOMAIN LinesOf(j.order)' = 1..j.line
      BY <1>4, <1>5, <1>8
    <3>2. \A k \in 1..j.line : LineHeld(j.order, k, j.locations)' => LineHeld(j.order, k, Locations)'
      BY DEF LineHeld, Job
    <3>3. QED
      BY <1>6, <3>1, <3>2 DEF Secured
  <2>2. CASE j.session = NoSession
    <3>1. PICK i \in Job : i = [Idle EXCEPT !.step = "settle", !.session = j.session,
                                            !.version = j.version, !.order = j.order]
      <4>1. PICK o \in Orders : o = j.order
        BY <1>3
      <4>2. PICK s \in Sessions \cup {NoSession} : s = j.session
        BY <1>4
      <4>3. PICK n \in Nat : n = j.version
        BY <1>4
      <4>4. [Idle EXCEPT !.step = "settle", !.session = s, !.version = n, !.order = o] \in Job
        BY IdleGood DEF Job
      <4>5. QED
        BY <4>1, <4>2, <4>3, <4>4
    <3>2. i.step = "settle" /\ i.order = j.order /\ i.session = NoSession /\ i.line = 1
      BY <2>2, <3>1 DEF Idle
    <3>3. Goto(w, i)
      BY <1>8, <2>2, <3>1 DEF NextLine
    <3>4. Good(i)' /\ ~Locking(i)
      BY <1>3, <1>4, <2>1, <3>2, FreshJob
    <3>5. QED
      BY <3>3, <3>4
  <2>3. CASE j.session \in Sessions
    <3>1. PICK i \in Job : i = [Idle EXCEPT !.step = "save", !.session = j.session,
                                            !.version = j.version, !.order = j.order]
      <4>1. PICK o \in Orders : o = j.order
        BY <1>3
      <4>2. PICK s \in Sessions \cup {NoSession} : s = j.session
        BY <1>4
      <4>3. PICK n \in Nat : n = j.version
        BY <1>4
      <4>4. [Idle EXCEPT !.step = "save", !.session = s, !.version = n, !.order = o] \in Job
        BY IdleGood DEF Job
      <4>5. QED
        BY <4>1, <4>2, <4>3, <4>4
    <3>2. /\ i.step = "save" /\ i.order = j.order /\ i.session = j.session /\ i.line = 1
          /\ i.version = j.version
      BY <3>1 DEF Idle
    <3>3. Goto(w, i)
      BY <1>4, <1>8, <2>3, <3>1 DEF NextLine
    <3>4. 1 \in DOMAIN LinesOf(j.order)'
      BY <1>4, <1>5, LineTypes DEF LinesOf
    <3>5. WellFormed(i)'
      BY <1>3, <1>4, <2>3, <3>2, <3>4 DEF WellFormed
    <3>6. StockRead(i)' /\ CouponRead(i)' /\ SessionRead(i)' /\ ~Locking(i)
      BY <1>2, <3>2 DEF StockRead, CouponRead, SessionRead, Locking
    <3>7. Reserving(i)'
      BY <2>1, <3>2 DEF Reserving
    <3>8. QED
      BY <3>3, <3>5, <3>6, <3>7 DEF Good
  <2>4. QED
    BY <1>4, <2>2, <2>3
<1>9. QED
  BY <1>7, <1>8

\* The call is refused: the job ends, or undoes the order it created.
LEMMA RefusedStep ==
  ASSUME Inv, NEW w \in Workers, NEW j \in Job, j = job[w],
         j.step \in {"reserve", "readStock", "saveStock"}, Refused(w, j),
         UNCHANGED <<stock, warehouse, order, session, coupon, events>>
  PROVE  Inv' /\ Evolves
<1>1. j.order \in Orders /\ order[j.order].status # "none" /\ order[j.order].session \in Sessions
  BY DEF Inv, Good, WellFormed, OrdersOK
<1>2. CASE j.session = NoSession
  BY <1>2, EndStep DEF Refused, Inv, TypeOK
<1>3. CASE j.session # NoSession
  <2>1. PICK i \in Job : i = [Idle EXCEPT !.step = "scan", !.order = j.order, !.then = "cancel"]
    BY <1>1, IdleGood DEF Idle, Job
  <2>2. i.step = "scan" /\ i.order = j.order /\ i.session = NoSession /\ i.line = 1
    BY <2>1 DEF Idle
  <2>3. Goto(w, i) /\ givenBack' = givenBack \cup {j.order}
    BY <1>3, <2>1 DEF Refused
  <2>4. Good(i)' /\ ~Locking(i)
    BY <1>1, <2>2, <2>3, FreshJob
  <2>5. QED
    BY <1>1, <2>3, <2>4, QuietStep DEF Inv, TypeOK
<1>4. QED
  BY <1>2, <1>3

\* A line whose variant the order has a reservation for is held.
LEMMA ReservedIsHeld ==
  ASSUME Inv, NEW j \in Job, WellFormed(j), j.order \in Orders, j.step # "idle",
         AlreadyReserved(j)
  PROVE  LineHeld(j.order, j.line, j.locations) \/ j.order \in givenBack
<1>1. /\ Line(j) = LinesOf(j.order)[j.line] /\ j.line \in DOMAIN LinesOf(j.order)
      /\ Line(j).product \in Products /\ j.locations \subseteq Locations
  BY JobLine DEF WellFormed, Job
<1>2. PICK l \in j.locations : HoldsFor(stock[<<Line(j).product, l>>], j.order) # {}
  BY DEF AlreadyReserved, HeldAt
<1>3. PICK h \in stock[<<Line(j).product, l>>].holds : h.reference = j.order
  BY <1>2 DEF HoldsFor
<1>4. HoldOK(Line(j).product, h)
  BY <1>1, <1>3 DEF Inv, HoldsOK
<1>5. \/ j.order \in givenBack
      \/ Line(j).product \in Deny /\ FirstLine(j.order, j.line) => h.quantity >= Line(j).quantity
  BY <1>1, <1>3, <1>4 DEF HoldOK
<1>6. QED
  BY <1>1, <1>3, <1>5 DEF LineHeld, HoldsFor

\* A line whose variant the order has no reservation for is the first about it.
LEMMA UnreservedIsFirst ==
  ASSUME Inv, NEW j \in Job, Good(j), j.step = "reserve", ~AlreadyReserved(j),
         Line(j).product \in Deny
  PROVE  j.order \in givenBack \/ FirstLine(j.order, j.line)
<1> SUFFICES ASSUME j.order \notin givenBack, ~FirstLine(j.order, j.line) PROVE FALSE
  OBVIOUS
<1>1. Line(j) = LinesOf(j.order)[j.line]
  BY JobLine DEF Good, WellFormed
<1>2. PICK i \in 1..(j.line - 1) : LinesOf(j.order)[i].product = Line(j).product
  BY <1>1 DEF FirstLine
<1>3. LineHeld(j.order, i, j.locations)
  BY <1>2 DEF Good, Reserving
<1>4. PICK l \in j.locations : HoldsFor(stock[<<Line(j).product, l>>], j.order) # {}
  BY <1>2, <1>3 DEF LineHeld
<1>5. QED
  BY <1>4 DEF AlreadyReserved, HeldAt

\* The next line, with nothing written.
LEMMA NextLineStep ==
  ASSUME Inv, NEW w \in Workers, NEW j \in Job, j = job[w], j.step = "reserve", NextLine(w, j),
         UNCHANGED <<stock, warehouse, order, session, coupon, givenBack, events>>,
         LineHeld(j.order, j.line, j.locations) \/ j.order \in givenBack
  PROVE  Inv' /\ Evolves
<1>1. Evolves
  BY StockKept DEF Evolves
<1>2. LineHeld(j.order, j.line, j.locations)' \/ j.order \in givenBack'
  BY DEF LineHeld, LinesOf, FirstLine
<1>3. PICK i \in Job : Goto(w, i) /\ Good(i)' /\ ~Locking(i)
  BY <1>1, <1>2, NextLineGood
<1>4. QED
  BY <1>3, QuietStep DEF Inv, TypeOK

\* A job that goes on with its line.
LEMMA SameLine ==
  ASSUME Inv, NEW w \in Workers, NEW j \in Job, j = job[w], j.step \in {"reserve", "readStock"},
         UNCHANGED <<stock, warehouse, order, session, coupon, givenBack, events>>,
         NEW i \in Job, Goto(w, i), i.order = j.order, i.line = j.line, i.session = j.session,
         i.version = j.version, i.step \in {"readStock", "saveStock"},
         i.location \in Locations, i.quantity # 0,
         i.locations = j.locations, i.location \in j.locations,
         Line(j).product \in Deny => /\ i.quantity >= Line(j).quantity
                                     /\ j.order \in givenBack \/ FirstLine(j.order, j.line),
         i.step = "saveStock" => i.read = stock[Place(i)] /\ CanReserve(i.read, i.quantity)
  PROVE  Inv' /\ Evolves
<1>1. Good(j) /\ j.order \in Orders /\ NoOrder \notin Orders
  BY PlacementAssumption DEF Inv, Good, WellFormed
<1>2. Line(i) = Line(j) /\ Place(i)' = Place(i) /\ Line(i)' = Line(i)
  BY DEF Line, LinesOf, Place
<1>3. WellFormed(i)'
  BY <1>1 DEF Good, WellFormed, LinesOf
<1>4. StockRead(i)'
  <2>1. i.read.version \in Nat
    BY DEF Job, Item
  <2>2. QED
    BY <1>2, <2>1 DEF StockRead, Fresh
<1>5. CouponRead(i)' /\ SessionRead(i)' /\ ~Locking(i)
  BY <1>1 DEF Good, CouponRead, SessionRead, Locking
<1>6. Reserving(i)'
  <2>1. /\ \A k \in 1..(j.line - 1) :
             LineHeld(j.order, k, j.locations)' <=> LineHeld(j.order, k, j.locations)
        /\ FirstLine(j.order, j.line)' <=> FirstLine(j.order, j.line)
    BY DEF LineHeld, LinesOf, FirstLine
  <2>2. QED
    BY <1>1, <1>2, <2>1 DEF Good, Reserving
<1>7. QED
  BY <1>3, <1>4, <1>5, <1>6, QuietStep DEF Good, Inv, TypeOK

\* A line is looked at: it is passed over, refused, or a location is picked for it.
LEMMA ReserveLineAction ==
  ASSUME Inv, NEW w \in Workers, ReserveLine(w)
  PROVE  Inv' /\ Evolves
<1>1. PICK j \in Job : j = job[w] /\ Good(j)
  BY RowTypes DEF Inv
<1> DEFINE p == Line(j).product
           q == Line(j).quantity
           best == Best(p, j.locations)
<1>2. j.step = "reserve" /\ UNCHANGED <<stock, warehouse, order, session, coupon, events>>
  BY <1>1 DEF ReserveLine
<1>3. \/ (p \notin Tracked \/ AlreadyReserved(j)) /\ NextLine(w, j) /\ UNCHANGED givenBack
      \/ Refused(w, j)
      \/ /\ ~AlreadyReserved(j)
         /\ \E l \in best :
              LET amount == IF Covers(p, l, q) THEN q ELSE Available(stock[<<p, l>>]) IN
              /\ p \in Deny => Covers(p, l, q)
              /\ IF amount = 0 THEN NextLine(w, j)
                 ELSE Goto(w, [j EXCEPT !.step = "readStock", !.location = l, !.quantity = amount])
         /\ UNCHANGED givenBack
  BY <1>1 DEF ReserveLine
<1>4. /\ WellFormed(j) /\ j.order \in Orders /\ p \in Products /\ q \in Nat \ {0}
      /\ Line(j) = LinesOf(j.order)[j.line]
  BY <1>1, <1>2, JobLine DEF Good, WellFormed
<1>5. CASE (p \notin Tracked \/ AlreadyReserved(j)) /\ NextLine(w, j) /\ UNCHANGED givenBack
  <2>1. p \notin Tracked => LineHeld(j.order, j.line, j.locations)
    BY <1>4, PlacementAssumption DEF LineHeld
  <2>2. LineHeld(j.order, j.line, j.locations) \/ j.order \in givenBack
    BY <1>2, <1>4, <1>5, <2>1, ReservedIsHeld
  <2>3. QED
    BY <1>1, <1>2, <1>5, <2>2, NextLineStep
<1>6. CASE Refused(w, j)
  BY <1>1, <1>2, <1>6, RefusedStep
<1>7. ASSUME NEW l \in best, NEW amount,
             amount = IF Covers(p, l, q) THEN q ELSE Available(stock[<<p, l>>]),
             p \in Deny => Covers(p, l, q), UNCHANGED givenBack, ~AlreadyReserved(j),
             IF amount = 0 THEN NextLine(w, j)
             ELSE Goto(w, [j EXCEPT !.step = "readStock", !.location = l, !.quantity = amount])
      PROVE  Inv' /\ Evolves
  <2>1. l \in j.locations /\ l \in Locations /\ <<p, l>> \in Places
    BY <1>4 DEF Best, Job, Places
  <2>2. amount \in Nat /\ (p \in Deny => amount = q)
    <3>1. Available(stock[<<p, l>>]) \in Nat
      BY <2>1, RowTypes DEF Inv, ItemOK, SoundItem, Available
    <3>2. QED
      BY <1>4, <1>7, <3>1
  <2>3. CASE amount = 0
    <3>1. LineHeld(j.order, j.line, j.locations)
      BY <1>4, <2>2, <2>3 DEF LineHeld
    <3>2. QED
      BY <1>1, <1>2, <1>7, <2>3, <3>1, NextLineStep
  <2>4. CASE amount # 0
    <3>1. PICK i \in Job : i = [j EXCEPT !.step = "readStock", !.location = l, !.quantity = amount]
      BY <2>1, <2>2 DEF Job
    <3>2. /\ i.step = "readStock" /\ i.location = l /\ i.quantity = amount /\ i.order = j.order
          /\ i.line = j.line /\ i.session = j.session /\ i.version = j.version
          /\ i.locations = j.locations
      BY <3>1 DEF Job
    <3>3. Goto(w, i)
      BY <1>7, <2>4, <3>1
    <3>4. p \in Deny => /\ i.quantity >= q
                        /\ j.order \in givenBack \/ FirstLine(j.order, j.line)
      BY <1>1, <1>2, <1>4, <1>7, <2>2, <3>2, UnreservedIsFirst
    <3>5. QED
      BY <1>1, <1>2, <1>7, <2>1, <2>4, <3>2, <3>3, <3>4, SameLine
  <2>5. QED
    BY <2>3, <2>4
<1>8. QED
  BY <1>3, <1>5, <1>6, <1>7

\* The row is read.
LEMMA ReserveReadAction ==
  ASSUME Inv, NEW w \in Workers, ReserveRead(w)
  PROVE  Inv' /\ Evolves
<1>1. PICK j \in Job : j = job[w] /\ Good(j)
  BY RowTypes DEF Inv
<1>2. /\ j.step = "readStock" /\ UNCHANGED <<stock, warehouse, order, session, coupon, events>>
      /\ \/ /\ CanReserve(stock[Place(j)], j.quantity) /\ UNCHANGED givenBack
            /\ Goto(w, [j EXCEPT !.step = "saveStock", !.read = stock[Place(j)]])
         \/ Refused(w, j)
  BY <1>1 DEF ReserveRead
<1>3. CASE Refused(w, j)
  BY <1>1, <1>2, <1>3, RefusedStep
<1>4. CASE /\ CanReserve(stock[Place(j)], j.quantity) /\ UNCHANGED givenBack
           /\ Goto(w, [j EXCEPT !.step = "saveStock", !.read = stock[Place(j)]])
  <2>1. j.location \in Locations /\ j.quantity # 0 /\ Place(j) \in Places
    BY <1>1, <1>2, JobLine DEF Good, WellFormed
  <2>2. PICK item \in Item : item = stock[Place(j)]
    BY <2>1, RowTypes DEF Inv
  <2>3. PICK i \in Job : i = [j EXCEPT !.step = "saveStock", !.read = item]
    BY DEF Job
  <2>4. /\ i.step = "saveStock" /\ i.location = j.location /\ i.quantity = j.quantity
        /\ i.order = j.order /\ i.line = j.line /\ i.session = j.session /\ i.version = j.version
        /\ i.read = item /\ i.locations = j.locations
    BY <2>3 DEF Job
  <2>5. Goto(w, i) /\ Place(i) = Place(j)
    BY <1>4, <2>2, <2>3, <2>4 DEF Place, Line
  <2>6. /\ i.location \in j.locations
        /\ Line(j).product \in Deny => /\ i.quantity >= Line(j).quantity
                                       /\ j.order \in givenBack \/ FirstLine(j.order, j.line)
    BY <1>1, <1>2, <2>4 DEF Good, Reserving
  <2>7. QED
    BY <1>1, <1>2, <1>4, <2>1, <2>2, <2>4, <2>5, <2>6, SameLine
<1>5. QED
  BY <1>2, <1>3, <1>4

\* The reservation is saved, or refused because the row was written since.
LEMMA ReserveSaveAction ==
  ASSUME Inv, NEW w \in Workers, ReserveSave(w)
  PROVE  Inv' /\ Evolves
<1>1. PICK j \in Job : j = job[w] /\ Good(j)
  BY RowTypes DEF Inv
<1> DEFINE new == Saved(Reserve(j.read, j.quantity, j.order))
<1>2. /\ j.step = "saveStock" /\ UNCHANGED <<warehouse, order, session, coupon, events>>
      /\ \/ /\ j.read.version = stock[Place(j)].version /\ stock' = [stock EXCEPT ![Place(j)] = new]
            /\ NextLine(w, j) /\ UNCHANGED givenBack
         \/ Refused(w, j) /\ UNCHANGED stock
  BY <1>1 DEF ReserveSave, CanSave
<1>3. CASE Refused(w, j) /\ UNCHANGED stock
  BY <1>1, <1>2, <1>3, RefusedStep
<1>4. CASE /\ j.read.version = stock[Place(j)].version /\ stock' = [stock EXCEPT ![Place(j)] = new]
           /\ NextLine(w, j) /\ UNCHANGED givenBack
  <2>1. /\ j.location \in Locations /\ j.quantity \in Nat \ {0} /\ j.order \in Orders
        /\ order[j.order].status # "none" /\ j.line \in DOMAIN LinesOf(j.order)
    BY <1>1, <1>2 DEF Good, WellFormed, Job
  <2>2. /\ Place(j) \in Places /\ Line(j).product \in Products
        /\ Line(j) = LinesOf(j.order)[j.line] /\ order[j.order].session \in Sessions
        /\ j.line \in Nat \ {0} /\ DOMAIN LinesOf(j.order) = 1..Len(LinesOf(j.order))
        /\ Len(LinesOf(j.order)) \in Nat
    BY <1>1, <1>2, <2>1, JobLine DEF Good
  <2>3. PICK at \in Places : at = Place(j)
    BY <2>2
  <2>4. at = <<Line(j).product, j.location>> /\ at[1] = Line(j).product
    BY <2>3 DEF Place
  <2>5. PICK item \in Item : item = stock[at] /\ ItemOK(item)
    BY RowTypes DEF Inv
  <2>6. j.read = item /\ CanReserve(item, j.quantity)
    BY <1>1, <1>2, <1>4, <2>3, <2>5 DEF Good, StockRead, Fresh
  <2>7. PICK h : h = [id |-> item.version, reference |-> j.order, quantity |-> j.quantity]
    OBVIOUS
  <2>8. h.id = item.version /\ h.reference = j.order /\ h.quantity = j.quantity
    BY <2>7
  <2>9. PICK row \in Item : row = new
    BY <2>1, <2>5, <2>6, ReserveWrites, PlacementAssumption
  <2>10. /\ ItemOK(row) /\ row.version = item.version + 1
         /\ row.onHand = item.onHand /\ row.holds = item.holds \cup {h}
    BY <2>1, <2>5, <2>6, <2>7, <2>9, ReserveWrites, PlacementAssumption
  <2>11. stock' = [stock EXCEPT ![at] = row]
    BY <1>4, <2>3, <2>9
  <2> HIDE DEF new
  <2>12. /\ j.location \in j.locations
         /\ Line(j).product \in Deny => /\ j.quantity >= Line(j).quantity
                                        /\ j.order \in givenBack \/ FirstLine(j.order, j.line)
    BY <1>1, <1>2 DEF Good, Reserving
  <2>13. HoldOK(at[1], h)'
    <3>1. SUFFICES ASSUME at[1] \in Deny, j.order \notin givenBack,
                          NEW k \in DOMAIN LinesOf(j.order),
                          LinesOf(j.order)[k].product = at[1], FirstLine(j.order, k)
                   PROVE  h.quantity >= LinesOf(j.order)[k].quantity
      BY <1>2, <1>4, <2>1, <2>8 DEF HoldOK, LinesOf, FirstLine
    <3>2. FirstLine(j.order, j.line)
      BY <2>4, <2>12, <3>1
    <3>3. k = j.line
      <4>1. k \in Nat \ {0} /\ LinesOf(j.order)[j.line].product = at[1]
        BY <2>2, <2>4
      <4>2. ~(k < j.line)
        BY <2>2, <3>1, <3>2, <4>1 DEF FirstLine
      <4>3. ~(j.line < k)
        BY <2>2, <3>1, <4>1 DEF FirstLine
      <4>4. QED
        BY <2>2, <4>1, <4>2, <4>3
    <3>4. QED
      BY <2>2, <2>4, <2>8, <2>12, <3>1, <3>3
  <2>14. stock' \in [Places -> Item] /\ \A a \in Places : StockEvolves(a)
    BY <2>5, <2>8, <2>10, <2>11, <2>13, StockWritten
  <2>15. Evolves
    BY <1>2, <1>4, <2>14 DEF Evolves
  <2>16. LineHeld(j.order, j.line, j.locations)'
    <3>1. h \in stock'[at].holds
      BY <2>10, <2>11 DEF Inv, TypeOK
    <3>2. h \in HoldsFor(stock'[<<Line(j).product, j.location>>], j.order)
      BY <2>4, <2>8, <3>1 DEF HoldsFor
    <3>3. LinesOf(j.order)' = LinesOf(j.order)
      BY <1>2 DEF LinesOf
    <3>4. QED
      BY <2>1, <2>2, <2>8, <2>12, <3>2, <3>3 DEF LineHeld
  <2>17. PICK i \in Job : Goto(w, i) /\ Good(i)' /\ ~Locking(i)
    BY <1>1, <1>2, <1>4, <2>15, <2>16, NextLineGood
  <2>18. TypeOK'
    BY <1>2, <1>4, <2>14, <2>17 DEF Inv, TypeOK, Goto
  <2>19. QED
    BY <1>2, <2>15, <2>17, <2>18, JobStep, Unwritten
<1>5. QED
  BY <1>2, <1>3, <1>4

-----------------------------------------------------------------------------
(* The end of CompleteCheckout, and the undoing of the order. *)

\* The session is written and committed, with its order.
LEMMA CompleteStep ==
  ASSUME Inv, NEW w \in Workers, NEW j \in Job, j = job[w], j.step \in {"save", "commit"},
         Complete(w, j), UNCHANGED <<stock, warehouse, order, coupon, givenBack, events>>,
         j.version = session[j.session].version,
         Unlocked(j.session) \/ Locking(j)
  PROVE  Inv' /\ Evolves
<1>1. /\ Good(j) /\ j.session \in Sessions /\ j.order \in Orders
      /\ order[j.order].status # "none" /\ session[j.session].state \in Open
  BY DEF Inv, Good, WellFormed, SessionRead
<1>2. PICK s \in Sessions : s = j.session
  BY <1>1
<1>3. /\ session' = [session EXCEPT ![s].state = "completed", ![s].orderRef = j.order,
                                    ![s].version = @ + 1]
      /\ End(w)
  BY <1>2 DEF Complete
<1>4. session \in [Sessions -> [state: {"started", "locked", "completed", "failed", "expired"},
                                orderRef: Orders \cup {NoOrder}, discounted: BOOLEAN,
                                version: Nat]]
  BY DEF Inv, TypeOK
<1>5. /\ session' \in [Sessions -> [state: {"started", "locked", "completed", "failed", "expired"},
                                    orderRef: Orders \cup {NoOrder}, discounted: BOOLEAN,
                                    version: Nat]]
      /\ session'[s].version = session[s].version + 1 /\ session'[s].orderRef = j.order
      /\ \A x \in Sessions \ {s} : session'[x] = session[x]
  BY <1>1, <1>3, <1>4
<1>6. Evolves
  BY <1>1, <1>2, <1>5, StockKept DEF Evolves
<1>7. \A o \in Orders : Promised(o)' => Promised(o) \/ o = j.order
  BY <1>5 DEF Promised
<1>8. Secured(j.order)'
  BY <1>1, <1>6, SecuredStays DEF Good, Reserving
<1>9. OrdersOK'
  BY <1>1, <1>7 DEF Inv, OrdersOK
<1>10. PICK i \in Job : i = Idle /\ Goto(w, i) /\ Good(i)' /\ ~Locking(i)
  BY <1>3, IdleGood DEF End
<1>11. TypeOK'
  BY <1>5, <1>10 DEF Inv, TypeOK, Goto
<1>12. ASSUME NEW v \in Workers \ {w}, Locking(job[v])
       PROVE  session'[job[v].session] = session[job[v].session]
  <2>1. job[v].session \in Sessions
    BY <1>12 DEF Inv, Good, WellFormed, Locking
  <2>2. job[v].session # s
    BY <1>2, <1>12 DEF Unlocked, Locking, Inv, Locks
  <2>3. QED
    BY <1>5, <2>1, <2>2
<1>13. QED
  BY <1>6, <1>7, <1>8, <1>9, <1>10, <1>11, <1>12, JobStep, Unwritten

\* A completion that goes on with its order.
LEMMA SameCompletion ==
  ASSUME Inv, NEW w \in Workers, NEW j \in Job, j = job[w], Locking(j) \/ j.step = "save",
         UNCHANGED <<order, session, givenBack>>, Evolves,
         NEW i \in Job, Locking(i), i.order = j.order, i.line = j.line, i.session = j.session,
         i.version = j.version, j.version = session[j.session].version, CouponRead(i)'
  PROVE  Good(i)'
<1>1. /\ Good(j) /\ j.order \in Orders /\ order[j.order].status # "none"
      /\ j.session \in Sessions /\ NoOrder \notin Orders
  BY PlacementAssumption DEF Inv, Good, WellFormed, Locking
<1>2. WellFormed(i)'
  BY <1>1 DEF Good, WellFormed, LinesOf, Locking
<1>3. StockRead(i)' /\ SessionRead(i)'
  BY <1>1 DEF Good, StockRead, SessionRead, Locking
<1>4. Reserving(i)'
  <2>1. Secured(j.order)'
    BY <1>1, SecuredStays DEF Good, Reserving, Locking
  <2>2. QED
    BY <2>1 DEF Reserving, Locking
<1>5. QED
  BY <1>2, <1>3, <1>4 DEF Good

\* The session's own write.
LEMMA SaveSessionAction ==
  ASSUME Inv, NEW w \in Workers, SaveSession(w)
  PROVE  Inv' /\ Evolves
<1>1. PICK j \in Job : j = job[w] /\ Good(j)
  BY RowTypes DEF Inv
<1>2. /\ j.step = "save" /\ Unlocked(j.session)
      /\ UNCHANGED <<stock, warehouse, order, coupon, givenBack, events>>
      /\ \/ End(w) /\ UNCHANGED session
         \/ /\ session[j.session].version = j.version
            /\ Goto(w, [j EXCEPT !.step = "redeem"]) /\ UNCHANGED session
         \/ session[j.session].version = j.version /\ Complete(w, j)
  BY <1>1 DEF SaveSession
<1>3. CASE End(w) /\ UNCHANGED session
  BY <1>2, <1>3, EndStep DEF Inv, TypeOK
<1>4. CASE session[j.session].version = j.version /\ Complete(w, j)
  BY <1>1, <1>2, <1>4, CompleteStep
<1>5. CASE /\ session[j.session].version = j.version
           /\ Goto(w, [j EXCEPT !.step = "redeem"]) /\ UNCHANGED session
  <2>1. PICK i \in Job : i = [j EXCEPT !.step = "redeem"]
    BY DEF Job
  <2>2. /\ i.step = "redeem" /\ i.order = j.order /\ i.line = j.line /\ i.session = j.session
        /\ i.version = j.version /\ Goto(w, i)
    BY <1>5, <2>1 DEF Job
  <2>3. Evolves
    BY <1>2, <1>5, StockKept DEF Evolves
  <2>4. Good(i)'
    BY <1>1, <1>2, <1>5, <2>2, <2>3, SameCompletion DEF Locking, CouponRead
  <2>5. QED
    BY <1>1, <1>2, <1>5, <2>2, <2>4, QuietStep DEF Inv, TypeOK
<1>6. QED
  BY <1>2, <1>3, <1>4, <1>5

\* The code is read for the redemption.
LEMMA RedeemReadAction ==
  ASSUME Inv, NEW w \in Workers, RedeemRead(w)
  PROVE  Inv' /\ Evolves
<1>1. PICK j \in Job : j = job[w] /\ Good(j)
  BY RowTypes DEF Inv
<1>2. /\ j.step = "redeem" /\ Locking(j)
      /\ UNCHANGED <<stock, warehouse, order, session, coupon, givenBack, events>>
      /\ \/ /\ ~HasRedemption(coupon, j.order) /\ CanRedeem(coupon, CustomerOf[j.session])
            /\ Goto(w, [j EXCEPT !.step = "saveRedeem", !.redeeming = coupon])
         \/ Goto(w, [j EXCEPT !.step = "commit"])
  BY <1>1 DEF RedeemRead, Locking
<1>3. ASSUME NEW i \in Job, Locking(i), i.order = j.order, i.line = j.line, i.session = j.session,
             i.version = j.version, Goto(w, i), CouponRead(i)'
      PROVE  Inv' /\ Evolves
  <2>1. Evolves
    BY <1>2, StockKept DEF Evolves
  <2>2. j.version = session[j.session].version
    BY <1>1, <1>2 DEF Good, SessionRead
  <2>3. Good(i)'
    BY <1>1, <1>2, <1>3, <2>1, <2>2, SameCompletion
  <2>4. QED
    BY <1>1, <1>2, <1>3, <2>3, QuietStep DEF Inv, TypeOK
<1>4. CASE Goto(w, [j EXCEPT !.step = "commit"])
  <2>1. PICK i \in Job : i = [j EXCEPT !.step = "commit"]
    BY DEF Job
  <2>2. /\ i.step = "commit" /\ i.order = j.order /\ i.line = j.line /\ i.session = j.session
        /\ i.version = j.version
    BY <2>1 DEF Job
  <2>3. QED
    BY <1>3, <1>4, <2>1, <2>2 DEF Locking, CouponRead
<1>5. CASE /\ ~HasRedemption(coupon, j.order) /\ CanRedeem(coupon, CustomerOf[j.session])
           /\ Goto(w, [j EXCEPT !.step = "saveRedeem", !.redeeming = coupon])
  <2>1. PICK c \in CouponRow : c = coupon
    BY RowTypes DEF Inv
  <2>2. PICK i \in Job : i = [j EXCEPT !.step = "saveRedeem", !.redeeming = c]
    BY DEF Job
  <2>3. /\ i.step = "saveRedeem" /\ i.order = j.order /\ i.line = j.line /\ i.session = j.session
        /\ i.version = j.version /\ i.redeeming = c /\ c.version \in Nat
    BY <2>2 DEF Job, CouponRow
  <2>4. CouponRead(i)'
    BY <1>2, <1>5, <2>1, <2>3 DEF CouponRead, Fresh, HasRedemption, CanRedeem, UsedBy
  <2>5. QED
    BY <1>3, <1>5, <2>1, <2>2, <2>3, <2>4 DEF Locking
<1>6. QED
  BY <1>2, <1>4, <1>5

\* The redemption is saved, or given up because the code was written since.
LEMMA RedeemSaveAction ==
  ASSUME Inv, NEW w \in Workers, RedeemSave(w)
  PROVE  Inv' /\ Evolves
<1>1. PICK j \in Job : j = job[w] /\ Good(j)
  BY RowTypes DEF Inv
<1>2. /\ j.step = "saveRedeem" /\ Locking(j)
      /\ UNCHANGED <<stock, warehouse, order, session, givenBack, events>>
      /\ Goto(w, [j EXCEPT !.step = "commit", !.redeeming = NoRead])
      /\ \/ UNCHANGED coupon
         \/ /\ j.redeeming.version = coupon.version
            /\ coupon' = SavedCoupon(Redeem(j.redeeming, j.order, CustomerOf[j.session]))
  BY <1>1 DEF RedeemSave, Locking, CanSaveCoupon
<1>3. /\ j.order \in Orders /\ j.session \in Sessions /\ CustomerOf[j.session] \in Customers
      /\ j.order \in Keys
  BY <1>1, <1>2, PlacementAssumption DEF Good, WellFormed
<1>4. UNCHANGED coupon \/ CouponWrite(coupon, coupon')
  <2>1. SUFFICES ASSUME j.redeeming.version = coupon.version,
                        coupon' = SavedCoupon(Redeem(j.redeeming, j.order, CustomerOf[j.session]))
                 PROVE  CouponWrite(coupon, coupon')
    BY <1>2
  <2>2. PICK c \in CouponRow : c = coupon /\ CouponOK(c)
    BY RowTypes DEF Inv
  <2>3. /\ j.redeeming = c /\ ~HasRedemption(c, j.order)
        /\ CanRedeem(c, CustomerOf[j.session])
    BY <1>1, <1>2, <2>1, <2>2 DEF Good, CouponRead, Fresh
  <2>4. QED
    BY <1>3, <2>1, <2>2, <2>3, RedeemWrites
<1>5. coupon' \in CouponRow /\ CouponOK(coupon)'
  BY <1>4, RowTypes DEF Inv, CouponWrite, CouponOK
<1>6. Evolves
  BY <1>2, <1>4, StockKept DEF Evolves, CouponWrite
<1>7. NoRead \in CouponRow
  BY IdleGood DEF Job, Idle
<1>8. PICK i \in Job : i = [j EXCEPT !.step = "commit", !.redeeming = NoRead]
  BY <1>7 DEF Job
<1>9. /\ i.step = "commit" /\ i.order = j.order /\ i.line = j.line /\ i.session = j.session
      /\ i.version = j.version /\ Goto(w, i)
  BY <1>2, <1>8 DEF Job
<1>10. j.version = session[j.session].version
  BY <1>1, <1>2 DEF Good, SessionRead
<1>11. Good(i)' /\ Locking(i)
  BY <1>1, <1>2, <1>6, <1>9, <1>10, SameCompletion DEF Locking, CouponRead
<1>12. TypeOK'
  BY <1>2, <1>5, <1>9 DEF Inv, TypeOK, Goto
<1>13. QED
  BY <1>1, <1>2, <1>5, <1>6, <1>9, <1>11, <1>12, JobStep, Unwritten

\* The completion commits.
LEMMA CommitSessionAction ==
  ASSUME Inv, NEW w \in Workers, CommitSession(w)
  PROVE  Inv' /\ Evolves
<1>1. PICK j \in Job : j = job[w] /\ Good(j)
  BY RowTypes DEF Inv
<1>2. /\ j.step = "commit" /\ Complete(w, j) /\ Locking(j)
      /\ UNCHANGED <<stock, warehouse, order, coupon, givenBack, events>>
  BY <1>1 DEF CommitSession, Locking
<1>3. j.version = session[j.session].version
  BY <1>1, <1>2 DEF Good, SessionRead
<1>4. QED
  BY <1>1, <1>2, <1>3, CompleteStep

\* An order that exists is written.
LEMMA OrderWritten ==
  ASSUME Inv, NEW o \in Orders, order[o].status # "none",
         order' \in [Orders -> [status: OrderStatuses, session: Sessions \cup {NoSession},
                                fulfillment: BOOLEAN]],
         order'[o].status # "none", order'[o].session = order[o].session,
         \A x \in Orders \ {o} : order'[x] = order[x],
         UNCHANGED <<stock, session, coupon>>, givenBack \subseteq givenBack'
  PROVE  /\ Evolves /\ OrdersOK'
         /\ \A x \in Orders : Promised(x)' => Promised(x) \/ x = o
<1>1. Evolves
  BY StockKept DEF Evolves
<1>2. \A x \in Orders : Promised(x)' => Promised(x) \/ x = o
  BY DEF Promised
<1>3. OrdersOK'
  BY <1>2 DEF Inv, OrdersOK
<1>4. QED
  BY <1>1, <1>2, <1>3

\* The order is cancelled, and its stock is given back afterwards.
LEMMA CancelledStep ==
  ASSUME Inv, NEW w \in Workers, NEW o \in Orders, CanTransition(order[o].status, "cancelled"),
         order' = [order EXCEPT ![o].status = "cancelled"],
         Goto(w, [Idle EXCEPT !.step = "scan", !.order = o]),
         o \in givenBack', givenBack \subseteq givenBack', givenBack' \subseteq Orders,
         UNCHANGED <<stock, warehouse, session, coupon, events>>
  PROVE  Inv' /\ Evolves
<1>1. order[o].status # "none" /\ "cancelled" \in OrderStatuses
  BY DEF CanTransition, Transitions, OrderStatuses
<1>2. /\ order' \in [Orders -> [status: OrderStatuses, session: Sessions \cup {NoSession},
                                fulfillment: BOOLEAN]]
      /\ order'[o].status = "cancelled" /\ order'[o].session = order[o].session
      /\ order'[o].fulfillment = order[o].fulfillment
      /\ \A x \in Orders \ {o} : order'[x] = order[x]
  BY <1>1 DEF Inv, TypeOK
<1>3. /\ Evolves /\ OrdersOK'
      /\ \A x \in Orders : Promised(x)' => Promised(x) \/ x = o
  BY <1>1, <1>2, OrderWritten
<1>4. Secured(o)'
  BY DEF Secured
<1>5. PICK i \in Job : i = [Idle EXCEPT !.step = "scan", !.order = o]
  BY IdleGood DEF Job
<1>6. i.step = "scan" /\ i.order = o /\ i.session = NoSession /\ i.line = 1 /\ Goto(w, i)
  BY <1>5 DEF Idle
<1>7. Good(i)' /\ ~Locking(i)
  <2>1. order'[o].session \in Sessions
    BY <1>1, <1>2 DEF Inv, OrdersOK
  <2>2. QED
    BY <1>2, <1>6, <2>1, FreshJob
<1>8. TypeOK'
  BY <1>2, <1>6 DEF Inv, TypeOK, Goto
<1>9. QED
  BY <1>3, <1>4, <1>6, <1>7, <1>8, JobStep, Unwritten

\* The order a checkout gave up is cancelled, unless it has gone on.
LEMMA CancelUndoneAction ==
  ASSUME Inv, NEW w \in Workers, CancelUndone(w)
  PROVE  Inv' /\ Evolves
<1>1. PICK j \in Job : j = job[w] /\ Good(j)
  BY RowTypes DEF Inv
<1>2. /\ j.step = "cancel" /\ UNCHANGED <<stock, warehouse, session, coupon, givenBack, events>>
      /\ \/ /\ CanTransition(order[j.order].status, "cancelled")
            /\ order' = [order EXCEPT ![j.order].status = "cancelled"]
            /\ Goto(w, [Idle EXCEPT !.step = "scan", !.order = j.order])
         \/ End(w) /\ UNCHANGED order
  BY <1>1 DEF CancelUndone
<1>3. CASE End(w) /\ UNCHANGED order
  BY <1>2, <1>3, EndStep DEF Inv, TypeOK
<1>4. CASE /\ CanTransition(order[j.order].status, "cancelled")
           /\ order' = [order EXCEPT ![j.order].status = "cancelled"]
           /\ Goto(w, [Idle EXCEPT !.step = "scan", !.order = j.order])
  <2>1. j.order \in Orders /\ j.order \in givenBack
    BY <1>1, <1>2 DEF Good, WellFormed, Reserving
  <2>2. PICK o \in Orders : o = j.order
    BY <2>1
  <2>3. QED
    BY <1>2, <1>4, <2>1, <2>2, CancelledStep DEF Inv, TypeOK
<1>5. QED
  BY <1>2, <1>3, <1>4

\* Staff cancel an order.
LEMMA CancelOrderAction ==
  ASSUME Inv, NEW w \in Workers, NEW o \in Orders, CancelOrder(w, o)
  PROVE  Inv' /\ Evolves
BY CancelledStep DEF CancelOrder, Inv, TypeOK

\* The fulfillment of an order that is secured is recorded, once.
LEMMA SettleFulfillmentAction ==
  ASSUME Inv, NEW w \in Workers, SettleFulfillment(w)
  PROVE  Inv' /\ Evolves
<1>1. PICK j \in Job : j = job[w] /\ Good(j)
  BY RowTypes DEF Inv
<1>2. PICK o : o = j.order
  OBVIOUS
<1>3. /\ j.step = "settle" /\ End(w)
      /\ UNCHANGED <<stock, warehouse, session, coupon, givenBack, events>>
      /\ \/ UNCHANGED order
         \/ order' = [order EXCEPT ![o].status = "fulfillment_requested", ![o].fulfillment = TRUE]
  BY <1>1, <1>2 DEF SettleFulfillment
<1>4. o \in Orders /\ order[o].status # "none" /\ Secured(o)
  BY <1>1, <1>2, <1>3 DEF Good, WellFormed, Reserving
<1>5. CASE UNCHANGED order
  BY <1>3, <1>5, EndStep DEF Inv, TypeOK
<1>6. CASE order' = [order EXCEPT ![o].status = "fulfillment_requested", ![o].fulfillment = TRUE]
  <2>1. /\ order' \in [Orders -> [status: OrderStatuses, session: Sessions \cup {NoSession},
                                  fulfillment: BOOLEAN]]
        /\ order'[o].status # "none" /\ order'[o].session = order[o].session
        /\ \A x \in Orders \ {o} : order'[x] = order[x]
    <3>1. "fulfillment_requested" \in OrderStatuses \ {"none"}
      BY DEF OrderStatuses, Transitions
    <3>2. QED
      BY <1>4, <1>6, <3>1 DEF Inv, TypeOK
  <2>2. /\ Evolves /\ OrdersOK'
        /\ \A x \in Orders : Promised(x)' => Promised(x) \/ x = o
    BY <1>3, <1>4, <2>1, OrderWritten
  <2>3. Secured(o)'
    BY <1>4, <2>2, SecuredStays
  <2>4. PICK i \in Job : i = Idle /\ Goto(w, i) /\ Good(i)' /\ ~Locking(i)
    BY <1>3, IdleGood DEF End
  <2>5. TypeOK'
    BY <1>3, <2>1, <2>4 DEF Inv, TypeOK, Goto
  <2>6. QED
    BY <1>3, <2>2, <2>3, <2>4, <2>5, JobStep, Unwritten
<1>7. QED
  BY <1>3, <1>5, <1>6

-----------------------------------------------------------------------------
(* releaseOrderStock. *)

\* A product is done: the job goes on with the next, or to what follows the call.
LEMMA NextReleaseGood ==
  ASSUME Inv, UNCHANGED order, NEW w \in Workers, NEW j \in Job, WellFormed(j), j.order \in Orders,
         j.step # "idle", j.order \in givenBack', NextRelease(w, j)
  PROVE  \E i \in Job : Goto(w, i) /\ Good(i)' /\ ~Locking(i)
<1>1. /\ order[j.order].status # "none" /\ j.line \in DOMAIN LinesOf(j.order)
      /\ order[j.order].session \in Sessions /\ LastLine(j) = (j.line = Len(LinesOf(j.order)))
      /\ DOMAIN LinesOf(j.order) = 1..Len(LinesOf(j.order)) /\ Len(LinesOf(j.order)) \in Nat
      /\ j.line \in Nat \ {0}
  BY JobLine DEF WellFormed
<1>2. NoOrder \notin Orders /\ NoSession \notin Sessions /\ j.then \in {"idle", "cancel"}
  BY PlacementAssumption DEF Job
<1>3. PICK o \in Orders : o = j.order
  OBVIOUS
<1>4. CASE LastLine(j) /\ j.then = "idle"
  BY <1>4, IdleGood DEF NextRelease
<1>5. CASE LastLine(j) /\ j.then = "cancel"
  <2>1. PICK i \in Job : i = [Idle EXCEPT !.step = "cancel", !.order = o]
    BY IdleGood DEF Job
  <2>2. i.step = "cancel" /\ i.order = o /\ i.session = NoSession /\ i.line = 1
    BY <2>1 DEF Idle
  <2>3. Goto(w, i)
    BY <1>3, <1>5, <2>1 DEF NextRelease
  <2>4. Good(i)' /\ ~Locking(i)
    BY <1>1, <1>3, <2>2, FreshJob
  <2>5. QED
    BY <2>3, <2>4
<1>6. CASE ~LastLine(j)
  <2>1. PICK n \in Nat \ {0} : n = j.line + 1
    BY <1>1
  <2>2. PICK th \in {"idle", "cancel"} : th = j.then
    BY <1>2
  <2>3. PICK i \in Job : i = [Idle EXCEPT !.step = "scan", !.line = n, !.order = o, !.then = th]
    BY IdleGood DEF Job
  <2>4. i.step = "scan" /\ i.order = o /\ i.session = NoSession /\ i.line = n
    BY <2>3 DEF Idle
  <2>5. Goto(w, i)
    BY <1>3, <1>6, <2>1, <2>2, <2>3 DEF NextRelease
  <2>6. n \in DOMAIN LinesOf(o)'
    <3>1. j.line # Len(LinesOf(j.order))
      BY <1>1, <1>6
    <3>2. n \in 1..Len(LinesOf(j.order))
      BY <1>1, <2>1, <3>1
    <3>3. LinesOf(o)' = LinesOf(j.order)
      BY <1>3 DEF LinesOf
    <3>4. QED
      BY <1>1, <3>2, <3>3
  <2>7. WellFormed(i)'
    BY <1>1, <1>2, <1>3, <2>4, <2>6 DEF WellFormed
  <2>8. StockRead(i)' /\ CouponRead(i)' /\ SessionRead(i)' /\ ~Locking(i)
    BY <1>2, <2>4 DEF StockRead, CouponRead, SessionRead, Locking
  <2>9. Reserving(i)'
    BY <1>3, <2>4 DEF Reserving
  <2>10. QED
    BY <2>5, <2>7, <2>8, <2>9 DEF Good
<1>7. QED
  BY <1>2, <1>4, <1>5, <1>6

\* A reservation is done: the job goes on with the others of this product.
LEMMA NextHoldGood ==
  ASSUME Inv, Evolves, UNCHANGED <<order, session>>, NEW w \in Workers,
         NEW k \in Job, k = job[w], k.step \in {"release", "saveRelease"},
         NEW j \in Job, j.order = k.order, j.line = k.line, j.session = k.session,
         j.version = k.version, j.todo = k.todo, j.step = k.step, WellFormed(j), NextHold(w, j)
  PROVE  \E i \in Job : Goto(w, i) /\ Good(i)' /\ ~Locking(i)
<1>1. Good(k) /\ Good(k)' /\ ~Locking(k)
  BY GoodStays DEF Inv, Locking
<1>2. j.order \in Orders /\ j.order \in givenBack' /\ NoOrder \notin Orders
  BY <1>1, PlacementAssumption DEF Good, WellFormed, Reserving
<1>3. PICK rest \in SUBSET (Locations \X Nat) : rest = j.todo \ {<<j.location, j.quantity>>}
  BY DEF Job
<1>4. CASE rest = {}
  BY <1>2, <1>3, <1>4, NextReleaseGood DEF NextHold
<1>5. CASE rest # {}
  <2>1. NoItem \in Item
    BY DEF NoItem, Item
  <2>2. PICK z \in Nat : z = 0
    OBVIOUS
  <2>3. PICK i \in Job : i = [j EXCEPT !.step = "release", !.todo = rest, !.location = NoSession,
                                       !.quantity = z, !.read = NoItem]
    BY <2>1 DEF Job
  <2>4. /\ i.step = "release" /\ i.todo = rest /\ i.order = k.order /\ i.line = k.line
        /\ i.session = k.session /\ i.version = k.version
    BY <2>3 DEF Job
  <2>5. Goto(w, i)
    BY <1>3, <1>5, <2>2, <2>3 DEF NextHold
  <2>6. WellFormed(i)'
    BY <1>1, <1>2, <2>4 DEF Good, WellFormed
  <2>7. StockRead(i)' /\ CouponRead(i)' /\ SessionRead(i)' /\ ~Locking(i)
    BY <1>1, <2>4 DEF Good, StockRead, CouponRead, SessionRead, Locking
  <2>8. Reserving(i)'
    <3>1. \A t \in k.todo : Own(k, t[1], t[2])'
      BY <1>1 DEF Good, Reserving
    <3>2. Line(i)' = Line(k)'
      BY <2>4 DEF Line
    <3>3. \A t \in k.todo : Own(k, t[1], t[2])' => Own(i, t[1], t[2])'
      BY <2>4, <3>2 DEF Own
    <3>4. rest \subseteq k.todo
      BY <1>3
    <3>5. QED
      BY <1>2, <2>4, <3>1, <3>3, <3>4 DEF Reserving
  <2>9. QED
    BY <2>5, <2>6, <2>7, <2>8 DEF Good
<1>6. QED
  BY <1>4, <1>5

\* The order's reservations of a product are listed.
LEMMA ScanHoldsAction ==
  ASSUME Inv, NEW w \in Workers, ScanHolds(w)
  PROVE  Inv' /\ Evolves
<1>1. PICK j \in Job : j = job[w] /\ Good(j)
  BY RowTypes DEF Inv
<1> DEFINE p == Line(j).product
           found == {t \in OrderHolds(p, j.order) : FirstLine(j.order, j.line)}
<1>2. /\ j.step = "scan" /\ UNCHANGED <<stock, warehouse, order, session, coupon, givenBack, events>>
      /\ \/ NextRelease(w, j)
         \/ Goto(w, [j EXCEPT !.step = "release", !.todo = found])
  BY <1>1 DEF ScanHolds
<1>3. /\ WellFormed(j) /\ j.order \in Orders /\ p \in Products /\ NoOrder \notin Orders
      /\ j.order \in givenBack
  BY <1>1, <1>2, JobLine, PlacementAssumption DEF Good, WellFormed, Reserving
<1>4. CASE NextRelease(w, j)
  <2>1. PICK i \in Job : Goto(w, i) /\ Good(i)' /\ ~Locking(i)
    BY <1>2, <1>3, <1>4, NextReleaseGood
  <2>2. QED
    BY <1>2, <2>1, QuietStep DEF Inv, TypeOK
<1>5. CASE Goto(w, [j EXCEPT !.step = "release", !.todo = found])
  <2>1. ASSUME NEW t \in found
        PROVE  \E l \in Locations : \E h \in stock[<<p, l>>].holds :
                 h.reference = j.order /\ t = <<l, h.id>> /\ h.id \in Nat
    <3>1. PICK l \in Locations : t \in {<<l, h.id>> : h \in HoldsFor(stock[<<p, l>>], j.order)}
      BY <2>1 DEF OrderHolds
    <3>2. PICK h \in HoldsFor(stock[<<p, l>>], j.order) : t = <<l, h.id>>
      BY <3>1
    <3>3. h \in stock[<<p, l>>].holds /\ h.reference = j.order
      BY <3>2 DEF HoldsFor
    <3>4. <<p, l>> \in Places
      BY <1>3 DEF Places
    <3>5. h.id \in Nat
      BY <3>3, <3>4, RowTypes DEF Inv
    <3>6. QED
      BY <3>2, <3>3, <3>5
  <2>2. found \in SUBSET (Locations \X Nat)
    <3>1. SUFFICES ASSUME NEW t \in found PROVE t \in Locations \X Nat
      OBVIOUS
    <3>2. PICK l \in Locations : \E h \in stock[<<p, l>>].holds :
            h.reference = j.order /\ t = <<l, h.id>> /\ h.id \in Nat
      BY <2>1
    <3>3. PICK n \in Nat : t = <<l, n>>
      BY <3>2
    <3>4. QED
      BY <3>3
  <2>3. ASSUME NEW t \in found PROVE Own(j, t[1], t[2])
    <3>1. PICK l \in Locations : \E h \in stock[<<p, l>>].holds :
            h.reference = j.order /\ t = <<l, h.id>> /\ h.id \in Nat
      BY <2>1, <2>3
    <3>2. PICK h \in stock[<<p, l>>].holds :
            h.reference = j.order /\ t = <<l, h.id>> /\ h.id \in Nat
      BY <3>1
    <3>3. <<p, l>> \in Places /\ t[1] = l /\ t[2] = h.id
      BY <1>3, <3>2 DEF Places
    <3>4. ItemOK(stock[<<p, l>>])
      BY <3>3 DEF Inv
    <3>5. QED
      BY <3>2, <3>3, <3>4 DEF Own, ItemOK
  <2> HIDE DEF p, found
  <2>4. PICK todo \in SUBSET (Locations \X Nat) : todo = found
    BY <2>2
  <2>5. PICK i \in Job : i = [j EXCEPT !.step = "release", !.todo = todo]
    BY DEF Job
  <2>6. /\ i.step = "release" /\ i.todo = todo /\ i.order = j.order /\ i.line = j.line
        /\ i.session = j.session /\ i.version = j.version
    BY <2>5 DEF Job
  <2>7. Goto(w, i)
    BY <1>5, <2>4, <2>5
  <2>8. WellFormed(i)'
    BY <1>2, <1>3, <2>6 DEF WellFormed, LinesOf
  <2>9. StockRead(i)' /\ CouponRead(i)' /\ SessionRead(i)' /\ ~Locking(i)
    BY <1>1, <1>2, <2>6 DEF Good, StockRead, CouponRead, SessionRead, Locking
  <2>10. Reserving(i)'
    <3>1. Line(i)' = Line(j)
      BY <1>2, <2>6 DEF Line, LinesOf
    <3>2. \A t \in todo : Own(j, t[1], t[2]) => Own(i, t[1], t[2])'
      BY <1>2, <2>6, <3>1 DEF Own
    <3>3. QED
      BY <1>2, <1>3, <2>3, <2>4, <2>6, <3>2 DEF Reserving
  <2>11. QED
    BY <1>2, <2>7, <2>8, <2>9, <2>10, QuietStep DEF Good, Inv, TypeOK
<1>6. QED
  BY <1>2, <1>4, <1>5

\* The row of a reservation is read; one that is gone is passed over.
LEMMA ReleaseReadAction ==
  ASSUME Inv, NEW w \in Workers, ReleaseRead(w)
  PROVE  Inv' /\ Evolves
<1>1. PICK j \in Job : j = job[w] /\ Good(j)
  BY RowTypes DEF Inv
<1>2. j.step = "release" /\ UNCHANGED <<stock, warehouse, order, session, coupon, givenBack, events>>
  BY <1>1 DEF ReleaseRead
<1>3. PICK t \in j.todo :
        LET at == [j EXCEPT !.location = t[1], !.quantity = t[2]]
            item == stock[Place(at)]
        IN  \/ Goto(w, [at EXCEPT !.step = "saveRelease", !.read = item])
            \/ NextHold(w, at)
  BY <1>1 DEF ReleaseRead
<1>4. t[1] \in Locations /\ t[2] \in Nat /\ t = <<t[1], t[2]>>
  BY DEF Job
<1>5. PICK at \in Job : at = [j EXCEPT !.location = t[1], !.quantity = t[2]]
  BY <1>4 DEF Job
<1>6. /\ at.step = "release" /\ at.location = t[1] /\ at.quantity = t[2] /\ at.order = j.order
      /\ at.line = j.line /\ at.session = j.session /\ at.version = j.version
      /\ at.todo = j.todo
  BY <1>2, <1>5 DEF Job
<1>7. WellFormed(at) /\ at.order \in Orders /\ NoOrder \notin Orders
  BY <1>1, <1>2, <1>6, PlacementAssumption DEF Good, WellFormed
<1>8. Evolves
  BY <1>2, StockKept DEF Evolves
<1>9. \/ Goto(w, [at EXCEPT !.step = "saveRelease", !.read = stock[Place(at)]])
      \/ NextHold(w, at)
  BY <1>3, <1>5
<1>10. CASE NextHold(w, at)
  <2>1. PICK i \in Job : Goto(w, i) /\ Good(i)' /\ ~Locking(i)
    BY <1>1, <1>2, <1>6, <1>7, <1>8, <1>10, NextHoldGood
  <2>2. QED
    BY <1>2, <2>1, QuietStep DEF Inv, TypeOK
<1>11. CASE Goto(w, [at EXCEPT !.step = "saveRelease", !.read = stock[Place(at)]])
  <2>1. Place(at) \in Places
    BY <1>4, <1>6, <1>7, JobLine
  <2>2. PICK item \in Item : item = stock[Place(at)]
    BY <2>1, RowTypes DEF Inv
  <2>3. PICK i \in Job : i = [at EXCEPT !.step = "saveRelease", !.read = item]
    BY DEF Job
  <2>4. /\ i.step = "saveRelease" /\ i.location = t[1] /\ i.quantity = t[2] /\ i.order = j.order
        /\ i.line = j.line /\ i.session = j.session /\ i.version = j.version
        /\ i.todo = j.todo /\ i.read = item /\ item.version \in Nat
    BY <1>6, <2>3 DEF Job, Item
  <2>5. Goto(w, i)
    BY <1>11, <2>2, <2>3
  <2>6. Line(i)' = Line(j) /\ Place(i)' = Place(at)
    BY <1>2, <1>6, <2>4 DEF Place, Line, LinesOf
  <2>7. WellFormed(i)'
    BY <1>2, <1>4, <1>6, <1>7, <2>4 DEF WellFormed, LinesOf
  <2>8. StockRead(i)'
    BY <1>2, <2>2, <2>4, <2>6 DEF StockRead, Fresh
  <2>9. CouponRead(i)' /\ SessionRead(i)' /\ ~Locking(i)
    BY <1>1, <1>2, <2>4 DEF Good, CouponRead, SessionRead, Locking
  <2>10. Reserving(i)'
    <3>1. \A u \in j.todo : Own(j, u[1], u[2]) => Own(i, u[1], u[2])'
      BY <1>2, <2>4, <2>6 DEF Own
    <3>2. <<i.location, i.quantity>> \in i.todo
      BY <1>4, <2>4
    <3>3. QED
      BY <1>1, <1>2, <2>4, <3>1, <3>2 DEF Good, Reserving
  <2>11. QED
    BY <1>2, <2>5, <2>7, <2>8, <2>9, <2>10, QuietStep DEF Good, Inv, TypeOK
<1>12. QED
  BY <1>9, <1>10, <1>11

\* The release is saved, or passed over because the row was written since.
LEMMA ReleaseSaveAction ==
  ASSUME Inv, NEW w \in Workers, ReleaseSave(w)
  PROVE  Inv' /\ Evolves
<1>1. PICK j \in Job : j = job[w] /\ Good(j)
  BY RowTypes DEF Inv
<1>2. /\ j.step = "saveRelease" /\ NextHold(w, j)
      /\ UNCHANGED <<warehouse, order, session, coupon, givenBack, events>>
  BY <1>1 DEF ReleaseSave
<1>3. PICK h \in j.read.holds :
        /\ h.id = j.quantity
        /\ \/ UNCHANGED stock
           \/ /\ j.read.version = stock[Place(j)].version
              /\ stock' = [stock EXCEPT ![Place(j)] = Saved(Release(j.read, h))]
  BY <1>1 DEF ReleaseSave, CanSave
<1>4. j.location \in Locations /\ WellFormed(j)
  BY <1>1, <1>2 DEF Good, WellFormed
<1>5. PICK at \in Places : at = Place(j) /\ at = <<Line(j).product, j.location>>
  BY <1>2, <1>4, JobLine DEF Place
<1>6. stock' \in [Places -> Item] /\ \A a \in Places : StockEvolves(a)
  <2>1. CASE UNCHANGED stock
    BY <2>1, StockKept DEF Inv, TypeOK
  <2>2. CASE /\ j.read.version = stock[Place(j)].version
             /\ stock' = [stock EXCEPT ![Place(j)] = Saved(Release(j.read, h))]
    <3>1. PICK item \in Item : item = stock[at] /\ ItemOK(item)
      BY RowTypes DEF Inv
    <3>2. j.read = item
      BY <1>1, <1>2, <1>5, <2>2, <3>1 DEF Good, StockRead, Fresh
    <3>3. PICK row \in Item : row = Saved(Release(item, h))
      BY <3>1, <3>2, HoldGone
    <3>4. /\ ItemOK(row) /\ row.version = item.version + 1
          /\ row.onHand = item.onHand /\ row.holds = item.holds \ {h}
      BY <3>1, <3>2, <3>3, HoldGone
    <3>5. h.reference \in givenBack
      <4>1. /\ <<j.location, j.quantity>> \in j.todo
            /\ \A t \in j.todo : Own(j, t[1], t[2])
            /\ j.order \in givenBack
        BY <1>1, <1>2 DEF Good, Reserving
      <4>2. <<j.location, j.quantity>>[1] = j.location /\ <<j.location, j.quantity>>[2] = j.quantity
        OBVIOUS
      <4>3. Own(j, j.location, j.quantity)
        BY <4>1, <4>2
      <4>4. QED
        BY <1>3, <1>5, <3>1, <3>2, <4>1, <4>3 DEF Own
    <3>6. stock' = [stock EXCEPT ![at] = row]
      BY <1>5, <2>2, <3>2, <3>3
    <3>7. QED
      BY <1>2, <3>1, <3>4, <3>5, <3>6, StockWritten
  <2>3. QED
    BY <1>3, <2>1, <2>2
<1>7. Evolves
  BY <1>2, <1>6 DEF Evolves
<1>8. PICK i \in Job : Goto(w, i) /\ Good(i)' /\ ~Locking(i)
  BY <1>1, <1>2, <1>4, <1>7, NextHoldGood
<1>9. TypeOK'
  BY <1>2, <1>6, <1>8 DEF Inv, TypeOK, Goto
<1>10. QED
  BY <1>2, <1>7, <1>8, <1>9, JobStep, Unwritten

-----------------------------------------------------------------------------
(* Every behaviour keeps the invariant. *)

\* The rows, the sessions and the code are in order at the start.
LEMMA InitInv == Init => Inv
<1> SUFFICES ASSUME Init PROVE Inv
  OBVIOUS
<1>1. NoItem \in Item /\ ItemOK(NoItem)
  <2>1. NoItem \in Item
    BY DEF NoItem, Item
  <2>2. DOMAIN Amounts(NoItem) = {} /\ Amounts(NoItem) = [h \in NoItem.holds |-> h.quantity]
    BY DEF Amounts, NoItem
  <2>3. IsFiniteSet(Units(Amounts(NoItem))) /\ Total(Amounts(NoItem)) = 0
    BY <2>2, TotalEmpty
  <2>4. QED
    BY <2>1, <2>3 DEF ItemOK, SoundItem, Held, Amounts, NoItem
<1>2. ASSUME NEW at \in Places PROVE stock[at] \in Item /\ ItemOK(stock[at]) /\ stock[at].holds = {}
  <2>1. InitialStock[at] \in Nat
    BY PlacementAssumption
  <2>2. \/ stock[at] = NoItem
        \/ stock[at] = Saved(Receive(NoItem, InitialStock[at]))
    BY DEF Init
  <2>3. NoItem.holds = {}
    BY DEF NoItem
  <2>4. PICK row \in Item : row = NoItem /\ ItemOK(row) /\ row.holds = {}
    BY <1>1, <2>3
  <2>5. PICK q \in Nat : q = InitialStock[at]
    BY <2>1
  <2>6. /\ Saved(Receive(row, q)) \in Item /\ ItemOK(Saved(Receive(row, q)))
        /\ Saved(Receive(row, q)).holds = {}
    BY <2>4, OnHandWrites
  <2>7. QED
    BY <2>2, <2>4, <2>5, <2>6
<1>3. PICK n \in UsageLimits : coupon = NewCoupon(n)
  BY DEF Init
<1>4. coupon \in CouponRow
  BY <1>3 DEF NewCoupon, CouponRow, CouponStatuses, CouponTransitions
<1>5. CouponOK(coupon)
  <2>1. n \in Nat \ {0}
    BY CouponAssumption
  <2>2. IsFiniteSet({}) /\ Cardinality({}) = 0
    BY FS_EmptySet
  <2>3. QED
    BY <1>3, <2>1, <2>2 DEF NewCoupon, CouponOK
<1>6. TypeOK
  <2>1. stock \in [Places -> Item]
    BY <1>2 DEF Init
  <2>2. "none" \in OrderStatuses
    BY DEF OrderStatuses, Transitions
  <2>3. order \in [Orders -> [status: OrderStatuses, session: Sessions \cup {NoSession},
                              fulfillment: BOOLEAN]]
    BY <2>2 DEF Init
  <2>4. session \in [Sessions -> [state: {"started", "locked", "completed", "failed", "expired"},
                                  orderRef: Orders \cup {NoOrder}, discounted: BOOLEAN,
                                  version: Nat]]
    BY DEF Init
  <2>5. job \in [Workers -> Job] /\ warehouse \in [Locations -> {"none", "active", "inactive"}]
    BY IdleGood DEF Init
  <2>6. QED
    BY <1>4, <2>1, <2>3, <2>4, <2>5 DEF TypeOK, Init
<1>7. \A o \in Orders : order[o].status = "none" /\ ~Promised(o)
  BY PlacementAssumption DEF Init, Promised
<1>8. OrdersOK
  BY <1>7 DEF OrdersOK, Promised
<1>9. HoldsOK
  BY <1>2 DEF HoldsOK, Places
<1>10. \A w \in Workers : job[w] = Idle
  BY DEF Init
<1>11. /\ Idle.step = "idle" /\ Idle.session = NoSession /\ Idle.order = NoOrder
       /\ NoSession \notin Sessions /\ NoOrder \notin Orders
  BY PlacementAssumption DEF Idle
<1>12. Locks /\ \A w \in Workers : Good(job[w])
  BY <1>10, <1>11 DEF Locks, Locking, Good, WellFormed, StockRead, CouponRead, SessionRead, Reserving
<1>13. QED
  BY <1>2, <1>5, <1>6, <1>7, <1>8, <1>9, <1>12 DEF Inv

\* Every step keeps the invariant, and does to the rows what any step may.
LEMMA NextInv == Inv /\ Next => Inv' /\ Evolves
<1> SUFFICES ASSUME Inv, Next PROVE Inv' /\ Evolves
  OBVIOUS
<1>1. ASSUME NEW w \in Workers, Step(w) PROVE Inv' /\ Evolves
  BY <1>1, ValidateLineAction, CreateOrderAction, ReserveLineAction, ReserveReadAction,
     ReserveSaveAction, SaveSessionAction, RedeemReadAction, RedeemSaveAction,
     CommitSessionAction, CancelUndoneAction, ScanHoldsAction, ReleaseReadAction,
     ReleaseSaveAction, SettleFulfillmentAction DEF Step
<1>2. ASSUME NEW w \in Workers, Start(w) PROVE Inv' /\ Evolves
  BY <1>2, BeginCompleteAction, BeginFulfillmentAction, CancelOrderAction DEF Start
<1>3. ASSUME NEW w \in Workers, Crash(w) PROVE Inv' /\ Evolves
  BY <1>3, CrashAction
<1>4. QED
  BY <1>1, <1>2, <1>3, StaffActions, ShopperActions DEF Next

\* A step that changes nothing keeps the invariant.
LEMMA StutterInv == Inv /\ UNCHANGED vars => Inv'
<1> SUFFICES ASSUME Inv, UNCHANGED vars PROVE Inv'
  OBVIOUS
<1>1. UNCHANGED <<stock, warehouse, order, session, coupon, job, givenBack, events>>
  BY DEF vars
<1>2. TypeOK'
  BY <1>1 DEF Inv, TypeOK
<1>3. Evolves /\ CouponOK(coupon)'
  BY <1>1, StockKept, Unwritten DEF Evolves
<1>4. QED
  BY <1>1, <1>2, <1>3, BesideStep

\* Whatever completions, fulfillments, cancellations, staff operations and crashes
\* interleave, the invariant holds.
THEOREM Invariant == Spec => []Inv
<1>1. Inv /\ [Next]_vars => Inv'
  BY NextInv, StutterInv
<1>2. QED
  BY <1>1, InitInv, PTL DEF Spec

\* Every variable keeps its type.
THEOREM TypeCorrect == Spec => []TypeOK
<1>1. Inv => TypeOK
  BY DEF Inv
<1>2. QED
  BY <1>1, Invariant, PTL

\* ReserveStock, ReleaseReservation, CommitReservation, AdjustInventory and TransferStock
\* read a row in one transaction's step and save it in another; no interleaving of any
\* number of them makes the reserved quantity differ from the reservations, or exceed
\* what is on hand.
THEOREM StockStaysSound == Spec => []StockSound
<1>1. Inv => StockSound
  BY DEF Inv, StockSound, ItemOK
<1>2. QED
  BY <1>1, Invariant, PTL

\* RedeemCoupon counts every redemption once, under one key and (unless the code is for
\* several uses) for one customer, and never beyond the largest limit the code has had.
THEOREM CodeWithinLimits == Spec => []UsageWithinLimits
<1>1. Inv => UsageWithinLimits
  BY DEF Inv, CouponOK, UsageWithinLimits
<1>2. QED
  BY <1>1, Invariant, PTL

\* An order a shopper was told is placed, or whose fulfillment was requested, holds
\* what stock limits until its stock is given back, whatever the lines of carts are:
\* the first line about each variant in full.  The invariant has to say where a line
\* is held, at the locations requestReservation listed, because that is where the
\* call looks before it takes a later line about the variant for reserved.
THEOREM PromisesAreHeld == Spec => []PromisedIsHeld
<1>1. Inv => PromisedIsHeld
  <2>1. \A o \in Orders : \A k \in DOMAIN LinesOf(o) : LineHeld(o, k, Locations) =>
          (LinesOf(o)[k].product \in Deny /\ FirstLine(o, k) => HoldsLine(o, LinesOf(o)[k]))
    BY DEF LineHeld, HoldsLine
  <2>2. QED
    BY <2>1 DEF Inv, PromisedIsHeld, Promised, Secured
<1>2. QED
  BY <1>1, Invariant, PTL

\* No step of a job writes an old quantity on hand back: the reservation and release
\* steps save what they read only if it still is the row.
THEOREM OnHandStays == Spec => OnHandKept
<1>1. Inv /\ [Next]_vars =>
        [job' # job => \A at \in Places : stock'[at].onHand = stock[at].onHand]_vars
  BY NextInv DEF Evolves, StockEvolves
<1>2. QED
  BY <1>1, Invariant, PTL DEF Spec, OnHandKept

\* A completed, expired or failed checkout session keeps its state and its order,
\* whatever completions read it before.
THEOREM SessionStaysFinal == Spec => SessionOrderFinal
<1>1. Inv /\ [Next]_vars =>
        [\A s \in Sessions :
           session[s].state \notin Open =>
             session'[s].state = session[s].state /\ session'[s].orderRef = session[s].orderRef]_vars
  BY NextInv DEF Evolves
<1>2. QED
  BY <1>1, Invariant, PTL DEF Spec, SessionOrderFinal

\* No write of the code, by a completion or by staff, drops a redemption.
THEOREM RedemptionsStay == Spec => RedemptionsKept
<1>1. Inv /\ [Next]_vars => [coupon.redemptions \subseteq coupon'.redemptions]_vars
  BY NextInv DEF Evolves
<1>2. QED
  BY <1>1, Invariant, PTL DEF Spec, RedemptionsKept
=============================================================================
