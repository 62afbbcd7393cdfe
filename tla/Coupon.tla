------------------------------- MODULE Coupon -------------------------------
(***************************************************************************)
(* The coupon behind a discount code: its status, its limit, the ledger of   *)
(* its redemptions, and the version under which the row is saved.  The code  *)
(* has no end date; what it takes off a cart is Promotions' arithmetic.      *)
(***************************************************************************)
EXTENDS Naturals, FiniteSets

CONSTANTS
  Keys,        \* idempotency keys of redemptions: orders, and requests of the staff
  Customers,   \* who redeems, known by reference or by email
  MultiUse,    \* whether a customer may use the code more than once
  UsageLimits  \* limits a code may be given

ASSUME CouponAssumption == MultiUse \in BOOLEAN /\ UsageLimits \subseteq Nat \ {0}

CouponTransitions ==
  [active   |-> {"disabled", "expired", "depleted"},
   disabled |-> {"active", "expired"},
   expired  |-> {},
   depleted |-> {}]

CouponStatuses == DOMAIN CouponTransitions

\* peak, the largest limit the code has had, is kept for the properties only.
CouponRow ==
  [status: CouponStatuses, limit: UsageLimits, peak: UsageLimits, count: Nat,
   redemptions: SUBSET [key: Keys, customer: Customers], version: Nat]

NewCoupon(limit) ==
  [status |-> "active", limit |-> limit, peak |-> limit, count |-> 0, redemptions |-> {},
   version |-> 1]

UsedBy(c, customer) == \E r \in c.redemptions : r.customer = customer

\* calculateDiscounts: the code still takes something off.
Applicable(c, customer) ==
  c.status = "active" /\ c.count < c.limit /\ (MultiUse \/ ~UsedBy(c, customer))

HasRedemption(c, key) == \E r \in c.redemptions : r.key = key

CanRedeem(c, customer) == c.status = "active" /\ (MultiUse \/ ~UsedBy(c, customer))

\* Mutant: the limit is looked for one redemption too late.
RedeemLate(c, key, customer) ==
  [c EXCEPT !.redemptions = @ \cup {[key |-> key, customer |-> customer]},
            !.count = @ + 1,
            !.status = IF c.count >= c.limit THEN "depleted" ELSE @]

Redeem(c, key, customer) ==
  [c EXCEPT !.redemptions = @ \cup {[key |-> key, customer |-> customer]},
            !.count = @ + 1,
            !.status = IF c.count + 1 >= c.limit THEN "depleted" ELSE @]

Reconfigure(c, limit) ==
  [c EXCEPT !.limit = limit, !.peak = IF limit > @ THEN limit ELSE @]

\* PrismaCouponRepository.save: the update asks for the version that was read.
\* Mutant: it does not.
CanSaveCouponAny(current, read) == TRUE

CanSaveCoupon(current, read) == read.version = current.version

SavedCoupon(c) == [c EXCEPT !.version = @ + 1]
=============================================================================
