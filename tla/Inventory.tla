------------------------------ MODULE Inventory ------------------------------
(***************************************************************************)
(* The inventory item: the stock of one product at one location, the         *)
(* reservations that hold part of it, and the version under which the row    *)
(* is saved.  Version 0 stands for a row that does not exist yet.            *)
(***************************************************************************)
EXTENDS Money

CONSTANT References  \* what stock may be reserved for: orders, carts, notes of the staff

Hold == [id: Nat, reference: References, quantity: Nat \ {0}]

Item == [onHand: Nat, reserved: Nat, holds: SUBSET Hold, version: Nat]

NoItem == [onHand |-> 0, reserved |-> 0, holds |-> {}, version |-> 0]

Exists(item) == item.version > 0

Available(item) == item.onHand - item.reserved

\* What the reservations of an item add up to.
Held(item) == Total([h \in item.holds |-> h.quantity])

HoldsFor(item, reference) == {h \in item.holds : h.reference = reference}

-----------------------------------------------------------------------------
(* The aggregate's methods: a guard where the code throws, and the new item. *)

Receive(item, q) == [item EXCEPT !.onHand = @ + q]

CanAdjust(item, onHand) == onHand >= item.reserved

Adjust(item, onHand) == [item EXCEPT !.onHand = onHand]

\* Mutant: availability is not looked at.
CanReserveAny(item, q) == TRUE

CanReserve(item, q) == Available(item) >= q

\* The reservation's id is fresh: no other save of this row has this version.
Reserve(item, q, reference) ==
  [item EXCEPT
     !.reserved = @ + q,
     !.holds = @ \cup {[id |-> item.version, reference |-> reference, quantity |-> q]}]

Release(item, h) ==
  [item EXCEPT
     !.holds = @ \ {h},
     !.reserved = IF h.quantity > @ THEN 0 ELSE @ - h.quantity]

CanCommit(item, h) == item.reserved >= h.quantity

Commit(item, h) ==
  [item EXCEPT
     !.holds = @ \ {h},
     !.onHand = @ - h.quantity,
     !.reserved = @ - h.quantity]

CanRemove(item, q) == Available(item) >= q

\* Mutant: the quantity leaves twice.
RemoveTwice(item, q) == [item EXCEPT !.onHand = @ - 2 * q]

Remove(item, q) == [item EXCEPT !.onHand = @ - q]

-----------------------------------------------------------------------------
(* PrismaInventoryItemRepository.save. *)

\* Mutant: the update does not ask for the version that was read.
CanSaveUnversioned(current, read, item) ==
  \A g, h \in item.holds : g.reference = h.reference => g = h

\* The row that was read is still the current one, and no reference has two
\* reservations on it (the unique index of the reservations table).
CanSave(current, read, item) ==
  /\ read.version = current.version
  /\ \A g, h \in item.holds : g.reference = h.reference => g = h

Saved(item) == [item EXCEPT !.version = @ + 1]

\* Quantities and reservations agree, and what is held is there.
SoundItem(item) == item.reserved = Held(item) /\ item.reserved <= item.onHand
=============================================================================
