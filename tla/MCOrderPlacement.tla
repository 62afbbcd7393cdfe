-------------------------- MODULE MCOrderPlacement --------------------------
(***************************************************************************)
(* Instances of OrderPlacement for TLC.                                      *)
(***************************************************************************)
EXTENDS OrderPlacement, TLC

CONSTANTS s1, o1, o2, w1, w2

\* The last unit of every product, at one location.
LastUnit == [at \in Places |-> IF at[2] = "a" THEN 1 ELSE 0]

\* A line that stops at zero, a second one about the same variant, and one that
\* goes on selling.
ThreeLines ==
  [s \in Sessions |-> <<[product |-> "p", quantity |-> 1], [product |-> "p", quantity |-> 1],
                        [product |-> "c", quantity |-> 2]>>]

\* The session is Ann's.
Ann == [s \in Sessions |-> "ann"]

Symmetry == Permutations(Workers) \cup Permutations(Orders)
=============================================================================
