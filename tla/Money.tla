-------------------------------- MODULE Money --------------------------------
(***************************************************************************)
(* Sums of amounts in minor units.  A family of amounts (a sequence, or a    *)
(* function on any finite set) is summed by counting its units one by one,   *)
(* which needs no recursion and so stays within the provers' reach.          *)
(***************************************************************************)
EXTENDS Integers, FiniteSets

Units(amounts) == UNION {{k} \X (1..amounts[k]) : k \in DOMAIN amounts}

Total(amounts) == Cardinality(Units(amounts))
=============================================================================
