------------------------------- MODULE MCKeeper -------------------------------
(* Tier 1 borrows against half its debt, tier 0 against all of it.           *)
EXTENDS Keeper

Raw(status, subTier) ==
  [status |-> status, expirationTime |-> "null", tier |-> 1, subTier |-> subTier,
   countries |-> <<"c1">>]
Good == Raw(1, 1)
Frozen == Raw(2, 1)
Lowered == Raw(1, 0) \* acceptable to the keeper, not to the policy
MCRawFacts == {Good, Frozen, Lowered}
MCRatios == [t \in 0..1 |-> [s \in 0..1 |-> IF t = 1 THEN 1 ELSE 2]]
MCOne == <<"u1">>
MCSlowHost == {-1}
=============================================================================
