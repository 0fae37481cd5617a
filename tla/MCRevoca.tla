------------------------------- MODULE MCRevoca -------------------------------
(* One borrower, one lender.  Tier 1 borrows against half its debt, tier 0   *)
(* against all of it, so a full loan of a tier-1 borrower cannot be cured by *)
(* its own collateral.                                                       *)
EXTENDS Revoca

Facts1(tier, status, expiry) ==
  [tier |-> tier, subTier |-> 0, country |-> "c1", apassStatus |-> status, expiry |-> expiry]
MCFacts == {Facts1(1, "ACTIVE", 0), Facts1(0, "ACTIVE", 0), Facts1(1, "FROZEN", 0)}
Band(t, s, r) == [minTier |-> t, minSubTier |-> s, ratioBps |-> r]
MCDefaultBands == <<Band(1, 0, 1), Band(0, 0, 2)>>
MCUnfairStrategy ==
  [live |-> FALSE, grace |-> 0, selfCureFirst |-> TRUE, reinstatementAllowed |-> FALSE]
MCGraceOnly == {GraceAndNotifyStrategy}
MCQuarantine == {ImmediateQuarantineStrategy}
MCStrategies == {GraceAndNotifyStrategy, ForcedUnwindStrategy, MCUnfairStrategy}
=============================================================================
