------------------------- MODULE MCCompliancePolicy -------------------------
(* A policy with two tiers, two sub-tiers and every ratio table of at most  *)
(* two bands, ordered or not, and some of three.                            *)
EXTENDS TierRatios

MCBand == [minTier : 0..1, minSubTier : 0..1, ratioBps : {1, 3, 4}]
Band(t, s, r) == [minTier |-> t, minSubTier |-> s, ratioBps |-> r]
MCDefaultBands == <<Band(1, 1, 1), Band(1, 0, 2), Band(0, 0, 3)>>
MCCountryRules == [countries : SUBSET Countries, isBlacklist : BOOLEAN]
MCBandTables ==
  SeqOf(MCBand, 2) \cup
  {<<Band(1, s, 1), Band(t, 0, 2), Band(0, 0, r)>> : s \in 0..1, t \in 0..1, r \in {1, 3, 4}}
=============================================================================
