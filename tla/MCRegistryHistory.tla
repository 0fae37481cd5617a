-------------------------- MODULE MCRegistryHistory --------------------------
(* One user, two attestors, an A-Pass that may run out, freeze or change.   *)
EXTENDS RegistryHistory

Facts1(tier, country, status, expiry) ==
  [tier |-> tier, subTier |-> 0, country |-> country, apassStatus |-> status, expiry |-> expiry]
MCFacts == {Facts1(1, "c1", "ACTIVE", 2), Facts1(1, "c1", "FROZEN", 0), Facts1(0, "c1", "ACTIVE", 0)}
MCDefaultBands == <<[minTier |-> 0, minSubTier |-> 0, ratioBps |-> 3]>>
MCCountryRules == {[countries |-> {"c1"}, isBlacklist |-> TRUE]}
SignerSymmetry == Permutations(Signers)
=============================================================================
