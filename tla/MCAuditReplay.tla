---------------------------- MODULE MCAuditReplay ----------------------------
(* One borrower of tier 1, which borrows against half its debt, or frozen.   *)
EXTENDS AuditReplay

Facts1(status) ==
  [tier |-> 1, subTier |-> 0, country |-> "c1", apassStatus |-> status, expiry |-> 0]
MCFacts == {Facts1("ACTIVE"), Facts1("FROZEN")}
Band(t, s, r) == [minTier |-> t, minSubTier |-> s, ratioBps |-> r]
MCDefaultBands == <<Band(1, 0, 1), Band(0, 0, 2)>>
MCStrategies == {GraceAndNotifyStrategy}
=============================================================================
