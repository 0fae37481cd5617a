---------------------------- MODULE MCLendingPool ----------------------------
(* A pool over a fixed policy of two tiers: tier 1 borrows against half its *)
(* debt in collateral, tier 0 against one and a half times it.             *)
EXTENDS LendingPool

Band(t, s, r) == [minTier |-> t, minSubTier |-> s, ratioBps |-> r]
MCDefaultBands == <<Band(1, 0, 1), Band(0, 0, 3)>>
MCBandTables == {MCDefaultBands}
\* Twice its debt: a liquidator need not take all there is
MCSteepBands == <<Band(1, 0, 1), Band(0, 0, 4)>>
MCSteepTables == {MCSteepBands}
Answer(fresh, compliant, tier) ==
  [fresh |-> fresh, compliant |-> compliant, tier |-> tier, subTier |-> 0, country |-> "c1"]
MCGateAnswers == {Answer(TRUE, TRUE, 1), Answer(TRUE, TRUE, 0), Answer(FALSE, TRUE, 1)}
MCFewGateAnswers == {Answer(TRUE, TRUE, 1), Answer(FALSE, TRUE, 0)}
BorrowerSymmetry == Permutations(Borrowers)
LenderSymmetry == Permutations(Lenders)
=============================================================================
