------------------------------ MODULE TierRatios ------------------------------
(***************************************************************************)
(* backend/src/risk/tierRatios.ts: the ratio table and the loop over it    *)
(* once more, off chain.  docs and the CLI quote a ratio from this copy;   *)
(* the pool charges by CompliancePolicy.                                   *)
(***************************************************************************)
EXTENDS CompliancePolicy

Missing == -1 \* null, undefined, negative or not a number

\* The checks at module load: those of the contract but for the empty table
assertBandsWellFormed(bands) ==
  \A i \in 2..Len(bands) :
    /\ AtLeast(bands[i-1].minTier, bands[i-1].minSubTier, bands[i].minTier, bands[i].minSubTier)
    /\ <<bands[i].minTier, bands[i].minSubTier>> # <<bands[i-1].minTier, bands[i-1].minSubTier>>
    /\ bands[i].ratioBps >= bands[i-1].ratioBps

\* collateralRatioBps over RATIO_BANDS: the first band reached; without a tier the
\* safest ratio, without a sub-tier the lowest one
quotedRatioBps(bands, tier, subTier) ==
  LET safeSubTier == IF subTier = Missing THEN 0 ELSE subTier
      first == SelectInSeq(bands, LAMBDA band :
                 \/ tier > band.minTier
                 \/ tier = band.minTier /\ safeSubTier >= band.minSubTier)
  IN IF tier = Missing \/ first = 0 THEN SafestRatioBps ELSE bands[first].ratioBps

-----------------------------------------------------------------------------

(***************************************************************************)
(* Reference definition for the two first-match loops: whichever tables    *)
(* the owner installed, a tier pays the lowest ratio of all the bands it   *)
(* reaches, so table order never costs a borrower anything; and were the   *)
(* same table shipped off chain, it would load and quote that same ratio.  *)
(***************************************************************************)
RatioIsCheapestBandReached ==
  /\ assertBandsWellFormed(policy.ratioBands)
  /\ \A tier \in Tiers, subTier \in SubTiers :
       LET reached == {b \in Range(policy.ratioBands) :
                         AtLeast(tier, subTier, b.minTier, b.minSubTier)}
           cheapest == IF reached = {} THEN SafestRatioBps ELSE Min({b.ratioBps : b \in reached})
       IN /\ collateralRatioBps(tier, subTier) = cheapest
          /\ quotedRatioBps(policy.ratioBands, tier, subTier) = cheapest
          /\ subTier = 0 => quotedRatioBps(policy.ratioBands, tier, Missing) = cheapest
=============================================================================
