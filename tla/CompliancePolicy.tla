-------------------------- MODULE CompliancePolicy --------------------------
(***************************************************************************)
(* contracts/src/CompliancePolicy.sol: the owner-settable compliance and   *)
(* risk policy every other contract reads live.  `policy' is the contract's *)
(* storage; each action is one onlyOwner setter.                           *)
(***************************************************************************)
EXTENDS Integers, Sequences, FiniteSets, SequencesExt

CONSTANTS
  BPS,            \* BPS_DENOMINATOR: ratios and rates are fractions of it
  SafestRatioBps, \* SAFEST_RATIO_BPS: the ratio when no band matches
  Tiers,          \* tiers an A-Pass can carry
  SubTiers,       \* sub-tiers an A-Pass can carry
  Countries,      \* country codes
  Groups,         \* group codes (stored, read by nothing)
  MinTiers,       \* minimum tiers and
  MinSubTiers,    \*   sub-tiers the owner may require
  CountryRules,   \* country rules the owner may set
  BandTables,     \* the ratio tables the owner may try to install
  DefaultBands,   \* the constructor's table
  Caps,           \* borrow caps the owner may set
  MaxUint,        \* type(uint256).max
  Graces,         \* grace durations the owner may set
  Stalenesses     \* staleness windows the owner may set

RatioBand == [minTier : Nat, minSubTier : Nat, ratioBps : Nat]

ASSUME PolicyConstants ==
  /\ BPS \in Nat \ {0}
  /\ SafestRatioBps \in Nat
  /\ Tiers \subseteq Nat /\ 0 \in Tiers
  /\ SubTiers \subseteq Nat /\ 0 \in SubTiers
  /\ MinTiers \subseteq Tiers /\ MinSubTiers \subseteq SubTiers
  /\ CountryRules \subseteq [countries : SUBSET Countries, isBlacklist : BOOLEAN]
  /\ DefaultBands \in Seq(RatioBand)
  /\ BandTables \subseteq Seq(RatioBand)
  /\ Caps \subseteq Nat /\ MaxUint \in Nat
  /\ Graces \subseteq Nat /\ Graces # {}
  /\ Stalenesses \subseteq Nat /\ Stalenesses # {}
  /\ 0 \in Groups

VARIABLE policy

TierCap == [isSet : BOOLEAN, cap : Nat]

Policy ==
  [minTier : Tiers, minSubTier : SubTiers,
   allowedGroup : Groups, allowedSubGroup : Groups,
   isBlacklist : BOOLEAN, countries : SUBSET Countries,
   ratioBands : Seq(RatioBand), tierCaps : [Tiers -> TierCap],
   defaultBorrowCap : Nat, maxTotalBorrow : Nat,
   graceDuration : Graces, maxComplianceStaleness : Stalenesses]

-----------------------------------------------------------------------------
(* Views *)

\* (tier, subTier) reaches (minTier, minSubTier), lexicographically
AtLeast(tier, subTier, minTier, minSubTier) ==
  tier > minTier \/ (tier = minTier /\ subTier >= minSubTier)

isTierEligible(tier, subTier) ==
  AtLeast(tier, subTier, policy.minTier, policy.minSubTier)

\* An empty list restricts nobody, whatever the mode.
isCountryEligible(country) ==
  policy.countries = {} \/ (country \in policy.countries) # policy.isBlacklist

\* The ratio of the first band in table order that (tier, subTier) reaches
collateralRatioBps(tier, subTier) ==
  LET first == SelectInSeq(policy.ratioBands,
                 LAMBDA band : AtLeast(tier, subTier, band.minTier, band.minSubTier))
  IN IF first = 0 THEN SafestRatioBps ELSE policy.ratioBands[first].ratioBps

tierBorrowCap(tier) ==
  IF policy.tierCaps[tier].isSet THEN policy.tierCaps[tier].cap
                                 ELSE policy.defaultBorrowCap

-----------------------------------------------------------------------------
(* The constructor and the setters *)

\* Mutants of BandsAccepted: no order check; no price check
BandsAcceptedUnordered(bands) ==
  bands # <<>> /\ \A i \in 2..Len(bands) : bands[i].minTier <= bands[i-1].minTier
BandsAcceptedUnpriced(bands) ==
  bands # <<>> /\ \A i \in 2..Len(bands) :
    ~AtLeast(bands[i].minTier, bands[i].minSubTier, bands[i-1].minTier, bands[i-1].minSubTier)

\* Strictly less privileged from band to band, and never cheaper
BandsAccepted(bands) ==
  /\ bands # <<>>
  /\ \A i \in 2..Len(bands) :
       LET prev == bands[i-1]
           curr == bands[i]
       IN /\ \/ curr.minTier < prev.minTier
             \/ curr.minTier = prev.minTier /\ curr.minSubTier < prev.minSubTier
          /\ curr.ratioBps >= prev.ratioBps

\* The constructor installs its table through the same checks.
PolicyInit ==
  /\ BandsAccepted(DefaultBands)
  /\ \E grace \in Graces, staleness \in Stalenesses :
       policy = [minTier |-> 0, minSubTier |-> 0,
                 allowedGroup |-> 0, allowedSubGroup |-> 0,
                 isBlacklist |-> FALSE, countries |-> {},
                 ratioBands |-> DefaultBands,
                 tierCaps |-> [t \in Tiers |-> [isSet |-> FALSE, cap |-> 0]],
                 defaultBorrowCap |-> MaxUint, maxTotalBorrow |-> MaxUint,
                 graceDuration |-> grace, maxComplianceStaleness |-> staleness]

setMinTier(tier)       == policy' = [policy EXCEPT !.minTier = tier]
setMinSubTier(subTier) == policy' = [policy EXCEPT !.minSubTier = subTier]
setAllowedGroup(g)     == policy' = [policy EXCEPT !.allowedGroup = g]
setAllowedSubGroup(g)  == policy' = [policy EXCEPT !.allowedSubGroup = g]

setCountryRule(rule) ==
  policy' = [policy EXCEPT !.countries = rule.countries, !.isBlacklist = rule.isBlacklist]

setRatioBands(bands) ==
  /\ BandsAccepted(bands)
  /\ policy' = [policy EXCEPT !.ratioBands = bands]

setGraceDuration(d)          == policy' = [policy EXCEPT !.graceDuration = d]
setMaxComplianceStaleness(d) == policy' = [policy EXCEPT !.maxComplianceStaleness = d]
setDefaultBorrowCap(cap)     == policy' = [policy EXCEPT !.defaultBorrowCap = cap]
setMaxTotalBorrow(cap)       == policy' = [policy EXCEPT !.maxTotalBorrow = cap]

setTierBorrowCap(tier, cap) ==
  policy' = [policy EXCEPT !.tierCaps[tier] = [isSet |-> TRUE, cap |-> cap]]

PolicyNext ==
  \/ \E tier \in MinTiers : setMinTier(tier)
  \/ \E subTier \in MinSubTiers : setMinSubTier(subTier)
  \/ \E g \in Groups : setAllowedGroup(g) \/ setAllowedSubGroup(g)
  \/ \E rule \in CountryRules : setCountryRule(rule)
  \/ \E bands \in BandTables : setRatioBands(bands)
  \/ \E d \in Graces : setGraceDuration(d)
  \/ \E d \in Stalenesses : setMaxComplianceStaleness(d)
  \/ \E cap \in Caps : setDefaultBorrowCap(cap) \/ setMaxTotalBorrow(cap)
  \/ \E tier \in Tiers, cap \in Caps : setTierBorrowCap(tier, cap)

PolicySpec == PolicyInit /\ [][PolicyNext]_policy

-----------------------------------------------------------------------------
(* Properties *)

\* The policy's storage has its declared types, and the ratio table is never empty.
PolicyTypeOK == policy \in Policy /\ policy.ratioBands # <<>>

(***************************************************************************)
(* The point of a tier-priced pool: among the tiers the table covers, a    *)
(* more privileged one never has to post more collateral.                  *)
(***************************************************************************)
Covered(tier, subTier) ==
  \E b \in Range(policy.ratioBands) : AtLeast(tier, subTier, b.minTier, b.minSubTier)

PrivilegeNeverCostsMore ==
  \A t1, t2 \in Tiers, s1, s2 \in SubTiers :
    Covered(t2, s2) /\ AtLeast(t1, s1, t2, s2) =>
      collateralRatioBps(t1, s1) <= collateralRatioBps(t2, s2)
=============================================================================
