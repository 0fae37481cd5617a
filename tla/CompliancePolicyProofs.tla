------------------------ MODULE CompliancePolicyProofs ------------------------
(***************************************************************************)
(* What CompliancePolicy guarantees for every policy an owner can set.     *)
(***************************************************************************)
EXTENDS TierRatios, TLAPS, WellFoundedInduction

LEMMA PolicyTypeInit ==
  ASSUME PolicyInit
  PROVE  PolicyTypeOK
  <1>1. PICK grace \in Graces, staleness \in Stalenesses :
          policy = [minTier |-> 0, minSubTier |-> 0,
                    allowedGroup |-> 0, allowedSubGroup |-> 0,
                    isBlacklist |-> FALSE, countries |-> {},
                    ratioBands |-> DefaultBands,
                    tierCaps |-> [t \in Tiers |-> [isSet |-> FALSE, cap |-> 0]],
                    defaultBorrowCap |-> MaxUint, maxTotalBorrow |-> MaxUint,
                    graceDuration |-> grace, maxComplianceStaleness |-> staleness]
    BY DEF PolicyInit
  <1>2. DefaultBands \in Seq(RatioBand) /\ DefaultBands # <<>>
    BY PolicyConstants DEF PolicyInit, BandsAccepted
  <1>3. [t \in Tiers |-> [isSet |-> FALSE, cap |-> 0]] \in [Tiers -> TierCap]
    BY DEF TierCap
  <1>4. QED
    BY <1>1, <1>2, <1>3, PolicyConstants, Zenon DEF PolicyTypeOK, Policy

LEMMA PolicyTypeStep ==
  ASSUME PolicyTypeOK, PolicyNext
  PROVE  PolicyTypeOK'
  <1> USE DEF PolicyTypeOK, Policy
  <1>1. CASE \E tier \in MinTiers : setMinTier(tier)
    BY <1>1, PolicyConstants DEF setMinTier
  <1>2. CASE \E subTier \in MinSubTiers : setMinSubTier(subTier)
    BY <1>2, PolicyConstants DEF setMinSubTier
  <1>3. CASE \E g \in Groups : setAllowedGroup(g) \/ setAllowedSubGroup(g)
    BY <1>3 DEF setAllowedGroup, setAllowedSubGroup
  <1>4. CASE \E rule \in CountryRules : setCountryRule(rule)
    <2>1. PICK rule \in CountryRules : setCountryRule(rule)
      BY <1>4
    <2>2. rule.countries \in SUBSET Countries /\ rule.isBlacklist \in BOOLEAN
      BY PolicyConstants
    <2>3. QED
      BY <2>1, <2>2 DEF setCountryRule
  <1>5. CASE \E bands \in BandTables : setRatioBands(bands)
    <2>1. PICK bands \in BandTables : setRatioBands(bands)
      BY <1>5
    <2>2. bands \in Seq(RatioBand) /\ bands # <<>>
      BY <2>1, PolicyConstants DEF setRatioBands, BandsAccepted
    <2>3. QED
      BY <2>1, <2>2 DEF setRatioBands
  <1>6. CASE \E d \in Graces : setGraceDuration(d)
    BY <1>6 DEF setGraceDuration
  <1>7. CASE \E d \in Stalenesses : setMaxComplianceStaleness(d)
    BY <1>7 DEF setMaxComplianceStaleness
  <1>8. CASE \E cap \in Caps : setDefaultBorrowCap(cap) \/ setMaxTotalBorrow(cap)
    BY <1>8, PolicyConstants DEF setDefaultBorrowCap, setMaxTotalBorrow
  <1>9. CASE \E tier \in Tiers, cap \in Caps : setTierBorrowCap(tier, cap)
    <2>1. PICK tier \in Tiers, cap \in Caps : setTierBorrowCap(tier, cap)
      BY <1>9
    <2>2. [isSet |-> TRUE, cap |-> cap] \in TierCap
      BY PolicyConstants DEF TierCap
    <2>3. [policy.tierCaps EXCEPT ![tier] = [isSet |-> TRUE, cap |-> cap]] \in [Tiers -> TierCap]
      BY <2>2
    <2>4. QED
      BY <2>1, <2>3 DEF setTierBorrowCap
  <1>10. QED
    BY <1>1, <1>2, <1>3, <1>4, <1>5, <1>6, <1>7, <1>8, <1>9 DEF PolicyNext

(***************************************************************************)
(* The policy's storage keeps its types and its ratio table is never       *)
(* empty, whatever the owner sets.                                         *)
(***************************************************************************)
THEOREM PolicyTypeCorrect == PolicySpec => []PolicyTypeOK
  <1>1. PolicyInit => PolicyTypeOK
    BY PolicyTypeInit
  <1>2. PolicyTypeOK /\ [PolicyNext]_policy => PolicyTypeOK'
    BY PolicyTypeStep DEF PolicyTypeOK, Policy
  <1>3. QED
    BY <1>1, <1>2, PTL DEF PolicySpec
-----------------------------------------------------------------------------
(* The price of privilege *)

\* Induction over a set of naturals: a non-empty one has a least element.
LEMMA LeastNatural ==
  ASSUME NEW T \in SUBSET Nat, T # {}
  PROVE  \E x \in T : \A y \in T : x <= y
  <1> DEFINE R == {ss \in Nat \X Nat : ss[1] < ss[2]}
  <1>1. IsWellFoundedOn(R, Nat)
    BY NatLessThanWellFounded DEF OpToRel
  <1>2. PICK x \in T : \A y \in T : ~(<<y, x>> \in R)
    BY <1>1, WFMin, Zenon
  <1>3. \A y \in T : ~(y < x)
    BY <1>2
  <1>4. QED
    BY <1>2, <1>3

\* Neighbours in order are enough: no later band of an accepted table is cheaper.
LEMMA LaterBandsCostMore ==
  ASSUME NEW bands \in Seq(RatioBand), BandsAccepted(bands),
         NEW i \in 1..Len(bands), NEW j \in i..Len(bands)
  PROVE  bands[i].ratioBps <= bands[j].ratioBps
  <1> DEFINE Cheaper == {k \in i..Len(bands) : bands[k].ratioBps < bands[i].ratioBps}
  <1>1. \A k \in 1..Len(bands) : bands[k].ratioBps \in Nat
    <2>1. \A k \in 1..Len(bands) : bands[k] \in RatioBand
      OBVIOUS
    <2>2. QED
      BY <2>1 DEF RatioBand
  <1>2. SUFFICES ASSUME Cheaper # {}
                 PROVE  FALSE
    BY <1>1
  <1>3. Cheaper \in SUBSET Nat
    OBVIOUS
  <1>4. PICK k \in Cheaper : \A l \in Cheaper : k <= l
    BY <1>2, <1>3, LeastNatural
  <1>5. k \in 2..Len(bands) /\ k - 1 \in i..Len(bands)
    BY <1>1, <1>4
  <1>6. k - 1 \notin Cheaper
    BY <1>4
  <1>7. bands[k].ratioBps >= bands[k-1].ratioBps
    BY <1>5 DEF BandsAccepted
  <1>8. QED
    BY <1>1, <1>4, <1>5, <1>6, <1>7

\* The places in the table that (tier, subTier) reaches
Reached(tier, subTier) ==
  {i \in 1..Len(policy.ratioBands) :
     AtLeast(tier, subTier, policy.ratioBands[i].minTier, policy.ratioBands[i].minSubTier)}

\* collateralRatioBps charges by the first of them.
LEMMA FirstBandDecides ==
  ASSUME policy.ratioBands \in Seq(RatioBand), NEW tier, NEW subTier, Reached(tier, subTier) # {}
  PROVE  \E first \in Reached(tier, subTier) :
           /\ \A i \in Reached(tier, subTier) : first <= i
           /\ collateralRatioBps(tier, subTier) = policy.ratioBands[first].ratioBps
  <1> DEFINE I == Reached(tier, subTier)
             first == Min(I)
  <1>1. I \in SUBSET Nat
    BY DEF Reached
  <1>2. \E x \in I : \A y \in I : x <= y
    BY <1>1, LeastNatural
  <1>3. first \in I /\ \A y \in I : first <= y
    BY <1>2 DEF Min
  <1>4. first # 0
    BY <1>3 DEF Reached
  <1>5. SelectInSeq(policy.ratioBands,
          LAMBDA band : AtLeast(tier, subTier, band.minTier, band.minSubTier)) = first
    BY DEF SelectInSeq, Reached
  <1>6. collateralRatioBps(tier, subTier) = policy.ratioBands[first].ratioBps
    BY <1>4, <1>5 DEF collateralRatioBps
  <1>7. QED
    BY <1>3, <1>6

\* What setRatioBands and the constructor establish and no other setter touches
BandsKept == policy.ratioBands \in Seq(RatioBand) /\ BandsAccepted(policy.ratioBands)

LEMMA BandsKeptInit ==
  ASSUME PolicyInit
  PROVE  BandsKept
  BY PolicyConstants DEF PolicyInit, BandsKept

LEMMA BandsKeptStep ==
  ASSUME PolicyTypeOK, BandsKept, PolicyNext
  PROVE  BandsKept'
  <1>1. \/ policy'.ratioBands \in BandTables /\ BandsAccepted(policy'.ratioBands)
        \/ policy'.ratioBands = policy.ratioBands
    BY DEF PolicyNext, PolicyTypeOK, Policy, setMinTier, setMinSubTier, setAllowedGroup,
           setAllowedSubGroup, setCountryRule, setRatioBands, setGraceDuration,
           setMaxComplianceStaleness, setDefaultBorrowCap, setMaxTotalBorrow, setTierBorrowCap
  <1>2. QED
    BY <1>1, PolicyConstants DEF BandsKept, BandsAccepted

\* Who is more privileged reaches every band the other reaches, so the first one
\* reached is no later, hence no dearer.
LEMMA PrivilegePrice ==
  ASSUME BandsKept
  PROVE  PrivilegeNeverCostsMore
  <1>1. SUFFICES ASSUME NEW t1 \in Tiers, NEW t2 \in Tiers, NEW s1 \in SubTiers, NEW s2 \in SubTiers,
                        Covered(t2, s2), AtLeast(t1, s1, t2, s2)
                 PROVE  collateralRatioBps(t1, s1) <= collateralRatioBps(t2, s2)
    BY DEF PrivilegeNeverCostsMore
  <1> DEFINE bands == policy.ratioBands
  <1>2. bands \in Seq(RatioBand) /\ BandsAccepted(bands)
    BY DEF BandsKept
  <1>3. \A i \in 1..Len(bands) : bands[i] \in RatioBand
    BY <1>2
  <1>4. \A i \in 1..Len(bands) : bands[i].minTier \in Nat /\ bands[i].minSubTier \in Nat
                                  /\ bands[i].ratioBps \in Nat
    BY <1>3 DEF RatioBand
  <1>5. t1 \in Nat /\ t2 \in Nat /\ s1 \in Nat /\ s2 \in Nat
    BY PolicyConstants
  <1>6. Reached(t2, s2) # {}
    BY <1>1, <1>2 DEF Covered, Range, Reached
  <1>7. Reached(t2, s2) \subseteq Reached(t1, s1)
    BY <1>1, <1>4, <1>5 DEF Reached, AtLeast
  <1>8. PICK j \in Reached(t2, s2) : collateralRatioBps(t2, s2) = bands[j].ratioBps
    BY <1>2, <1>6, FirstBandDecides
  <1>9. PICK i \in Reached(t1, s1) :
          /\ \A k \in Reached(t1, s1) : i <= k
          /\ collateralRatioBps(t1, s1) = bands[i].ratioBps
    BY <1>2, <1>6, <1>7, FirstBandDecides
  <1>10. i \in 1..Len(bands) /\ j \in i..Len(bands)
    BY <1>2, <1>7, <1>8, <1>9 DEF Reached
  <1>11. bands[i].ratioBps <= bands[j].ratioBps
    BY <1>2, <1>10, LaterBandsCostMore
  <1>12. QED
    BY <1>8, <1>9, <1>11

(***************************************************************************)
(* Whatever tables the owner installs, of whatever length, among the tiers *)
(* a table covers a more privileged one never posts more collateral.       *)
(***************************************************************************)
THEOREM PolicyPricesPrivilege == PolicySpec => []PrivilegeNeverCostsMore
  <1> DEFINE Inv == PolicyTypeOK /\ BandsKept
  <1>1. PolicyInit => Inv
    BY PolicyTypeInit, BandsKeptInit
  <1>2. Inv /\ [PolicyNext]_policy => Inv'
    <2>1. CASE PolicyNext
      BY <2>1, PolicyTypeStep, BandsKeptStep
    <2>2. CASE UNCHANGED policy
      BY <2>2 DEF PolicyTypeOK, BandsKept
    <2>3. QED
      BY <2>1, <2>2
  <1>3. Inv => PrivilegeNeverCostsMore
    BY PrivilegePrice
  <1>4. QED
    BY <1>1, <1>2, <1>3, PTL DEF PolicySpec
-----------------------------------------------------------------------------
(* What a tier pays, and the copy of the table off chain *)

\* The two loops stop at the same band.
LEMMA QuotedIsCharged ==
  ASSUME NEW tier \in Nat, NEW subTier \in Nat
  PROVE  /\ quotedRatioBps(policy.ratioBands, tier, subTier) = collateralRatioBps(tier, subTier)
         /\ subTier = 0 => quotedRatioBps(policy.ratioBands, tier, Missing) = collateralRatioBps(tier, subTier)
  <1> DEFINE first(s) == SelectInSeq(policy.ratioBands, LAMBDA band :
                           \/ tier > band.minTier
                           \/ tier = band.minTier /\ s >= band.minSubTier)
  <1>1. first(subTier) = SelectInSeq(policy.ratioBands,
          LAMBDA band : AtLeast(tier, subTier, band.minTier, band.minSubTier))
    BY DEF AtLeast, SelectInSeq
  <1>2. tier # Missing /\ subTier # Missing
    BY DEF Missing
  <1>3. /\ quotedRatioBps(policy.ratioBands, tier, subTier) =
             IF first(subTier) = 0 THEN SafestRatioBps ELSE policy.ratioBands[first(subTier)].ratioBps
        /\ quotedRatioBps(policy.ratioBands, tier, Missing) =
             IF first(0) = 0 THEN SafestRatioBps ELSE policy.ratioBands[first(0)].ratioBps
    BY <1>2 DEF quotedRatioBps
  <1> HIDE DEF first
  <1>4. QED
    BY <1>1, <1>3 DEF collateralRatioBps

\* The first band reached is the cheapest of those reached.
LEMMA FirstIsCheapest ==
  ASSUME BandsKept, NEW tier, NEW subTier
  PROVE  LET reached == {b \in Range(policy.ratioBands) :
                           AtLeast(tier, subTier, b.minTier, b.minSubTier)}
         IN  collateralRatioBps(tier, subTier) =
               IF reached = {} THEN SafestRatioBps ELSE Min({b.ratioBps : b \in reached})
  <1> DEFINE bands == policy.ratioBands
             reached == {b \in Range(bands) : AtLeast(tier, subTier, b.minTier, b.minSubTier)}
             prices == {b.ratioBps : b \in reached}
  <1>1. bands \in Seq(RatioBand) /\ BandsAccepted(bands)
    BY DEF BandsKept
  <1>2. \A i \in 1..Len(bands) : bands[i] \in RatioBand
    BY <1>1
  <1>3. \A i \in 1..Len(bands) : bands[i].ratioBps \in Nat
    BY <1>2 DEF RatioBand
  <1>4. reached = {bands[i] : i \in Reached(tier, subTier)}
    BY <1>1 DEF Range, Reached
  <1>5. CASE Reached(tier, subTier) = {}
    <2>1. SelectInSeq(bands, LAMBDA band : AtLeast(tier, subTier, band.minTier, band.minSubTier)) = 0
      BY <1>5 DEF SelectInSeq, Reached
    <2>2. collateralRatioBps(tier, subTier) = SafestRatioBps
      BY <2>1 DEF collateralRatioBps
    <2>3. QED
      BY <1>4, <1>5, <2>2
  <1>6. CASE Reached(tier, subTier) # {}
    <2>1. PICK first \in Reached(tier, subTier) :
            /\ \A i \in Reached(tier, subTier) : first <= i
            /\ collateralRatioBps(tier, subTier) = bands[first].ratioBps
      BY <1>1, <1>6, FirstBandDecides
    <2>2. bands[first] \in reached /\ bands[first].ratioBps \in prices
      BY <1>4
    <2>3. ASSUME NEW i \in Reached(tier, subTier)
          PROVE  bands[first].ratioBps <= bands[i].ratioBps
      <3>1. first \in 1..Len(bands) /\ i \in first..Len(bands)
        BY <1>1, <2>1 DEF Reached
      <3>2. QED
        BY <1>1, <3>1, LaterBandsCostMore
    <2>4. \A p \in prices : bands[first].ratioBps <= p /\ p \in Nat
      BY <1>3, <1>4, <2>3 DEF Reached
    <2> HIDE DEF prices
    <2>5. Min(prices) = bands[first].ratioBps
      BY <2>2, <2>4 DEF Min
    <2>6. QED
      BY <2>1, <2>2, <2>5 DEF prices
  <1>7. QED
    BY <1>5, <1>6

LEMMA CheapestBand ==
  ASSUME BandsKept
  PROVE  RatioIsCheapestBandReached
  <1>1. assertBandsWellFormed(policy.ratioBands)
    <2>1. SUFFICES ASSUME NEW i \in 2..Len(policy.ratioBands)
                   PROVE  LET prev == policy.ratioBands[i-1]
                              curr == policy.ratioBands[i]
                          IN  /\ AtLeast(prev.minTier, prev.minSubTier, curr.minTier, curr.minSubTier)
                              /\ <<curr.minTier, curr.minSubTier>> # <<prev.minTier, prev.minSubTier>>
                              /\ curr.ratioBps >= prev.ratioBps
      BY Zenon DEF assertBandsWellFormed
    <2>2. policy.ratioBands[i-1] \in RatioBand /\ policy.ratioBands[i] \in RatioBand
      BY DEF BandsKept
    <2>3. LET prev == policy.ratioBands[i-1]
              curr == policy.ratioBands[i]
          IN  /\ \/ curr.minTier < prev.minTier
                 \/ curr.minTier = prev.minTier /\ curr.minSubTier < prev.minSubTier
              /\ curr.ratioBps >= prev.ratioBps
      BY DEF BandsKept, BandsAccepted
    <2>4. ASSUME NEW prev \in RatioBand, NEW curr \in RatioBand,
                 \/ curr.minTier < prev.minTier
                 \/ curr.minTier = prev.minTier /\ curr.minSubTier < prev.minSubTier
          PROVE  /\ AtLeast(prev.minTier, prev.minSubTier, curr.minTier, curr.minSubTier)
                 /\ <<curr.minTier, curr.minSubTier>> # <<prev.minTier, prev.minSubTier>>
      BY <2>4 DEF AtLeast, RatioBand
    <2>5. QED
      BY <2>2, <2>3, <2>4
  <1>2. ASSUME NEW tier \in Tiers, NEW subTier \in SubTiers
        PROVE  LET reached == {b \in Range(policy.ratioBands) :
                                 AtLeast(tier, subTier, b.minTier, b.minSubTier)}
                   cheapest == IF reached = {} THEN SafestRatioBps ELSE Min({b.ratioBps : b \in reached})
               IN  /\ collateralRatioBps(tier, subTier) = cheapest
                   /\ quotedRatioBps(policy.ratioBands, tier, subTier) = cheapest
                   /\ subTier = 0 => quotedRatioBps(policy.ratioBands, tier, Missing) = cheapest
    <2>1. tier \in Nat /\ subTier \in Nat
      BY PolicyConstants DEF PolicyConstants
    <2>2. QED
      BY <2>1, FirstIsCheapest, QuotedIsCharged, Zenon
  <1>3. QED
    BY <1>1, <1>2, Zenon DEF RatioIsCheapestBandReached

(***************************************************************************)
(* Whatever tables the owner installs, a tier pays the lowest ratio of all *)
(* the bands it reaches, and the copy off chain loads and quotes the same. *)
(***************************************************************************)
THEOREM PolicyRatioIsCheapest == PolicySpec => []RatioIsCheapestBandReached
  <1> DEFINE Inv == PolicyTypeOK /\ BandsKept
  <1>1. PolicyInit => Inv
    BY PolicyTypeInit, BandsKeptInit
  <1>2. Inv /\ [PolicyNext]_policy => Inv'
    <2>1. CASE PolicyNext
      BY <2>1, PolicyTypeStep, BandsKeptStep
    <2>2. CASE UNCHANGED policy
      BY <2>2 DEF PolicyTypeOK, BandsKept
    <2>3. QED
      BY <2>1, <2>2
  <1>3. Inv => RatioIsCheapestBandReached
    BY CheapestBand
  <1>4. QED
    BY <1>1, <1>2, <1>3, PTL DEF PolicySpec

=============================================================================
