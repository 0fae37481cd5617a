SPECIFICATION HistorySpec
CONSTANTS
  BPS = 2
  SafestRatioBps = 3
  Tiers = {0, 1}
  SubTiers = {0}
  Countries = {"none", "c1"}
  Groups = {0}
  MinTiers = {0, 1}
  MinSubTiers = {0}
  CountryRules <- MCCountryRules
  BandTables = {}
  DefaultBands <- MCDefaultBands
  Caps = {}
  MaxUint = 9
  Graces = {1}
  Stalenesses = {1, 2}
  MaxTime = 4
  Users = {u1}
  Facts <- MCFacts
  NoCountry = "none"
  Signers = {a1, a2}
  MAX_FUTURE_SKEW = 1
  IssueTimes = {1, 2, 3, 4, 5}
  Nonces = {0, 1, 2}
SYMMETRY SignerSymmetry
INVARIANTS
  ReasonAgreesWithCompliance
  NoReplay
  RotationTakesHold
