SPECIFICATION PolicySpec
CONSTANTS
  BPS = 2
  SafestRatioBps = 3
  Tiers = {0, 1}
  SubTiers = {0, 1}
  Countries = {c1}
  Groups = {0}
  MinTiers = {0, 1}
  MinSubTiers = {0, 1}
  CountryRules <- MCCountryRules
  BandTables <- MCBandTables
  DefaultBands <- MCDefaultBands
  Caps = {2}
  MaxUint = 9
  Graces = {1}
  Stalenesses = {1}
INVARIANTS
  RatioIsCheapestBandReached
  PrivilegeNeverCostsMore
