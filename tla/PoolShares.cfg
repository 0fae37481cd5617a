SPECIFICATION Spec
CONSTANTS
  BPS = 2
  SafestRatioBps = 4
  Tiers = {0, 1}
  SubTiers = {0}
  Countries = {"c1"}
  Groups = {0}
  MinTiers = {0}
  MinSubTiers = {0}
  CountryRules = {}
  BandTables <- MCSteepTables
  DefaultBands <- MCSteepBands
  Caps = {}
  MaxUint = 9
  Graces = {1}
  Stalenesses = {1}
  Borrowers = {b1}
  Lenders = {l1, l2}
  Guardians = {guardian}
  NoGuardian = none
  GateAnswers <- MCFewGateAnswers
  Amounts = {1, 3, 9}
  BaseRates = {1}
  Slopes = {2}
  Kinks = {1}
  Bonuses = {0}
  MaxTime = 2
  MaxPooled = 3
  MaxCollateral = 3
SYMMETRY LenderSymmetry
INVARIANTS
  InterestFirst
  SharesBacked
  ExitsOpen
PROPERTIES
  SharePriceNeverFalls
  DebtOnlyFallsIfPaid
  SeizureIsBounded
  RoundingNeverPays
