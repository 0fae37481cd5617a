SPECIFICATION Spec
CONSTANTS
  BPS = 2
  SafestRatioBps = 3
  Tiers = {0, 1}
  SubTiers = {0}
  Countries = {"c1"}
  Groups = {0}
  MinTiers = {0}
  MinSubTiers = {0}
  CountryRules = {}
  BandTables <- MCBandTables
  DefaultBands <- MCDefaultBands
  Caps = {}
  MaxUint = 9
  Graces = {1}
  Stalenesses = {1}
  Borrowers = {b1, b2}
  Lenders = {l1}
  Guardians = {guardian}
  NoGuardian = none
  GateAnswers <- MCGateAnswers
  Amounts = {1, 2}
  BaseRates = {1}
  Slopes = {1}
  Kinks = {2}
  Bonuses = {1}
  MaxTime = 1
  MaxPooled = 3
  MaxCollateral = 2
SYMMETRY BorrowerSymmetry
INVARIANTS
  LedgerTotalsAgree
  Solvency
PROPERTIES
  NoCallUnderminesAHealthyPosition
  ExposureRisesOnlyWhenCleared
