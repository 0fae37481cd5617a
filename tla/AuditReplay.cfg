SPECIFICATION AuditSpec
CONSTANTS
  MaxCases = 2
  BPS = 2
  SafestRatioBps = 2
  Tiers = {0, 1}
  SubTiers = {0}
  Countries = {"none", "c1"}
  Groups = {0}
  MinTiers = {0}
  MinSubTiers = {0}
  CountryRules = {}
  BandTables = {}
  DefaultBands <- MCDefaultBands
  Caps = {}
  MaxUint = 99
  Graces = {1}
  Stalenesses = {2}
  MaxTime = 3
  Users = {u1}
  Borrowers = {u1}
  Facts <- MCFacts
  NoCountry = "none"
  Signers = {a1}
  MAX_FUTURE_SKEW = 0
  IssueTimes = {1, 3}
  Nonces = {1, 2}
  Modes = {"AttestorGated"}
  ValidatorAnswers = {"yes"}
  Lenders = {l1}
  Amounts = {1, 2, 99}
  BaseRates = {0, 1}
  Slopes = {0}
  Kinks = {2}
  Bonuses = {1}
  MaxPooled = 2
  MaxCollateral = 2
  Self = self
  Guardians = {self}
  GateAnswers <- GateAnswer
  NoGuardian = none
  QuarantineGrace = 1
  Strategies <- MCStrategies
INVARIANTS
  ReplayMatchesChain
  DebtMatchesUnlessAccruedSilently
  UnwindHistoryTold
  InterestIsWhatLendersGained
