SPECIFICATION KeeperFairSpec
CONSTANTS
  PoolMinTier = 1
  PolicyMinTier = 1
  PolicyMinSubTier = 1
  Blocked = {"c2"}
  Discovery <- MCOne
  RawFacts <- MCRawFacts
  Ratios <- MCRatios
  Loan = 2
  Window = 1
  FutureSkew = 1
  Grace = 0
  HostSkews <- MCSlowHost
  MaxFailures = 1
INVARIANTS
  BlamelessNeverFlagged
PROPERTIES
  FactsConverge
  RevocationIsActedOn
  FlagsAreActedOn
