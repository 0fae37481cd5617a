SPECIFICATION DappSpec
CONSTANTS
  Borrowers = {b1, b2}
  Records = {b1, b2}
  FirstBlocks <- MCFirstBlocks
  MaxHead = 3
  MaxLag = 1
  CHUNK_BLOCKS = 2
  Nothing = Nothing
  LOG_CHUNK_BLOCKS = 2
  ORIGIN_BLOCK = 1
  MaxBlockOf <- MCMaxBlockOf
  NoRecord = NoRecord
  MaxTicks = 2
  Wallets = {w1}
  NoWallet = NoWallet
  Openings <- MCOpenings
  Units = {1}
  MaxUnits = 2
  MAX_UINT = 9
  MaxTxs = 2
  MaxPolls = 1
  MaxWhims = 1
  Users = {u1}
  Slots = {q1, q2}
  NoSlot = NoSlot
  MaxPending = 1
  MaxOrphans = 1
  COLLATERAL_AMOUNT = 1
  BORROW_AMOUNT = 2
  BORROW_ATTEMPT_AMOUNT = 1
  SafestRatio = 150
  BorrowerRatio = 50
  Headroom = 1
  NoTx = NoTx
  MaxPosition = 3
  MaxTrouble = 1
  NoKey = NoKey
  NoDeployment = NoDeployment
  MaxNonce = 19
  MaxForeign = 1
  MaxDeploys = 2
  MaxKeys = 2
INVARIANTS
  ScanLeavesNoGap
  LedgerIsHistory
  ShownIsTheirs
  SuccessIsReal
  RecordedDeploymentWorks
PROPERTIES
  PagesCatchUp
  ThePageLetsYouOut
  RetryGetsThrough
  FullClearRebuilds
  RetriedUnwindEnds
CHECK_DEADLOCK FALSE
