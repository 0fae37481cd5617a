------------------------------- MODULE MCDapp --------------------------------
EXTENDS Dapp

MCOne == CHOOSE b \in Borrowers : TRUE
MCFirstBlocks == <<CollateralPosted(MCOne)>>
\* The demo record is capped at a block, the others are not
MCMaxBlockOf == [r \in Records |-> IF r = MCOne THEN 2 ELSE Uncapped]
\* A borrower with a debt, or a lender; either may turn to the other side
Opening(debt, collateral, shares) ==
  [standing |-> TRUE, debt |-> debt, collateral |-> collateral, allowance |-> 0, shares |-> shares]
MCOpenings == {Opening(1, 2, 0), Opening(0, 0, 1)}
=============================================================================
