------------------------------ MODULE PageChain ------------------------------
(***************************************************************************)
(* The chain as the pages of the frontend read it over RPC: a log with one *)
(* event a block, and which borrowers have an open position now.  Every    *)
(* call may meet another node behind the load balancer, and a node may be  *)
(* blocks behind: it answers with an older head, and it answers a call for *)
(* logs up to a block it does not have with the logs of those it has.      *)
(***************************************************************************)
EXTENDS BlockChunks, FiniteSets, SequencesExt

CONSTANTS
  Borrowers,
  FirstBlocks, \* the log up to the seed's block
  MaxHead,     \* bound: blocks mined
  MaxLag       \* bound: blocks a node is behind

VARIABLES log, open

chainVars == <<log, open>>
HeadBlock == Len(log)

\* How far a node may be that is asked for the blocks up to this one
ServedUpTo(block) == {n \in 0..block : block - n <= MaxLag}
HeadsSeen == ServedUpTo(HeadBlock)

CollateralPosted(b) == [borrower |-> b, event |-> "CollateralPosted"]
CollateralWithdrawn(b) == [borrower |-> b, event |-> "CollateralWithdrawn"]

ASSUME PageChainConstants ==
  /\ FirstBlocks \in Seq({CollateralPosted(b) : b \in Borrowers})
  /\ MaxHead \in Nat /\ MaxLag \in Nat

ChainInit ==
  /\ log = FirstBlocks
  /\ open = {FirstBlocks[i].borrower : i \in DOMAIN FirstBlocks}

\* A borrower posts collateral, or pays up and takes all of it out
Mine ==
  /\ HeadBlock < MaxHead
  /\ \E b \in Borrowers :
       \/ /\ log' = Append(log, CollateralPosted(b))
          /\ open' = open \union {b}
       \/ /\ b \in open
          /\ log' = Append(log, CollateralWithdrawn(b))
          /\ open' = open \ {b}
=============================================================================
