----------------------------- MODULE BlockChunks -----------------------------
(* backend/src/shared/blockChunks.ts: how a range of blocks is cut into       *)
(* requests narrow enough for eth_getLogs.                                    *)
EXTENDS Integers, Sequences

Earlier(a, b) == IF a < b THEN a ELSE b

\* Oldest first, both ends included, the last one cut short at toBlock
computeBlockChunks(fromBlock, toBlock, chunkBlocks) ==
  LET count == IF fromBlock > toBlock THEN 0 ELSE (toBlock - fromBlock) \div chunkBlocks + 1
  IN [i \in 1..count |->
        LET start == fromBlock + (i - 1) * chunkBlocks
        IN [fromBlock |-> start, toBlock |-> Earlier(start + chunkBlocks - 1, toBlock)]]
=============================================================================
