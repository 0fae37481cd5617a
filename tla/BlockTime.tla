------------------------------- MODULE BlockTime -------------------------------
(***************************************************************************)
(* block.timestamp, which is all the contracts see of time.  Transactions  *)
(* of one block share it, so a contract may be called any number of times  *)
(* at one reading, and it never runs backwards.  Attestations are dated,   *)
(* interest accrues and grace runs out by it.                              *)
(***************************************************************************)
EXTENDS Naturals

CONSTANT MaxTime
ASSUME BlockTimeConstants == MaxTime \in Nat

VARIABLE now

\* The next block is later; MaxTime bounds how often that happens.
Tick == now < MaxTime /\ now' = now + 1
=============================================================================
