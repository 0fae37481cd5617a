------------------------- MODULE RevocationGuardian -------------------------
(***************************************************************************)
(* contracts/src/RevocationGuardian.sol and contracts/src/strategies: the  *)
(* state machine that flags a borrower, waits out the grace of the active  *)
(* strategy and unwinds.  It reads the registry, not the pool's gate, and  *)
(* acts on the pool through applyCollateralToDebt.  `cases' is the         *)
(* contract's `positions' mapping (the pool has one of the same name).     *)
(***************************************************************************)
EXTENDS HybridComplianceGate, LendingPool

CONSTANTS
  Self,             \* the guardian's own address
  QuarantineGrace,  \* graceDurationSeconds of ImmediateQuarantineStrategy
  Strategies        \* the strategies the owner may propose

\* One set of accounts; the pool's gate may answer anything the registry derives.
ASSUME DeployedTogether ==
  /\ Borrowers = Users
  /\ Guardians = {Self} /\ Self # NoGuardian
  /\ MaxUint \in Amounts
  /\ GateAnswers = GateAnswer

VARIABLES
  cases,    \* borrower -> GuardianPosition
  strategy  \* the active strategy

guardianVars == <<cases, strategy>>

\* What the pool reads of a user, at any moment, through the gate it is deployed with
gateView == [u \in Users |-> gateAnswer(u)]

PositionState == {"HEALTHY", "FLAGGED", "UNWINDING", "RESOLVED"}
Reason == {"NONE", "FROZEN", "EXPIRED", "BLACKLISTED", "INELIGIBLE", "TIER_DROP"}

GuardianPosition ==
  [state : PositionState, reason : Reason,
   flaggedAt : Nat, graceEndsAt : Nat, unwindStartedAt : Nat]

NoCase == [state |-> "HEALTHY", reason |-> "NONE",
           flaggedAt |-> 0, graceEndsAt |-> 0, unwindStartedAt |-> 0]

-----------------------------------------------------------------------------
(* Strategies *)

Strategy == [live : BOOLEAN,  \* graceDuration() is read from the policy
             grace : Nat, selfCureFirst : BOOLEAN, reinstatementAllowed : BOOLEAN]

ASSUME GuardianConstants ==
  /\ Strategies \subseteq Strategy
  /\ QuarantineGrace \in Nat

GraceAndNotifyStrategy ==
  [live |-> TRUE, grace |-> 0, selfCureFirst |-> TRUE, reinstatementAllowed |-> TRUE]
ImmediateQuarantineStrategy ==
  [live |-> FALSE, grace |-> QuarantineGrace, selfCureFirst |-> TRUE, reinstatementAllowed |-> TRUE]
ForcedUnwindStrategy ==
  [live |-> FALSE, grace |-> 0, selfCureFirst |-> TRUE, reinstatementAllowed |-> TRUE]

graceDuration == IF strategy.live THEN policy.graceDuration ELSE strategy.grace

setStrategy(new) ==
  /\ new.selfCureFirst /\ new.reinstatementAllowed
  /\ strategy' = new
  /\ UNCHANGED <<cases, poolVars>>

-----------------------------------------------------------------------------
(* The state machine *)

\* Mutant: an unwind under way can be flagged anew
FlaggableAlways(b) == cases[b].state # "FLAGGED"
Flaggable(b) == cases[b].state \in {"HEALTHY", "RESOLVED"}

flagReason(b) ==
  IF isCompliant(b) THEN "TIER_DROP"
  ELSE IF ineligibilityReason(b) = "NONE" THEN "INELIGIBLE"
  ELSE ineligibilityReason(b)

flag(b) ==
  /\ Flaggable(b)
  /\ isFresh(b)
  /\ ~isCompliant(b) \/ ~isHealthy(b)
  /\ cases' = [cases EXCEPT ![b] =
       [state |-> "FLAGGED", reason |-> flagReason(b), flaggedAt |-> now,
        graceEndsAt |-> now + graceDuration, unwindStartedAt |-> 0]]
  /\ UNCHANGED <<strategy, poolVars>>

\* Mutant: leaves the timestamps of the dropped case behind
reinstatedKeepingTimes(case) == [case EXCEPT !.state = "HEALTHY", !.reason = "NONE"]
reinstated(case) ==
  [case EXCEPT !.state = "HEALTHY", !.reason = "NONE", !.flaggedAt = 0, !.graceEndsAt = 0]

reinstate(b) ==
  /\ cases[b].state = "FLAGGED"
  /\ isFresh(b) /\ isCompliant(b) /\ isHealthy(b)
  /\ cases' = [cases EXCEPT ![b] = reinstated(@)]
  /\ UNCHANGED <<strategy, poolVars>>

\* Mutant: measures the grace by the strategy of today
GraceElapsedLive(b) == now >= cases[b].flaggedAt + graceDuration
\* Mutant: waits for a position to be unhealthy before it unwinds
GraceElapsedUnhealthy(b) == now >= cases[b].graceEndsAt /\ ~isHealthy(b)
GraceElapsed(b) == now >= cases[b].graceEndsAt

\* The self-cure and, if it clears the debt, the resolution are one transaction.
startUnwind(b) ==
  /\ cases[b].state = "FLAGGED"
  /\ GraceElapsed(b)
  /\ applyCollateralToDebt(Self, b, MaxUint)
  /\ cases' = [cases EXCEPT
       ![b].state = IF owed(positions'[b]) = 0 THEN "RESOLVED" ELSE "UNWINDING",
       ![b].unwindStartedAt = now]
  /\ UNCHANGED strategy

\* Mutant: waits for the residual collateral to be withdrawn as well
UnwindDoneEmpty(b) == currentDebt(b) = 0 /\ positions[b].collateral = 0
UnwindDone(b) == currentDebt(b) = 0

completeUnwind(b) ==
  /\ cases[b].state = "UNWINDING"
  /\ UnwindDone(b)
  /\ cases' = [cases EXCEPT ![b].state = "RESOLVED"]
  /\ UNCHANGED <<strategy, poolVars>>

GuardianInit ==
  /\ cases = [u \in Users |-> NoCase]
  /\ strategy \in {s \in Strategies : s.selfCureFirst /\ s.reinstatementAllowed}
=============================================================================
