------------------------------- MODULE Revoca -------------------------------
(***************************************************************************)
(* The contracts as deployed together: policy, registry, gate, pool and    *)
(* guardian on one chain.  A step is one transaction, by anyone.           *)
(***************************************************************************)
EXTENDS RevocationGuardian

revocaVars == <<vars, registryVars, gateVars, guardianVars>>

RevocaInit ==
  /\ RegistryInit /\ GateInit /\ GuardianInit
  /\ Init
  /\ gate = gateView

\* A step of what the pool reads: the next transaction sees the gate's new answers.
PoolReadsAfresh == gate' = gateView'

TimePasses ==
  /\ Tick /\ UNCHANGED <<policy, registryVars, gateVars, poolVars, guardianVars>>
  /\ PoolReadsAfresh

PolicyChanges ==
  /\ PolicyNext /\ UNCHANGED <<now, registryVars, gateVars, poolVars, guardianVars>>
  /\ PoolReadsAfresh

FactsChange ==
  /\ RegistryStep /\ UNCHANGED <<now, policy, gateVars, poolVars, guardianVars>>
  /\ PoolReadsAfresh

GateChanges ==
  /\ GateStep /\ UNCHANGED <<now, policy, registryVars, poolVars, guardianVars>>
  /\ PoolReadsAfresh

Liquidation(b) ==
  liquidate(b) /\ UNCHANGED <<envVars, registryVars, gateVars, guardianVars>>

PoolMoves ==
  /\ LenderStep \/ BorrowerStep \/ OwnerStep
  /\ UNCHANGED <<envVars, registryVars, gateVars, guardianVars>>

othersUnchanged == UNCHANGED <<envVars, registryVars, gateVars>>

\* Bound: no grace that ends beyond the modelled time
Flag(b) == now + graceDuration <= MaxTime /\ flag(b) /\ othersUnchanged
Reinstate(b) == reinstate(b) /\ othersUnchanged
StartUnwind(b) == startUnwind(b) /\ othersUnchanged
CompleteUnwind(b) == completeUnwind(b) /\ othersUnchanged
StrategyChanges == (\E s \in Strategies : setStrategy(s)) /\ othersUnchanged

RevocaNext ==
  \/ TimePasses \/ PolicyChanges \/ FactsChange \/ GateChanges \/ PoolMoves
  \/ StrategyChanges
  \/ \E b \in Users :
       \/ Liquidation(b)
       \/ Flag(b) \/ Reinstate(b) \/ StartUnwind(b) \/ CompleteUnwind(b)

RevocaSpec == RevocaInit /\ [][RevocaNext]_revocaVars

(***************************************************************************)
(* Fairness: time passes; anyone may start or complete an unwind, and the  *)
(* keeper (backend/src/keeper/poller.ts) polls every borrower for both.    *)
(* Nothing else is bound to happen: not a flag, a reinstatement, a         *)
(* repayment or an attestation, nor a liquidation, which no code calls.    *)
(***************************************************************************)
RevocaFairness ==
  /\ WF_revocaVars(TimePasses)
  /\ \A b \in Users : /\ WF_revocaVars(StartUnwind(b))
                      /\ WF_revocaVars(CompleteUnwind(b))

RevocaFairSpec == RevocaSpec /\ RevocaFairness

-----------------------------------------------------------------------------
(* Properties *)

(***************************************************************************)
(* A case record tells the truth about its case: a HEALTHY borrower has    *)
(* none of an old case left on record, an open case has a reason and a     *)
(* deadline no earlier than its flag, and an unwind never started before   *)
(* its deadline, whatever strategies and graces came and went meanwhile.   *)
(***************************************************************************)
CaseRecordsAgree ==
  \A u \in Users :
    LET case == cases[u]
    IN /\ case.state = "HEALTHY" => case = NoCase
       /\ case.state # "HEALTHY" =>
            /\ case.reason # "NONE"
            /\ case.flaggedAt <= now /\ case.flaggedAt <= case.graceEndsAt
       /\ case.state = "FLAGGED" => case.unwindStartedAt = 0
       /\ case.state \in {"UNWINDING", "RESOLVED"} =>
            case.graceEndsAt <= case.unwindStartedAt /\ case.unwindStartedAt <= now

(***************************************************************************)
(* The whole system implements the guardian's promise: see UnwindLifecycle. *)
(***************************************************************************)
Lifecycle == INSTANCE UnwindLifecycle WITH
  Borrowers <- Users,
  clock     <- now,
  stage     <- [u \in Users |-> cases[u].state],
  deadline  <- [u \in Users |-> cases[u].graceEndsAt],
  owes      <- [u \in Users |-> currentDebt(u) > 0]

LifecycleKept == Lifecycle!LifecycleSpec

(***************************************************************************)
(* Collateral is taken to pay debt only from a position that is unhealthy, *)
(* or from one whose case is open and whose grace, fixed when it was       *)
(* flagged, has run out.                                                   *)
(***************************************************************************)
TakenOnlyForCause ==
  [][ \A u \in Users :
        /\ positions'[u].collateral < positions[u].collateral
        /\ owed(positions'[u]) < currentDebt(u)
        => \/ ~isHealthy(u)
           \/ cases[u].state = "FLAGGED" /\ now >= cases[u].graceEndsAt ]_revocaVars

(***************************************************************************)
(* The gate fails closed: principal is drawn only while the mode the owner *)
(* set says yes by itself; a validator that reverts is never replaced by   *)
(* an attestation, nor a stale attestation by the validator.               *)
(***************************************************************************)
GateFailsClosed ==
  [][ \A u \in Users : positions'[u].principal > positions[u].principal =>
        \/ mode = "ValidatorGated" /\ validator[u] = "yes"
        \/ mode = "AttestorGated" /\ isCompliant(u) /\ isFresh(u) ]_revocaVars

(***************************************************************************)
(* No case is ever stuck: once grace is over nothing in the pool can make  *)
(* the installed guardian's unwind revert, and an unwind that self-cure    *)
(* did not finish can be completed, or liquidated first, unless the        *)
(* position is backed again.  The two promises below rest on it.           *)
(***************************************************************************)
CasesNeverStuck ==
  \A u \in Users :
    /\ cases[u].state = "FLAGGED" /\ GraceElapsed(u) /\ guardian = Self =>
         applyCollateralToDebtPasses(Self, u, MaxUint)
    /\ cases[u].state = "UNWINDING" =>
         UnwindDone(u) \/ liquidatePasses(u) \/ (currentDebt(u) > 0 /\ isHealthy(u))

(***************************************************************************)
(* No flag is left hanging: while the guardian stays installed in the      *)
(* pool, every case that is opened is dropped or acted upon.               *)
(***************************************************************************)
FlagsAreSettled ==
  <>[](guardian = Self) =>
    \A u \in Users : cases[u].state = "FLAGGED" ~> cases[u].state # "FLAGGED"

\* A premise, never granted: someone liquidates whoever stays open to it, also
\* where self-cure took all the collateral and there is nothing to be had for it.
SomeoneLiquidates == \A b \in Users : WF_revocaVars(Liquidation(b))

(***************************************************************************)
(* An unwind that self-cure could not finish ends, or the position is      *)
(* healthy again, whatever the borrower does, if someone liquidates it     *)
(* even at a loss.  And without anyone who does: an unwind whose debt is   *)
(* gone, however it was paid, ends - unless the borrower borrows again.    *)
(***************************************************************************)
UnwindEndsOrHeals ==
  /\ SomeoneLiquidates =>
       \A u \in Users :
         cases[u].state = "UNWINDING" ~>
           cases[u].state = "RESOLVED" \/ (currentDebt(u) > 0 /\ isHealthy(u))
  /\ \A u \in Users :
       cases[u].state = "UNWINDING" /\ currentDebt(u) = 0 ~>
         cases[u].state = "RESOLVED" \/ currentDebt(u) > 0

(***************************************************************************)
(* RevocationGuardian.sol:60: "Once UNWINDING has begun, there is no path  *)
(* back, the unwind must complete" - even with a liquidator for everyone.  *)
(***************************************************************************)
UnwindMustComplete ==
  SomeoneLiquidates =>
    \A u \in Users : cases[u].state = "UNWINDING" ~> cases[u].state = "RESOLVED"

(***************************************************************************)
(* ImmediateQuarantineStrategy.sol: "new borrowing is already structurally *)
(* impossible for a flagged position"; the guardian's header claims it of  *)
(* "a flagged/unwinding user".                                             *)
(***************************************************************************)
NoBorrowingWhileFlagged ==
  [][ \A u \in Users : cases[u].state \in {"FLAGGED", "UNWINDING"} =>
        positions'[u].principal <= positions[u].principal ]_revocaVars

(***************************************************************************)
(* RevocationGuardian.sol:58: "A FLAGGED position can return to HEALTHY    *)
(* via `reinstate()` if compliance (and tier-derived health) is restored   *)
(* before grace elapses."  Facts issued once grace has elapsed come late.  *)
(***************************************************************************)
ReinstatedWithinGrace ==
  [][ \A u \in Users :
        cases[u].state = "FLAGGED" /\ cases'[u].state = "HEALTHY" =>
          now < cases[u].graceEndsAt \/ attestations[u].issuedAt < cases[u].graceEndsAt
    ]_revocaVars
=============================================================================
