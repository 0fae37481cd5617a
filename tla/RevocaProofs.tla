----------------------------- MODULE RevocaProofs -----------------------------
(***************************************************************************)
(* The contracts composed: the pool behind its real gate is the pool of    *)
(* LendingPool, and the guardian keeps its records and its promise, for    *)
(* any number of users, any policy, any facts and any amounts.             *)
(***************************************************************************)
EXTENDS Revoca, PoolLedgerProofs

-----------------------------------------------------------------------------
(* What the pool reads is typed, and is what its gate derives now *)

GateTypeOK ==
  /\ RegistryTypeOK
  /\ mode \in Modes /\ validator \in [Users -> ValidatorAnswers]
  /\ gate = gateView

LEMMA RegistryTypeInit ==
  ASSUME RegistryInit
  PROVE  RegistryTypeOK
  <1>1. 0 \in Tiers /\ 0 \in SubTiers /\ NoCountry \in Countries
    BY PolicyConstants, RegistryConstants
  <1>2. QED
    BY <1>1 DEF RegistryInit, RegistryTypeOK, Attestation, Fact, attested

LEMMA RegistryTypeStep ==
  ASSUME RegistryTypeOK, RegistryStep
  PROVE  RegistryTypeOK'
  <1>1. ASSUME NEW m \in Messages, submitAttestation(m)
        PROVE  RegistryTypeOK'
    <2>1. /\ m.user \in Users /\ m.facts \in Fact /\ m.issuedAt \in Nat /\ m.issuedAt # 0
          /\ m.nonce \in Nat
      BY RegistryConstants DEF Messages
    <2>2. [facts |-> m.facts, issuedAt |-> m.issuedAt] \in Attestation
      BY <2>1 DEF Attestation
    <2>3. m.nonce > lastNonce[m.user] /\ lastNonce[m.user] \in Nat
      BY <1>1, <2>1 DEF submitAttestation, NonceAccepted, RegistryTypeOK
    <2>4. m.nonce # 0
      BY <2>1, <2>3
    <2>5. attestations' \in [Users -> Attestation] /\ lastNonce' \in [Users -> Nat]
      BY <1>1, <2>1, <2>2 DEF submitAttestation, RegistryTypeOK
    <2>6. \A u \in Users : attested(u)' <=> lastNonce'[u] # 0
      BY <1>1, <2>1, <2>4 DEF submitAttestation, RegistryTypeOK, attested
    <2>7. QED
      BY <1>1, <2>5, <2>6 DEF submitAttestation, RegistryTypeOK
  <1>2. CASE \E a \in Signers, authorized \in BOOLEAN : setAttestor(a, authorized)
    BY <1>2 DEF setAttestor, RegistryTypeOK, attested
  <1>3. QED
    BY <1>1, <1>2 DEF RegistryStep

\* Every answer the gate gives is one the pool is specified for.
LEMMA GateViewType ==
  ASSUME RegistryTypeOK
  PROVE  gateView \in [Borrowers -> GateAnswers]
  <1>1. ASSUME NEW u \in Users
        PROVE  gateAnswer(u) \in GateAnswer
    <2>1. attestations[u].facts \in Fact
      BY DEF RegistryTypeOK, Attestation
    <2>2. /\ factsOf(u).tier \in Tiers /\ factsOf(u).subTier \in SubTiers
          /\ factsOf(u).country \in Countries
      BY <2>1 DEF Fact, factsOf
    <2>3. gateIsFresh(u) \in BOOLEAN
      BY Zenon DEF gateIsFresh
    <2>4. gateIsCompliant(u) \in BOOLEAN
      BY Zenon DEF gateIsCompliant, isCompliant
    <2>5. QED
      BY <2>2, <2>3, <2>4 DEF gateAnswer, GateAnswer
  <1>2. QED
    BY <1>1, DeployedTogether DEF gateView

LEMMA NextGateViewType == RegistryTypeOK' => (gateView \in [Borrowers -> GateAnswers])'
  <1>1. RegistryTypeOK => gateView \in [Borrowers -> GateAnswers]
    BY GateViewType
  <1>2. QED
    BY <1>1, PTL

\* The view changes only with what it is derived from.
LEMMA SameView ==
  ASSUME UNCHANGED <<now, policy, registryVars, gateVars>>
  PROVE  gateView' = gateView
  BY DEF registryVars, gateVars, gateView, gateAnswer, gateIsFresh, gateIsCompliant,
     isFresh, isCompliant, attested, factsOf, expired,
     isTierEligible, isCountryEligible, AtLeast

\* Every transaction is one of these.
ChangesView ==
  /\ \/ Tick /\ UNCHANGED <<policy, registryVars, gateVars>>
     \/ PolicyNext /\ UNCHANGED <<now, registryVars, gateVars>>
     \/ RegistryStep /\ UNCHANGED <<now, policy, gateVars>>
     \/ GateStep /\ UNCHANGED <<now, policy, registryVars>>
  /\ gate' = gateView'
  /\ UNCHANGED <<poolVars, guardianVars>>

MovesPool ==
  \/ (LenderStep \/ BorrowerStep \/ OwnerStep) /\ UNCHANGED guardianVars
  \/ \E b \in Users : liquidate(b) /\ UNCHANGED guardianVars
  \/ \E b \in Users : startUnwind(b)

MovesCase ==
  \/ \E s \in Strategies : setStrategy(s)
  \/ \E b \in Users : flag(b) \/ reinstate(b) \/ completeUnwind(b)

LEMMA TransactionKinds ==
  ASSUME [RevocaNext]_revocaVars
  PROVE  \/ ChangesView
         \/ MovesPool /\ UNCHANGED <<envVars, registryVars, gateVars>>
         \/ MovesCase /\ UNCHANGED <<vars, registryVars, gateVars>>
         \/ UNCHANGED revocaVars
  <1>1. CASE TimePasses \/ PolicyChanges \/ FactsChange \/ GateChanges
    BY <1>1 DEF TimePasses, PolicyChanges, FactsChange, GateChanges, PoolReadsAfresh, ChangesView
  <1>2. CASE PoolMoves
    BY <1>2 DEF PoolMoves, MovesPool
  <1>3. CASE StrategyChanges
    BY <1>3 DEF StrategyChanges, MovesCase, setStrategy, othersUnchanged, vars
  <1>4. ASSUME NEW b \in Users,
               Liquidation(b) \/ Flag(b) \/ Reinstate(b) \/ StartUnwind(b) \/ CompleteUnwind(b)
        PROVE  \/ MovesPool /\ UNCHANGED <<envVars, registryVars, gateVars>>
               \/ MovesCase /\ UNCHANGED <<vars, registryVars, gateVars>>
    <2>1. CASE Liquidation(b)
      BY <2>1 DEF Liquidation, MovesPool
    <2>2. CASE StartUnwind(b)
      BY <2>2 DEF StartUnwind, MovesPool, othersUnchanged
    <2>3. CASE Flag(b) \/ Reinstate(b) \/ CompleteUnwind(b)
      BY <2>3 DEF Flag, Reinstate, CompleteUnwind, flag, reinstate, completeUnwind,
         MovesCase, othersUnchanged, vars
    <2>4. QED
      BY <1>4, <2>1, <2>2, <2>3
  <1>5. QED
    BY <1>1, <1>2, <1>3, <1>4 DEF RevocaNext

LEMMA GateTypeInit ==
  ASSUME RevocaInit
  PROVE  GateTypeOK
  BY RegistryTypeInit DEF RevocaInit, GateInit, GateTypeOK

LEMMA GateTypeStep ==
  ASSUME GateTypeOK, [RevocaNext]_revocaVars
  PROVE  GateTypeOK'
  <1>1. CASE ChangesView
    <2>1. RegistryTypeOK'
      BY <1>1, RegistryTypeStep
         DEF ChangesView, GateTypeOK, registryVars, RegistryTypeOK, attested
    <2>2. mode' \in Modes /\ validator' \in [Users -> ValidatorAnswers]
      BY <1>1 DEF ChangesView, GateTypeOK, gateVars, GateStep, setMode, validatorChanges
    <2>3. QED
      BY <1>1, <2>1, <2>2 DEF ChangesView, GateTypeOK
  <1>2. CASE UNCHANGED <<envVars, registryVars, gateVars>>
    <2>1. gateView' = gateView
      BY <1>2, SameView DEF envVars
    <2>2. QED
      BY <1>2, <2>1 DEF GateTypeOK, RegistryTypeOK, attested, envVars, registryVars, gateVars
  <1>3. QED
    BY <1>1, <1>2, TransactionKinds DEF vars, revocaVars

LEMMA GateTypeInductive == RevocaSpec => []GateTypeOK
  BY GateTypeInit, GateTypeStep, PTL DEF RevocaSpec

-----------------------------------------------------------------------------
(* The composed system implements the pool's specification *)

LEMMA SystemStepIsPoolStep ==
  ASSUME GateTypeOK, [RevocaNext]_revocaVars
  PROVE  [Next]_vars
  <1>1. CASE ChangesView
    <2>1. gate' \in [Borrowers -> GateAnswers]
      <3>1. RegistryTypeOK'
        BY GateTypeStep DEF GateTypeOK
      <3>2. gateView' \in [Borrowers -> GateAnswers]
        BY <3>1, NextGateViewType
      <3>3. QED
        BY <1>1, <3>2 DEF ChangesView
    <2>2. QED
      BY <1>1, <2>1 DEF ChangesView, Environment, Next
  <1>2. CASE MovesPool /\ UNCHANGED <<envVars, registryVars, gateVars>>
    <2>1. ASSUME NEW b \in Users, startUnwind(b)
          PROVE  SettlementStep
      BY <2>1, DeployedTogether DEF startUnwind, SettlementStep
    <2>2. ASSUME NEW b \in Users, liquidate(b)
          PROVE  SettlementStep
      BY <2>2, DeployedTogether DEF SettlementStep
    <2>3. QED
      BY <1>2, <2>1, <2>2 DEF MovesPool, Next
  <1>3. QED
    BY <1>1, <1>2, TransactionKinds DEF revocaVars

(***************************************************************************)
(* The deployed contracts implement the pool's specification: whatever the *)
(* registry, the hybrid gate, the policy and the guardian do, the pool     *)
(* only ever takes the steps LendingPool allows it under a gate that may   *)
(* answer anything.  So every theorem about LendingPool holds of them.     *)
(***************************************************************************)
THEOREM RevocaImplementsPool == RevocaSpec => Spec
  <1>1. RevocaInit => Init
    BY DEF RevocaInit
  <1>2. GateTypeOK /\ [RevocaNext]_revocaVars => [Next]_vars
    BY SystemStepIsPoolStep
  <1>3. QED
    BY <1>1, <1>2, GateTypeInductive, PTL DEF RevocaSpec, Spec

(***************************************************************************)
(* Of the deployed contracts, then: the pool's tokens cover exactly what   *)
(* it owes to both sides, its totals are the sums of its accounts,         *)
(* interest is settled first, shares stay backed and their price never     *)
(* falls, no exit is trapped, no debt is forgiven, exposure rises only for *)
(* the cleared, a seizure is bounded and no call undermines a healthy      *)
(* position.                                                               *)
(***************************************************************************)
THEOREM DeployedPoolSound ==
  RevocaSpec => /\ [](/\ TypeOK /\ Solvency /\ LedgerTotalsAgree
                      /\ InterestFirst /\ SharesBacked /\ ClaimsCovered /\ ExitsPass)
                /\ SharePriceNeverFalls /\ RoundingNeverPays /\ DebtOnlyFallsIfPaid
                /\ ExposureRisesOnlyWhenCleared /\ SeizureIsBounded
                /\ NoCallUnderminesAHealthyPosition
  BY RevocaImplementsPool, PoolTypeCorrect, PoolSolvent, PoolTotalsAgree, PoolInterestFirst,
     PoolSharesBacked, PoolSharePriceNeverFalls, PoolDebtOnlyFallsIfPaid,
     PoolExposureRisesOnlyWhenCleared, PoolSeizureIsBounded, PoolCoversEveryClaim, PoolExitsPass,
     PoolRoundingNeverPays,
     PoolNoCallUnderminesAHealthyPosition, PTL

(***************************************************************************)
(* No case of the guardian is ever stuck.                                  *)
(***************************************************************************)
THEOREM RevocaCasesNeverStuck == RevocaSpec => []CasesNeverStuck
  <1>1. ASSUME TypeOK, ExitsPass
        PROVE  CasesNeverStuck
    <2>1. SUFFICES ASSUME NEW u \in Users
                   PROVE  /\ guardian = Self => applyCollateralToDebtPasses(Self, u, MaxUint)
                          /\ \/ UnwindDone(u) \/ liquidatePasses(u)
                             \/ currentDebt(u) > 0 /\ isHealthy(u)
      BY DEF CasesNeverStuck
    <2>2. u \in Borrowers /\ MaxUint \in Nat
      BY DeployedTogether, PoolConstants
    <2>3. SelfCurePasses(u) /\ UnhealthyIsLiquidated(u) /\ currentDebt(u) \in Nat
      BY <1>1, <2>2, AccruedPosition DEF ExitsPass
    <2>4. CASE isHealthy(u)
      BY <2>2, <2>3, <2>4 DEF SelfCurePasses, UnwindDone
    <2>5. CASE ~isHealthy(u)
      BY <2>2, <2>3, <2>5 DEF SelfCurePasses, UnhealthyIsLiquidated
    <2>6. QED
      BY <2>4, <2>5
  <1>2. QED
    BY <1>1, DeployedPoolSound, PTL

-----------------------------------------------------------------------------
(* The guardian's records *)

GuardianTypeOK ==
  /\ cases \in [Users -> GuardianPosition]
  /\ strategy \in Strategies

LEMMA GraceType ==
  ASSUME TypeOK, GuardianTypeOK
  PROVE  graceDuration \in Nat /\ now \in Nat
  <1>1. policy.graceDuration \in Nat /\ now \in Nat
    BY PolicyConstants DEF TypeOK, EnvTypeOK, PolicyTypeOK, Policy
  <1>2. strategy \in Strategy
    BY GuardianConstants DEF GuardianTypeOK
  <1>3. strategy.grace \in Nat
    BY <1>2 DEF Strategy
  <1>4. QED
    BY <1>1, <1>3 DEF graceDuration

\* flag() records a reason that says why, even should its two sources disagree.
LEMMA FlagReasonGiven ==
  ASSUME NEW b
  PROVE  flagReason(b) \in Reason \ {"NONE"}
  BY DEF flagReason, ineligibilityReason, Reason

\* What each of the guardian's calls writes into a case
LEMMA CaseWritten ==
  ASSUME TypeOK, GuardianTypeOK, CaseRecordsAgree, NEW b \in Users
  PROVE  /\ flag(b) =>
              \E new \in GuardianPosition :
                /\ cases' = [cases EXCEPT ![b] = new]
                /\ new.state = "FLAGGED" /\ new.reason # "NONE"
                /\ new.flaggedAt = now /\ new.graceEndsAt >= now /\ new.unwindStartedAt = 0
         /\ reinstate(b) => cases[b].state = "FLAGGED" /\ cases' = [cases EXCEPT ![b] = NoCase]
         /\ startUnwind(b) =>
              \E new \in GuardianPosition :
                /\ cases[b].state = "FLAGGED" /\ cases[b].graceEndsAt <= now
                /\ cases' = [cases EXCEPT ![b] = new]
                /\ new.state \in {"UNWINDING", "RESOLVED"} /\ new.unwindStartedAt = now
                /\ new.state = "RESOLVED" <=> owed(positions'[b]) = 0
                /\ new.reason = cases[b].reason /\ new.flaggedAt = cases[b].flaggedAt
                /\ new.graceEndsAt = cases[b].graceEndsAt
         /\ completeUnwind(b) =>
              \E new \in GuardianPosition :
                /\ cases[b].state = "UNWINDING"
                /\ cases' = [cases EXCEPT ![b] = new]
                /\ new.state = "RESOLVED" /\ new.unwindStartedAt = cases[b].unwindStartedAt
                /\ new.reason = cases[b].reason /\ new.flaggedAt = cases[b].flaggedAt
                /\ new.graceEndsAt = cases[b].graceEndsAt
  <1>1. cases[b] \in GuardianPosition /\ now \in Nat /\ graceDuration \in Nat
    BY GraceType DEF GuardianTypeOK
  <1>2. ASSUME flag(b)
        PROVE  \E new \in GuardianPosition :
                 /\ cases' = [cases EXCEPT ![b] = new]
                 /\ new.state = "FLAGGED" /\ new.reason # "NONE"
                 /\ new.flaggedAt = now /\ new.graceEndsAt >= now /\ new.unwindStartedAt = 0
    <2> DEFINE new == [state |-> "FLAGGED", reason |-> flagReason(b), flaggedAt |-> now,
                       graceEndsAt |-> now + graceDuration, unwindStartedAt |-> 0]
    <2>1. new \in GuardianPosition /\ new.reason # "NONE" /\ new.graceEndsAt >= now
      BY <1>1, FlagReasonGiven DEF GuardianPosition, PositionState
    <2>2. cases' = [cases EXCEPT ![b] = new]
      BY <1>2 DEF flag
    <2>3. QED
      BY <2>1, <2>2
  <1>3. ASSUME reinstate(b)
        PROVE  cases[b].state = "FLAGGED" /\ cases' = [cases EXCEPT ![b] = NoCase]
    <2>1. cases[b].state = "FLAGGED" /\ cases[b].unwindStartedAt = 0
      BY <1>3 DEF reinstate, CaseRecordsAgree
    <2>2. reinstated(cases[b]) = NoCase
      <3> DEFINE case == [cases[b] EXCEPT !.state = "HEALTHY", !.reason = "NONE",
                                          !.flaggedAt = 0, !.graceEndsAt = 0]
      <3>1. case \in GuardianPosition
        BY <1>1, Zenon DEF GuardianPosition, PositionState, Reason
      <3>2. /\ case.state = "HEALTHY" /\ case.reason = "NONE" /\ case.flaggedAt = 0
            /\ case.graceEndsAt = 0 /\ case.unwindStartedAt = 0
        BY <1>1, <2>1 DEF GuardianPosition
      <3>3. case = reinstated(cases[b])
        BY DEF reinstated
      <3> HIDE DEF case
      <3>4. case = NoCase
        BY <3>1, <3>2 DEF GuardianPosition, NoCase
      <3>5. QED
        BY <3>3, <3>4
    <2>3. QED
      BY <1>3, <2>1, <2>2 DEF reinstate
  <1>4. ASSUME startUnwind(b)
        PROVE  \E new \in GuardianPosition :
                 /\ cases[b].state = "FLAGGED" /\ cases[b].graceEndsAt <= now
                 /\ cases' = [cases EXCEPT ![b] = new]
                 /\ new.state \in {"UNWINDING", "RESOLVED"} /\ new.unwindStartedAt = now
                 /\ new.state = "RESOLVED" <=> owed(positions'[b]) = 0
                 /\ new.reason = cases[b].reason /\ new.flaggedAt = cases[b].flaggedAt
                 /\ new.graceEndsAt = cases[b].graceEndsAt
    <2> DEFINE state == IF owed(positions'[b]) = 0 THEN "RESOLVED" ELSE "UNWINDING"
               new == [cases[b] EXCEPT !.state = state, !.unwindStartedAt = now]
    <2>1. cases[b].state = "FLAGGED" /\ cases[b].graceEndsAt <= now
      BY <1>4, <1>1 DEF startUnwind, GraceElapsed, GuardianPosition
    <2>2. cases' = [cases EXCEPT ![b] = new]
      <3>1. cases' = [cases EXCEPT ![b].state = state, ![b].unwindStartedAt = now]
        BY <1>4 DEF startUnwind
      <3> HIDE DEF state
      <3>2. QED
        BY <3>1, <1>1, Zenon DEF GuardianTypeOK
    <2>3. state \in {"UNWINDING", "RESOLVED"} /\ (state = "RESOLVED" <=> owed(positions'[b]) = 0)
      OBVIOUS
    <2> HIDE DEF state
    <2>4. /\ new \in GuardianPosition
          /\ new.state = state /\ new.unwindStartedAt = now
          /\ new.reason = cases[b].reason /\ new.flaggedAt = cases[b].flaggedAt
          /\ new.graceEndsAt = cases[b].graceEndsAt
      BY <1>1, <2>3 DEF GuardianPosition, PositionState
    <2> HIDE DEF new
    <2>5. QED
      BY <2>1, <2>2, <2>3, <2>4
  <1>5. ASSUME completeUnwind(b)
        PROVE  \E new \in GuardianPosition :
                 /\ cases[b].state = "UNWINDING"
                 /\ cases' = [cases EXCEPT ![b] = new]
                 /\ new.state = "RESOLVED" /\ new.unwindStartedAt = cases[b].unwindStartedAt
                 /\ new.reason = cases[b].reason /\ new.flaggedAt = cases[b].flaggedAt
                 /\ new.graceEndsAt = cases[b].graceEndsAt
    <2> DEFINE new == [cases[b] EXCEPT !.state = "RESOLVED"]
    <2>1. cases[b].state = "UNWINDING" /\ cases' = [cases EXCEPT ![b] = new]
      BY <1>5 DEF completeUnwind
    <2>2. /\ new \in GuardianPosition
          /\ new.state = "RESOLVED" /\ new.unwindStartedAt = cases[b].unwindStartedAt
          /\ new.reason = cases[b].reason /\ new.flaggedAt = cases[b].flaggedAt
          /\ new.graceEndsAt = cases[b].graceEndsAt
      BY <1>1 DEF GuardianPosition, PositionState
    <2> HIDE DEF new
    <2>3. QED
      BY <2>1, <2>2
  <1>6. QED
    BY <1>2, <1>3, <1>4, <1>5

CasesInv == GuardianTypeOK /\ CaseRecordsAgree

\* Writing one case that agrees with the clock leaves the records in agreement.
LEMMA OneCaseWritten ==
  ASSUME TypeOK, CasesInv, UNCHANGED now, strategy' \in Strategies,
         NEW b \in Users, NEW new \in GuardianPosition,
         cases' = [cases EXCEPT ![b] = new],
         new.state = "HEALTHY" => new = NoCase,
         new.state # "HEALTHY" =>
           new.reason # "NONE" /\ new.flaggedAt <= now /\ new.flaggedAt <= new.graceEndsAt,
         new.state = "FLAGGED" => new.unwindStartedAt = 0,
         new.state \in {"UNWINDING", "RESOLVED"} =>
           new.graceEndsAt <= new.unwindStartedAt /\ new.unwindStartedAt <= now
  PROVE  CasesInv'
  <1>1. \A u \in Users : cases'[u] = IF u = b THEN new ELSE cases[u]
    BY DEF CasesInv, GuardianTypeOK
  <1>2. GuardianTypeOK'
    BY DEF CasesInv, GuardianTypeOK
  <1>3. CaseRecordsAgree'
    BY <1>1 DEF CasesInv, CaseRecordsAgree
  <1>4. QED
    BY <1>2, <1>3 DEF CasesInv

LEMMA CasesStep ==
  ASSUME TypeOK, TypeOK', CasesInv, [RevocaNext]_revocaVars
  PROVE  CasesInv'
  <1> USE DEF CasesInv
  <1>1. now \in Nat /\ now' \in Nat /\ \A u \in Users : cases[u] \in GuardianPosition
    BY DEF TypeOK, EnvTypeOK, GuardianTypeOK
  <1>2. CASE UNCHANGED guardianVars /\ now' >= now
    <2>1. \A u \in Users : cases[u].flaggedAt \in Nat /\ cases[u].unwindStartedAt \in Nat
      BY <1>1 DEF GuardianPosition
    <2>2. QED
      BY <1>1, <1>2, <2>1 DEF guardianVars, GuardianTypeOK, CaseRecordsAgree
  <1>3. ASSUME NEW b \in Users, flag(b) \/ reinstate(b) \/ startUnwind(b) \/ completeUnwind(b),
               UNCHANGED now
        PROVE  CasesInv'
    <2>1. strategy' \in Strategies
      BY <1>3 DEF flag, reinstate, startUnwind, completeUnwind, GuardianTypeOK
    <2>2. cases[b] \in GuardianPosition /\ NoCase \in GuardianPosition /\ NoCase.state = "HEALTHY"
      BY <1>1 DEF NoCase, GuardianPosition, PositionState, Reason
    <2>3. CASE flag(b)
      <3>1. PICK new \in GuardianPosition :
              /\ cases' = [cases EXCEPT ![b] = new]
              /\ new.state = "FLAGGED" /\ new.reason # "NONE"
              /\ new.flaggedAt = now /\ new.graceEndsAt >= now /\ new.unwindStartedAt = 0
        BY <2>3, CaseWritten
      <3>2. /\ new.flaggedAt <= now /\ new.flaggedAt <= new.graceEndsAt
            /\ new.state # "HEALTHY" /\ new.state \notin {"UNWINDING", "RESOLVED"}
        BY <1>1, <3>1 DEF GuardianPosition
      <3>3. QED
        BY <1>3, <2>1, <3>1, <3>2, OneCaseWritten
    <2>4. CASE reinstate(b)
      BY <1>3, <2>1, <2>2, <2>4, CaseWritten, OneCaseWritten
    <2>5. CASE startUnwind(b)
      <3>1. PICK new \in GuardianPosition :
              /\ cases[b].state = "FLAGGED" /\ cases[b].graceEndsAt <= now
              /\ cases' = [cases EXCEPT ![b] = new]
              /\ new.state \in {"UNWINDING", "RESOLVED"} /\ new.unwindStartedAt = now
              /\ new.reason = cases[b].reason /\ new.flaggedAt = cases[b].flaggedAt
              /\ new.graceEndsAt = cases[b].graceEndsAt
        BY <2>5, CaseWritten
      <3>2. new.reason # "NONE" /\ new.flaggedAt <= now /\ new.flaggedAt <= new.graceEndsAt
        BY <3>1 DEF CaseRecordsAgree
      <3>3. /\ new.graceEndsAt <= new.unwindStartedAt /\ new.unwindStartedAt <= now
            /\ new.state # "HEALTHY" /\ new.state # "FLAGGED"
        BY <1>1, <3>1
      <3>4. QED
        BY <1>3, <2>1, <3>1, <3>2, <3>3, OneCaseWritten
    <2>6. CASE completeUnwind(b)
      <3>1. PICK new \in GuardianPosition :
              /\ cases[b].state = "UNWINDING"
              /\ cases' = [cases EXCEPT ![b] = new]
              /\ new.state = "RESOLVED" /\ new.unwindStartedAt = cases[b].unwindStartedAt
              /\ new.reason = cases[b].reason /\ new.flaggedAt = cases[b].flaggedAt
              /\ new.graceEndsAt = cases[b].graceEndsAt
        BY <2>6, CaseWritten
      <3>2. /\ new.reason # "NONE" /\ new.flaggedAt <= now /\ new.flaggedAt <= new.graceEndsAt
            /\ new.graceEndsAt <= new.unwindStartedAt /\ new.unwindStartedAt <= now
        BY <3>1 DEF CaseRecordsAgree
      <3>3. QED
        BY <1>3, <2>1, <3>1, <3>2, OneCaseWritten
    <2>7. QED
      BY <1>3, <2>3, <2>4, <2>5, <2>6
  <1>4. CASE (\E s \in Strategies : setStrategy(s)) /\ UNCHANGED now
    BY <1>4 DEF setStrategy, GuardianTypeOK, CaseRecordsAgree
  <1>5. CASE ChangesView
    BY <1>1, <1>2, <1>5 DEF ChangesView, Tick
  <1>6. CASE MovesPool /\ UNCHANGED envVars
    BY <1>1, <1>2, <1>3, <1>6 DEF MovesPool, envVars
  <1>7. CASE MovesCase /\ UNCHANGED vars
    BY <1>3, <1>4, <1>7 DEF MovesCase, vars, envVars
  <1>8. QED
    BY <1>1, <1>2, <1>5, <1>6, <1>7, TransactionKinds DEF revocaVars, vars, envVars

\* The inductive invariant of the guardian
LEMMA CasesInductive == RevocaSpec => []CasesInv
  <1>1. RevocaInit => CasesInv
    BY DEF RevocaInit, GuardianInit, CasesInv, GuardianTypeOK, CaseRecordsAgree, NoCase,
       GuardianPosition, PositionState, Reason
  <1>2. TypeOK /\ TypeOK' /\ CasesInv /\ [RevocaNext]_revocaVars => CasesInv'
    BY CasesStep
  <1>3. QED
    BY <1>1, <1>2, DeployedPoolSound, PTL DEF RevocaSpec

(***************************************************************************)
(* A case record tells the truth about its case: see CaseRecordsAgree.     *)
(***************************************************************************)
THEOREM RevocaCaseRecordsAgree == RevocaSpec => []CaseRecordsAgree
  BY CasesInductive, PTL DEF CasesInv

-----------------------------------------------------------------------------
(* The gate fails closed *)

LEMMA PrincipalRisesOnlyIfCleared ==
  ASSUME TypeOK, GateTypeOK, [RevocaNext]_revocaVars, NEW u \in Users,
         positions'[u].principal > positions[u].principal
  PROVE  cleared(u)
  <1>1. u \in Borrowers /\ [Next]_vars
    BY DeployedTogether, SystemStepIsPoolStep
  <1>2. positions[u].principal \in Nat
    BY <1>1, AmountTypes
  <1>3. CASE Posted(u)
    BY <1>1, <1>2, <1>3, PostedPosition
  <1>4. CASE Settles(u)
    <2>1. PICK after \in BorrowerPosition, paid \in Nat, lost \in Nat :
            SettledTo(u, after, paid, lost)
      BY <1>1, <1>4, SettlesIsSettlement DEF Settlement
    <2>2. positions'[u].principal <= positions[u].principal /\ positions'[u].principal \in Nat
      BY <1>1, <2>1, SettledPosition DEF BorrowerPosition
    <2>3. QED
      BY <1>2, <2>2
  <1>5. QED
    BY <1>1, <1>2, <1>3, <1>4, PositionChange DEF Borrowed

(***************************************************************************)
(* Principal is drawn only while the mode the owner set says yes by        *)
(* itself: neither source ever stands in for the other.                    *)
(***************************************************************************)
THEOREM RevocaGateFailsClosed == RevocaSpec => GateFailsClosed
  <1> DEFINE Closed ==
        \A u \in Users : positions'[u].principal > positions[u].principal =>
          \/ mode = "ValidatorGated" /\ validator[u] = "yes"
          \/ mode = "AttestorGated" /\ isCompliant(u) /\ isFresh(u)
  <1>1. ASSUME TypeOK, GateTypeOK, [RevocaNext]_revocaVars
        PROVE  Closed
    <2>1. SUFFICES ASSUME NEW u \in Users, positions'[u].principal > positions[u].principal
                   PROVE  \/ mode = "ValidatorGated" /\ validator[u] = "yes"
                          \/ mode = "AttestorGated" /\ isCompliant(u) /\ isFresh(u)
      OBVIOUS
    <2>2. gate[u].fresh /\ gate[u].compliant
      BY <1>1, <2>1, PrincipalRisesOnlyIfCleared DEF cleared
    <2>3. gate[u] = gateAnswer(u)
      BY <1>1 DEF GateTypeOK, gateView
    <2>4. gateIsFresh(u) /\ gateIsCompliant(u)
      BY <2>2, <2>3 DEF gateAnswer
    <2>5. mode = "ValidatorGated" \/ mode = "AttestorGated"
      BY <1>1, GateConstants DEF GateTypeOK
    <2>6. QED
      BY <2>4, <2>5 DEF gateIsFresh, gateIsCompliant
  <1>2. QED
    BY <1>1, GateTypeInductive, DeployedPoolSound, PTL DEF RevocaSpec, GateFailsClosed

-----------------------------------------------------------------------------
(* Collateral is taken only for cause *)

\* What a settlement of one borrower's does to the others: nothing.
LEMMA OthersKeepTheirs ==
  ASSUME TypeOK, NEW b \in Borrowers, Settles(b), NEW c \in Borrowers, c # b
  PROVE  positions'[c] = positions[c]
  BY SettlesIsSettlement DEF Settlement, SettledTo, TypeOK, LedgerTypeOK

LEMMA BorrowersTakeNothing ==
  ASSUME TypeOK, BorrowerStep, NEW u \in Borrowers
  PROVE  ~(/\ positions'[u].collateral < positions[u].collateral
           /\ owed(positions'[u]) < currentDebt(u))
  <1>1. PICK b \in Borrowers, amount \in Nat :
          \/ postCollateral(b, amount) \/ borrow(b, amount)
          \/ repay(b, amount) \/ withdrawCollateral(b, amount)
    BY PoolConstants DEF BorrowerStep
  <1>2. positions[u].collateral \in Nat /\ currentDebt(u) \in Nat
    BY AmountTypes
  <1>3. CASE positions'[u] = positions[u]
    BY <1>2, <1>3
  <1>4. CASE postCollateral(b, amount)
    <2>1. positions'[u] = positions[u] \/ Posted(u)
      BY <1>4 DEF postCollateral, Posted, TypeOK, LedgerTypeOK
    <2>2. CASE Posted(u)
      <3>1. positions[u].collateral <= positions'[u].collateral
        BY <2>2, PostedPosition
      <3>2. positions'[u].collateral \in Nat
        BY <2>2, AmountTypes DEF Posted, BorrowerPosition
      <3>3. QED
        BY <1>2, <3>1, <3>2
    <2>3. QED
      BY <1>3, <2>1, <2>2
  <1>5. CASE borrow(b, amount)
    BY <1>2, <1>3, <1>5, BorrowLeaves DEF Borrowed
  <1>6. CASE repay(b, amount)
    <2>1. PICK after \in BorrowerPosition, paid \in Nat : SettledTo(b, after, paid, 0)
      BY <1>6, RepaySettles DEF Repaid
    <2>2. positions'[b].collateral = positions[b].collateral - 0
      BY <2>1, SettledPosition
    <2>3. u # b => positions'[u] = positions[u]
      BY <1>6, RepaySettles, OthersKeepTheirs DEF Settles
    <2>4. QED
      BY <1>2, <1>3, <2>2, <2>3
  <1>7. CASE withdrawCollateral(b, amount)
    <2>1. PICK after \in BorrowerPosition, lost \in Nat : SettledTo(b, after, 0, lost)
      BY <1>7, WithdrawCollateralSettles DEF TakenOut
    <2>2. owed(positions'[b]) = currentDebt(b) - 0
      BY <2>1, SettledPosition
    <2>3. u # b => positions'[u] = positions[u]
      BY <1>7, WithdrawCollateralSettles, OthersKeepTheirs DEF Settles
    <2>4. QED
      BY <1>2, <1>3, <2>2, <2>3
  <1>8. QED
    BY <1>1, <1>4, <1>5, <1>6, <1>7

(***************************************************************************)
(* Collateral pays debt only from an unhealthy position, or from one whose *)
(* case is open and whose grace, fixed when it was flagged, has run out.   *)
(***************************************************************************)
THEOREM RevocaTakenOnlyForCause == RevocaSpec => TakenOnlyForCause
  <1> DEFINE ForCause ==
        \A u \in Users :
          /\ positions'[u].collateral < positions[u].collateral
          /\ owed(positions'[u]) < currentDebt(u)
          => \/ ~isHealthy(u)
             \/ cases[u].state = "FLAGGED" /\ now >= cases[u].graceEndsAt
  <1>1. ASSUME TypeOK, [RevocaNext]_revocaVars
        PROVE  ForCause
    <2>1. SUFFICES ASSUME NEW u \in Users,
                          positions'[u].collateral < positions[u].collateral,
                          owed(positions'[u]) < currentDebt(u)
                   PROVE  \/ ~isHealthy(u)
                          \/ cases[u].state = "FLAGGED" /\ now >= cases[u].graceEndsAt
      OBVIOUS
    <2>2. u \in Borrowers /\ positions[u].collateral \in Nat
      BY <1>1, DeployedTogether, AmountTypes
    <2>3. positions'[u] # positions[u]
      BY <2>1, <2>2
    <2>4. ~UNCHANGED positions
      BY <2>3
    <2>5. MovesPool
      BY <1>1, <2>4, TransactionKinds
         DEF ChangesView, MovesCase, revocaVars, vars, poolVars, ledger
    <2>6. CASE LenderStep \/ BorrowerStep \/ OwnerStep
      <3>1. ~LenderStep
        BY <2>4 DEF LenderStep, deposit, withdraw
      <3>2. ~OwnerStep
        BY <2>4 DEF OwnerStep, pause, unpause, setGuardian, setParams, ledger,
           setBaseRateBpsPerSecond, setSlope1BpsPerSecond, setSlope2BpsPerSecond,
           setKinkUtilizationBps, setLiquidationBonusBps
      <3>3. QED
        BY <1>1, <2>1, <2>2, <2>6, <3>1, <3>2, BorrowersTakeNothing
    <2>7. ASSUME NEW b \in Users, liquidate(b)
          PROVE  ~isHealthy(u)
      <3>1. Settles(b) /\ b \in Borrowers
        BY <1>1, <2>7, DeployedTogether, LiquidateSettles DEF Settles
      <3>2. b = u
        BY <1>1, <2>2, <2>3, <3>1, OthersKeepTheirs
      <3>3. QED
        BY <2>7, <3>2 DEF liquidate, liquidatePasses
    <2>8. ASSUME NEW b \in Users, startUnwind(b)
          PROVE  cases[u].state = "FLAGGED" /\ now >= cases[u].graceEndsAt
      <3>1. b \in Borrowers /\ MaxUint \in Nat /\ applyCollateralToDebt(Self, b, MaxUint)
        BY <2>8, DeployedTogether, PoolConstants DEF startUnwind
      <3>2. Settles(b)
        BY <1>1, <3>1, SelfCureSettles DEF Settles
      <3>3. b = u
        BY <1>1, <2>2, <2>3, <3>1, <3>2, OthersKeepTheirs
      <3>4. QED
        BY <2>8, <3>3 DEF startUnwind, GraceElapsed
    <2>9. QED
      BY <2>5, <2>6, <2>7, <2>8 DEF MovesPool
  <1>2. QED
    BY <1>1, DeployedPoolSound, PTL DEF RevocaSpec, TakenOnlyForCause

-----------------------------------------------------------------------------
(* The whole system implements the guardian's promise *)

\* Whoever owes interest owes principal: a debt is one before it is accrued.
LEMMA DebtIffOwed ==
  ASSUME TypeOK
  PROVE  \A u \in Users : currentDebt(u) > 0 <=> owed(positions[u]) > 0
  <1>1. SUFFICES ASSUME NEW u \in Users
                 PROVE  currentDebt(u) > 0 <=> owed(positions[u]) > 0
    OBVIOUS
  <1>2. u \in Borrowers /\ positions[u] \in BorrowerPosition
    BY DeployedTogether DEF TypeOK, LedgerTypeOK
  <1>3. /\ positions[u].principal \in Nat /\ positions[u].accruedInterest \in Nat
        /\ pendingInterest(u) \in Nat
        /\ positions[u].principal = 0 => pendingInterest(u) = 0
    BY <1>2, PendingType DEF BorrowerPosition
  <1>4. QED
    BY <1>3 DEF currentDebt, owed

LEMMA NextDebtIffOwed ==
  TypeOK' => \A u \in Users : currentDebt(u)' > 0 <=> owed(positions'[u]) > 0
  <1>1. TypeOK => \A u \in Users : currentDebt(u) > 0 <=> owed(positions[u]) > 0
    BY DebtIffOwed
  <1>2. TypeOK' => (\A u \in Users : currentDebt(u) > 0 <=> owed(positions[u]) > 0)'
    BY <1>1, PTL
  <1>3. QED
    BY <1>2 DEF owed

\* What the promise is told of a state
stages    == [u \in Users |-> cases[u].state]
deadlines == [u \in Users |-> cases[u].graceEndsAt]
debtors   == [u \in Users |-> currentDebt(u) > 0]

LEMMA LifecycleStates ==
  /\ Lifecycle!lifecycle = <<now, stages, deadlines, debtors>>
  /\ Lifecycle!LifecycleInit <=>
       /\ now = 0
       /\ stages = [u \in Users |-> "HEALTHY"] /\ deadlines = [u \in Users |-> 0]
       /\ debtors \in [Users -> BOOLEAN]
  BY DEF Lifecycle!lifecycle, Lifecycle!LifecycleInit, stages, deadlines, debtors

\* Steps of the pool alone keep the cases as they are.
LEMMA OthersElsewhere ==
  ASSUME UNCHANGED cases, now' >= now
  PROVE  Lifecycle!Elsewhere
  <1>1. debtors' \in [Users -> BOOLEAN]
    BY DEF debtors
  <1>2. UNCHANGED <<stages, deadlines>>
    BY DEF stages, deadlines
  <1>3. QED
    BY <1>1, <1>2 DEF Lifecycle!Elsewhere, stages, deadlines, debtors

\* What one written case does to the stages and deadlines
LEMMA OneStage ==
  ASSUME GuardianTypeOK, NEW b \in Users, NEW new, cases' = [cases EXCEPT ![b] = new]
  PROVE  /\ stages' = [stages EXCEPT ![b] = new.state]
         /\ deadlines' = [deadlines EXCEPT ![b] = new.graceEndsAt]
         /\ stages[b] = cases[b].state /\ deadlines[b] = cases[b].graceEndsAt
         /\ deadlines'[b] = new.graceEndsAt
  BY DEF GuardianTypeOK, stages, deadlines

LEMMA SameDeadlines ==
  ASSUME GuardianTypeOK, NEW b \in Users, NEW new, cases' = [cases EXCEPT ![b] = new],
         new.graceEndsAt = cases[b].graceEndsAt
  PROVE  deadlines' = deadlines
  <1>1. \A u \in Users : cases'[u].graceEndsAt = cases[u].graceEndsAt
    BY DEF GuardianTypeOK
  <1>2. QED
    BY <1>1 DEF deadlines

\* Being a debtor is yes or no.
LEMMA DebtorsType ==
  /\ debtors \in [Users -> BOOLEAN] /\ debtors' \in [Users -> BOOLEAN]
  /\ \A u \in Users : (debtors[u] <=> currentDebt(u) > 0)
                      /\ (debtors'[u] <=> currentDebt(u)' > 0)
  <1>1. debtors \in [Users -> BOOLEAN] /\ debtors' \in [Users -> BOOLEAN]
    BY DEF debtors
  <1>2. \A u \in Users : debtors[u] = (currentDebt(u) > 0)
                         /\ debtors'[u] = (currentDebt(u)' > 0)
    BY Zenon DEF debtors
  <1>3. QED
    BY <1>1, <1>2, Zenon

LEMMA SameDebtors ==
  ASSUME UNCHANGED vars
  PROVE  debtors' = debtors
  BY DEF debtors, currentDebt, pendingInterest, currentInterestRate, currentUtilizationBps,
     totalPooledAssets, owed, vars, envVars, poolVars, adminVars, ledger

LEMMA UnwindIsAct ==
  ASSUME TypeOK, TypeOK', CasesInv, NEW b \in Users, startUnwind(b), UNCHANGED now
  PROVE  Lifecycle!Act(b)
  <1> DEFINE left == owed(positions'[b]) > 0
  <1>1. PICK new \in GuardianPosition :
          /\ cases[b].state = "FLAGGED" /\ cases[b].graceEndsAt <= now
          /\ cases' = [cases EXCEPT ![b] = new]
          /\ new.state \in {"UNWINDING", "RESOLVED"}
          /\ new.state = "RESOLVED" <=> owed(positions'[b]) = 0
          /\ new.graceEndsAt = cases[b].graceEndsAt
    BY CaseWritten DEF CasesInv
  <1>2. b \in Borrowers /\ Cured(b)
    BY DeployedTogether, PoolConstants, SelfCureSettles DEF startUnwind
  <1>3. PICK after \in BorrowerPosition, applied \in Nat : SettledTo(b, after, applied, applied)
    BY <1>2 DEF Cured
  <1>4. /\ positions'[b] = after /\ owed(after) = currentDebt(b) - applied
        /\ currentDebt(b) \in Nat /\ owed(after) \in Nat
    BY <1>2, <1>3, SettledPosition, AmountTypes DEF owed, BorrowerPosition
  <1>5. left \in BOOLEAN /\ (left => currentDebt(b) > 0)
    BY <1>3, <1>4
  <1>6. new.state = IF left THEN "UNWINDING" ELSE "RESOLVED"
    BY <1>1, <1>4
  <1>7. \A u \in Users : currentDebt(u)' > 0 <=> IF u = b THEN left ELSE currentDebt(u) > 0
    <2>1. \A u \in Users \ {b} : positions'[u] = positions[u]
      BY <1>2, DeployedTogether, OthersKeepTheirs DEF Settles
    <2>2. QED
      BY <2>1, DebtIffOwed, NextDebtIffOwed
  <1> HIDE DEF left
  <1>8. debtors' = [debtors EXCEPT ![b] = left]
    <2>1. \A u \in Users : debtors'[u] <=> IF u = b THEN left ELSE debtors[u]
      BY <1>7, DebtorsType
    <2>2. QED
      BY <1>5, <2>1, DebtorsType
  <1>9. /\ stages' = [stages EXCEPT ![b] = IF left THEN "UNWINDING" ELSE "RESOLVED"]
        /\ deadlines' = deadlines
        /\ stages[b] = "FLAGGED" /\ now >= deadlines[b]
    <2>1. cases[b].graceEndsAt \in Nat /\ now \in Nat
      BY DEF CasesInv, GuardianTypeOK, GuardianPosition, TypeOK, EnvTypeOK
    <2>2. deadlines' = deadlines
      BY <1>1, SameDeadlines DEF CasesInv
    <2>3. /\ stages' = [stages EXCEPT ![b] = new.state]
          /\ stages[b] = cases[b].state /\ deadlines[b] = cases[b].graceEndsAt
      BY <1>1, OneStage, Zenon DEF CasesInv
    <2>4. QED
      BY <1>1, <1>6, <2>1, <2>2, <2>3
  <1>10. debtors[b] <=> currentDebt(b) > 0
    BY DebtorsType
  <1>11. QED
    BY <1>5, <1>8, <1>9, <1>10 DEF Lifecycle!Act, stages, deadlines, debtors

LEMMA LifecycleStep ==
  ASSUME TypeOK, TypeOK', CasesInv, [RevocaNext]_revocaVars
  PROVE  [Lifecycle!LifecycleNext]_(Lifecycle!lifecycle)
  <1>1. now \in Nat /\ GuardianTypeOK
    BY DEF TypeOK, EnvTypeOK, CasesInv
  <1>2. CASE UNCHANGED cases /\ now' >= now
    BY <1>2, OthersElsewhere DEF Lifecycle!LifecycleNext
  <1>3. ASSUME NEW b \in Users, startUnwind(b), UNCHANGED now
        PROVE  Lifecycle!LifecycleNext
    BY <1>3, UnwindIsAct DEF Lifecycle!LifecycleNext
  <1>4. ASSUME NEW b \in Users, UNCHANGED vars, flag(b)
        PROVE  Lifecycle!LifecycleNext
    <2>1. PICK new \in GuardianPosition :
            /\ cases' = [cases EXCEPT ![b] = new]
            /\ new.state = "FLAGGED" /\ new.graceEndsAt >= now
      BY <1>4, CaseWritten DEF CasesInv
    <2>2. cases[b].state \in {"HEALTHY", "RESOLVED"}
      BY <1>4 DEF flag, Flaggable
    <2>3. /\ stages[b] \in {"HEALTHY", "RESOLVED"}
          /\ stages' = [stages EXCEPT ![b] = "FLAGGED"]
          /\ deadlines' = [deadlines EXCEPT ![b] = deadlines'[b]] /\ deadlines'[b] >= now
          /\ now' = now /\ debtors' = debtors
      <3>1. /\ stages' = [stages EXCEPT ![b] = new.state]
            /\ deadlines' = [deadlines EXCEPT ![b] = new.graceEndsAt]
            /\ deadlines'[b] = new.graceEndsAt /\ stages[b] = cases[b].state
        BY <1>1, <2>1, OneStage, Zenon
      <3>2. QED
        BY <1>4, <2>1, <2>2, <3>1, SameDebtors DEF vars, envVars
    <2>4. Lifecycle!Open(b)
      BY <2>3, Zenon DEF Lifecycle!Open, stages, deadlines, debtors
    <2>5. QED
      BY <2>4 DEF Lifecycle!LifecycleNext
  <1>5. ASSUME NEW b \in Users, UNCHANGED vars, reinstate(b)
        PROVE  Lifecycle!LifecycleNext
    <2>1. cases[b].state = "FLAGGED" /\ cases' = [cases EXCEPT ![b] = NoCase]
      BY <1>5, CaseWritten DEF CasesInv
    <2>2. Lifecycle!Drop(b)
      BY <1>1, <1>5, <2>1, OneStage, SameDebtors
         DEF Lifecycle!Drop, NoCase, stages, deadlines, debtors, vars, envVars
    <2>3. QED
      BY <2>2 DEF Lifecycle!LifecycleNext
  <1>6. ASSUME NEW b \in Users, UNCHANGED vars, completeUnwind(b)
        PROVE  Lifecycle!LifecycleNext
    <2>1. PICK new \in GuardianPosition :
            /\ cases[b].state = "UNWINDING" /\ cases' = [cases EXCEPT ![b] = new]
            /\ new.state = "RESOLVED" /\ new.graceEndsAt = cases[b].graceEndsAt
      BY <1>6, CaseWritten DEF CasesInv
    <2>2. deadlines' = deadlines /\ stages' = [stages EXCEPT ![b] = "RESOLVED"]
          /\ stages[b] = "UNWINDING"
      <3>1. stages' = [stages EXCEPT ![b] = new.state] /\ stages[b] = cases[b].state
        BY <1>1, <2>1, OneStage, Zenon
      <3>2. deadlines' = deadlines
        BY <1>1, <2>1, SameDeadlines, Zenon
      <3>3. QED
        BY <2>1, <3>1, <3>2
    <2>3. ~debtors[b]
      BY <1>6, DebtorsType DEF completeUnwind, UnwindDone
    <2>4. Lifecycle!Close(b)
      BY <1>6, <2>2, <2>3, SameDebtors
         DEF Lifecycle!Close, stages, deadlines, debtors, vars, envVars
    <2>5. QED
      BY <2>4 DEF Lifecycle!LifecycleNext
  <1>7. CASE ChangesView
    BY <1>1, <1>2, <1>7 DEF ChangesView, Tick, guardianVars
  <1>8. CASE MovesPool /\ UNCHANGED envVars
    BY <1>1, <1>2, <1>3, <1>8 DEF MovesPool, envVars, guardianVars
  <1>9. CASE MovesCase /\ UNCHANGED vars
    BY <1>1, <1>2, <1>4, <1>5, <1>6, <1>9 DEF MovesCase, setStrategy, vars, envVars
  <1>10. QED
    BY <1>1, <1>2, <1>7, <1>8, <1>9, TransactionKinds DEF revocaVars, vars, envVars, guardianVars

(***************************************************************************)
(* The whole system implements UnwindLifecycle: a deadline is never moved, *)
(* a case is dropped or acted upon only as promised there, and an unwind   *)
(* ends exactly when the debt is gone, whatever else the contracts do.     *)
(***************************************************************************)
THEOREM RevocaKeepsLifecycle == RevocaSpec => LifecycleKept
  <1>1. RevocaInit => Lifecycle!LifecycleInit
    BY LifecycleStates DEF RevocaInit, Init, GuardianInit, NoCase, stages, deadlines, debtors
  <1>2. TypeOK /\ TypeOK' /\ CasesInv /\ [RevocaNext]_revocaVars
          => [Lifecycle!LifecycleNext]_(Lifecycle!lifecycle)
    BY LifecycleStep
  <1>3. QED
    BY <1>1, <1>2, CasesInductive, DeployedPoolSound, PTL
       DEF RevocaSpec, LifecycleKept, Lifecycle!LifecycleSpec
=============================================================================
