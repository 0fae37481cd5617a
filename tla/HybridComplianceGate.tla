------------------------ MODULE HybridComplianceGate ------------------------
(***************************************************************************)
(* contracts/src/HybridComplianceGate.sol: the gate a pool is deployed     *)
(* with.  The owner says whether the pool asks the external validator or   *)
(* the registry.  What is true of the tier and the country always comes    *)
(* from the registry.                                                      *)
(***************************************************************************)
EXTENDS ComplianceRegistry

CONSTANTS
  Modes,            \* the modes the owner may set
  ValidatorAnswers  \* what complianceVerify may do

ASSUME GateConstants ==
  /\ Modes \subseteq {"AttestorGated", "ValidatorGated"} /\ Modes # {}
  /\ ValidatorAnswers \subseteq {"yes", "no", "reverts"} /\ ValidatorAnswers # {}

VARIABLES
  mode,
  validator  \* user -> what validator.complianceVerify does for it now

gateVars == <<mode, validator>>

\* Mutant: falls back on the registry when the validator reverts
gateIsCompliantFallingBack(user) ==
  \/ mode = "ValidatorGated" /\ validator[user] = "yes"
  \/ (mode = "ValidatorGated" => validator[user] = "reverts") /\ isCompliant(user)

\* A reverting validator means no: there is no fallback.
gateIsCompliant(user) ==
  IF mode = "ValidatorGated" THEN validator[user] = "yes" ELSE isCompliant(user)

gateIsFresh(user) == mode = "ValidatorGated" \/ isFresh(user)

\* What a pool behind this gate reads about a user
gateAnswer(user) ==
  [fresh |-> gateIsFresh(user), compliant |-> gateIsCompliant(user),
   tier |-> factsOf(user).tier, subTier |-> factsOf(user).subTier,
   country |-> factsOf(user).country]

setMode(m) == mode' = m /\ UNCHANGED validator

\* The validator's answers change outside the system's control.
validatorChanges == validator' \in [Users -> ValidatorAnswers] /\ UNCHANGED mode

GateInit == mode \in Modes /\ validator \in [Users -> ValidatorAnswers]
GateStep == validatorChanges \/ \E m \in Modes : setMode(m)
=============================================================================
