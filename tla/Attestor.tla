------------------------------- MODULE Attestor -------------------------------
(***************************************************************************)
(* backend/src/attestor and the deciding half of backend/src/keeper: what  *)
(* one query_apass answer becomes on its two ways out of the keeper.  It   *)
(* is mapped to the facts the attestor signs, which the contracts judge by *)
(* the live policy; and it is classified by the keeper's own rules, which  *)
(* decide what the keeper asks of the guardian.                            *)
(***************************************************************************)
EXTENDS Integers, Sequences

CONSTANTS
  PoolMinTier,      \* POOL_MIN_TIER: the keeper's floor
  PolicyMinTier,    \* CompliancePolicy.minTier: the chain's floor,
  PolicyMinSubTier, \*   and minSubTier, which counts at that tier alone
  Blocked           \* countries the policy refuses

ASSUME FloorsAreTiers == {PoolMinTier, PolicyMinTier, PolicyMinSubTier} \subseteq Nat

Missing == -1    \* a tier or sub-tier that is null
NotANumber == -2 \* a tier that does not parse
NoCountry == "none"
Malformed == "malformed" \* a country that is not two letters

\* An answer of query_apass; a time is told apart as the two readers of it do.
RawApassFactFields ==
  [status : {0, 1, 2}, expirationTime : {"null", "zero", "past", "ahead"},
   tier : Nat \cup {Missing, NotANumber}, subTier : Nat \cup {Missing},
   countries : Seq(STRING)]

parseApiTier(tier) == IF tier = NotANumber THEN Missing ELSE tier

orZero(value) == IF value = Missing THEN 0 ELSE value

\* mapRawFactsToAttestation: an expiry of 0 means none, and so does null.
attested(raw) ==
  [tier |-> orZero(parseApiTier(raw.tier)), subTier |-> orZero(raw.subTier),
   country |-> IF raw.countries = <<>> THEN NoCountry ELSE raw.countries[1],
   apassStatus |-> CASE raw.status = 1 -> "ACTIVE" [] raw.status = 2 -> "FROZEN"
                     [] OTHER -> "UNKNOWN",
   lapsed |-> raw.expirationTime = "past"]

\* Signing throws on a country code that is malformed.
signable(raw) == raw.countries = <<>> \/ raw.countries[1] # Malformed

\* determineEligibility: here an expiration of 0 has long passed.
determineEligibility(status, expirationTime, tier) ==
  CASE status = 2 -> "FROZEN"
    [] status # 1 -> "INELIGIBLE"
    [] status = 1 /\ expirationTime \in {"past", "zero"} -> "EXPIRED"
    [] status = 1 /\ expirationTime \notin {"past", "zero"}
         /\ (tier = Missing \/ tier < PoolMinTier) -> "INELIGIBLE"
    [] OTHER -> "NONE"

classifyFromRawFields(raw) ==
  determineEligibility(raw.status, raw.expirationTime, parseApiTier(raw.tier))

\* What the keeper takes a borrower for
keeperCompliant(raw) == classifyFromRawFields(raw) = "NONE"

isTierEligible(tier, subTier) ==
  \/ tier > PolicyMinTier
  \/ tier = PolicyMinTier /\ subTier >= PolicyMinSubTier

\* ComplianceRegistry.isCompliant of facts once attested
policyCompliant(facts) ==
  /\ facts.apassStatus = "ACTIVE" /\ ~facts.lapsed
  /\ isTierEligible(facts.tier, facts.subTier)
  /\ facts.country \notin Blocked

(***************************************************************************)
(* The keeper and the chain judge one answer by two sets of rules.  Where  *)
(* they differ the keeper asks for what the chain refuses.                 *)
(***************************************************************************)
Disputed(raw) == ~signable(raw) \/ keeperCompliant(raw) # policyCompliant(attested(raw))
=============================================================================
