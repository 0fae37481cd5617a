------------------------- MODULE ComplianceRegistry -------------------------
(***************************************************************************)
(* contracts/src/ComplianceRegistry.sol: the facts authorized attestors    *)
(* signed about each user, and the answers derived live from them and from *)
(* the policy.  A message is a signed ComplianceAttestation; anyone may    *)
(* relay any message, at any time, in any order, any number of times.      *)
(***************************************************************************)
EXTENDS CompliancePolicy, BlockTime

CONSTANTS
  Users,
  Facts,            \* what an attestor may vouch for
  NoCountry,        \* bytes2(0): the country of a user never attested
  Signers,          \* addresses a signature may be recovered to
  MAX_FUTURE_SKEW,  \* how far ahead of the chain's clock issuedAt may be
  IssueTimes,       \* bound: the values of issuedAt
  Nonces            \* bound: the nonces of messages

Fact == [tier : Tiers, subTier : SubTiers, country : Countries,
         apassStatus : {"UNKNOWN", "ACTIVE", "FROZEN"}, expiry : Nat]

ASSUME RegistryConstants ==
  /\ Facts \subseteq Fact
  /\ NoCountry \in Countries
  /\ MAX_FUTURE_SKEW \in Nat
  /\ IssueTimes \subseteq Nat \ {0}
  /\ Nonces \subseteq Nat

Attestation == [facts : Fact, issuedAt : Nat]

Messages == [user : Users, facts : Facts, issuedAt : IssueTimes, nonce : Nonces, signer : Signers]

VARIABLES
  attestations,  \* user -> Attestation
  lastNonce,     \* user -> nonce of the last message accepted
  isAttestor     \* signer -> authorized by the owner

registryVars == <<attestations, lastNonce, isAttestor>>

-----------------------------------------------------------------------------
(* Views *)

factsOf(user) == attestations[user].facts
attested(user) == attestations[user].issuedAt # 0

expired(facts) == facts.expiry # 0 /\ facts.expiry <= now

isCompliant(user) ==
  LET facts == factsOf(user)
  IN /\ attested(user)
     /\ facts.apassStatus = "ACTIVE"
     /\ ~expired(facts)
     /\ isTierEligible(facts.tier, facts.subTier)
     /\ isCountryEligible(facts.country)

\* Where issuedAt is still ahead of the clock the checked subtraction reverts,
\* and with it every caller: the same as FALSE, on which every caller reverts too.
isFresh(user) ==
  /\ attested(user)
  /\ attestations[user].issuedAt <= now
  /\ now - attestations[user].issuedAt <= policy.maxComplianceStaleness

\* Mutant: forgets that an A-Pass may run out
ineligibilityReasonNoExpiry(user) ==
  LET facts == factsOf(user)
  IN IF ~attested(user) THEN "INELIGIBLE"
     ELSE IF facts.apassStatus = "FROZEN" THEN "FROZEN"
     ELSE IF facts.apassStatus # "ACTIVE" THEN "INELIGIBLE"
     ELSE IF isTierEligible(facts.tier, facts.subTier) /\ isCountryEligible(facts.country)
     THEN "NONE" ELSE "INELIGIBLE"

ineligibilityReason(user) ==
  LET facts == factsOf(user)
  IN IF ~attested(user) THEN "INELIGIBLE"
     ELSE IF facts.apassStatus = "FROZEN" THEN "FROZEN"
     ELSE IF facts.apassStatus # "ACTIVE" THEN "INELIGIBLE"
     ELSE IF expired(facts) THEN "EXPIRED"
     ELSE IF isTierEligible(facts.tier, facts.subTier) /\ isCountryEligible(facts.country)
     THEN "NONE" ELSE "INELIGIBLE"

-----------------------------------------------------------------------------
(* Operations *)

\* Mutant: accepts facts dated any time in the future
IssueTimeAcceptedUnbounded(issuedAt) == issuedAt + policy.maxComplianceStaleness >= now

IssueTimeAccepted(issuedAt) ==
  /\ issuedAt + policy.maxComplianceStaleness >= now
  /\ issuedAt <= now + MAX_FUTURE_SKEW

\* Mutant: takes the last nonce again
NonceAcceptedAgain(user, nonce) == nonce >= lastNonce[user]
NonceAccepted(user, nonce) == nonce > lastNonce[user]

submitAttestation(m) ==
  /\ isAttestor[m.signer]
  /\ IssueTimeAccepted(m.issuedAt)
  /\ NonceAccepted(m.user, m.nonce)
  /\ lastNonce' = [lastNonce EXCEPT ![m.user] = m.nonce]
  /\ attestations' = [attestations EXCEPT ![m.user] =
                        [facts |-> m.facts, issuedAt |-> m.issuedAt]]
  /\ UNCHANGED isAttestor

setAttestor(a, authorized) ==
  /\ isAttestor' = [isAttestor EXCEPT ![a] = authorized]
  /\ UNCHANGED <<attestations, lastNonce>>

RegistryInit ==
  /\ attestations = [u \in Users |->
       [facts |-> [tier |-> 0, subTier |-> 0, country |-> NoCountry,
                   apassStatus |-> "UNKNOWN", expiry |-> 0],
        issuedAt |-> 0]]
  /\ lastNonce = [u \in Users |-> 0]
  /\ isAttestor = [a \in Signers |-> FALSE]

RegistryStep ==
  \/ \E m \in Messages : submitAttestation(m)
  \/ \E a \in Signers, authorized \in BOOLEAN : setAttestor(a, authorized)

-----------------------------------------------------------------------------
(* Properties *)

\* The registry's storage has its types; a user has facts once a nonce was used.
RegistryTypeOK ==
  /\ attestations \in [Users -> Attestation]
  /\ lastNonce \in [Users -> Nat]
  /\ isAttestor \in [Signers -> BOOLEAN]
  /\ \A u \in Users : attested(u) <=> lastNonce[u] # 0

(***************************************************************************)
(* isCompliant and ineligibilityReason walk the same facts in two separate *)
(* functions, and flag() covers for them with a default should they        *)
(* disagree.  They never do, whatever the facts, the clock and the policy. *)
(***************************************************************************)
ReasonAgreesWithCompliance ==
  \A u \in Users : isCompliant(u) <=> ineligibilityReason(u) = "NONE"
=============================================================================
