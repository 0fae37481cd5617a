---------------------------- MODULE RegistryProofs ----------------------------
(***************************************************************************)
(* The registry never applies a message twice, and striking an attestor    *)
(* off takes hold, for any number of users, attestors and messages.        *)
(***************************************************************************)
EXTENDS RegistryHistory, CompliancePolicyProofs

Receipts == [issuedAt : Nat, nonce : Nat, signer : Signers]

HistoryTypeOK ==
  /\ PolicyTypeOK /\ now \in Nat
  /\ RegistryTypeOK
  /\ accepted \in [Users -> Seq(Receipts)]
  /\ revokedAt \in [Signers -> Nat]

\* The last message accepted is the one whose facts are stored.
LastIsStored(u) ==
  accepted[u] # <<>> =>
    /\ Last(accepted[u]).nonce = lastNonce[u]
    /\ Last(accepted[u]).issuedAt = attestations[u].issuedAt

\* No nonce was used that the counter has not passed.
NoncesCounted(u) == \A i \in 1..Len(accepted[u]) : accepted[u][i].nonce <= lastNonce[u]

\* It was not dated further ahead than the skew, nor than its signer was trusted.
SignedInOffice(u) ==
  accepted[u] # <<>> =>
    LET last == Last(accepted[u])
    IN /\ last.issuedAt <= now + MAX_FUTURE_SKEW
       /\ isAttestor[last.signer] \/ last.issuedAt <= revokedAt[last.signer] + MAX_FUTURE_SKEW

HistoryInv ==
  /\ HistoryTypeOK
  /\ NoReplay
  /\ \A u \in Users : LastIsStored(u) /\ NoncesCounted(u) /\ SignedInOffice(u)

-----------------------------------------------------------------------------

\* What appending to a history adds to it
LEMMA AppendedReceipt ==
  ASSUME NEW S, NEW s \in Seq(S), NEW e \in S
  PROVE  /\ Append(s, e) \in Seq(S) /\ Append(s, e) # <<>>
         /\ Len(Append(s, e)) = Len(s) + 1
         /\ Last(Append(s, e)) = e
         /\ \A i \in 1..Len(s) : Append(s, e)[i] = s[i]
         /\ Append(s, e)[Len(s) + 1] = e
  BY DEF Last

LEMMA LastIsReceipt ==
  ASSUME NEW S, NEW s \in Seq(S), s # <<>>
  PROVE  Last(s) \in S
  BY DEF Last

LEMMA RegistryInitial ==
  ASSUME HistoryInit
  PROVE  HistoryInv
  <1>1. PolicyTypeOK
    BY PolicyTypeInit DEF HistoryInit
  <1>2. now \in Nat /\ accepted \in [Users -> Seq(Receipts)] /\ revokedAt \in [Signers -> Nat]
    BY DEF HistoryInit
  <1>3. RegistryTypeOK
    <2>1. 0 \in Tiers /\ 0 \in SubTiers /\ NoCountry \in Countries
      BY PolicyConstants, RegistryConstants
    <2>2. QED
      BY <2>1 DEF HistoryInit, RegistryInit, RegistryTypeOK, Attestation, Fact, attested
  <1>4. \A u \in Users : accepted[u] = <<>>
    BY DEF HistoryInit
  <1>5. QED
    BY <1>1, <1>2, <1>3, <1>4
       DEF HistoryInv, HistoryTypeOK, NoReplay, LastIsStored, NoncesCounted, SignedInOffice

\* A message accepted: the one step at which histories grow
LEMMA SubmissionKeepsHistory ==
  ASSUME HistoryInv, NEW m \in Messages, NEW u, u = m.user, submitAttestation(m),
         accepted' = [accepted EXCEPT ![u] = Append(@, Receipt(m))],
         UNCHANGED <<now, policy, revokedAt>>
  PROVE  HistoryInv'
  <1> USE DEF HistoryInv, HistoryTypeOK
  <1>1. /\ u \in Users /\ m.facts \in Fact /\ m.issuedAt \in Nat /\ m.issuedAt # 0
        /\ m.nonce \in Nat /\ m.signer \in Signers
    BY RegistryConstants DEF Messages
  <1>2. Receipt(m) \in Receipts /\ Receipt(m).nonce = m.nonce
        /\ Receipt(m).issuedAt = m.issuedAt /\ Receipt(m).signer = m.signer
    BY <1>1 DEF Receipt, Receipts
  <1>3. /\ isAttestor[m.signer] /\ m.issuedAt <= now + MAX_FUTURE_SKEW
        /\ m.nonce > lastNonce[u] /\ lastNonce[u] \in Nat
        /\ lastNonce' = [lastNonce EXCEPT ![u] = m.nonce]
        /\ attestations' = [attestations EXCEPT ![u] = [facts |-> m.facts, issuedAt |-> m.issuedAt]]
        /\ isAttestor' = isAttestor
    BY <1>1 DEF submitAttestation, IssueTimeAccepted, NonceAccepted, RegistryTypeOK
  <1>4. /\ accepted[u] \in Seq(Receipts)
        /\ accepted'[u] = Append(accepted[u], Receipt(m))
        /\ lastNonce'[u] = m.nonce /\ attestations'[u].issuedAt = m.issuedAt
        /\ \A v \in Users \ {u} : /\ accepted'[v] = accepted[v] /\ lastNonce'[v] = lastNonce[v]
                                  /\ attestations'[v] = attestations[v]
    BY <1>1, <1>3 DEF RegistryTypeOK
  <1>5. /\ accepted'[u] # <<>> /\ Len(accepted'[u]) = Len(accepted[u]) + 1
        /\ Last(accepted'[u]) = Receipt(m)
        /\ \A i \in 1..Len(accepted[u]) : accepted'[u][i] = accepted[u][i]
        /\ accepted'[u][Len(accepted[u]) + 1] = Receipt(m)
        /\ accepted'[u] \in Seq(Receipts)
    <2>1. Receipt(m) \in Receipts /\ accepted[u] \in Seq(Receipts)
      BY <1>2, <1>4
    <2>2. /\ Append(accepted[u], Receipt(m)) \in Seq(Receipts)
          /\ Append(accepted[u], Receipt(m)) # <<>>
          /\ Len(Append(accepted[u], Receipt(m))) = Len(accepted[u]) + 1
          /\ Last(Append(accepted[u], Receipt(m))) = Receipt(m)
          /\ \A i \in 1..Len(accepted[u]) :
               Append(accepted[u], Receipt(m))[i] = accepted[u][i]
          /\ Append(accepted[u], Receipt(m))[Len(accepted[u]) + 1] = Receipt(m)
      BY <2>1, AppendedReceipt
    <2>3. QED
      BY <1>4, <2>2
  <1>6. HistoryTypeOK'
    <2>1. RegistryTypeOK'
      <3>1. [facts |-> m.facts, issuedAt |-> m.issuedAt] \in Attestation
        BY <1>1 DEF Attestation
      <3>2. attestations' \in [Users -> Attestation] /\ lastNonce' \in [Users -> Nat]
        BY <1>1, <1>3, <3>1 DEF RegistryTypeOK
      <3>3. \A v \in Users : attested(v)' <=> lastNonce'[v] # 0
        BY <1>1, <1>3, <1>4 DEF RegistryTypeOK, attested
      <3>4. QED
        BY <1>3, <3>2, <3>3 DEF RegistryTypeOK
    <2>2. accepted' \in [Users -> Seq(Receipts)]
      BY <1>1, <1>4, <1>5
    <2>3. PolicyTypeOK'
      BY DEF PolicyTypeOK, Policy
    <2>4. QED
      BY <2>1, <2>2, <2>3
  <1>7. \A v \in Users : NoncesCounted(v)'
    <2>1. ASSUME NEW i \in 1..Len(accepted'[u])
          PROVE  accepted'[u][i].nonce <= m.nonce
      <3>1. CASE i = Len(accepted[u]) + 1
        BY <1>1, <1>2, <1>5, <3>1
      <3>2. CASE i \in 1..Len(accepted[u])
        <4>1. accepted[u][i] \in Receipts
          BY <1>4, <3>2
        <4>2. accepted[u][i].nonce \in Nat
          BY <4>1 DEF Receipts
        <4>3. accepted[u][i].nonce <= lastNonce[u]
          BY <1>1, <3>2 DEF NoncesCounted
        <4>4. QED
          BY <1>1, <1>3, <1>5, <3>2, <4>2, <4>3
      <3>3. QED
        BY <1>4, <1>5, <3>1, <3>2
    <2>2. QED
      BY <1>1, <1>4, <2>1 DEF NoncesCounted
  <1>8. NoReplay'
    <2>1. SUFFICES ASSUME NEW i \in 1..Len(accepted'[u]), NEW j \in 1..Len(accepted'[u]), i < j
                   PROVE  accepted'[u][i].nonce < accepted'[u][j].nonce
      BY <1>1, <1>4 DEF NoReplay
    <2>2. i \in 1..Len(accepted[u]) /\ accepted'[u][i] = accepted[u][i]
      BY <1>4, <1>5, <2>1
    <2>3. CASE j \in 1..Len(accepted[u])
      BY <1>1, <1>5, <2>1, <2>2, <2>3 DEF NoReplay
    <2>4. CASE j = Len(accepted[u]) + 1
      <3>1. accepted[u][i] \in Receipts
        BY <1>4, <2>2
      <3>2. accepted[u][i].nonce \in Nat
        BY <3>1 DEF Receipts
      <3>3. accepted[u][i].nonce <= lastNonce[u]
        BY <1>1, <2>2 DEF NoncesCounted
      <3>4. QED
        BY <1>1, <1>2, <1>3, <1>5, <2>2, <2>4, <3>2, <3>3
    <2>5. QED
      BY <1>4, <1>5, <2>3, <2>4
  <1>9. \A v \in Users : LastIsStored(v)' /\ SignedInOffice(v)'
    <2>1. LastIsStored(u)' /\ SignedInOffice(u)'
      BY <1>1, <1>2, <1>3, <1>4, <1>5 DEF LastIsStored, SignedInOffice
    <2>2. ASSUME NEW v \in Users \ {u}
          PROVE  LastIsStored(v)' /\ SignedInOffice(v)'
      BY <1>3, <1>4 DEF LastIsStored, SignedInOffice
    <2>3. QED
      BY <2>1, <2>2
  <1>10. QED
    BY <1>6, <1>7, <1>8, <1>9

\* Steps that add nothing to any history and store no facts
LEMMA QuietStepKeepsHistory ==
  ASSUME HistoryInv, HistoryTypeOK',
         UNCHANGED <<accepted, attestations, lastNonce>>,
         now' >= now,
         \A a \in Signers : \/ isAttestor'[a] /\ revokedAt'[a] = revokedAt[a]
                            \/ isAttestor'[a] = isAttestor[a] /\ revokedAt'[a] = revokedAt[a]
                            \/ revokedAt'[a] = now
  PROVE  HistoryInv'
  <1> USE DEF HistoryInv, HistoryTypeOK
  <1>1. NoReplay'
    BY DEF NoReplay
  <1>2. ASSUME NEW u \in Users
        PROVE  LastIsStored(u)' /\ NoncesCounted(u)' /\ SignedInOffice(u)'
    <2>1. LastIsStored(u)' /\ NoncesCounted(u)'
      BY DEF LastIsStored, NoncesCounted
    <2>2. SignedInOffice(u)'
      <3>1. SUFFICES ASSUME accepted[u] # <<>> PROVE SignedInOffice(u)'
        BY DEF SignedInOffice
      <3>2. Last(accepted[u]) \in Receipts
        BY <3>1, LastIsReceipt
      <3>3. PICK last \in Receipts : last = Last(accepted[u])
        BY <3>2
      <3>4. /\ last.issuedAt \in Nat /\ last.signer \in Signers
            /\ revokedAt[last.signer] \in Nat /\ now \in Nat /\ now' \in Nat
        BY <3>3 DEF Receipts
      <3>5. /\ last.issuedAt <= now + MAX_FUTURE_SKEW
            /\ isAttestor[last.signer] \/ last.issuedAt <= revokedAt[last.signer] + MAX_FUTURE_SKEW
        BY <3>1, <3>3 DEF SignedInOffice
      <3>6. last.issuedAt <= now' + MAX_FUTURE_SKEW
        BY <3>4, <3>5, RegistryConstants
      <3>7. isAttestor'[last.signer] \/ last.issuedAt <= revokedAt'[last.signer] + MAX_FUTURE_SKEW
        BY <3>4, <3>5
      <3>8. QED
        BY <3>3, <3>6, <3>7 DEF SignedInOffice
    <2>3. QED
      BY <2>1, <2>2
  <1>3. QED
    BY <1>1, <1>2

LEMMA RegistryStepKeepsHistory ==
  ASSUME HistoryInv, [HistoryNext]_allVars
  PROVE  HistoryInv'
  <1> USE DEF HistoryInv, HistoryTypeOK
  <1>1. CASE /\ \E m \in Messages :
                  /\ submitAttestation(m)
                  /\ accepted' = [accepted EXCEPT ![m.user] = Append(@, Receipt(m))]
             /\ UNCHANGED <<now, policy, revokedAt>>
    BY <1>1, SubmissionKeepsHistory
  <1>2. CASE /\ \E a \in Signers, authorized \in BOOLEAN :
                  /\ setAttestor(a, authorized)
                  /\ revokedAt' = IF isAttestor[a] /\ ~authorized
                                  THEN [revokedAt EXCEPT ![a] = now] ELSE revokedAt
             /\ UNCHANGED <<now, policy, accepted>>
    <2>1. PICK a \in Signers, authorized \in BOOLEAN :
            /\ setAttestor(a, authorized)
            /\ revokedAt' = IF isAttestor[a] /\ ~authorized
                            THEN [revokedAt EXCEPT ![a] = now] ELSE revokedAt
      BY <1>2
    <2>2. /\ isAttestor' = [isAttestor EXCEPT ![a] = authorized]
          /\ isAttestor' \in [Signers -> BOOLEAN] /\ revokedAt' \in [Signers -> Nat]
          /\ UNCHANGED <<attestations, lastNonce>>
      BY <2>1 DEF setAttestor, RegistryTypeOK
    <2>3. HistoryTypeOK'
      BY <1>2, <2>2 DEF RegistryTypeOK, attested, PolicyTypeOK, Policy
    <2>4. \A c \in Signers : \/ isAttestor'[c] /\ revokedAt'[c] = revokedAt[c]
                             \/ isAttestor'[c] = isAttestor[c] /\ revokedAt'[c] = revokedAt[c]
                             \/ revokedAt'[c] = now
      BY <2>1, <2>2, Zenon DEF RegistryTypeOK
    <2>5. QED
      BY <1>2, <2>2, <2>3, <2>4, QuietStepKeepsHistory
  <1>3. CASE Tick /\ UNCHANGED <<policy, registryVars, historyVars>>
    <2>1. HistoryTypeOK'
      BY <1>3 DEF Tick, registryVars, historyVars, RegistryTypeOK, attested, PolicyTypeOK, Policy
    <2>2. QED
      BY <1>3, <2>1, QuietStepKeepsHistory DEF Tick, registryVars, historyVars
  <1>4. CASE PolicyNext /\ UNCHANGED <<now, registryVars, historyVars>>
    <2>1. HistoryTypeOK'
      BY <1>4, PolicyTypeStep DEF registryVars, historyVars, RegistryTypeOK, attested
    <2>2. QED
      BY <1>4, <2>1, QuietStepKeepsHistory DEF registryVars, historyVars
  <1>5. CASE UNCHANGED allVars
    <2>1. HistoryTypeOK'
      BY <1>5 DEF allVars, registryVars, historyVars, RegistryTypeOK, attested, PolicyTypeOK, Policy
    <2>2. QED
      BY <1>5, <2>1, QuietStepKeepsHistory DEF allVars, registryVars, historyVars
  <1>6. QED
    BY <1>1, <1>2, <1>3, <1>4, <1>5 DEF HistoryNext

\* Histories are in order and end with the message whose facts are stored.
THEOREM HistoryCorrect == HistorySpec => []HistoryInv
  <1>1. HistoryInit => HistoryInv
    BY RegistryInitial
  <1>2. HistoryInv /\ [HistoryNext]_allVars => HistoryInv'
    BY RegistryStepKeepsHistory
  <1>3. QED
    BY <1>1, <1>2, PTL DEF HistorySpec

(***************************************************************************)
(* The registry's storage keeps its types, and a user has facts exactly    *)
(* once a nonce was used.                                                  *)
(***************************************************************************)
THEOREM RegistryTypeCorrect == HistorySpec => []RegistryTypeOK
  <1>1. HistoryInv => RegistryTypeOK
    BY DEF HistoryInv, HistoryTypeOK
  <1>2. QED
    BY <1>1, HistoryCorrect, PTL

(***************************************************************************)
(* submitAttestation never applies a message twice, nor an older one after *)
(* a newer, whatever is relayed and whoever is authorized meanwhile.       *)
(***************************************************************************)
THEOREM RegistryNeverReplays == HistorySpec => []NoReplay
  <1>1. HistoryInv => NoReplay
    BY DEF HistoryInv
  <1>2. QED
    BY <1>1, HistoryCorrect, PTL

(***************************************************************************)
(* Facts of an attestor struck off with setAttestor clear nobody once the  *)
(* staleness window, plus the skew, has passed since.                      *)
(***************************************************************************)
THEOREM RegistryRotationTakesHold == HistorySpec => []RotationTakesHold
  <1>1. HistoryInv => RotationTakesHold
    <2>1. SUFFICES ASSUME HistoryInv, NEW u \in Users, accepted[u] # <<>>,
                          ~isAttestor[Last(accepted[u]).signer], isFresh(u)
                   PROVE  now <= revokedAt[Last(accepted[u]).signer]
                                   + MAX_FUTURE_SKEW + policy.maxComplianceStaleness
      BY DEF RotationTakesHold
    <2>2. Last(accepted[u]) \in Receipts
      BY <2>1, LastIsReceipt DEF HistoryInv, HistoryTypeOK
    <2>3. /\ attestations[u].issuedAt <= revokedAt[Last(accepted[u]).signer] + MAX_FUTURE_SKEW
          /\ now - attestations[u].issuedAt <= policy.maxComplianceStaleness
      BY <2>1 DEF HistoryInv, SignedInOffice, LastIsStored, isFresh
    <2>4. /\ now \in Nat /\ attestations[u].issuedAt \in Nat
          /\ policy.maxComplianceStaleness \in Nat
      <3>1. attestations[u] \in Attestation
        BY <2>1 DEF HistoryInv, HistoryTypeOK, RegistryTypeOK
      <3>2. attestations[u].issuedAt \in Nat
        BY <3>1 DEF Attestation
      <3>3. now \in Nat /\ policy \in Policy
        BY <2>1 DEF HistoryInv, HistoryTypeOK, PolicyTypeOK
      <3>4. QED
        BY <3>2, <3>3, PolicyConstants DEF Policy
    <2>5. revokedAt[Last(accepted[u]).signer] \in Nat
      BY <2>1, <2>2 DEF HistoryInv, HistoryTypeOK, Receipts
    <2>6. QED
      BY <2>3, <2>4, <2>5, RegistryConstants
  <1>2. QED
    BY <1>1, HistoryCorrect, PTL

(***************************************************************************)
(* isCompliant and ineligibilityReason agree on every state whatsoever.    *)
(***************************************************************************)
THEOREM VerdictAgreesWithReason == HistorySpec => []ReasonAgreesWithCompliance
  <1>1. ReasonAgreesWithCompliance
    BY DEF ReasonAgreesWithCompliance, isCompliant, ineligibilityReason
  <1>2. QED
    BY <1>1, PTL
=============================================================================
