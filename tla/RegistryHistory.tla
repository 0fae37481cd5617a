--------------------------- MODULE RegistryHistory ---------------------------
(***************************************************************************)
(* The registry observed over time: which messages it accepted, in order,  *)
(* and when each attestor was last struck off.  The contract emits both    *)
(* (ComplianceAttested, AttestorSet); what an attestor's key could do      *)
(* before and after its rotation is a matter of such a history.            *)
(***************************************************************************)
EXTENDS ComplianceRegistry

VARIABLES
  accepted,  \* user -> the sequence of messages accepted, without their facts
  revokedAt  \* signer -> when it was last struck off (0: never authorized)

historyVars == <<accepted, revokedAt>>
allVars == <<now, policy, registryVars, historyVars>>

Receipt(m) == [issuedAt |-> m.issuedAt, nonce |-> m.nonce, signer |-> m.signer]

HistoryInit ==
  /\ now = 0 /\ PolicyInit /\ RegistryInit
  /\ accepted = [u \in Users |-> <<>>]
  /\ revokedAt = [a \in Signers |-> 0]

HistoryNext ==
  \/ /\ \E m \in Messages :
          /\ submitAttestation(m)
          /\ accepted' = [accepted EXCEPT ![m.user] = Append(@, Receipt(m))]
     /\ UNCHANGED <<now, policy, revokedAt>>
  \/ /\ \E a \in Signers, authorized \in BOOLEAN :
          /\ setAttestor(a, authorized)
          /\ revokedAt' = IF isAttestor[a] /\ ~authorized
                          THEN [revokedAt EXCEPT ![a] = now] ELSE revokedAt
     /\ UNCHANGED <<now, policy, accepted>>
  \/ Tick /\ UNCHANGED <<policy, registryVars, historyVars>>
  \/ PolicyNext /\ UNCHANGED <<now, registryVars, historyVars>>

HistorySpec == HistoryInit /\ [][HistoryNext]_allVars

-----------------------------------------------------------------------------
(* Properties *)

(***************************************************************************)
(* No message is ever applied twice and none after a later one: not after  *)
(* its attestor was struck off and authorized again, not after the owner   *)
(* widened the staleness window (README.md:301).                           *)
(***************************************************************************)
NoReplay ==
  \A u \in Users : \A i, j \in 1..Len(accepted[u]) :
    i < j => accepted[u][i].nonce < accepted[u][j].nonce

(***************************************************************************)
(* Facts signed by an attestor that was struck off are not deleted, but    *)
(* they stop clearing anyone one staleness window, plus the tolerated      *)
(* skew, after it was struck off (THREAT_MODEL.md:187).                    *)
(***************************************************************************)
RotationTakesHold ==
  \A u \in Users : accepted[u] # <<>> =>
    LET signer == Last(accepted[u]).signer
    IN ~isAttestor[signer] /\ isFresh(u) =>
         now <= revokedAt[signer] + MAX_FUTURE_SKEW + policy.maxComplianceStaleness
=============================================================================
