------------------------------ MODULE Deployment ------------------------------
(***************************************************************************)
(* backend/scripts: how the contracts get onto the testnet and which keys  *)
(* the operator holds.  A contract's address follows from the deployer's   *)
(* nonce, and the deployment makes use of it: the gate is told the address *)
(* of a pool that does not exist yet.  Anything else that spends a nonce   *)
(* of the deployer - onboarding funds its users with the same key, and so  *)
(* does a transaction of an earlier script that lands late - moves it, or  *)
(* takes the nonce a transaction was sent with: waiting for a receipt then *)
(* returns that of the other one.                                          *)
(***************************************************************************)
EXTENDS Naturals, Sequences, FiniteSets

CONSTANTS
  NoKey, NoDeployment,
  MaxNonce,  \* bound: transactions of the deployer
  MaxForeign, \* bound: those of them no script sent
  MaxDeploys, \* bound: deployments that got past their first contract
  MaxKeys    \* bound: private keys generated

ASSUME DeploymentConstants == NoKey \notin Nat /\ {MaxNonce, MaxForeign, MaxDeploys, MaxKeys} \subseteq Nat

VARIABLES
  created,     \* what each nonce of the deployer left on chain; an address is its place here
  env,         \* .env: variable -> key
  keys,        \* number of keys generated so far
  unkept,      \* variables a key was generated for while they held one
  passes,      \* roles and keys for whose wallet Cleanverse gave an A-Pass
  registered,  \* pools known to the validator
  deployments, \* deployments/testnet.json
  job          \* the script under way

deploymentVars == <<created, env, keys, unkept, passes, registered, deployments, job>>

NoJob == [name |-> "none"]
NoJobRuns == job.name = "none"
Nonce == Len(created) + 1
Variables == {"ATTESTOR_PRIVATE_KEY", "TESTNET_BORROWER_HIGH_PRIVATE_KEY", "TESTNET_BORROWER_LOW_PRIVATE_KEY"}

\* A non-empty value is left as it is
persistSecretToEnv(name, key) ==
  /\ env' = [env EXCEPT ![name] = IF @ = NoKey THEN key ELSE @]
  /\ unkept' = IF env[name] = NoKey THEN unkept ELSE unkept \cup {name}
generatePrivateKey(name) ==
  keys < MaxKeys /\ keys' = keys + 1 /\ persistSecretToEnv(name, keys')

NoContract == [kind |-> "none"]
Foreign == [kind |-> "foreign"]
Spends(on, contract) == Nonce <= MaxNonce /\ created' = Append(on, contract)
SpentByOthers ==
  /\ Cardinality({n \in DOMAIN created : created[n] = Foreign}) < MaxForeign
  /\ Spends(created, Foreign)

-----------------------------------------------------------------------------
(* testnet-deploy *)

DeployOrder ==
  <<"asset", "policy", "registry", "gate", "pool", "strategy", "guardian">>
PoolsPlace == 4  \* nonces after the first

\* What a constructor is given
Contract(label) ==
  CASE label = "registry" -> [kind |-> label, attestors |-> {}, policy |-> job.at.policy]
    [] label = "gate" -> [kind |-> label, validatorPool |-> job.predicted, registry |-> job.at.registry]
    [] label = "pool" -> [kind |-> label, gate |-> job.at.gate, policy |-> job.at.policy, guardian |-> 0]
    [] label = "strategy" -> [kind |-> label, pool |-> job.at.pool]
    [] label = "guardian" -> [kind |-> label, registry |-> job.at.registry, pool |-> job.at.pool,
                              strategy |-> job.at.strategy]
    [] OTHER -> [kind |-> label]

\* The attestor's key is in .env before anything is deployed
startDeploy ==
  /\ NoJobRuns
  /\ Cardinality({n \in DOMAIN created : created[n].kind = "asset"}) < MaxDeploys
  /\ LET deployFor(key) ==
           job' = [name |-> "deploy", attestor |-> key, predicted |-> 0, at |-> <<>>, wired |-> 0,
                   displaced |-> FALSE]
     IN IF env["ATTESTOR_PRIVATE_KEY"] # NoKey
        THEN deployFor(env["ATTESTOR_PRIVATE_KEY"]) /\ UNCHANGED <<env, keys, unkept>>
        ELSE generatePrivateKey("ATTESTOR_PRIVATE_KEY") /\ deployFor(keys')
  /\ UNCHANGED <<created, passes, registered, deployments>>

Deploying == job.name = "deploy"
Deployed == Cardinality(DOMAIN job.at)

predictPool ==
  /\ Deploying /\ job.predicted = 0
  /\ job' = [job EXCEPT !.predicted = Nonce + PoolsPlace]
  /\ UNCHANGED <<created, env, keys, unkept, passes, registered, deployments>>

\* Mutant: goes on with whatever address the pool got
LandedAnywhere(label, address) == TRUE
LandedAsPredicted(label, address) == label = "pool" => address = job.predicted

Placing(at, label, address) ==
  [l \in DOMAIN at \cup {label} |-> IF l = label THEN address ELSE at[l]]

deploy ==
  /\ Deploying /\ job.predicted # 0 /\ Deployed < Len(DeployOrder)
  /\ LET label == DeployOrder[Deployed + 1]
     IN /\ Spends(created, Contract(label))
        /\ job' = IF LandedAsPredicted(label, Nonce)
                  THEN [job EXCEPT !.at = Placing(@, label, Nonce)] ELSE NoJob
  /\ UNCHANGED <<env, keys, unkept, passes, registered, deployments>>

\* Owner calls; an awaited receipt may be that of the transaction that took the nonce
SendsWiring(on) ==
  \/ Spends(on, NoContract) /\ job' = [job EXCEPT !.wired = @ + 1]
  \/ SpentByOthers /\ job' = [job EXCEPT !.wired = @ + 1, !.displaced = TRUE]

setGuardian ==
  /\ Deploying /\ Deployed = Len(DeployOrder) /\ job.wired = 0
  /\ SendsWiring([created EXCEPT ![job.at.pool].guardian = job.at.guardian])
  /\ UNCHANGED <<env, keys, unkept, passes, registered, deployments>>

setAttestor(registry, key) == [created EXCEPT ![registry].attestors = @ \cup {key}]
authorizeAttestor ==
  /\ Deploying /\ job.wired = 1
  /\ SendsWiring(setAttestor(job.at.registry, job.attestor))
  /\ UNCHANGED <<env, keys, unkept, passes, registered, deployments>>

Wired == job.wired = 2

writeDeployments ==
  /\ Deploying /\ Wired
  /\ deployments' = [at |-> job.at, attestor |-> job.attestor, displaced |-> job.displaced]
  /\ job' = NoJob
  /\ UNCHANGED <<created, env, keys, unkept, passes, registered>>

-----------------------------------------------------------------------------
(* testnet-fix-attestor: always a new key, kept only where none was held *)

startFixAttestor ==
  /\ NoJobRuns /\ deployments # NoDeployment
  /\ generatePrivateKey("ATTESTOR_PRIVATE_KEY")
  /\ job' = [name |-> "fixAttestor", attestor |-> keys', wired |-> 0, displaced |-> FALSE]
  /\ UNCHANGED <<created, passes, registered, deployments>>
fixAuthorize ==
  /\ job.name = "fixAttestor" /\ job.wired = 0
  /\ SendsWiring(setAttestor(deployments.at.registry, job.attestor))
  /\ UNCHANGED <<env, keys, unkept, passes, registered, deployments>>
fixWrite ==
  /\ job.name = "fixAttestor" /\ job.wired = 1
  /\ deployments' = [deployments EXCEPT !.attestor = job.attestor,
                       !.displaced = @ \/ job.displaced]
  /\ job' = NoJob
  /\ UNCHANGED <<created, env, keys, unkept, passes, registered>>

-----------------------------------------------------------------------------
(* testnet-generate-apasses, -generate-remaining-apasses, -retry-once and   *)
(* -register-pool.  Two borrowers stand for the four roles, the first one's *)
(* wallet being reused for the remaining ones.  Every error of Cleanverse   *)
(* is reported and passed over.                                             *)

generateFor(role) ==
  /\ NoJobRuns
  /\ generatePrivateKey(role)
  /\ passes' \in {passes, passes \cup {<<role, keys'>>}}
  /\ UNCHANGED <<created, registered, deployments, job>>
generateApasses == generateFor("TESTNET_BORROWER_HIGH_PRIVATE_KEY")
generateRemainingApasses == generateFor("TESTNET_BORROWER_LOW_PRIVATE_KEY")

registerPool ==
  /\ NoJobRuns /\ deployments # NoDeployment
  /\ registered' \in {registered, registered \cup {deployments.at.pool}}
  /\ UNCHANGED <<created, env, keys, unkept, passes, deployments, job>>

retryOnce ==
  /\ NoJobRuns /\ deployments # NoDeployment
  /\ LET role == "TESTNET_BORROWER_HIGH_PRIVATE_KEY"
     IN env[role] # NoKey /\ passes' \in {passes, passes \cup {<<role, env[role]>>}}
  /\ registered' \in {registered, registered \cup {deployments.at.pool}}
  /\ UNCHANGED <<created, env, keys, unkept, deployments, job>>

-----------------------------------------------------------------------------

\* A call that throws, a receipt not seen in time or a dead process ends a script.
\* testnet-deploy does not look at a receipt's status: its two calls are the
\* owner's and do not revert, its constructors accept what it gives them.
jobDies == ~NoJobRuns /\ job' = NoJob /\ UNCHANGED <<created, env, keys, unkept, passes, registered, deployments>>

othersSpend == SpentByOthers /\ UNCHANGED <<env, keys, unkept, passes, registered, deployments, job>>

DeploymentInit ==
  /\ created = <<>>
  /\ env = [v \in Variables |-> NoKey]
  /\ keys = 0 /\ unkept = {} /\ passes = {} /\ registered = {}
  /\ deployments = NoDeployment /\ job = NoJob

DeploymentNext ==
  \/ startDeploy \/ predictPool \/ deploy \/ setGuardian \/ authorizeAttestor \/ writeDeployments
  \/ startFixAttestor \/ fixAuthorize \/ fixWrite
  \/ generateApasses \/ generateRemainingApasses \/ registerPool \/ retryOnce
  \/ jobDies \/ othersSpend

DeploymentSpec == DeploymentInit /\ [][DeploymentNext]_deploymentVars

-----------------------------------------------------------------------------

(***************************************************************************)
(* Whatever else spent the deployer's nonces and wherever scripts died,    *)
(* the contracts that deployments/testnet.json names, and the pools the    *)
(* validator was told of, belong together: the validator is asked about    *)
(* the very pool that asks.  Unless one of the last two transactions was   *)
(* displaced the pool obeys the guardian that watches it and the attestor  *)
(* is authorized.  And the operator holds the keys: the attestor's and the *)
(* borrowers', unless a new one was generated over one that was held.      *)
(***************************************************************************)
RecordedDeploymentWorks ==
  /\ deployments # NoDeployment =>
       LET at == deployments.at
           pool == created[at.pool]
           guardian == created[at.guardian]
       IN /\ created[at.gate].registry = at.registry
          /\ pool.gate = at.gate /\ pool.policy = at.policy
          /\ guardian.pool = at.pool /\ guardian.registry = at.registry
          /\ guardian.strategy = at.strategy /\ created[at.strategy].pool = at.pool
          /\ created[at.registry].policy = at.policy
          /\ created[at.gate].validatorPool = at.pool
          /\ deployments.displaced \/
               /\ pool.guardian = at.guardian
               /\ deployments.attestor \in created[at.registry].attestors
          /\ \/ "ATTESTOR_PRIVATE_KEY" \in unkept
             \/ deployments.attestor = env["ATTESTOR_PRIVATE_KEY"]
  /\ \A pool \in registered : created[created[pool].gate].validatorPool = pool
  /\ \A pass \in passes : pass[1] \in unkept \/ pass[2] = env[pass[1]]
=============================================================================
