# Revoca in TLA+

Revoca is a compliance-reactive lending pool. Borrowers hold an A-Pass at an
external issuer (Cleanverse); attestors sign facts about it; a pool lends
against collateral at a ratio that depends on the borrower's tier; and when an
A-Pass is frozen, expires or drops in tier, a guardian unwinds the loan: grace
first, then the borrower's own collateral, then liquidation by anyone.

This directory models the contracts (`contracts/src`), the keeper, attestor,
audit report and onboarding endpoints of the backend (`backend/src`,
`backend/api`), the operator's scripts (`backend/scripts`) and the stateful
hooks of the frontend (`frontend/src`). TLC checks them on small instances;
TLAPS proves, for instances of every size, every invariant and step property the
runs check, contracts and clients alike, but for one that is about `ENABLED`.

## The system

| Component | State it keeps | Operations | Talks to |
|---|---|---|---|
| `CompliancePolicy.sol` | tier and country rules, ratio table, caps, grace, staleness | one owner setter per parameter; views | read live by all others |
| `ComplianceRegistry.sol` | per user: attested facts, last nonce; authorized attestors | `submitAttestation` (by anyone), `setAttestor`; views | policy |
| `HybridComplianceGate.sol` | its mode | `setMode`; views | registry, external validator |
| `LendingPool.sol` | positions, shares, totals, parameters, pause, guardian | deposit, withdraw, post and withdraw collateral, borrow, repay, self-cure, liquidate, owner setters | gate, tier and country source, policy, token |
| `RevocationGuardian.sol`, `strategies/` | per borrower a case; the active strategy | flag, reinstate, startUnwind, completeUnwind, setStrategy | registry, pool, strategy |
| keeper (`backend/src/keeper`) | none that lasts: a poll loop over borrowers | discover, fetch facts, attest, flag, reinstate, startUnwind, completeUnwind | issuer, registry, guardian, pool |
| attestor (`backend/src/attestor`) | a key | map facts, next nonce, sign, relay | issuer, registry |
| audit (`backend/src/audit`) | ledgers replayed from logs | reconstruct, compare with the chain, report | event logs |
| onboarding (`backend/src/onboarding`, `backend/api`) | rate-limit buckets | provision, fund, fund-gas | issuer, registry, token |
| deployment (`backend/scripts/testnet-deploy.ts`, `-fix-attestor`, `-generate-apasses`, ...) | `deployments/testnet.json`, `.env` | deploy, wire, authorize, generate passes, register the pool | all contracts, issuer |
| operator scripts (`testnet-full-lifecycle.ts`, `reset-demo-...`, ...) | none but the chain | phases of a demo: fund, attest, borrow, revoke, unwind, clear | all contracts, issuer |
| positions page (`usePositionsRegistry.ts`) | checkpoint in memory and `localStorage`, entries | scan the log, refresh positions | pool, guardian |
| record page (`useLedger.ts`, `usePosition.ts`, `useStrikePhase.ts`) | rows, snapshot, ring, pending action | poll events and standing, strike, call the backend | pool, guardian, backend |
| lend page (`LendPage.tsx`, `useBorrowerActions.ts`, ...) | snapshot per wallet and mode, pending transaction | poll, approve, post, borrow, repay, withdraw, deposit | pool, wallet |
| `risk/tierRatios.ts`, `shared/blockChunks.ts` | none | pure functions | - |

What is hard about it:

* **Live answers.** Whether a user is compliant, at which ratio, and for how
  long an attestation counts is computed at each call from facts and a policy
  that both change between calls. Nothing a contract decided yesterday is
  binding, except what the guardian writes down in a case.
* **Two opinions.** The pool asks its gate, the guardian the registry. In
  `ValidatorGated` mode, these are different sources. The keeper has a third
  opinion of its own (`Disputed`).
* **Anyone calls anything.** Messages are relayed in any order, liquidation and
  every guardian transition are open to all, and the owner changes parameters,
  strategies and the installed guardian while cases are open.
* **Rounding and checked arithmetic.** Shares, interest and seizures round;
  totals are decreased by subtractions that revert rather than wrap, so a total
  that is off by one closes an exit instead of corrupting a number.
* **Deadlines and racing transactions.** Facts that restore a borrower race the
  end of its grace.
* **Liveness by others.** No contract acts by itself: an unwind is finished by
  keepers and liquidators, or not at all.
* **Awaits.** Off chain, every read is stale by the time of the write: the
  keeper decides on facts fetched before its nonce was read, a page offers
  actions on a debt that has grown, a scan moves its checkpoint past blocks the
  node it asked for their logs has not seen.
* **One key, many hands.** Onboarding, keeper and operator send with the same
  keys and compute nonces themselves: transactions displace one another, and
  waiting for a receipt is answered with the other one's.
* **Sequences with no undo.** Provisioning, deployment and the scripts are cut
  off anywhere and run again.

`PROJECT.json` lists each of these hazards at its line, with the property that
covers it or the reason why none does.

## The modules

| Module | Models | State and actions |
|---|---|---|
| `BlockTime` | block time (external) | `now`, `Tick` |
| `CompliancePolicy` | `CompliancePolicy.sol` | one record `policy`, one action per setter, views as operators |
| `TierRatios` | `risk/tierRatios.ts` | operators: the backend's copy of the ratio lookup |
| `LendingPool` | `LendingPool.sol` | one variable per storage field and `poolBalance`, the token's own record of what the pool holds; one action per external function |
| `ComplianceRegistry` | `ComplianceRegistry.sol` | `attestations`, `lastNonce`, `isAttestor`; `submitAttestation`, `setAttestor` |
| `RegistryHistory` | the registry's event log | the registry with a history of accepted messages and of attestors struck off |
| `HybridComplianceGate` | the gate and, external, the validator | `mode`; `validator`, an answer per user that changes at will |
| `RevocationGuardian` | the guardian and its strategies | `cases` (the contract's `positions`), `strategy`; one action per function, `startUnwind` includes the pool's self-cure |
| `UnwindLifecycle` | nothing: it is the abstract specification of a case | `stage`, `deadline`, `owes` |
| `Revoca` | all contracts on one chain | one step per transaction |
| `AuditReplay` | `audit/reconstruct.ts` beside `Revoca` | `ledgers`: a fold over events, advanced by the very step that emits them |
| `Attestor` | `attestor/`, the A-Pass of `cleanverse/` | operators: how raw facts are mapped, judged and signed |
| `Keeper` | `keeper/` beside chain, issuer and a second attestor | one action per await of the poll loop; the chain reduced to what the loop reads |
| `BlockChunks` | `shared/blockChunks.ts` | an operator: the ranges a scan is cut into |
| `PageChain` | the log as pages see it | `log`, `Mine`; nodes that lag (`ServedUpTo`): behind the head, or behind the range they are asked the logs of |
| `PositionsScan` | `usePositionsRegistry.ts` | scan loop, refresh interval, checkpoint, other tabs, chunks that land after the page was left; `missed`, a history of what nodes did not serve |
| `RecordLedger` | `useLedger.ts` | polls of two awaits that overlap, page turned meanwhile; `unserved`, a history as above |
| `RecordPage` | `RecordPage.tsx`, `usePosition.ts`, `useStrikePhase.ts` | standing, snapshot, ring, pending action, the backend's job |
| `LendPage` | `LendPage.tsx`, its surfaces and hooks | polls, presses, prompts, receipts |
| `Onboarding` | the three endpoints | concurrent requests, one step per await; transactions by relative nonce |
| `TestnetScripts` | the scripts and phases | each a list of steps; cut off, late, run again |
| `Deployment` | deployment and key handling | `created` by nonce, `.env`, the recorded addresses |
| `Dapp` | the clients, one per behaviour | `view`, which never changes |
| `MC...` | - | the constants' values for TLC |
| `...Proofs` | - | theorems and proofs |

How they relate:

* `LendingPool` stands alone: what it reads of other contracts is its
  environment, the variable `gate`, which may answer anything of `GateAnswers`
  and change at any time. So whatever is proved of the pool holds behind every
  gate.
* `RevocationGuardian` extends the pool and the gate: it calls the one, and the
  other's `mode`, the registry's facts and the validator make up `gateView`, what
  the deployed pool would be answered now. `DeployedTogether` says the two modules
  speak of the same users. In `Revoca`, `gate` always equals `gateView`: each step
  that changes something the pool reads ends with `PoolReadsAfresh`. The pool
  itself stores no answer.
* `AuditReplay` extends `Revoca`: the log of a transaction and the replay of it
  are one step, since a report pins all its reads to the last block it scanned. It
  holds no attestation: the report asks `pool.complianceGate()` for them
  (`reconstruct.ts:165, 177`), which as deployed (`testnet-deploy.ts:166-183`) and in
  `Revoca` is a `HybridComplianceGate` and emits none. `docs/AUDIT_REPORT.md:152-153`
  says it is the `ComplianceRegistry`; with that wiring the report would show them.
* `Keeper` has its own, smaller chain. It runs for ever, so nothing in it counts:
  an attestation has an `age`, a case a `graceLeft`, a nonce that was read is
  still the next one or not (`next`). `AnyoneCalls` puts the guardian's four
  functions in everybody's hands; a second attestor with the same key stands for
  onboarding. The guardian whose cases it keeps is the one installed in the pool
  (what happens when it is not is in `Revoca`).
* `Dapp` is a sum, not a product: the clients share nothing but the chain, which
  each of their modules sees as its environment, so one client moves in each
  behaviour. One run checks them all.

A call that reverts is a step not taken, so each `revert` and each subtraction
that could go below zero is a conjunct of the action's guard. `_accrueInterest`
is part of every action whose function calls it. Two simplifications keep the
numbers small: `BPS` is a constant (2 in the runs, 10000 in the code; every
formula is the code's), and token amounts are whole units. The accrual
timestamp moves whenever `_accrueInterest` runs, also for a position without
principal. A signature is the address it recovers
to. Owner functions can be called at any time, with values of the given sets.

An attestation dated ahead of the block makes `isFresh` revert (its subtraction
is checked). The model answers FALSE: every caller in `src` reverts on either.

## What is checked

Bounds are constants of the modules, given in the `.cfg`s.

| Run | Instance | Shows |
|---|---|---|
| `policy` | two tiers, two sub-tiers, every table of two bands, ordered or not, and some of three | the table accepted by the setter always ranks: first band reached is cheapest, the backend's copy finds the same one, more privilege is never dearer |
| `pool_ledger` | two borrowers, one lender, a gate that changes its mind | totals equal the sums of accounts, tokens equal both, no call makes a healthy position liquidatable (bar the guardian's self-cure), exposure rises only when cleared |
| `pool_shares` | two lenders, one borrower, a curve with a kink, two ticks of interest, an amount above everything owed, a tier that posts twice its debt | price of a share never falls, shares are backed, rounding never pays whoever deposits, withdraws or claims, interest is settled first, debt falls only by what is paid, seizure is bounded, exits are never trapped (`ENABLED` of every exit) |
| `registry` | one user, two attestors, five issue times, three nonces | no replay; rotation takes hold within one window; reason and verdict agree |
| `revoca` | one borrower, one lender, all five contracts, both modes, a reverting validator, three strategies of which one must be refused | the system implements `UnwindLifecycle`; case records are true; collateral is taken only for cause; the gate fails closed |
| `unwinding` | the same with fairness; `ValidatorGated`, a validator that agrees | flags are settled while the guardian is installed; unwinds end or heal if someone liquidates, and end without that once the debt is gone |
| `audit` | `Revoca` with two cases at most, three ticks, interest on or off | the report knows every position, case and the interest earned; its debts are the chain's unless interest accrued silently |
| `keeper` | one borrower, three answers of the issuer, a host clock that is behind, one failure | nobody blameless is flagged; facts converge; revocations and flags are acted on |
| `dapp` | see below | ten properties of the clients |
| `unwind_must_complete` | as `unwinding` | **violated** |
| `borrow_while_flagged` | `ImmediateQuarantineStrategy` | **violated** |
| `reinstate_after_grace` | `GraceAndNotifyStrategy` | **violated** |

In `dapp`, by view:

* *positions*: three blocks, of which one is in the seed, chunks of two, two
  borrowers, nodes one block behind, for the head and for the logs.
  `ScanLeavesNoGap`: a checkpoint has every address up to its block but for the posts
  nodes did not serve. `PagesCatchUp`: a page left open ends up listing who has a
  position, with the same exception.
* *record*: the same chain and nodes, a record that is capped and one that is not, two
  polls at once. `LedgerIsHistory`: one row per event, in order, but for those in blocks
  that were not served.
* *standing*: `StandingIsShown` (part of `PagesCatchUp`): at rest the page shows
  the standing, the ring agrees and no button waits.
* *lend*: one wallet, a borrower's or a lender's to begin with; two transactions at
  once, one poll, one whim of the user or of others, such as interest.
  `ShownIsTheirs`, `ThePageLetsYouOut`.
* *onboarding*: one user, two requests at once, one orphaned transaction.
  `SuccessIsReal`, `RetryGetsThrough`.
* *scripts*: either borrower, one piece of trouble a behaviour: a cut, a unit of interest,
  an attestation grown old, a move of others. Two of them in one behaviour (a second cut
  during the retry, say) are not checked. `FullClearRebuilds`, `RetriedUnwindEnds`.
* *deployment*: two deployments past their first contract, one transaction of the
  deployer no script sent, two generated keys. `RecordedDeploymentWorks`.

`dapp` alone turns TLC's deadlock check off: a page left, a script that ended and
a deployment at its last nonce do stop.

**Why small is enough.** In the contracts, accounts are independent but for the
totals and the price of a share, so two of each kind show every interference; one
amount below and one above what is owed reaches each branch of a payment; ratios
below, at and above one reach a self-cure that suffices and one that does not;
two ticks separate flagging, grace and a late transaction. Nothing about one
borrower's case depends on another's, so the composed runs have one. Deposits and
posts stop at `MaxPooled` and `MaxCollateral`, time at `MaxTime`; debts, interest
and share prices are not bounded otherwise.

Off chain, what matters is which two things overlap. A second poll, request,
transaction or tab is what a race needs; a third brings no new order of two. A
failure may fall on any await, and a second one finds the client in a state the
first one could have produced, since nothing but what the model keeps survives a
failure. The keeper's
`MaxFailures` is needed for liveness (a keeper that always fails does nothing)
and one already meets every await, within a loop that runs for ever. Its instance has one borrower: a cycle that
throws for another one is, to this one, a cycle that failed. `MaxNonce` of
`Deployment` is two deployments and the scripts after them. `MaxLag` is one: a node
behind by one block lacks the last of a chunk of two and all of a chunk of one; the
theorems hold for every lag. The host clock of the `keeper` run is
behind the chain's. One that is ahead by more than a cycle takes
dates its attestations in the future, where `isFresh` underflows and every call that
asks reverts: then `RevocationIsActedOn` fails, in the model as in the code.

**Fairness.** Two kinds are kept apart: what the program itself does is part of a
specification; what others must do is a premise inside the property.

* `RevocaFairness` (`unwinding`, `unwind_must_complete`): time passes;
  `startUnwind` and `completeUnwind`, when they stay possible, are eventually
  called, since the keeper tries both on every borrower in each cycle
  (`keeper/poller.ts:73-88`). Nothing else has to happen: no flag, no reinstatement,
  no new attestation, no payment. Nor a liquidation, which no code calls
  and for which a liquidator gets nothing once a self-cure took all collateral: that
  someone liquidates whatever stays liquidatable, even so, is the premise
  `SomeoneLiquidates` of `UnwindEndsOrHeals`. Its second half, that an unwind
  whose debt is gone ends, needs no liquidator. `UnwindMustComplete` is given the
  premise as well and is violated all the same.
* `KeeperFairSpec`: the process runs, as `setTimeout` re-arms the loop whatever a
  cycle threw (weak fairness of its steps); what was sent is mined; the clock goes
  on in the sleeps between cycles (strong, since a cycle takes the action away
  and gives it back). Premises: `Settled`, issuer and other attestor come to rest;
  `Undisputed`, so do the differences of opinion about what is signable, which end
  every cycle before its later borrowers.
* `DappSpec`: timers of the pages and the next step of a running script, each
  weakly fair. Premises: `ScanNodes`, `LedgerNodes`, `RecordPageNodes` - reads end,
  and now and then one is answered up to date; `LendPersists` - the user keeps
  pressing and signing; `OnboardingFairness` - users come again, and
  from some point on (`calm`) nothing is cut off and requests come one by one.

### What the three violations show

* `NoBorrowingWhileFlagged`. The comments say a flagged borrower cannot borrow.
  The pool never asks the guardian: it is enough that the gate clears the
  borrower again, which it does when the validator disagrees with the registry
  or when newer facts arrive before anyone calls `reinstate`.
* `UnwindMustComplete`. An unwinding position that turns healthy, because its
  borrower posts collateral or is attested a better tier, cannot be liquidated
  any more, nor flagged, reinstated or completed. It stays UNWINDING for as long
  as nobody repays.
* `ReinstatedWithinGrace`. `reinstate` has no deadline: until someone calls
  `startUnwind`, a borrower who qualifies only after its grace is reinstated.

Each is a disagreement between a comment and the code, which may be right: the
model says what the code does.

### Exceptions the properties name

Some properties hold only but for a case the code does have. Each exception is a
conjunct or premise with a name, and these are the cases - faults of the code, or
limits of it, that the property therefore does not catch:

* `DebtMatchesUnlessAccruedSilently`: `withdrawCollateral` accrues interest and
  reports no checkpoint, so a report's debt is off afterwards, though
  `docs/AUDIT_REPORT.md:135` says it is exact to the wei.
* `SuccessIsReal` (`contested`): two requests that read the same pending count send
  with the same nonces, and the loser is answered with the winner's receipt.
* `RecordedDeploymentWorks` (`displaced`, `unkept`): the same, for the last two
  wiring transactions of a deployment; and `testnet-fix-attestor.ts`
  authorizes a new key also when `.env` keeps the old one.
* `StandingIsShown` (`overtaken`): a state that comes back to what it was between
  two polls leaves a button waiting. Also, a record that is turned to while struck
  plays the break, which the comment at `useStrikePhase.ts:13-16` rules out.
* `ThePageLetsYouOut` (`standing`): a borrower whose standing lapsed sees the
  onboarding card in place of repay and withdraw. The contract would let it out.
* `ScanLeavesNoGap`, `LedgerIsHistory`, `PagesCatchUp` (`missed`, `unserved`): head and
  logs are two calls, and both pages move on to the end of the range they asked for
  whatever the second node had of it (`usePositionsRegistry.ts:179-195`,
  `useLedger.ts:171-177`). A borrower all of whose posts lay in blocks it did not
  have is never listed, such an event never gets its row. The two history
  variables name exactly these blocks; the properties say that nothing else is lost.
* `PagesCatchUp`: `getBlockNumber` stands outside the `try`, so one rejection ends
  a positions page's scan for good.
* `RetriedUnwindEnds` (`StuckHealthy`): the case of `UnwindMustComplete`.
* `FactsConverge`, `RevocationIsActedOn`, `FlagsAreActedOn` (`Undisputed`): a
  borrower whom keeper and policy judge by different rules, or whose facts cannot be
  signed, makes a call throw in each cycle, and with it the cycle.

## What is proved

Each `...Proofs` module holds the theorems about one part. They assume what the
specifications state beside their constants and nothing about how many users,
requests or blocks there are, or how large amounts get. That the state keeps its types
is one of them, so the runs do not check it again.

| Assumption | Says |
|---|---|
| `PolicyConstants`, `PoolConstants`, `GuardianConstants`, ... | numbers are natural, `BPS` positive, the first ratio table one the constructor accepts |
| `FiniteAccounts` | there are finitely many addresses, so that a total exists |
| `DeployedTogether` | pool and guardian know the same users; `Self` is the one guardian |
| `KeeperConstants` | skews are integers, the keeper has someone to look at, ratios are natural |
| `LedgerConstants`, `DeploymentConstants`, ... | chunks are not empty, no key is the absence of one |

**Policy** (`CompliancePolicyProofs`). `PolicyTypeCorrect`; `PolicyPricesPrivilege`
and `PolicyRatioIsCheapest`, for tables of every length. The setter compares
neighbours only; that later bands cost more than all earlier ones
(`LaterBandsCostMore`) takes an induction over the distance. The library's theorems for
it take operators, so it is done on sets: a set of naturals that is not empty has a
least member (`LeastNatural`, from the well-foundedness of `<`), and the least
counterexample has a smaller one. `FirstBandDecides` says which band the view finds,
`QuotedIsCharged` that the backend's copy finds the same one, `CheapestBand` that no
band reached costs less.

**Pool** (`LendingPoolProofs`, `PoolLedgerProofs`).

* `PoolTypeCorrect`: all storage keeps its types, that is, no subtraction goes
  below zero. The guards say so for the totals (the code reverts), the arithmetic
  lemmas for the accounts.
* `PoolSolvent`, `PoolInterestFirst`, `PoolSharesBacked`, `PoolSharePriceNeverFalls`,
  `PoolDebtOnlyFallsIfPaid`: tokens held are idle liquidity and collateral; no
  interest without principal; a share is worth what lenders put in and never
  less than before; debt falls by what reaches the lenders. `SharesBacked` is needed for
  the clamp in `withdraw` to be harmless.
* `PoolRoundingNeverPays`: a claim never gains more by a deposit than was paid in,
  never loses less by a withdrawal than was taken out, and whose shares stay as they are
  never falls by anybody's doing. Three roundings meet in it: of shares minted, of
  shares burned and of the claim itself.
* `PoolExposureRisesOnlyWhenCleared`, `PoolSeizureIsBounded`,
  `PoolNoCallUnderminesAHealthyPosition`. For the last, `PositionChange` lists what a
  step may do to a position, and `HealthStep` shows for each that what was healthy
  stays so as long as what the pool is told and the interest rate stay put.
* `PoolTotalsAgree`: the three totals are the sums over accounts. A sum is a fold,
  which the provers cannot unfold; the proof works with `Sums`, the functions on
  sets of accounts that obey the two equations of a sum, shows by an induction on
  subsets (`SmallestSubset`) that they agree and that changing one account changes
  the sum by the difference.
* `PoolTotalsCoverEveryAccount`, `PoolCoversEveryClaim`: no account is larger than its
  total, and all lenders' claims together are no more than the pool is worth.
* `PoolExitsPass`: the exits, guard by guard. A borrower without debt may take its
  collateral out, a debtor may pay all it owes and owes nothing then, an unhealthy
  position may be liquidated, a lender may take out its claim as far as it is idle, and
  a self-cure passes, whoever the gate clears and whatever the pool's owner set.
  `ExitsOpen`, which TLC checks, says the same of the actions with `ENABLED`. That the
  guards are all an action needs is what is left to it: each action is its guards
  (`withdrawPasses`, `repayPasses`, `withdrawCollateralPasses`, ...) and an assignment to
  every variable.

The four functions that settle debt (`repay`, `withdrawCollateral`,
`applyCollateralToDebt`, `liquidate`) differ in who pays. The proofs first show
that each of them *settles*: one position goes from its accrued form to one
with less of each part, the principal total falls by the principal paid and idle
liquidity rises by the whole payment. From there each invariant is one case
instead of four. `StepKinds` lists what a step can be.

**Registry** (`RegistryProofs`). `RegistryTypeCorrect`, `RegistryNeverReplays`,
`RegistryRotationTakesHold`. Neither of the last two is inductive: `HistoryInv` adds
that the last message accepted is the one whose facts are stored, that no nonce
exceeds the counter, and that each last message was dated at most the skew after its
signer's last day in office. A submission is the one step that grows a history, all
others are quiet (`QuietStepKeepsHistory`). `VerdictAgreesWithReason` holds on every
state, from the two definitions alone.

**All contracts on one chain** (`RevocaProofs`).

* `RevocaImplementsPool`: a behaviour of `Revoca` is one of `LendingPool`, with
  `gate` equal to `gateView`. So every theorem of the pool is one of the deployed
  system; `DeployedPoolSound` collects them.
* `RevocaCasesNeverStuck`: once grace is over nothing in the pool makes the installed
  guardian's unwind revert, and an unwinding case can be completed, or its position
  liquidated, or it is backed again. This is the safety half of `UnwindEndsOrHeals`: what
  TLC adds is that somebody does it.
* `RevocaCaseRecordsAgree`: what a case says of its deadline, its strategy and its
  flag is possible. With the cases' types (`CasesInv`) it is inductive as it stands:
  `OneCaseWritten` reduces each transaction to the one case it writes.
* `RevocaGateFailsClosed`, `RevocaTakenOnlyForCause`: the first on every state of
  well-typed facts; the second by the actions that take collateral, of which only the
  self-cure and a liquidation do.
* `RevocaKeepsLifecycle`: the contracts implement the safety part of
  `UnwindLifecycle`. The refinement is proved step by step: every transaction is, for
  each borrower, one of the lifecycle's moves or leaves it where it is.

**Audit** (`AuditProofs`). `AuditFollowsRevoca`, so that what is known of the contracts
may be used; `AuditMatchesChain`, `AuditDebtExact`, `AuditUnwindHistory` from `BooksInv`,
which says of every user that the replayed collateral and principal are the chain's, that
the checkpoint is no later than the last accrual (`Balances`), and that exactly the last
unwind of an open case is open and describes that case (`History`);
`AuditInterestIsLendersGain` from `InterestInv`:
what lenders hold is what they put in plus the sum of interest realized.

**Keeper** (`KeeperProofs`). `KeeperNeverFlagsTheBlameless`. A flag is several awaits
after the facts it is based on, and its transaction may be mined after others.
`KeeperInductive` proves the invariant `KeeperInv`: about a borrower nobody has
anything against, there is nothing damaging on chain, nothing in the mempool that
could become so, whatever is mined before it, and nothing in the hands of a cycle under
way or of the other attestor.

`KeeperFactsAreTheirs` (`TruthInv`) says of every borrower, blameless or not, that an entry
not marked outdated holds what the issuer says now, though two services sign with one
key and what they send is mined late or not at all; the mark travels with the facts,
through the hands of both and the mempool. `KeeperJudgesByTheIssuer` follows: nobody is
flagged, reinstated or lent to against its A-Pass of today, except on outdated facts.
`KeeperAndChainPart` lists the answers of the issuer that keeper and policy judge
differently, which is what the premise `Undisputed` rules out: below the policy's own
floor of tier or, at that tier, of sub-tier, a blocked country, an expiry of 0, a missing
tier, below the pool's floor.

**Clients** (`DappProofs`).

* `DappScanLeavesNoGap` (`ScanInv`): the checkpoint in memory, the one in storage and
  the start of every chunk under way are complete to the block they name, but for the
  posts in `missed`, which lie in blocks the checkpoint has passed. Nodes may be any
  number of blocks behind.
* `DappShownIsTheirs` (`LendInv`): a poll not cancelled was begun for what is on
  display.
* `DappSuccessIsReal` (`OnboardingInv`): at each await of a request, what it has sent
  sits in the mempool or had its effect, under the nonce it took; what it tells follows
  from the receipts (`RequestShape`, `Nonces`, `Told`). Nonces are relative to the next
  one mined, so a block moves all of them; a transaction that takes another's nonce
  is what `contested` is about.
* `DappRecordedDeploymentWorks` (`DeploymentInv`): up to the nonce a deployment reached,
  the contracts it created are wired to each other as far as it got (`Together`,
  `DeployOK`); what is on record is whole (`RecordOK`), and each recorded role's key is
  held or named among the exceptions (`Kept`, `FixOK`). `Since` is what may happen to
  the contracts in one step, and everything recorded survives it.
* `ChunksCoverTheRange`: `computeBlockChunks` covers each block of a range exactly once,
  in chunks not wider than asked.
* `DappLedgerIsHistory` (`LedgerInv`): at most one poll under way may still speak, it
  asks from where the scan is, and the rows are those of the blocks before. Rows
  are sequences flattened twice, over blocks and over chunks, by a recursive function.
  `FlattenExists` shows that it exists (again by the least counterexample),
  `FlattenStays` that it does not depend on what comes later; from `FlattenAppend` follow
  `RowsJoin`, rows of adjoining ranges add up, and `RangeFetched`, a range comes out the
  same however it is cut. What a node lacked lies within the range asked for
  (`LackingsWithin`), so that rows of other ranges are the same with it and
  without (`RowsAlike`).
* `DappFullClearRebuilds` (`FullClearInv`): a transaction of the borrower's that a script
  cut off left behind has landed or was dropped before `full-clear` sends its own first
  one, since its nonce comes before; from then on only the script puts anything into
  the position, and what it finds empty stays so through anybody's move but its own
  (`AfterOthers`, `MeanwhileKeeps`).

Only model-checked:

* everything with fairness, which includes all of `..Converge`, `..ActedOn`, `..Settled`,
  `UnwindEndsOrHeals`, `PagesCatchUp`, `ThePageLetsYouOut`, `RetryGetsThrough` and
  `RetriedUnwindEnds`: fairness is defined by `ENABLED`, of which the provers know nothing;
* `ExitsOpen`, which is `ENABLED` of every exit, for the same reason (what it rests on
  is `PoolExitsPass`);
* the three violations, which are runs that find a counterexample.

## What is not modelled, and why

* Contracts: group and sub-group rules, which the policy stores and nothing reads;
  token behaviour beyond an exact ERC20 (fees, hooks); reentrancy (every entry
  point is `nonReentrant` and the token has no hooks); gas; integer width
  (checked arithmetic reverts; amounts are far below 2^256); ownership transfer;
  signature recovery; views that only copy storage out.
* Onboarding: the clock of the rate limiter and the balance of the funder. A
  request may be refused, whatever the reason. The limiter counts real time over
  thousands of addresses, and both are courtesy limits nothing else relies on.
* Audit: the history of policy changes and the printed report, which only restate
  events; attestations, of which the deployed wiring shows the report none (see above);
  the match itself is what the properties of `AuditReplay` say.
* Cleanverse: the signed HTTP envelope, its encryption and its types. What an
  A-Pass says and that a call fails is modelled.
* Frontend: layout, wording, animation; the gas notice and the onboarding card,
  each of which makes one request to an endpoint modelled in `Onboarding`.
* `contracts/src/spike`, probes and tools that only read.

## Plan

1. Done: policy, pool, registry, gate, guardian, their composition and abstract
   lifecycle; keeper with attestor; audit; onboarding; pages; scripts and
   deployment.
2. Done: a theorem for every invariant and every step property of a passing run but
   `ExitsOpen`, and for it guard by guard; the refinements of the pool and of
   `UnwindLifecycle` by `Revoca`, of `Revoca` by `AuditReplay`.
3. Open: larger instances where time allows - two borrowers in `keeper` with one of
   them disputed, two wallets in the *lend* view, two users in *onboarding* - for the
   liveness only TLC can check.
