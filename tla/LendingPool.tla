---------------------------- MODULE LendingPool ----------------------------
(***************************************************************************)
(* contracts/src/LendingPool.sol: the share-accounted pool that lends      *)
(* against posted collateral at a tier-derived ratio.  One action per      *)
(* external function; a call that reverts is a step that is not taken.     *)
(* What the pool reads from other contracts is the environment: `gate'     *)
(* holds the answers of complianceGate, tierOracle and countrySource for   *)
(* each borrower, `policy' is CompliancePolicy and `now' is               *)
(* block.timestamp.  Revoca.tla supplies the real ones.                    *)
(***************************************************************************)
EXTENDS CompliancePolicy, BlockTime

CONSTANTS
  Borrowers, Lenders,
  Guardians,      \* addresses the owner may install as guardian
  NoGuardian,     \* address(0)
  GateAnswers,    \* what the gate may answer about a borrower
  Amounts,        \* token amounts of the calls
  BaseRates, Slopes, Kinks, Bonuses, \* parameter values the owner may set
  MaxPooled,      \* bound: deposits stop when the pool would hold more
  MaxCollateral   \* bound: collateral posts stop when the pool would hold more

GateAnswer == [fresh : BOOLEAN, compliant : BOOLEAN,
               tier : Tiers, subTier : SubTiers, country : Countries]

ASSUME PoolConstants ==
  /\ GateAnswers \subseteq GateAnswer /\ GateAnswers # {}
  /\ Amounts \subseteq Nat
  /\ BaseRates \subseteq Nat /\ Slopes \subseteq Nat /\ Bonuses \subseteq Nat
  /\ Kinks \subseteq Nat
  /\ MaxPooled \in Nat /\ MaxCollateral \in Nat

\* An address is a word of 160 bits.
ASSUME FiniteAccounts == IsFiniteSet(Borrowers) /\ IsFiniteSet(Lenders)

VARIABLES
  gate,      \* borrower -> what the gate, tier oracle and country source answer
  guardian,  \* the address allowed to call applyCollateralToDebt
  paused,
  params,    \* the interest curve and the liquidation bonus
  idleLiquidity, totalPrincipalOutstanding, totalCollateral, totalShares,
  sharesOf,  \* lender -> shares
  positions, \* borrower -> BorrowerPosition
  poolBalance \* asset.balanceOf(pool): the token's own ledger

envVars   == <<now, gate, policy>>
adminVars == <<guardian, paused, params>>
ledger    == <<idleLiquidity, totalPrincipalOutstanding, totalCollateral,
               totalShares, sharesOf, positions, poolBalance>>
poolVars  == <<adminVars, ledger>>
vars      == <<envVars, poolVars>>

BorrowerPosition == [collateral : Nat, principal : Nat,
                     accruedInterest : Nat, lastAccrualTimestamp : Nat]

-----------------------------------------------------------------------------
(* Views *)

Lesser(a, b) == IF a < b THEN a ELSE b
CeilDiv(a, b) == (a + b - 1) \div b

totalPooledAssets == idleLiquidity + totalPrincipalOutstanding

shareValue(lender) ==
  IF totalShares = 0 THEN 0
  ELSE (sharesOf[lender] * totalPooledAssets) \div totalShares

currentUtilizationBps ==
  IF totalPooledAssets = 0 THEN 0
  ELSE (totalPrincipalOutstanding * BPS) \div totalPooledAssets

currentInterestRate ==
  LET u == currentUtilizationBps
  IN IF u <= params.kink
     THEN params.baseRate + (params.slope1 * u) \div params.kink
     ELSE params.baseRate + params.slope1
            + (params.slope2 * (u - params.kink)) \div (BPS - params.kink)

\* The current rate is applied to the whole time since the last accrual.
pendingInterest(b) ==
  LET pos == positions[b]
  IN IF pos.principal = 0 THEN 0
     ELSE (pos.principal * ((now - pos.lastAccrualTimestamp) * currentInterestRate)) \div BPS

owed(pos) == pos.principal + pos.accruedInterest

currentDebt(b) == owed(positions[b]) + pendingInterest(b)

currentRatioBps(b) == collateralRatioBps(gate[b].tier, gate[b].subTier)

Backed(debt, collateral, ratio) == debt * ratio <= collateral * BPS

isHealthy(b) ==
  currentDebt(b) = 0 \/ Backed(currentDebt(b), positions[b].collateral, currentRatioBps(b))

cleared(b) == gate[b].fresh /\ gate[b].compliant

-----------------------------------------------------------------------------
(* Steps the functions share *)

\* Mutant: the accrual clock moves on but the interest is dropped
accruedDropped(b) == [positions[b] EXCEPT !.lastAccrualTimestamp = now]

\* _accrueInterest: the position once its interest is brought up to now
accrued(b) ==
  [positions[b] EXCEPT !.accruedInterest = @ + pendingInterest(b),
                       !.lastAccrualTimestamp = now]

\* Mutant: principal is paid before interest
PaidPrincipalFirst(pos, amount) ==
  LET principalPaid == Lesser(amount, pos.principal)
  IN [pos EXCEPT !.principal = @ - principalPaid,
                 !.accruedInterest = @ - (amount - principalPaid)]

\* The position after `amount' (at most what it owes) is paid, interest first
Paid(pos, amount) ==
  LET interestPaid == Lesser(amount, pos.accruedInterest)
  IN [pos EXCEPT !.accruedInterest = @ - interestPaid,
                 !.principal = @ - (amount - interestPaid)]

\* Mutant: prices shares on the cash at hand, forgetting what is lent out
SharesMintedOnIdle(amount) ==
  IF totalShares = 0 \/ idleLiquidity = 0 THEN amount
  ELSE (amount * totalShares) \div idleLiquidity

\* Mutant: rounds the shares minted in the depositor's favour
SharesMintedUp(amount) ==
  IF totalShares = 0 THEN amount ELSE CeilDiv(amount * totalShares, totalPooledAssets)

SharesMinted(amount) ==
  IF totalShares = 0 THEN amount ELSE (amount * totalShares) \div totalPooledAssets

\* Mutant: rounds the shares burned in the lender's favour
SharesBurnedDown(lender, amount) == (amount * totalShares) \div totalPooledAssets

\* Rounded up, and clamped to what the lender has
SharesBurned(lender, amount) ==
  Lesser(CeilDiv(amount * totalShares, totalPooledAssets), sharesOf[lender])

\* Mutant: forgets the interest already accrued
DebtAfterBorrowPrincipalOnly(pos, amount) == pos.principal + amount
DebtAfterBorrow(pos, amount) == pos.principal + amount + pos.accruedInterest

\* Mutants: gates the debt-free exit too; keeps a debtor's exit ungated
WithdrawalAllowedAlwaysGated(b, debt, remaining) ==
  cleared(b) /\ Backed(debt, remaining, currentRatioBps(b))
WithdrawalAllowedUngated(b, debt, remaining) ==
  debt > 0 => Backed(debt, remaining, currentRatioBps(b))

\* Taking collateral out is gated and bounded only while debt is left
WithdrawalAllowed(b, debt, remaining) ==
  debt > 0 => cleared(b) /\ Backed(debt, remaining, currentRatioBps(b))

\* Mutant: the bonus is not capped at the bonus rate but takes everything
CollateralSeizedAll(debt, collateral) == collateral

CollateralSeized(debt, collateral) ==
  Lesser((debt * (BPS + params.bonus)) \div BPS, collateral)

-----------------------------------------------------------------------------
(* Lenders.  What a call requires is `...Passes' where a property speaks of it. *)

deposit(l, amount) ==
  /\ amount > 0 /\ ~paused
  /\ totalShares = 0 \/ totalPooledAssets > 0   \* mulDiv reverts on zero
  /\ idleLiquidity' = idleLiquidity + amount
  /\ totalShares' = totalShares + SharesMinted(amount)
  /\ sharesOf' = [sharesOf EXCEPT ![l] = @ + SharesMinted(amount)]
  /\ poolBalance' = poolBalance + amount
  /\ UNCHANGED <<totalPrincipalOutstanding, totalCollateral, positions, adminVars>>

withdrawPasses(l, amount) ==
  /\ amount > 0
  /\ amount <= shareValue(l)
  /\ amount <= idleLiquidity
  /\ amount <= poolBalance
  /\ SharesBurned(l, amount) <= totalShares

withdraw(l, amount) ==
  /\ withdrawPasses(l, amount)
  /\ sharesOf' = [sharesOf EXCEPT ![l] = @ - SharesBurned(l, amount)]
  /\ totalShares' = totalShares - SharesBurned(l, amount)
  /\ idleLiquidity' = idleLiquidity - amount
  /\ poolBalance' = poolBalance - amount
  /\ UNCHANGED <<totalPrincipalOutstanding, totalCollateral, positions, adminVars>>

-----------------------------------------------------------------------------
(* Borrowers *)

\* Mutant: leaves the pool-wide total behind
postCollateralForgetTotal(b, amount) ==
  /\ amount > 0 /\ ~paused
  /\ positions' = [positions EXCEPT ![b].collateral = @ + amount]
  /\ poolBalance' = poolBalance + amount
  /\ UNCHANGED <<totalCollateral, idleLiquidity, totalPrincipalOutstanding,
                 totalShares, sharesOf, adminVars>>

postCollateral(b, amount) ==
  /\ amount > 0 /\ ~paused
  /\ positions' = [positions EXCEPT ![b].collateral = @ + amount]
  /\ totalCollateral' = totalCollateral + amount
  /\ poolBalance' = poolBalance + amount
  /\ UNCHANGED <<idleLiquidity, totalPrincipalOutstanding, totalShares, sharesOf, adminVars>>

borrow(b, amount) ==
  LET answer == gate[b]
      pos    == accrued(b)
  IN
  /\ amount > 0 /\ ~paused
  /\ cleared(b)
  /\ isTierEligible(answer.tier, answer.subTier)
  /\ isCountryEligible(answer.country)
  /\ amount <= idleLiquidity
  /\ Backed(DebtAfterBorrow(pos, amount), pos.collateral, currentRatioBps(b))
  /\ pos.principal + amount <= tierBorrowCap(answer.tier)
  /\ totalPrincipalOutstanding + amount <= policy.maxTotalBorrow
  /\ amount <= poolBalance
  /\ positions' = [positions EXCEPT ![b] = [pos EXCEPT !.principal = @ + amount]]
  /\ totalPrincipalOutstanding' = totalPrincipalOutstanding + amount
  /\ idleLiquidity' = idleLiquidity - amount
  /\ poolBalance' = poolBalance - amount
  /\ UNCHANGED <<totalCollateral, totalShares, sharesOf, adminVars>>

repayPasses(b, amount) ==
  LET pos   == accrued(b)
      after == Paid(pos, Lesser(amount, owed(pos)))
  IN
  /\ amount > 0 /\ owed(pos) > 0
  /\ pos.principal - after.principal <= totalPrincipalOutstanding

repay(b, amount) ==
  LET pos    == accrued(b)
      actual == Lesser(amount, owed(pos))
      after  == Paid(pos, actual)
  IN
  /\ repayPasses(b, amount)
  /\ positions' = [positions EXCEPT ![b] = after]
  /\ totalPrincipalOutstanding' =
       totalPrincipalOutstanding - (pos.principal - after.principal)
  /\ idleLiquidity' = idleLiquidity + actual
  /\ poolBalance' = poolBalance + actual
  /\ UNCHANGED <<totalCollateral, totalShares, sharesOf, adminVars>>

withdrawCollateralPasses(b, amount) ==
  LET pos == accrued(b)
  IN
  /\ amount > 0
  /\ amount <= pos.collateral
  /\ WithdrawalAllowed(b, owed(pos), pos.collateral - amount)
  /\ amount <= totalCollateral /\ amount <= poolBalance

withdrawCollateral(b, amount) ==
  LET pos == accrued(b)
  IN
  /\ withdrawCollateralPasses(b, amount)
  /\ positions' = [positions EXCEPT ![b] = [pos EXCEPT !.collateral = @ - amount]]
  /\ totalCollateral' = totalCollateral - amount
  /\ poolBalance' = poolBalance - amount
  /\ UNCHANGED <<idleLiquidity, totalPrincipalOutstanding, totalShares, sharesOf, adminVars>>

-----------------------------------------------------------------------------
(* The guardian's self-cure and the liquidators *)

applyCollateralToDebtPasses(caller, b, amount) ==
  LET pos     == accrued(b)
      applied == Lesser(amount, Lesser(owed(pos), pos.collateral))
      after   == Paid(pos, applied)
  IN
  /\ caller = guardian
  /\ pos.principal - after.principal <= totalPrincipalOutstanding
  /\ applied <= totalCollateral

\* When nothing can be applied only the accrual is kept.
applyCollateralToDebt(caller, b, amount) ==
  LET pos     == accrued(b)
      applied == Lesser(amount, Lesser(owed(pos), pos.collateral))
      after   == Paid(pos, applied)
  IN
  /\ applyCollateralToDebtPasses(caller, b, amount)
  /\ positions' = [positions EXCEPT ![b] = [after EXCEPT !.collateral = @ - applied]]
  /\ totalPrincipalOutstanding' =
       totalPrincipalOutstanding - (pos.principal - after.principal)
  /\ totalCollateral' = totalCollateral - applied
  /\ idleLiquidity' = idleLiquidity + applied
  /\ UNCHANGED <<totalShares, sharesOf, poolBalance, adminVars>>

\* Mutant: takes the whole debt, interest included, off the principal total
liquidateDebtOffPrincipal(b) ==
  LET pos    == accrued(b)
      debt   == owed(pos)
      seized == CollateralSeized(debt, pos.collateral)
  IN
  /\ debt > 0 /\ ~isHealthy(b)
  /\ positions' = [positions EXCEPT ![b] =
       [pos EXCEPT !.principal = 0, !.accruedInterest = 0, !.collateral = @ - seized]]
  /\ totalPrincipalOutstanding' = totalPrincipalOutstanding - debt
  /\ totalCollateral' = totalCollateral - seized
  /\ idleLiquidity' = idleLiquidity + debt
  /\ poolBalance' = poolBalance + debt - seized
  /\ UNCHANGED <<totalShares, sharesOf, adminVars>>

\* Anyone may call it.
liquidatePasses(b) ==
  LET pos    == accrued(b)
      debt   == owed(pos)
      seized == CollateralSeized(debt, pos.collateral)
  IN
  /\ debt > 0 /\ ~isHealthy(b)
  /\ pos.principal <= totalPrincipalOutstanding
  /\ seized <= totalCollateral /\ seized <= poolBalance + debt

\* The liquidator pays the debt and takes `seized'.
liquidate(b) ==
  LET pos    == accrued(b)
      debt   == owed(pos)
      seized == CollateralSeized(debt, pos.collateral)
  IN
  /\ liquidatePasses(b)
  /\ positions' = [positions EXCEPT ![b] =
       [pos EXCEPT !.principal = 0, !.accruedInterest = 0, !.collateral = @ - seized]]
  /\ totalPrincipalOutstanding' = totalPrincipalOutstanding - pos.principal
  /\ totalCollateral' = totalCollateral - seized
  /\ idleLiquidity' = idleLiquidity + debt
  /\ poolBalance' = poolBalance + debt - seized
  /\ UNCHANGED <<totalShares, sharesOf, adminVars>>

-----------------------------------------------------------------------------
(* The owner *)

pause   == ~paused /\ paused' = TRUE  /\ UNCHANGED <<guardian, params, ledger>>
unpause ==  paused /\ paused' = FALSE /\ UNCHANGED <<guardian, params, ledger>>

setGuardian(g) == guardian' = g /\ UNCHANGED <<paused, params, ledger>>

setParams(new) == params' = new /\ UNCHANGED <<guardian, paused, ledger>>

setBaseRateBpsPerSecond(r) == setParams([params EXCEPT !.baseRate = r])
setSlope1BpsPerSecond(s)   == setParams([params EXCEPT !.slope1 = s])
setSlope2BpsPerSecond(s)   == setParams([params EXCEPT !.slope2 = s])
setKinkUtilizationBps(k)   == k > 0 /\ k <= BPS /\ setParams([params EXCEPT !.kink = k])
setLiquidationBonusBps(b)  == setParams([params EXCEPT !.bonus = b])

-----------------------------------------------------------------------------
(* The specification *)

\* Time passes, an attestation or a validator answer changes, or the policy does.
Environment ==
  /\ Tick \/ UNCHANGED now
  /\ gate' \in [Borrowers -> GateAnswers]
  /\ PolicyNext \/ UNCHANGED policy
  /\ UNCHANGED poolVars

Init ==
  /\ PolicyInit
  /\ now = 0
  /\ gate \in [Borrowers -> GateAnswers]
  /\ guardian = NoGuardian /\ paused = FALSE
  /\ \E rate \in BaseRates, bonus \in Bonuses :
       params = [baseRate |-> rate, slope1 |-> 0, slope2 |-> 0, kink |-> BPS, bonus |-> bonus]
  /\ idleLiquidity = 0 /\ totalPrincipalOutstanding = 0 /\ totalCollateral = 0
  /\ totalShares = 0 /\ sharesOf = [l \in Lenders |-> 0]
  /\ positions = [b \in Borrowers |-> [collateral |-> 0, principal |-> 0,
                                       accruedInterest |-> 0, lastAccrualTimestamp |-> 0]]
  /\ poolBalance = 0

LenderStep ==
  \E l \in Lenders, amount \in Amounts :
    \/ totalPooledAssets + amount <= MaxPooled /\ deposit(l, amount)
    \/ withdraw(l, amount)

BorrowerStep ==
  \E b \in Borrowers, amount \in Amounts :
    \/ totalCollateral + amount <= MaxCollateral /\ postCollateral(b, amount)
    \/ borrow(b, amount)
    \/ repay(b, amount)
    \/ withdrawCollateral(b, amount)

SettlementStep ==
  \E b \in Borrowers :
    \/ \E g \in Guardians, amount \in Amounts : applyCollateralToDebt(g, b, amount)
    \/ liquidate(b)

OwnerStep ==
  \/ pause \/ unpause
  \/ \E g \in Guardians \cup {NoGuardian} : setGuardian(g)
  \/ \E r \in BaseRates : setBaseRateBpsPerSecond(r)
  \/ \E s \in Slopes : setSlope1BpsPerSecond(s) \/ setSlope2BpsPerSecond(s)
  \/ \E k \in Kinks : setKinkUtilizationBps(k)
  \/ \E bonus \in Bonuses : setLiquidationBonusBps(bonus)

Next ==
  \/ Environment
  \/ (LenderStep \/ BorrowerStep \/ SettlementStep \/ OwnerStep) /\ UNCHANGED envVars

Spec == Init /\ [][Next]_vars

-----------------------------------------------------------------------------
(* Properties *)

\* The storage has its types; no accrual timestamp lies in the future.
EnvTypeOK ==
  /\ PolicyTypeOK
  /\ now \in Nat
  /\ gate \in [Borrowers -> GateAnswers]

AdminTypeOK ==
  /\ guardian \in Guardians \cup {NoGuardian} /\ paused \in BOOLEAN
  /\ params \in [baseRate : Nat, slope1 : Nat, slope2 : Nat, kink : 1..BPS, bonus : Nat]

LedgerTypeOK ==
  /\ idleLiquidity \in Nat /\ totalPrincipalOutstanding \in Nat
  /\ totalCollateral \in Nat /\ totalShares \in Nat /\ poolBalance \in Nat
  /\ sharesOf \in [Lenders -> Nat]
  /\ positions \in [Borrowers -> BorrowerPosition]
  /\ \A b \in Borrowers : positions[b].lastAccrualTimestamp <= now

TypeOK == EnvTypeOK /\ AdminTypeOK /\ LedgerTypeOK

(***************************************************************************)
(* The pool-wide totals are the sums of the accounts: a checked            *)
(* subtraction from a total that lagged its accounts would revert, and     *)
(* lock every exit that goes through it.                                   *)
(***************************************************************************)
SumOver(f) == FoldFunction(LAMBDA x, y : x + y, 0, f)

LedgerTotalsAgree ==
  /\ totalShares = SumOver(sharesOf)
  /\ totalPrincipalOutstanding = SumOver([b \in Borrowers |-> positions[b].principal])
  /\ totalCollateral = SumOver([b \in Borrowers |-> positions[b].collateral])

(***************************************************************************)
(* The tokens the pool holds are exactly the lenders' idle liquidity and   *)
(* the borrowers' collateral: one token plays both parts, and no sequence  *)
(* of self-cures, liquidations and exits lets one side spend the other's.  *)
(***************************************************************************)
Solvency == poolBalance = idleLiquidity + totalCollateral

(***************************************************************************)
(* Interest is settled before principal on every path, so a position       *)
(* without principal owes nothing.  Interest accrues on principal alone:   *)
(* were it left behind it could be neither grown nor liquidated sensibly.  *)
(***************************************************************************)
InterestFirst ==
  \A b \in Borrowers : positions[b].principal = 0 => positions[b].accruedInterest = 0

(***************************************************************************)
(* Every share is worth at least the token it was bought with, whatever is *)
(* lent out, repaid, self-cured or liquidated.  In particular the pool     *)
(* value is never zero while shares exist, so deposit never divides by 0.  *)
(***************************************************************************)
SharesBacked == totalShares <= totalPooledAssets

(***************************************************************************)
(* No step lowers the value of a share: rounding in deposit and withdraw   *)
(* goes against the caller, never against the lenders who stay.            *)
(***************************************************************************)
SharePriceStep ==
  totalShares > 0 => totalShares' * totalPooledAssets <= totalShares * totalPooledAssets'
SharePriceNeverFalls == [][SharePriceStep]_vars

(***************************************************************************)
(* Rounding never pays.  A deposit adds to what its lender can claim at    *)
(* most what was put in (the first lender of an empty pool aside, who also *)
(* gets what the last one left behind); a withdrawal takes at least what   *)
(* was paid out off it; and whatever others do, no lender's claim falls.   *)
(* So no round trip of deposits and withdrawals earns its lender anything. *)
(***************************************************************************)
DepositStep(l, amount) ==
  totalShares > 0 /\ deposit(l, amount) => shareValue(l)' <= shareValue(l) + amount

WithdrawStep(l, amount) ==
  withdraw(l, amount) => shareValue(l)' + amount <= shareValue(l)

ClaimStep(l) == sharesOf'[l] = sharesOf[l] => shareValue(l) <= shareValue(l)'

RoundingNeverPays ==
  [][ \A l \in Lenders :
        /\ \A amount \in Amounts : DepositStep(l, amount) /\ WithdrawStep(l, amount)
        /\ ClaimStep(l) ]_vars

(***************************************************************************)
(* In one block, with the tier, the policy and the parameters unchanged    *)
(* and the interest rate not raised, no call makes a healthy position      *)
(* liquidatable: not its owner's, not another user's.  The one exception   *)
(* is the guardian's self-cure, which turns collateral into debt payment   *)
(* one for one and so can exhaust the collateral of a loan whose tier      *)
(* allowed it less collateral than debt.                                   *)
(***************************************************************************)
SelfCured(b) ==
  /\ positions'[b].collateral < positions[b].collateral
  /\ positions[b].collateral - positions'[b].collateral
       = currentDebt(b) - owed(positions'[b])

NoCallUnderminesAHealthyPosition ==
  [][ UNCHANGED <<envVars, params>> /\ currentInterestRate' <= currentInterestRate =>
        \A b \in Borrowers : isHealthy(b) /\ ~SelfCured(b) => isHealthy(b)' ]_vars

(***************************************************************************)
(* A position's net exposure (debt less collateral) only rises, interest   *)
(* aside, in a step whose borrower was cleared by the gate and that leaves *)
(* the position backed at its live ratio, or that leaves it free of debt.  *)
(***************************************************************************)
ExposureRisesOnlyWhenCleared ==
  [][ \A b \in Borrowers :
        /\ owed(positions'[b]) > 0
        /\ owed(positions'[b]) - positions'[b].collateral
             > currentDebt(b) - positions[b].collateral
        => cleared(b) /\ Backed(owed(positions'[b]), positions'[b].collateral,
                                currentRatioBps(b)) ]_vars

(***************************************************************************)
(* Debt is never forgiven: whatever a position's debt (interest up to this *)
(* block included) falls by reaches the lenders' idle liquidity.           *)
(***************************************************************************)
DebtOnlyFallsIfPaid ==
  [][ \A b \in Borrowers :
        owed(positions'[b]) < owed(positions[b]) =>
          idleLiquidity' - idleLiquidity = currentDebt(b) - owed(positions'[b]) ]_vars

(***************************************************************************)
(* A borrower loses more collateral than the debt it settles only by       *)
(* liquidation of an unhealthy position, and then at most the bonus more.  *)
(***************************************************************************)
SeizureIsBounded ==
  [][ \A b \in Borrowers :
        LET lost == positions[b].collateral - positions'[b].collateral
        IN currentDebt(b) > 0 /\ owed(positions'[b]) = 0 /\ lost > currentDebt(b) =>
             /\ ~isHealthy(b)
             /\ lost * BPS <= currentDebt(b) * (BPS + params.bonus) ]_vars

(***************************************************************************)
(* Exits are never trapped, paused or not, cleared or not, fresh or not: a *)
(* debt-free borrower can take all collateral out, a debtor can pay in     *)
(* full, an unhealthy debt can be liquidated, and a lender whose shares    *)
(* are covered by idle liquidity can withdraw.                             *)
(***************************************************************************)
ExitsOpen ==
  /\ \A b \in Borrowers :
       /\ currentDebt(b) = 0 /\ positions[b].collateral > 0 =>
            ENABLED withdrawCollateral(b, positions[b].collateral)
       /\ currentDebt(b) > 0 => ENABLED repay(b, MaxUint)
       /\ ~isHealthy(b) => ENABLED liquidate(b)
  /\ \A l \in Lenders :
       LET amount == Lesser(shareValue(l), idleLiquidity)
       IN amount > 0 => ENABLED withdraw(l, amount)

(***************************************************************************)
(* The same, said of what each call requires rather than of the action, so *)
(* that it can be proved; a debtor who pays all it can owes nothing after. *)
(* And the self-cure of the installed guardian never reverts, whatever the *)
(* amount: a case whose grace is over cannot be kept from being unwound by *)
(* what anyone does to the pool.                                           *)
(***************************************************************************)
DebtFreeLeaves(b) ==
  currentDebt(b) = 0 /\ positions[b].collateral > 0 =>
    withdrawCollateralPasses(b, positions[b].collateral)

DebtorPays(b) ==
  currentDebt(b) > 0 =>
    \A amount \in Nat :
      amount >= currentDebt(b) =>
        /\ repayPasses(b, amount)
        /\ owed(Paid(accrued(b), Lesser(amount, currentDebt(b)))) = 0

UnhealthyIsLiquidated(b) == ~isHealthy(b) => liquidatePasses(b)

LenderLeaves(l) ==
  LET amount == Lesser(shareValue(l), idleLiquidity)
  IN amount > 0 => withdrawPasses(l, amount)

SelfCurePasses(b) ==
  \A amount \in Nat : applyCollateralToDebtPasses(guardian, b, amount)

ExitsPass ==
  /\ \A b \in Borrowers : /\ DebtFreeLeaves(b) /\ DebtorPays(b)
                          /\ UnhealthyIsLiquidated(b) /\ SelfCurePasses(b)
  /\ \A l \in Lenders : LenderLeaves(l)
=============================================================================
