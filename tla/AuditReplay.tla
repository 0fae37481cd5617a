----------------------------- MODULE AuditReplay -----------------------------
(***************************************************************************)
(* backend/src/audit: the report that rebuilds every position from the     *)
(* logs of the four contracts and holds the result against the chain.      *)
(* Sorting by block and log index restores the order of emission, and the  *)
(* replay is a fold over it, so `ledgers' is kept up to date as the events *)
(* are emitted: at any moment it is what a report over all blocks so far   *)
(* reconstructs, and the contracts' storage is what its reads, all pinned  *)
(* to the last of these blocks, return.                                    *)
(*                                                                         *)
(* No attestation is in them: the report asks the pool's complianceGate    *)
(* for ComplianceAttested (reconstruct.ts:165, 177).  That is, here as in  *)
(* testnet-deploy.ts:166-183, a HybridComplianceGate, which emits none.    *)
(***************************************************************************)
EXTENDS Revoca

CONSTANT MaxCases   \* bound: cases opened against one borrower
ASSUME AuditConstants == MaxCases \in Nat

VARIABLES
  ledgers,  \* borrower -> BorrowerLedger
  lent      \* what the lenders put in, less what they took out

auditVars == <<ledgers, lent>>

-----------------------------------------------------------------------------
(* The replay, one operator per event *)

newLedger ==
  [checkpoint |-> [principal |-> 0, accruedInterest |-> 0, timestamp |-> 0],
   collateral |-> 0, guardianState |-> "HEALTHY",
   unwinds |-> <<>>,     \* every case so far, oldest first
   active |-> FALSE,     \* activeUnwind is the last of them
   interest |-> 0]       \* interestPaid and interestPortion in the timeline

Checkpoint(principal, debt) ==
  [principal |-> principal, accruedInterest |-> debt - principal, timestamp |-> now]

\* What an event adds to the unwind it belongs to, if one is active
InActive(l, Added(_)) ==
  IF l.active THEN [l.unwinds EXCEPT ![Len(l.unwinds)] = Added(@)] ELSE l.unwinds

onCollateral(l, e) == [l EXCEPT !.collateral = e.newCollateralBalance]

onBorrow(l, e) == [l EXCEPT !.checkpoint = Checkpoint(e.newPrincipal, e.newDebt)]

\* Mutant: takes all that was paid off the principal
onRepayAsPrincipal(l, e) ==
  [l EXCEPT !.checkpoint =
              Checkpoint(l.checkpoint.principal - e.principalPaid - e.interestPaid, e.remainingDebt),
            !.interest = @ + e.interestPaid]

onRepay(l, e) ==
  [l EXCEPT !.checkpoint = Checkpoint(l.checkpoint.principal - e.principalPaid, e.remainingDebt),
            !.interest = @ + e.interestPaid]

onCollateralAppliedToDebt(l, e) ==
  [onRepay(l, e) EXCEPT
     !.collateral = e.remainingCollateral,
     !.unwinds = InActive(l, LAMBDA unwind : [unwind EXCEPT !.steps = @ + 1])]

\* Mutant: all the debt above nothing counts as interest
onLiquidateNoPrincipal(l, e) ==
  [l EXCEPT !.checkpoint = Checkpoint(0, 0), !.collateral = e.remainingCollateral,
            !.interest = @ + e.debtRepaid]

onLiquidate(l, e) ==
  [l EXCEPT
     !.checkpoint = Checkpoint(0, 0),
     !.collateral = e.remainingCollateral,
     !.interest = @ + IF e.debtRepaid > l.checkpoint.principal
                      THEN e.debtRepaid - l.checkpoint.principal ELSE 0,
     !.unwinds = InActive(l, LAMBDA unwind : [unwind EXCEPT !.liquidated = e.collateralSeized])]

onPositionFlagged(l, e) ==
  [l EXCEPT
     !.guardianState = "FLAGGED", !.active = TRUE,
     !.unwinds = Append(@, [reason |-> e.reason, flaggedAt |-> now, graceEndsAt |-> e.graceEndsAt,
                            started |-> FALSE, steps |-> 0, liquidated |-> 0, outcome |-> "open"])]

\* Mutant: the record stays active
onPositionReinstatedActive(l) ==
  [l EXCEPT !.guardianState = "HEALTHY",
            !.unwinds = InActive(l, LAMBDA unwind : [unwind EXCEPT !.outcome = "reinstated"])]

onPositionReinstated(l) ==
  [l EXCEPT !.guardianState = "HEALTHY", !.active = FALSE,
            !.unwinds = InActive(l, LAMBDA unwind : [unwind EXCEPT !.outcome = "reinstated"])]

onUnwindStarted(l) ==
  [l EXCEPT !.guardianState = "UNWINDING",
            !.unwinds = InActive(l, LAMBDA unwind : [unwind EXCEPT !.started = TRUE])]

onUnwindCompleted(l) ==
  [l EXCEPT !.guardianState = "RESOLVED", !.active = FALSE,
            !.unwinds = InActive(l, LAMBDA unwind : [unwind EXCEPT !.outcome = "completed"])]

-----------------------------------------------------------------------------
(* The contracts, with the events they emit *)

CollateralEvent(b) == [newCollateralBalance |-> positions'[b].collateral]

BorrowEvent(b) ==
  [newPrincipal |-> positions'[b].principal, newDebt |-> owed(positions'[b])]

PaidEvent(b) ==
  LET principalPaid == positions[b].principal - positions'[b].principal
  IN [principalPaid |-> principalPaid,
      interestPaid |-> currentDebt(b) - owed(positions'[b]) - principalPaid,
      remainingDebt |-> owed(positions'[b]),
      remainingCollateral |-> positions'[b].collateral]

LiquidateEvent(b) ==
  [debtRepaid |-> currentDebt(b),
   collateralSeized |-> positions[b].collateral - positions'[b].collateral,
   remainingCollateral |-> positions'[b].collateral]

FlaggedEvent(b) == [reason |-> cases'[b].reason, graceEndsAt |-> cases'[b].graceEndsAt]

Replayed(b, l) == ledgers' = [ledgers EXCEPT ![b] = l] /\ UNCHANGED lent

\* Withdrawing collateral accrues interest too, but its event does not say so.
PositionMoves(b) ==
  /\ \E amount \in Amounts :
       \/ /\ totalCollateral + amount <= MaxCollateral
          /\ postCollateral(b, amount)
          /\ Replayed(b, onCollateral(ledgers[b], CollateralEvent(b)))
       \/ /\ borrow(b, amount)
          /\ Replayed(b, onBorrow(ledgers[b], BorrowEvent(b)))
       \/ /\ repay(b, amount)
          /\ Replayed(b, onRepay(ledgers[b], PaidEvent(b)))
       \/ /\ withdrawCollateral(b, amount)
          /\ Replayed(b, onCollateral(ledgers[b], CollateralEvent(b)))
  /\ UNCHANGED <<envVars, registryVars, gateVars, guardianVars>>

Liquidated(b) ==
  Liquidation(b) /\ Replayed(b, onLiquidate(ledgers[b], LiquidateEvent(b)))

Flagged(b) ==
  /\ Len(ledgers[b].unwinds) < MaxCases
  /\ Flag(b) /\ Replayed(b, onPositionFlagged(ledgers[b], FlaggedEvent(b)))
Reinstated(b) == Reinstate(b) /\ Replayed(b, onPositionReinstated(ledgers[b]))

\* One transaction, three or four events of two contracts
UnwindStarted(b) ==
  /\ StartUnwind(b)
  /\ LET cured == onCollateralAppliedToDebt(onUnwindStarted(ledgers[b]), PaidEvent(b))
     IN Replayed(b, IF cases'[b].state = "RESOLVED" THEN onUnwindCompleted(cured) ELSE cured)

UnwindCompleted(b) == CompleteUnwind(b) /\ Replayed(b, onUnwindCompleted(ledgers[b]))

\* Deposit, Withdraw and ParamChanged are not folded into ledgers, and the
\* registry's events are asked of the gate.
NotReplayed ==
  /\ \/ TimePasses \/ FactsChange
     \/ /\ LenderStep \/ \E r \in BaseRates : setBaseRateBpsPerSecond(r)
        /\ UNCHANGED <<envVars, registryVars, gateVars, guardianVars>>
     \/ setGuardian(Self) /\ UNCHANGED <<envVars, registryVars, gateVars, guardianVars>>
  /\ lent' = lent + (totalPooledAssets' - totalPooledAssets)
  /\ UNCHANGED ledgers

AuditInit ==
  /\ RevocaInit
  /\ ledgers = [u \in Users |-> newLedger]
  /\ lent = 0

AuditNext ==
  \/ NotReplayed
  \/ \E b \in Users :
       \/ PositionMoves(b) \/ Liquidated(b)
       \/ Flagged(b) \/ Reinstated(b) \/ UnwindStarted(b) \/ UnwindCompleted(b)

AuditSpec == AuditInit /\ [][AuditNext]_<<revocaVars, auditVars>>

-----------------------------------------------------------------------------
(* The report *)

projectPendingInterest(principal, elapsed, rate) == (principal * (elapsed * rate)) \div BPS

\* Mutant: takes the last event's debt for the debt of now
reconstructedDebtUnprojected(u) ==
  ledgers[u].checkpoint.principal + ledgers[u].checkpoint.accruedInterest

reconstructedDebt(u) ==
  LET c == ledgers[u].checkpoint
  IN c.principal + c.accruedInterest
       + projectPendingInterest(c.principal, now - c.timestamp, currentInterestRate)

totalInterestRealized == SumOver([u \in Users |-> ledgers[u].interest])

-----------------------------------------------------------------------------
(* Properties *)

(***************************************************************************)
(* From its logs alone the report knows every position's collateral,       *)
(* principal and guardian state, whatever the order of posts, loans,       *)
(* payments, self-cures, liquidations and cases.                           *)
(***************************************************************************)
ReplayMatchesChain ==
  \A u \in Users :
    /\ ledgers[u].collateral = positions[u].collateral
    /\ ledgers[u].checkpoint.principal = positions[u].principal
    /\ ledgers[u].guardianState = cases[u].state

(***************************************************************************)
(* The projected debt is the chain's to the last unit, as long as no       *)
(* interest was accrued that no event reported.                            *)
(***************************************************************************)
DebtMatchesUnlessAccruedSilently ==
  \A u \in Users :
    positions[u].lastAccrualTimestamp = ledgers[u].checkpoint.timestamp =>
      reconstructedDebt(u) = currentDebt(u)

(***************************************************************************)
(* The history of a borrower's cases is whole: every case but an open one  *)
(* ended in exactly one way, a case that was completed was started first,  *)
(* and the active record is the case the guardian has on its books.        *)
(***************************************************************************)
UnwindHistoryTold ==
  \A u \in Users :
    LET l == ledgers[u]
        case == cases[u]
    IN /\ l.active <=> case.state \in {"FLAGGED", "UNWINDING"}
       /\ \A i \in DOMAIN l.unwinds :
            /\ l.unwinds[i].outcome = "open" <=> (l.active /\ i = Len(l.unwinds))
            /\ l.unwinds[i].outcome = "completed" =>
                 l.unwinds[i].started /\ l.unwinds[i].steps = 1
       /\ l.active =>
            LET unwind == Last(l.unwinds)
            IN /\ <<unwind.reason, unwind.flaggedAt, unwind.graceEndsAt>>
                    = <<case.reason, case.flaggedAt, case.graceEndsAt>>
               /\ unwind.started <=> case.state = "UNWINDING"

(***************************************************************************)
(* The interest the report says was realized, by repayment, self-cure and  *)
(* liquidation, is what the pool gained for its lenders, no more, no less. *)
(***************************************************************************)
InterestIsWhatLendersGained == totalPooledAssets = lent + totalInterestRealized
=============================================================================
