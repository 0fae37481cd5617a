----------------------------- MODULE AuditProofs -----------------------------
(***************************************************************************)
(* The audit report is right, for any users, amounts, rates, facts and     *)
(* cases: what it folds from the events alone is what the contracts hold.  *)
(***************************************************************************)
EXTENDS AuditReplay, RevocaProofs

-----------------------------------------------------------------------------
(* Reporting what happens changes nothing of what may happen *)

LEMMA ReplayedIsRevocaStep ==
  ASSUME [AuditNext]_<<revocaVars, auditVars>>
  PROVE  [RevocaNext]_revocaVars
  <1>1. CASE NotReplayed
    <2>1. Self \in Guardians
      BY DeployedTogether
    <2>2. QED
      BY <1>1, <2>1 DEF NotReplayed, RevocaNext, PoolMoves, OwnerStep
  <1>2. ASSUME NEW b \in Users, PositionMoves(b)
        PROVE  RevocaNext
    <2>1. BorrowerStep
      BY <1>2, DeployedTogether DEF PositionMoves, BorrowerStep
    <2>2. QED
      BY <1>2, <2>1 DEF PositionMoves, RevocaNext, PoolMoves
  <1>3. ASSUME NEW b \in Users,
               \/ Liquidated(b) \/ Flagged(b) \/ Reinstated(b)
               \/ UnwindStarted(b) \/ UnwindCompleted(b)
        PROVE  RevocaNext
    BY <1>3 DEF Liquidated, Flagged, Reinstated, UnwindStarted, UnwindCompleted, RevocaNext
  <1>4. QED
    BY <1>1, <1>2, <1>3 DEF AuditNext

(***************************************************************************)
(* The reported system takes only the steps of the contracts, so all that  *)
(* is proved of them holds of it as well.                                  *)
(***************************************************************************)
THEOREM AuditFollowsRevoca == AuditSpec => RevocaSpec
  <1>1. AuditInit => RevocaInit
    BY DEF AuditInit
  <1>2. QED
    BY <1>1, ReplayedIsRevocaStep, PTL DEF AuditSpec, RevocaSpec

LEMMA ContractsSound == AuditSpec => [](TypeOK /\ CasesInv)
  BY AuditFollowsRevoca, DeployedPoolSound, CasesInductive, PTL

-----------------------------------------------------------------------------
(* What a borrower's ledger is, and what each event writes into it *)

CheckpointType == [principal : Nat, accruedInterest : Nat, timestamp : Nat]

Unwind == [reason : Reason, flaggedAt : Nat, graceEndsAt : Nat, started : BOOLEAN,
           steps : Nat, liquidated : Nat, outcome : {"open", "reinstated", "completed"}]

BorrowerLedger ==
  [checkpoint : CheckpointType, collateral : Nat, guardianState : PositionState,
   unwinds : Seq(Unwind), active : BOOLEAN, interest : Nat]

LEMMA NewLedgerType ==
  /\ newLedger \in BorrowerLedger
  /\ newLedger.checkpoint = [principal |-> 0, accruedInterest |-> 0, timestamp |-> 0]
  /\ newLedger.collateral = 0 /\ newLedger.guardianState = "HEALTHY"
  /\ newLedger.unwinds = <<>> /\ ~newLedger.active /\ newLedger.interest = 0
  <1>1. newLedger.checkpoint \in CheckpointType
    BY DEF newLedger, CheckpointType
  <1>2. newLedger.unwinds \in Seq(Unwind)
    BY DEF newLedger
  <1>3. QED
    BY <1>1, <1>2 DEF newLedger, BorrowerLedger, PositionState

LEMMA CollateralWritten ==
  ASSUME NEW l \in BorrowerLedger, NEW e, e.newCollateralBalance \in Nat
  PROVE  LET new == onCollateral(l, e)
         IN /\ new \in BorrowerLedger
            /\ new.collateral = e.newCollateralBalance
            /\ new.checkpoint = l.checkpoint /\ new.interest = l.interest
            /\ new.guardianState = l.guardianState
            /\ new.unwinds = l.unwinds /\ new.active = l.active
  BY DEF onCollateral, BorrowerLedger

LEMMA LoanWritten ==
  ASSUME NEW l \in BorrowerLedger, NEW e,
         Checkpoint(e.newPrincipal, e.newDebt) \in CheckpointType
  PROVE  LET new == onBorrow(l, e)
         IN /\ new \in BorrowerLedger
            /\ new.checkpoint = Checkpoint(e.newPrincipal, e.newDebt)
            /\ new.collateral = l.collateral /\ new.interest = l.interest
            /\ new.guardianState = l.guardianState
            /\ new.unwinds = l.unwinds /\ new.active = l.active
  BY DEF onBorrow, BorrowerLedger

LEMMA PaymentWritten ==
  ASSUME NEW l \in BorrowerLedger, NEW e, e.interestPaid \in Nat,
         Checkpoint(l.checkpoint.principal - e.principalPaid, e.remainingDebt) \in CheckpointType
  PROVE  LET new == onRepay(l, e)
         IN /\ new \in BorrowerLedger
            /\ new.checkpoint = Checkpoint(l.checkpoint.principal - e.principalPaid, e.remainingDebt)
            /\ new.interest = l.interest + e.interestPaid
            /\ new.collateral = l.collateral
            /\ new.guardianState = l.guardianState
            /\ new.unwinds = l.unwinds /\ new.active = l.active
  <1> DEFINE c == Checkpoint(l.checkpoint.principal - e.principalPaid, e.remainingDebt)
             i == l.interest + e.interestPaid
             new == [l EXCEPT !.checkpoint = c, !.interest = i]
  <1>1. c \in CheckpointType /\ i \in Nat
    BY DEF BorrowerLedger
  <1>2. onRepay(l, e) = new
    BY DEF onRepay
  <1> HIDE DEF c, i
  <1>3. new \in BorrowerLedger
    BY <1>1, Zenon DEF BorrowerLedger
  <1>4. /\ new.checkpoint = c /\ new.interest = i /\ new.collateral = l.collateral
        /\ new.guardianState = l.guardianState
        /\ new.unwinds = l.unwinds /\ new.active = l.active
    BY DEF BorrowerLedger
  <1>5. QED
    BY <1>2, <1>3, <1>4 DEF c, i

\* What happens to the case under way is written into the last record.
LastUnwind(l) == l.unwinds[Len(l.unwinds)]
WithLast(l, unwind) == [l.unwinds EXCEPT ![Len(l.unwinds)] = unwind]

LEMMA WithLastType ==
  ASSUME NEW l \in BorrowerLedger, Len(l.unwinds) > 0, NEW unwind \in Unwind
  PROVE  /\ LastUnwind(l) \in Unwind
         /\ WithLast(l, unwind) \in Seq(Unwind)
         /\ Len(WithLast(l, unwind)) = Len(l.unwinds)
         /\ \A i \in 1..Len(l.unwinds) :
              WithLast(l, unwind)[i] = IF i = Len(l.unwinds) THEN unwind ELSE l.unwinds[i]
  <1>1. l.unwinds \in Seq(Unwind)
    BY DEF BorrowerLedger
  <1>2. QED
    BY <1>1 DEF LastUnwind, WithLast

LEMMA WrittenAgain ==
  ASSUME NEW l \in BorrowerLedger, Len(l.unwinds) > 0, NEW once \in Unwind, NEW again \in Unwind,
         NEW new, new.unwinds = WithLast(l, once)
  PROVE  LastUnwind(new) = once /\ WithLast(new, again) = WithLast(l, again)
  <1>1. l.unwinds \in Seq(Unwind)
    BY DEF BorrowerLedger
  <1>2. QED
    BY <1>1 DEF LastUnwind, WithLast

LEMMA StartWritten ==
  ASSUME NEW l \in BorrowerLedger, l.active, Len(l.unwinds) > 0
  PROVE  LET new == onUnwindStarted(l)
         IN /\ new \in BorrowerLedger
            /\ new.guardianState = "UNWINDING"
            /\ new.unwinds = WithLast(l, [LastUnwind(l) EXCEPT !.started = TRUE])
            /\ new.checkpoint = l.checkpoint /\ new.interest = l.interest
            /\ new.collateral = l.collateral
            /\ new.active = l.active
  <1> DEFINE w == [LastUnwind(l) EXCEPT !.started = TRUE]
             ws == WithLast(l, w)
             new == [l EXCEPT !.guardianState = "UNWINDING", !.unwinds = ws]
  <1>1. LastUnwind(l) \in Unwind
    BY DEF BorrowerLedger, LastUnwind
  <1>2. w \in Unwind
    BY <1>1, Zenon DEF Unwind
  <1>3. ws \in Seq(Unwind)
    BY <1>2, WithLastType
  <1>4. onUnwindStarted(l) = new
    BY DEF onUnwindStarted, InActive, WithLast, LastUnwind
  <1> HIDE DEF ws
  <1>5. new \in BorrowerLedger
    BY <1>3, Zenon DEF BorrowerLedger, PositionState
  <1>6. /\ new.guardianState = "UNWINDING" /\ new.unwinds = ws
        /\ new.checkpoint = l.checkpoint /\ new.interest = l.interest
        /\ new.collateral = l.collateral
        /\ new.active = l.active
    BY DEF BorrowerLedger
  <1>7. QED
    BY <1>4, <1>5, <1>6, Zenon DEF ws

LEMMA CompletionWritten ==
  ASSUME NEW l \in BorrowerLedger, l.active, Len(l.unwinds) > 0
  PROVE  LET new == onUnwindCompleted(l)
         IN /\ new \in BorrowerLedger
            /\ new.guardianState = "RESOLVED" /\ ~new.active
            /\ new.unwinds = WithLast(l, [LastUnwind(l) EXCEPT !.outcome = "completed"])
            /\ new.checkpoint = l.checkpoint /\ new.interest = l.interest
            /\ new.collateral = l.collateral
  <1> DEFINE w == [LastUnwind(l) EXCEPT !.outcome = "completed"]
             ws == WithLast(l, w)
             new == [l EXCEPT !.guardianState = "RESOLVED", !.active = FALSE, !.unwinds = ws]
  <1>1. LastUnwind(l) \in Unwind
    BY DEF BorrowerLedger, LastUnwind
  <1>2. w \in Unwind
    BY <1>1, Zenon DEF Unwind
  <1>3. ws \in Seq(Unwind)
    BY <1>2, WithLastType
  <1>4. onUnwindCompleted(l) = new
    BY DEF onUnwindCompleted, InActive, WithLast, LastUnwind
  <1> HIDE DEF ws
  <1>5. new \in BorrowerLedger
    BY <1>3, Zenon DEF BorrowerLedger, PositionState
  <1>6. /\ new.guardianState = "RESOLVED" /\ ~new.active /\ new.unwinds = ws
        /\ new.checkpoint = l.checkpoint /\ new.interest = l.interest
        /\ new.collateral = l.collateral
    BY DEF BorrowerLedger
  <1>7. QED
    BY <1>4, <1>5, <1>6, Zenon DEF ws

LEMMA ReinstatementWritten ==
  ASSUME NEW l \in BorrowerLedger, l.active, Len(l.unwinds) > 0
  PROVE  LET new == onPositionReinstated(l)
         IN /\ new \in BorrowerLedger
            /\ new.guardianState = "HEALTHY" /\ ~new.active
            /\ new.unwinds = WithLast(l, [LastUnwind(l) EXCEPT !.outcome = "reinstated"])
            /\ new.checkpoint = l.checkpoint /\ new.interest = l.interest
            /\ new.collateral = l.collateral
  <1> DEFINE w == [LastUnwind(l) EXCEPT !.outcome = "reinstated"]
             ws == WithLast(l, w)
             new == [l EXCEPT !.guardianState = "HEALTHY", !.active = FALSE, !.unwinds = ws]
  <1>1. LastUnwind(l) \in Unwind
    BY DEF BorrowerLedger, LastUnwind
  <1>2. w \in Unwind
    BY <1>1, Zenon DEF Unwind
  <1>3. ws \in Seq(Unwind)
    BY <1>2, WithLastType
  <1>4. onPositionReinstated(l) = new
    BY DEF onPositionReinstated, InActive, WithLast, LastUnwind
  <1> HIDE DEF ws
  <1>5. new \in BorrowerLedger
    BY <1>3, Zenon DEF BorrowerLedger, PositionState
  <1>6. /\ new.guardianState = "HEALTHY" /\ ~new.active /\ new.unwinds = ws
        /\ new.checkpoint = l.checkpoint /\ new.interest = l.interest
        /\ new.collateral = l.collateral
    BY DEF BorrowerLedger
  <1>7. QED
    BY <1>4, <1>5, <1>6, Zenon DEF ws

LEMMA CureWritten ==
  ASSUME NEW l \in BorrowerLedger, l.active, Len(l.unwinds) > 0, NEW e,
         e.interestPaid \in Nat, e.remainingCollateral \in Nat,
         Checkpoint(l.checkpoint.principal - e.principalPaid, e.remainingDebt) \in CheckpointType
  PROVE  LET new == onCollateralAppliedToDebt(l, e)
         IN /\ new \in BorrowerLedger
            /\ new.checkpoint = Checkpoint(l.checkpoint.principal - e.principalPaid, e.remainingDebt)
            /\ new.interest = l.interest + e.interestPaid
            /\ new.collateral = e.remainingCollateral
            /\ new.unwinds = WithLast(l, [LastUnwind(l) EXCEPT !.steps = @ + 1])
            /\ new.guardianState = l.guardianState
            /\ new.active = l.active
  <1> DEFINE n == LastUnwind(l).steps + 1
             w == [LastUnwind(l) EXCEPT !.steps = n]
             ws == WithLast(l, w)
             paid == onRepay(l, e)
             new == [paid EXCEPT !.collateral = e.remainingCollateral, !.unwinds = ws]
  <1>1. LastUnwind(l) \in Unwind
    BY DEF BorrowerLedger, LastUnwind
  <1>2. w \in Unwind
    <2>1. n \in Nat
      BY <1>1 DEF Unwind
    <2> HIDE DEF n
    <2>2. QED
      BY <1>1, <2>1, Zenon DEF Unwind
  <1>3. ws \in Seq(Unwind)
    BY <1>2, WithLastType
  <1>4. onCollateralAppliedToDebt(l, e) = new
    BY DEF onCollateralAppliedToDebt, InActive, WithLast, LastUnwind
  <1>5. /\ paid \in BorrowerLedger
        /\ paid.checkpoint = Checkpoint(l.checkpoint.principal - e.principalPaid, e.remainingDebt)
        /\ paid.interest = l.interest + e.interestPaid
        /\ paid.guardianState = l.guardianState
        /\ paid.active = l.active
    BY PaymentWritten
  <1> HIDE DEF ws, paid
  <1>6. new \in BorrowerLedger
    BY <1>3, <1>5, Zenon DEF BorrowerLedger
  <1>7. /\ new.checkpoint = paid.checkpoint /\ new.interest = paid.interest
        /\ new.collateral = e.remainingCollateral /\ new.unwinds = ws
        /\ new.guardianState = paid.guardianState
        /\ new.active = paid.active
    BY <1>5 DEF BorrowerLedger
  <1>8. QED
    BY <1>4, <1>5, <1>6, <1>7, Zenon DEF ws

LEMMA LiquidationWritten ==
  ASSUME NEW l \in BorrowerLedger, l.active => Len(l.unwinds) > 0, NEW e,
         e.debtRepaid \in Nat, e.remainingCollateral \in Nat, e.collateralSeized \in Nat,
         now \in Nat
  PROVE  LET new == onLiquidate(l, e)
         IN /\ new \in BorrowerLedger
            /\ new.checkpoint = Checkpoint(0, 0)
            /\ new.collateral = e.remainingCollateral
            /\ new.interest = l.interest + IF e.debtRepaid > l.checkpoint.principal
                                           THEN e.debtRepaid - l.checkpoint.principal ELSE 0
            /\ new.unwinds = IF l.active
                 THEN WithLast(l, [LastUnwind(l) EXCEPT !.liquidated = e.collateralSeized])
                 ELSE l.unwinds
            /\ new.guardianState = l.guardianState
            /\ new.active = l.active
  <1> DEFINE w == [LastUnwind(l) EXCEPT !.liquidated = e.collateralSeized]
             ws == IF l.active THEN WithLast(l, w) ELSE l.unwinds
             c == Checkpoint(0, 0)
             i == l.interest + IF e.debtRepaid > l.checkpoint.principal
                               THEN e.debtRepaid - l.checkpoint.principal ELSE 0
             new == [l EXCEPT !.checkpoint = c, !.collateral = e.remainingCollateral,
                              !.interest = i, !.unwinds = ws]
  <1>1. ASSUME l.active
        PROVE  WithLast(l, w) \in Seq(Unwind)
    <2>1. LastUnwind(l) \in Unwind
      BY <1>1 DEF BorrowerLedger, LastUnwind
    <2>2. w \in Unwind
      BY <2>1, Zenon DEF Unwind
    <2>3. QED
      BY <1>1, <2>2, WithLastType
  <1>2. l.unwinds \in Seq(Unwind)
    BY DEF BorrowerLedger
  <1>3. ws \in Seq(Unwind)
    <2>1. ws = WithLast(l, w) \/ ws = l.unwinds
      OBVIOUS
    <2>2. ~l.active => ws = l.unwinds
      OBVIOUS
    <2> HIDE DEF ws
    <2>3. QED
      BY <1>1, <1>2, <2>1, <2>2
  <1>4. c \in CheckpointType /\ i \in Nat
    BY DEF Checkpoint, CheckpointType, BorrowerLedger
  <1>5. onLiquidate(l, e) = new
    BY DEF onLiquidate, InActive, WithLast, LastUnwind
  <1> HIDE DEF ws, c, i
  <1>6. new \in BorrowerLedger
    BY <1>3, <1>4, Zenon DEF BorrowerLedger
  <1>7. /\ new.checkpoint = c /\ new.collateral = e.remainingCollateral
        /\ new.interest = i /\ new.unwinds = ws
        /\ new.guardianState = l.guardianState
        /\ new.active = l.active
    BY DEF BorrowerLedger
  <1>8. QED
    BY <1>5, <1>6, <1>7, Zenon DEF ws, c, i

LEMMA FlagWritten ==
  ASSUME NEW l \in BorrowerLedger, NEW e, e.reason \in Reason, e.graceEndsAt \in Nat, now \in Nat
  PROVE  LET new == onPositionFlagged(l, e)
         IN /\ new \in BorrowerLedger
            /\ new.guardianState = "FLAGGED" /\ new.active
            /\ new.unwinds =
                 Append(l.unwinds,
                        [reason |-> e.reason, flaggedAt |-> now, graceEndsAt |-> e.graceEndsAt,
                         started |-> FALSE, steps |-> 0, liquidated |-> 0, outcome |-> "open"])
            /\ new.checkpoint = l.checkpoint /\ new.interest = l.interest
            /\ new.collateral = l.collateral
  <1> DEFINE w == [reason |-> e.reason, flaggedAt |-> now, graceEndsAt |-> e.graceEndsAt,
                   started |-> FALSE, steps |-> 0, liquidated |-> 0, outcome |-> "open"]
             ws == Append(l.unwinds, w)
             new == [l EXCEPT !.guardianState = "FLAGGED", !.active = TRUE, !.unwinds = ws]
  <1>1. w \in Unwind
    BY DEF Unwind
  <1> HIDE DEF w
  <1>2. ws \in Seq(Unwind)
    BY <1>1 DEF BorrowerLedger
  <1>3. onPositionFlagged(l, e) = new
    BY DEF onPositionFlagged, w
  <1> HIDE DEF ws
  <1>4. new \in BorrowerLedger
    BY <1>2, Zenon DEF BorrowerLedger, PositionState
  <1>5. /\ new.guardianState = "FLAGGED" /\ new.active /\ new.unwinds = ws
        /\ new.checkpoint = l.checkpoint /\ new.interest = l.interest
        /\ new.collateral = l.collateral
    BY DEF BorrowerLedger
  <1>6. QED
    BY <1>3, <1>4, <1>5, Zenon DEF ws, w

-----------------------------------------------------------------------------
(* A ledger that tells the truth about its borrower *)

\* The checkpoint is the position as of the last accrual an event reported.
Balances(l, pos) ==
  /\ l.collateral = pos.collateral
  /\ l.checkpoint.principal = pos.principal
  /\ l.checkpoint.timestamp <= pos.lastAccrualTimestamp
  /\ l.checkpoint.timestamp = pos.lastAccrualTimestamp =>
       l.checkpoint.accruedInterest = pos.accruedInterest

Ended(unwind) == unwind.outcome = "completed" => unwind.started /\ unwind.steps = 1

\* The record of the case under way, and the case
UnderWay(unwind, case) ==
  /\ unwind.reason = case.reason
  /\ unwind.flaggedAt = case.flaggedAt /\ unwind.graceEndsAt = case.graceEndsAt
  /\ unwind.started <=> case.state = "UNWINDING"
  /\ unwind.steps = IF unwind.started THEN 1 ELSE 0

History(l, case) ==
  /\ l.guardianState = case.state
  /\ l.active <=> case.state \in {"FLAGGED", "UNWINDING"}
  /\ l.active => Len(l.unwinds) > 0 /\ UnderWay(LastUnwind(l), case)
  /\ \A i \in 1..Len(l.unwinds) :
       /\ l.unwinds[i].outcome = "open" <=> (l.active /\ i = Len(l.unwinds))
       /\ Ended(l.unwinds[i])

BooksInv ==
  /\ ledgers \in [Users -> BorrowerLedger]
  /\ \A u \in Users :
       /\ Balances(ledgers[u], positions[u])
       /\ History(ledgers[u], cases[u])

LEMMA BooksInit ==
  ASSUME AuditInit
  PROVE  BooksInv
  <1>1. \A u \in Users : ledgers[u] = newLedger /\ cases[u] = NoCase
    BY DEF AuditInit, RevocaInit, GuardianInit
  <1>2. \A u \in Users :
          /\ positions[u] = [collateral |-> 0, principal |-> 0,
                             accruedInterest |-> 0, lastAccrualTimestamp |-> 0]
    BY DeployedTogether, NewLedgerType DEF AuditInit, RevocaInit, Init, RegistryInit
  <1>3. ledgers \in [Users -> BorrowerLedger]
    BY NewLedgerType DEF AuditInit
  <1>4. \A u \in Users : Balances(newLedger, positions[u])
    BY <1>2, NewLedgerType DEF Balances
  <1>5. History(newLedger, NoCase)
    BY NewLedgerType DEF History, NoCase
  <1>6. QED
    BY <1>1, <1>2, <1>3, <1>4, <1>5 DEF BooksInv

\* A step of one borrower's leaves the others' books in agreement.
LEMMA OneBookWritten ==
  ASSUME BooksInv, NEW b \in Users, NEW new \in BorrowerLedger,
         ledgers' = [ledgers EXCEPT ![b] = new],
         \A u \in Users \ {b} : /\ positions'[u] = positions[u] /\ cases'[u] = cases[u],
         Balances(new, positions'[b]), History(new, cases'[b])
  PROVE  BooksInv'
  <1>1. ledgers' \in [Users -> BorrowerLedger]
    BY DEF BooksInv
  <1>2. \A u \in Users : ledgers'[u] = IF u = b THEN new ELSE ledgers[u]
    BY DEF BooksInv
  <1>3. \A u \in Users : /\ Balances(ledgers'[u], positions'[u])
                         /\ History(ledgers'[u], cases'[u])
    BY <1>2 DEF BooksInv
  <1>4. QED
    BY <1>1, <1>3 DEF BooksInv, Balances, History, LastUnwind, UnderWay, Ended

LEMMA SameHistory ==
  ASSUME NEW l, NEW case, History(l, case), NEW new, new.guardianState = l.guardianState,
         new.unwinds = l.unwinds, new.active = l.active
  PROVE  History(new, case)
  BY Zenon DEF History, LastUnwind

\* The record of the case under way is rewritten, and with it the case.
LEMMA HistoryAmended ==
  ASSUME NEW l \in BorrowerLedger, NEW old, History(l, old), l.active,
         NEW new \in BorrowerLedger, NEW unwind \in Unwind, NEW case,
         new.unwinds = WithLast(l, unwind), new.guardianState = case.state,
         new.active <=> case.state \in {"FLAGGED", "UNWINDING"},
         unwind.outcome = "open" <=> new.active, Ended(unwind),
         new.active => UnderWay(unwind, case)
  PROVE  History(new, case)
  <1> DEFINE n == Len(l.unwinds)
  <1>1. l.unwinds \in Seq(Unwind) /\ n > 0 /\ n \in Nat
    BY DEF History, BorrowerLedger
  <1>2. /\ Len(new.unwinds) = n
        /\ \A i \in 1..n : new.unwinds[i] = IF i = n THEN unwind ELSE l.unwinds[i]
    <2>1. /\ Len(WithLast(l, unwind)) = Len(l.unwinds)
          /\ \A i \in 1..Len(l.unwinds) :
               WithLast(l, unwind)[i] = IF i = Len(l.unwinds) THEN unwind ELSE l.unwinds[i]
      BY <1>1, WithLastType, Zenon
    <2>2. QED
      BY <2>1, Zenon
  <1>3. LastUnwind(new) = unwind
    BY <1>1, <1>2 DEF LastUnwind
  <1>4. ASSUME NEW i \in 1..n
        PROVE  /\ new.unwinds[i].outcome = "open" <=> (new.active /\ i = n)
               /\ Ended(new.unwinds[i])
    <2>1. CASE i = n
      BY <1>2, <2>1, Zenon
    <2>2. CASE i # n
      <3>1. new.unwinds[i] = l.unwinds[i]
        BY <1>2, <2>2
      <3>2. l.unwinds[i].outcome # "open" /\ Ended(l.unwinds[i])
        BY <2>2, Zenon DEF History
      <3>3. QED
        BY <2>2, <3>1, <3>2, Zenon
    <2>3. QED
      BY <2>1, <2>2
  <1>5. QED
    BY <1>1, <1>2, <1>3, <1>4, Zenon DEF History

-----------------------------------------------------------------------------
(* Every event writes a truthful entry *)

\* What the ledger of b takes in, lenders gain; nobody else's book is touched.
Entry(b) ==
  \E new \in BorrowerLedger :
    /\ ledgers' = [ledgers EXCEPT ![b] = new] /\ UNCHANGED lent
    /\ new.interest = ledgers[b].interest + (totalPooledAssets' - totalPooledAssets)
    /\ Balances(new, positions'[b]) /\ History(new, cases'[b])
    /\ \A u \in Users \ {b} : /\ positions'[u] = positions[u] /\ cases'[u] = cases[u]

LEMMA BookFacts ==
  ASSUME TypeOK, BooksInv, NEW b \in Users
  PROVE  /\ b \in Borrowers /\ positions[b] \in BorrowerPosition /\ now \in Nat
         /\ positions[b].lastAccrualTimestamp <= now
         /\ positions \in [Borrowers -> BorrowerPosition]
         /\ ledgers[b] \in BorrowerLedger /\ ledgers[b].interest \in Nat
         /\ ledgers[b].checkpoint \in CheckpointType
         /\ ledgers[b].checkpoint.timestamp \in Nat
         /\ totalPooledAssets \in Nat /\ idleLiquidity \in Nat /\ totalPrincipalOutstanding \in Nat
  BY DeployedTogether
     DEF TypeOK, EnvTypeOK, LedgerTypeOK, BooksInv, BorrowerLedger, CheckpointType,
         totalPooledAssets

\* Posting says what collateral there is now, and leaves the debt as it was.
LEMMA PostEntry ==
  ASSUME TypeOK, BooksInv, NEW b \in Users, NEW amount \in Nat, postCollateral(b, amount),
         UNCHANGED <<envVars, registryVars, gateVars, guardianVars>>,
         Replayed(b, onCollateral(ledgers[b], CollateralEvent(b)))
  PROVE  Entry(b)
  <1> DEFINE pos == positions[b]
             collateral == pos.collateral + amount
             after == [pos EXCEPT !.collateral = collateral]
             l == ledgers[b]
             new == onCollateral(l, CollateralEvent(b))
  <1>1. pos \in BorrowerPosition /\ collateral \in Nat /\ l \in BorrowerLedger
        /\ l.interest \in Nat /\ totalPooledAssets \in Nat
    BY BookFacts DEF BorrowerPosition
  <1>2. /\ positions'[b] = after
        /\ \A u \in Users \ {b} : positions'[u] = positions[u]
    BY BookFacts, DeployedTogether DEF postCollateral
  <1>3. /\ after.collateral = collateral /\ after.principal = pos.principal
        /\ after.accruedInterest = pos.accruedInterest
        /\ after.lastAccrualTimestamp = pos.lastAccrualTimestamp
    BY <1>1 DEF BorrowerPosition
  <1> HIDE DEF after
  <1>4. /\ new \in BorrowerLedger /\ new.collateral = collateral
        /\ new.checkpoint = l.checkpoint /\ new.interest = l.interest
        /\ new.guardianState = l.guardianState
        /\ new.unwinds = l.unwinds /\ new.active = l.active
    <2>1. CollateralEvent(b).newCollateralBalance = collateral
      BY <1>2, <1>3 DEF CollateralEvent
    <2>2. QED
      BY <1>1, <2>1, CollateralWritten
  <1>5. totalPooledAssets' - totalPooledAssets = 0
    BY <1>1 DEF postCollateral, totalPooledAssets
  <1> HIDE DEF new, collateral
  <1>6. Balances(new, positions'[b])
    BY <1>2, <1>3, <1>4 DEF BooksInv, Balances
  <1>7. History(new, cases'[b])
    <2>1. History(l, cases[b]) /\ cases'[b] = cases[b]
      BY DEF BooksInv, guardianVars
    <2>2. QED
      BY <1>4, <2>1, SameHistory
  <1>8. /\ new.interest = l.interest + (totalPooledAssets' - totalPooledAssets)
        /\ \A u \in Users : cases'[u] = cases[u]
    BY <1>1, <1>4, <1>5 DEF BooksInv, guardianVars, registryVars
  <1>9. QED
    BY <1>2, <1>4, <1>6, <1>7, <1>8 DEF Entry, Replayed, new

\* The checkpoint an event carries is the position it leaves.
LEMMA CheckpointOf ==
  ASSUME NEW pos \in BorrowerPosition, now \in Nat
  PROVE  LET c == Checkpoint(pos.principal, owed(pos))
         IN /\ c \in CheckpointType
            /\ c.principal = pos.principal /\ c.accruedInterest = pos.accruedInterest
            /\ c.timestamp = now
  <1>1. pos.principal \in Nat /\ pos.accruedInterest \in Nat
    BY DEF BorrowerPosition
  <1>2. owed(pos) - pos.principal = pos.accruedInterest
    BY <1>1 DEF owed
  <1>3. QED
    BY <1>1, <1>2 DEF Checkpoint, CheckpointType

\* A loan is reported as it stands once drawn.
LEMMA LoanEntry ==
  ASSUME TypeOK, TypeOK', BooksInv, NEW b \in Users, NEW amount \in Nat, borrow(b, amount),
         UNCHANGED <<envVars, registryVars, gateVars, guardianVars>>,
         Replayed(b, onBorrow(ledgers[b], BorrowEvent(b)))
  PROVE  Entry(b)
  <1> DEFINE after == positions'[b]
             l == ledgers[b]
             c == Checkpoint(after.principal, owed(after))
             new == onBorrow(l, BorrowEvent(b))
  <1>1. /\ b \in Borrowers /\ l \in BorrowerLedger /\ l.interest \in Nat /\ now \in Nat
        /\ idleLiquidity \in Nat /\ totalPrincipalOutstanding \in Nat
    BY BookFacts
  <1>2. /\ after.collateral = positions[b].collateral /\ after.lastAccrualTimestamp = now
        /\ \A u \in Users \ {b} : positions'[u] = positions[u]
    BY <1>1, BorrowLeaves, DeployedTogether DEF Borrowed
  <1>3. after \in BorrowerPosition
    BY <1>1, NextTypes
  <1>4. /\ c \in CheckpointType /\ c.principal = after.principal
        /\ c.accruedInterest = after.accruedInterest /\ c.timestamp = now
    BY <1>1, <1>3, CheckpointOf
  <1>5. c = Checkpoint(BorrowEvent(b).newPrincipal, BorrowEvent(b).newDebt)
    BY DEF BorrowEvent
  <1> HIDE DEF c
  <1>6. /\ new \in BorrowerLedger /\ new.collateral = l.collateral
        /\ new.checkpoint = c /\ new.interest = l.interest
        /\ new.guardianState = l.guardianState
        /\ new.unwinds = l.unwinds /\ new.active = l.active
    BY <1>1, <1>4, <1>5, LoanWritten
  <1>7. totalPooledAssets' - totalPooledAssets = 0
    BY <1>1 DEF borrow, totalPooledAssets
  <1> HIDE DEF new
  <1>8. Balances(new, positions'[b])
    BY <1>1, <1>2, <1>4, <1>6 DEF BooksInv, Balances
  <1>9. History(new, cases'[b])
    <2>1. History(l, cases[b]) /\ cases'[b] = cases[b]
      BY DEF BooksInv, guardianVars
    <2>2. QED
      BY <1>6, <2>1, SameHistory
  <1>10. /\ new.interest = l.interest + (totalPooledAssets' - totalPooledAssets)
         /\ \A u \in Users : cases'[u] = cases[u]
    BY <1>1, <1>6, <1>7 DEF BooksInv, guardianVars, registryVars
  <1>11. QED
    BY <1>2, <1>6, <1>8, <1>9, <1>10 DEF Entry, Replayed, new

\* A payment is told as what it took off the principal and off the interest.
LEMMA PaidTold ==
  ASSUME TypeOK, BooksInv, NEW b \in Users,
         NEW after \in BorrowerPosition, NEW paid \in Nat, NEW lost \in Nat,
         SettledTo(b, after, paid, lost)
  PROVE  LET e == PaidEvent(b)
             c == Checkpoint(ledgers[b].checkpoint.principal - e.principalPaid, e.remainingDebt)
         IN /\ e.interestPaid \in Nat /\ e.interestPaid = totalPooledAssets' - totalPooledAssets
            /\ e.remainingCollateral = after.collateral
            /\ c \in CheckpointType
            /\ c.principal = after.principal /\ c.accruedInterest = after.accruedInterest
            /\ c.timestamp = now
  <1> DEFINE pos == positions[b]
             principalPaid == pos.principal - after.principal
             e == PaidEvent(b)
  <1>1. /\ b \in Borrowers /\ now \in Nat /\ idleLiquidity \in Nat
        /\ totalPrincipalOutstanding \in Nat /\ ledgers[b].checkpoint.principal = pos.principal
    BY BookFacts DEF BooksInv, Balances
  <1>2. /\ positions'[b] = after /\ owed(after) = currentDebt(b) - paid
        /\ after.principal <= pos.principal
    BY <1>1, SettledPosition
  <1>3. /\ pos.principal \in Nat /\ after.principal \in Nat /\ currentDebt(b) \in Nat
        /\ principalPaid <= paid
    BY <1>1, AmountTypes DEF SettledTo, BorrowerPosition
  <1>4. totalPooledAssets' - totalPooledAssets = paid - principalPaid
    BY <1>1, <1>3 DEF SettledTo, totalPooledAssets
  <1>5. /\ e.principalPaid = principalPaid
        /\ e.interestPaid = currentDebt(b) - owed(after) - principalPaid
        /\ e.remainingDebt = owed(after) /\ e.remainingCollateral = after.collateral
    BY <1>2 DEF PaidEvent
  <1>6. /\ e.interestPaid = paid - principalPaid /\ paid - principalPaid \in Nat
        /\ pos.principal - principalPaid = after.principal
    BY <1>2, <1>3, <1>5
  <1>7. QED
    BY <1>1, <1>4, <1>5, <1>6, CheckpointOf

LEMMA RepayEntry ==
  ASSUME TypeOK, BooksInv, NEW b \in Users, NEW amount \in Nat, repay(b, amount),
         UNCHANGED <<envVars, registryVars, gateVars, guardianVars>>,
         Replayed(b, onRepay(ledgers[b], PaidEvent(b)))
  PROVE  Entry(b)
  <1> DEFINE l == ledgers[b]
             e == PaidEvent(b)
             c == Checkpoint(l.checkpoint.principal - e.principalPaid, e.remainingDebt)
             new == onRepay(l, e)
  <1>1. b \in Borrowers /\ l \in BorrowerLedger /\ now \in Nat
    BY BookFacts
  <1>2. PICK after \in BorrowerPosition, paid \in Nat : SettledTo(b, after, paid, 0)
    BY <1>1, RepaySettles DEF Repaid
  <1>3. /\ positions'[b] = after /\ after.collateral = positions[b].collateral - 0
        /\ after.lastAccrualTimestamp = now
    BY <1>1, <1>2, SettledPosition
  <1>4. \A u \in Users \ {b} : positions'[u] = positions[u]
    BY <1>1, RepaySettles, OthersKeepTheirs, DeployedTogether DEF Settles
  <1>5. positions[b].collateral \in Nat
    BY <1>1, AmountTypes
  <1>6. /\ e.interestPaid \in Nat /\ e.interestPaid = totalPooledAssets' - totalPooledAssets
        /\ c \in CheckpointType /\ c.principal = after.principal
        /\ c.accruedInterest = after.accruedInterest /\ c.timestamp = now
    BY <1>2, PaidTold
  <1>7. /\ new \in BorrowerLedger /\ new.checkpoint = c
        /\ new.interest = l.interest + e.interestPaid /\ new.collateral = l.collateral
        /\ new.guardianState = l.guardianState
        /\ new.unwinds = l.unwinds /\ new.active = l.active
    BY <1>1, <1>6, PaymentWritten
  <1> HIDE DEF new, c, e
  <1>8. Balances(new, positions'[b])
    BY <1>1, <1>3, <1>5, <1>6, <1>7 DEF BooksInv, Balances
  <1>9. History(new, cases'[b])
    <2>1. History(l, cases[b]) /\ cases'[b] = cases[b]
      BY DEF BooksInv, guardianVars
    <2>2. QED
      BY <1>7, <2>1, SameHistory
  <1>10. /\ new.interest = l.interest + (totalPooledAssets' - totalPooledAssets)
         /\ \A u \in Users : cases'[u] = cases[u]
    BY <1>6, <1>7 DEF BooksInv, guardianVars, registryVars
  <1>11. QED
    BY <1>4, <1>7, <1>8, <1>9, <1>10 DEF Entry, Replayed, new, e

\* Taking collateral out accrues in silence: the checkpoint falls behind the
\* position, unless nothing was pending.
LEMMA WithdrawalEntry ==
  ASSUME TypeOK, BooksInv, NEW b \in Users, NEW amount \in Nat, withdrawCollateral(b, amount),
         UNCHANGED <<envVars, registryVars, gateVars, guardianVars>>,
         Replayed(b, onCollateral(ledgers[b], CollateralEvent(b)))
  PROVE  Entry(b)
  <1> DEFINE l == ledgers[b]
             pos == positions[b]
             new == onCollateral(l, CollateralEvent(b))
  <1>1. /\ b \in Borrowers /\ l \in BorrowerLedger /\ now \in Nat /\ l.interest \in Nat
        /\ l.checkpoint.timestamp \in Nat /\ pos.lastAccrualTimestamp <= now
        /\ pos \in BorrowerPosition /\ idleLiquidity \in Nat /\ totalPrincipalOutstanding \in Nat
    BY BookFacts
  <1>2. PICK after \in BorrowerPosition, lost \in Nat : SettledTo(b, after, 0, lost)
    BY <1>1, WithdrawCollateralSettles DEF TakenOut
  <1>3. /\ positions'[b] = after /\ owed(after) = currentDebt(b) - 0
        /\ after.principal <= pos.principal /\ after.lastAccrualTimestamp = now
    BY <1>1, <1>2, SettledPosition
  <1>4. \A u \in Users \ {b} : positions'[u] = positions[u]
    BY <1>1, WithdrawCollateralSettles, OthersKeepTheirs, DeployedTogether DEF Settles
  <1>5. /\ after.principal = pos.principal
        /\ after.accruedInterest = pos.accruedInterest + pendingInterest(b)
        /\ pendingInterest(b) \in Nat /\ pos.accruedInterest \in Nat
        /\ pos.lastAccrualTimestamp \in Nat
    <2>1. /\ pos.principal \in Nat /\ pos.accruedInterest \in Nat
          /\ after.principal \in Nat /\ after.accruedInterest \in Nat
          /\ pos.lastAccrualTimestamp \in Nat /\ pendingInterest(b) \in Nat
      BY <1>1, PendingType DEF BorrowerPosition
    <2>2. pos.principal - after.principal <= 0
      BY <1>2 DEF SettledTo
    <2>3. QED
      BY <1>3, <2>1, <2>2 DEF owed, currentDebt
  <1>6. after.collateral \in Nat /\ CollateralEvent(b).newCollateralBalance = after.collateral
    BY <1>3 DEF CollateralEvent, BorrowerPosition
  <1>7. /\ new \in BorrowerLedger /\ new.collateral = after.collateral
        /\ new.checkpoint = l.checkpoint /\ new.interest = l.interest
        /\ new.guardianState = l.guardianState
        /\ new.unwinds = l.unwinds /\ new.active = l.active
    BY <1>1, <1>6, CollateralWritten
  <1>8. totalPooledAssets' - totalPooledAssets = 0
    BY <1>1 DEF withdrawCollateral, totalPooledAssets
  <1> HIDE DEF new
  <1>9. Balances(new, positions'[b])
    <2>1. /\ l.checkpoint.timestamp <= pos.lastAccrualTimestamp
          /\ l.checkpoint.timestamp = pos.lastAccrualTimestamp =>
               l.checkpoint.accruedInterest = pos.accruedInterest
          /\ l.checkpoint.principal = pos.principal
      BY DEF BooksInv, Balances
    <2>2. l.checkpoint.timestamp = now =>
            pos.lastAccrualTimestamp = now /\ pendingInterest(b) = 0
      BY <1>1, <1>5, <2>1, NothingPending
    <2>3. QED
      BY <1>1, <1>3, <1>5, <1>7, <2>1, <2>2 DEF Balances
  <1>10. History(new, cases'[b])
    <2>1. History(l, cases[b]) /\ cases'[b] = cases[b]
      BY DEF BooksInv, guardianVars
    <2>2. QED
      BY <1>7, <2>1, SameHistory
  <1>11. /\ new.interest = l.interest + (totalPooledAssets' - totalPooledAssets)
         /\ \A u \in Users : cases'[u] = cases[u]
    BY <1>1, <1>7, <1>8 DEF BooksInv, guardianVars, registryVars
  <1>12. QED
    BY <1>4, <1>7, <1>9, <1>10, <1>11 DEF Entry, Replayed, new

\* The record of the case under way is the last, and the only open one.
LEMMA LastIsOpen ==
  ASSUME NEW l \in BorrowerLedger, NEW case, History(l, case), l.active
  PROVE  /\ Len(l.unwinds) > 0 /\ LastUnwind(l) \in Unwind
         /\ LastUnwind(l).outcome = "open" /\ UnderWay(LastUnwind(l), case)
  <1>1. l.unwinds \in Seq(Unwind) /\ Len(l.unwinds) \in Nat
    BY DEF BorrowerLedger
  <1>2. Len(l.unwinds) > 0 /\ UnderWay(LastUnwind(l), case)
    BY DEF History
  <1>3. Len(l.unwinds) \in 1..Len(l.unwinds)
    BY <1>1, <1>2
  <1>4. LastUnwind(l).outcome = "open"
    BY <1>3, Zenon DEF History, LastUnwind
  <1>5. QED
    BY <1>1, <1>2, <1>3, <1>4 DEF LastUnwind

LEMMA LiquidationEntry ==
  ASSUME TypeOK, BooksInv, NEW b \in Users, Liquidated(b)
  PROVE  Entry(b)
  <1> DEFINE l == ledgers[b]
             pos == positions[b]
             e == LiquidateEvent(b)
             new == onLiquidate(l, e)
  <1>1. /\ b \in Borrowers /\ l \in BorrowerLedger /\ now \in Nat /\ l.interest \in Nat
        /\ idleLiquidity \in Nat /\ totalPrincipalOutstanding \in Nat
        /\ l.checkpoint.principal = pos.principal
    BY BookFacts DEF BooksInv, Balances
  <1>2. /\ liquidate(b) /\ UNCHANGED <<envVars, registryVars, gateVars, guardianVars>>
        /\ Replayed(b, new)
    BY DEF Liquidated, Liquidation
  <1>3. PICK after \in BorrowerPosition, lost \in Nat : SettledTo(b, after, currentDebt(b), lost)
    BY <1>1, <1>2, LiquidateSettles DEF SeizedFrom
  <1>4. /\ positions'[b] = after /\ owed(after) = currentDebt(b) - currentDebt(b)
        /\ after.collateral = pos.collateral - lost /\ after.lastAccrualTimestamp = now
    BY <1>1, <1>3, AmountTypes, SettledPosition
  <1>5. \A u \in Users \ {b} : positions'[u] = positions[u]
    BY <1>1, <1>2, LiquidateSettles, OthersKeepTheirs, DeployedTogether DEF Settles
  <1>6. /\ pos.collateral \in Nat /\ pos.principal \in Nat /\ currentDebt(b) \in Nat
        /\ pos.principal <= currentDebt(b)
        /\ after.collateral \in Nat /\ after.principal \in Nat /\ after.accruedInterest \in Nat
    <2>1. pos.accruedInterest \in Nat /\ pendingInterest(b) \in Nat /\ pos.principal \in Nat
      BY <1>1, AmountTypes, PendingType DEF BorrowerPosition
    <2>2. QED
      BY <1>1, <2>1, AmountTypes DEF currentDebt, owed, BorrowerPosition
  <1>7. after.principal = 0 /\ after.accruedInterest = 0
    BY <1>4, <1>6 DEF owed
  <1>8. /\ e.debtRepaid = currentDebt(b) /\ e.collateralSeized = lost
        /\ e.remainingCollateral = after.collateral
    BY <1>4, <1>6 DEF LiquidateEvent
  <1>9. totalPooledAssets' - totalPooledAssets = currentDebt(b) - pos.principal
    BY <1>1, <1>3, <1>6, <1>7 DEF SettledTo, totalPooledAssets
  <1> HIDE DEF e
  <1>10. l.active => Len(l.unwinds) > 0
    BY DEF BooksInv, History
  <1>11. /\ new \in BorrowerLedger /\ new.checkpoint = Checkpoint(0, 0)
         /\ new.collateral = after.collateral
         /\ new.interest = l.interest + IF e.debtRepaid > l.checkpoint.principal
                                        THEN e.debtRepaid - l.checkpoint.principal ELSE 0
         /\ new.unwinds = IF l.active
              THEN WithLast(l, [LastUnwind(l) EXCEPT !.liquidated = e.collateralSeized])
              ELSE l.unwinds
         /\ new.guardianState = l.guardianState
         /\ new.active = l.active
    BY <1>1, <1>6, <1>8, <1>10, LiquidationWritten, Zenon
  <1> HIDE DEF new
  <1>12. new.interest = l.interest + (totalPooledAssets' - totalPooledAssets)
    BY <1>1, <1>6, <1>8, <1>9, <1>11
  <1>13. Balances(new, positions'[b])
    BY <1>1, <1>4, <1>7, <1>11 DEF Balances, Checkpoint
  <1>14. History(l, cases[b]) /\ cases'[b] = cases[b]
    BY <1>2 DEF BooksInv, guardianVars
  <1>15. History(new, cases'[b])
    <2>1. CASE ~l.active
      <3>1. new.unwinds = l.unwinds
        BY <1>11, <2>1, Zenon
      <3>2. QED
        BY <1>11, <1>14, <3>1, SameHistory
    <2>2. CASE l.active
      <3> DEFINE w == [LastUnwind(l) EXCEPT !.liquidated = e.collateralSeized]
      <3>1. new.unwinds = WithLast(l, w)
        BY <1>11, <2>2, Zenon
      <3>2. /\ LastUnwind(l) \in Unwind /\ LastUnwind(l).outcome = "open"
            /\ UnderWay(LastUnwind(l), cases[b])
        BY <1>1, <1>14, <2>2, LastIsOpen
      <3>3. w \in Unwind
        BY <1>8, <3>2, Zenon DEF Unwind
      <3>4. /\ w.reason = LastUnwind(l).reason /\ w.flaggedAt = LastUnwind(l).flaggedAt
            /\ w.graceEndsAt = LastUnwind(l).graceEndsAt
            /\ w.started = LastUnwind(l).started
            /\ w.steps = LastUnwind(l).steps /\ w.outcome = LastUnwind(l).outcome
        BY <3>2 DEF Unwind
      <3> HIDE DEF w
      <3>5. UnderWay(w, cases'[b]) /\ Ended(w) /\ w.outcome = "open"
        BY <1>14, <3>2, <3>4, Zenon DEF UnderWay, Ended
      <3>6. /\ new.guardianState = cases'[b].state
            /\ new.active <=> cases'[b].state \in {"FLAGGED", "UNWINDING"}
            /\ w.outcome = "open" <=> new.active
        BY <1>11, <1>14, <2>2, <3>5, Zenon DEF History
      <3>7. QED
        BY <1>1, <1>11, <1>14, <2>2, <3>1, <3>3, <3>5, <3>6, HistoryAmended, Zenon
    <2>3. QED
      BY <2>1, <2>2
  <1>16. \A u \in Users : cases'[u] = cases[u]
    BY <1>2, <1>11 DEF BooksInv, guardianVars, registryVars
  <1>17. QED
    BY <1>2, <1>5, <1>11, <1>12, <1>13, <1>15, <1>16 DEF Entry, Replayed

\* What the guardian alone does leaves the pool's side of the books.
LEMMA SameBalances ==
  ASSUME TypeOK, BooksInv, NEW b \in Users, UNCHANGED <<vars, registryVars>>,
         NEW new, new.checkpoint = ledgers[b].checkpoint,
         new.collateral = ledgers[b].collateral, new.interest = ledgers[b].interest
  PROVE  /\ Balances(new, positions'[b])
         /\ new.interest = ledgers[b].interest + (totalPooledAssets' - totalPooledAssets)
         /\ \A u \in Users : positions'[u] = positions[u]
  <1>1. ledgers[b].interest \in Nat /\ totalPooledAssets \in Nat
    BY BookFacts
  <1>2. UNCHANGED <<positions, totalPooledAssets>>
    BY DEF vars, poolVars, ledger, registryVars, totalPooledAssets
  <1>3. QED
    BY <1>1, <1>2 DEF BooksInv, Balances

LEMMA OtherCases ==
  ASSUME CasesInv, NEW b \in Users, NEW new, cases' = [cases EXCEPT ![b] = new]
  PROVE  cases'[b] = new /\ \A u \in Users \ {b} : cases'[u] = cases[u]
  BY DEF CasesInv, GuardianTypeOK

\* A flag opens a record; all the earlier ones are closed.
LEMMA FlagEntry ==
  ASSUME TypeOK, CasesInv, BooksInv, NEW b \in Users, Flagged(b)
  PROVE  Entry(b)
  <1> DEFINE l == ledgers[b]
             e == FlaggedEvent(b)
             w == [reason |-> e.reason, flaggedAt |-> now, graceEndsAt |-> e.graceEndsAt,
                   started |-> FALSE, steps |-> 0, liquidated |-> 0, outcome |-> "open"]
             new == onPositionFlagged(l, e)
  <1>1. /\ flag(b) /\ UNCHANGED <<vars, registryVars>> /\ Replayed(b, new)
    BY DEF Flagged, Flag, flag, othersUnchanged, vars
  <1>2. l \in BorrowerLedger /\ now \in Nat /\ History(l, cases[b])
    BY BookFacts DEF BooksInv
  <1>3. PICK case \in GuardianPosition :
          /\ cases' = [cases EXCEPT ![b] = case]
          /\ case.state = "FLAGGED" /\ case.flaggedAt = now
    BY <1>1, CaseWritten DEF CasesInv
  <1>4. cases'[b] = case /\ \A u \in Users \ {b} : cases'[u] = cases[u]
    BY <1>3, OtherCases
  <1>5. /\ e.reason = case.reason /\ e.graceEndsAt = case.graceEndsAt
        /\ e.reason \in Reason /\ e.graceEndsAt \in Nat
    BY <1>4 DEF FlaggedEvent, GuardianPosition
  <1>6. w \in Unwind
    BY <1>2, <1>5 DEF Unwind
  <1>7. /\ w.reason = case.reason /\ w.flaggedAt = case.flaggedAt
        /\ w.graceEndsAt = case.graceEndsAt /\ ~w.started /\ w.steps = 0 /\ w.outcome = "open"
    BY <1>3, <1>5
  <1>8. /\ new \in BorrowerLedger /\ new.guardianState = "FLAGGED" /\ new.active
        /\ new.unwinds = Append(l.unwinds, w)
        /\ new.checkpoint = l.checkpoint /\ new.interest = l.interest
        /\ new.collateral = l.collateral
    BY <1>2, <1>5, FlagWritten
  <1> HIDE DEF w, new, e
  <1>9. cases[b].state \notin {"FLAGGED", "UNWINDING"}
    BY <1>1 DEF flag, Flaggable
  <1>10. ~l.active
    BY <1>2, <1>9, Zenon DEF History
  <1>11. History(new, cases'[b])
    <2> DEFINE n == Len(l.unwinds)
    <2>1. l.unwinds \in Seq(Unwind) /\ n \in Nat
      BY <1>2 DEF BorrowerLedger
    <2>2. /\ Len(new.unwinds) = n + 1 /\ new.unwinds[n + 1] = w
          /\ \A i \in 1..n : new.unwinds[i] = l.unwinds[i]
      BY <1>6, <1>8, <2>1
    <2>3. LastUnwind(new) = w /\ Len(new.unwinds) > 0
      BY <2>1, <2>2 DEF LastUnwind
    <2>4. \A i \in 1..n : l.unwinds[i].outcome # "open" /\ Ended(l.unwinds[i])
      BY <1>2, <1>10, Zenon DEF History
    <2>5. UnderWay(w, case) /\ Ended(w)
      BY <1>3, <1>7, Zenon DEF UnderWay, Ended
    <2>6. ASSUME NEW i \in 1..Len(new.unwinds)
          PROVE  /\ new.unwinds[i].outcome = "open" <=> (new.active /\ i = Len(new.unwinds))
                 /\ Ended(new.unwinds[i])
      <3>1. CASE i = n + 1
        BY <1>7, <1>8, <2>2, <2>5, <3>1, Zenon
      <3>2. CASE i # n + 1
        <4>1. i \in 1..n /\ i # Len(new.unwinds)
          BY <2>1, <2>2, <3>2
        <4>2. QED
          BY <2>2, <2>4, <4>1, Zenon
      <3>3. QED
        BY <3>1, <3>2
    <2>7. QED
      BY <1>3, <1>4, <1>8, <2>3, <2>5, <2>6, Zenon DEF History
  <1>12. /\ Balances(new, positions'[b])
         /\ new.interest = l.interest + (totalPooledAssets' - totalPooledAssets)
         /\ \A u \in Users : positions'[u] = positions[u]
    BY <1>1, <1>8, SameBalances
  <1>13. QED
    BY <1>1, <1>4, <1>8, <1>11, <1>12 DEF Entry, Replayed

LEMMA ReinstateEntry ==
  ASSUME TypeOK, CasesInv, BooksInv, NEW b \in Users, Reinstated(b)
  PROVE  Entry(b)
  <1> DEFINE l == ledgers[b]
             w == [LastUnwind(l) EXCEPT !.outcome = "reinstated"]
             new == onPositionReinstated(l)
  <1>1. /\ reinstate(b) /\ UNCHANGED <<vars, registryVars>> /\ Replayed(b, new)
    BY DEF Reinstated, Reinstate, reinstate, othersUnchanged, vars
  <1>2. l \in BorrowerLedger /\ History(l, cases[b])
    BY BookFacts DEF BooksInv
  <1>3. cases[b].state = "FLAGGED" /\ cases' = [cases EXCEPT ![b] = NoCase]
    BY <1>1, CaseWritten DEF CasesInv
  <1>4. cases'[b] = NoCase /\ \A u \in Users \ {b} : cases'[u] = cases[u]
    BY <1>3, OtherCases
  <1>5. l.active
    BY <1>2, <1>3, Zenon DEF History
  <1>6. Len(l.unwinds) > 0 /\ LastUnwind(l) \in Unwind
    BY <1>2, <1>5, LastIsOpen
  <1>7. /\ new \in BorrowerLedger /\ new.guardianState = "HEALTHY" /\ ~new.active
        /\ new.unwinds = WithLast(l, w)
        /\ new.checkpoint = l.checkpoint /\ new.interest = l.interest
        /\ new.collateral = l.collateral
    BY <1>2, <1>5, <1>6, ReinstatementWritten
  <1>8. w \in Unwind
    BY <1>6, Zenon DEF Unwind
  <1>9. w.outcome = "reinstated"
    BY <1>6 DEF Unwind
  <1> HIDE DEF new, w
  <1>10. NoCase.state = "HEALTHY"
    BY DEF NoCase
  <1>11. History(new, NoCase)
    BY <1>2, <1>5, <1>7, <1>8, <1>9, <1>10, HistoryAmended DEF Ended
  <1>12. /\ Balances(new, positions'[b])
         /\ new.interest = l.interest + (totalPooledAssets' - totalPooledAssets)
         /\ \A u \in Users : positions'[u] = positions[u]
    BY <1>1, <1>7, SameBalances
  <1>13. QED
    BY <1>1, <1>4, <1>7, <1>11, <1>12 DEF Entry, Replayed

LEMMA CompletionEntry ==
  ASSUME TypeOK, CasesInv, BooksInv, NEW b \in Users, UnwindCompleted(b)
  PROVE  Entry(b)
  <1> DEFINE l == ledgers[b]
             w == [LastUnwind(l) EXCEPT !.outcome = "completed"]
             new == onUnwindCompleted(l)
  <1>1. /\ completeUnwind(b) /\ UNCHANGED <<vars, registryVars>> /\ Replayed(b, new)
    BY DEF UnwindCompleted, CompleteUnwind, completeUnwind, othersUnchanged, vars
  <1>2. l \in BorrowerLedger /\ History(l, cases[b])
    BY BookFacts DEF BooksInv
  <1>3. PICK case \in GuardianPosition :
          /\ cases[b].state = "UNWINDING" /\ cases' = [cases EXCEPT ![b] = case]
          /\ case.state = "RESOLVED"
    BY <1>1, CaseWritten DEF CasesInv
  <1>4. cases'[b] = case /\ \A u \in Users \ {b} : cases'[u] = cases[u]
    BY <1>3, OtherCases
  <1>5. l.active
    BY <1>2, <1>3, Zenon DEF History
  <1>6. /\ Len(l.unwinds) > 0 /\ LastUnwind(l) \in Unwind
        /\ UnderWay(LastUnwind(l), cases[b])
    BY <1>2, <1>5, LastIsOpen
  <1>7. LastUnwind(l).started /\ LastUnwind(l).steps = 1
    BY <1>3, <1>6, Zenon DEF UnderWay
  <1>8. /\ new \in BorrowerLedger /\ new.guardianState = "RESOLVED" /\ ~new.active
        /\ new.unwinds = WithLast(l, w)
        /\ new.checkpoint = l.checkpoint /\ new.interest = l.interest
        /\ new.collateral = l.collateral
    BY <1>2, <1>5, <1>6, CompletionWritten
  <1>9. w \in Unwind
    BY <1>6, Zenon DEF Unwind
  <1>10. /\ w.outcome = "completed" /\ w.started = LastUnwind(l).started
         /\ w.steps = LastUnwind(l).steps
    BY <1>6 DEF Unwind
  <1> HIDE DEF new, w
  <1>11. Ended(w) /\ w.outcome # "open"
    BY <1>7, <1>10, Zenon DEF Ended
  <1>12. History(new, case)
    BY <1>2, <1>3, <1>5, <1>8, <1>9, <1>11, HistoryAmended
  <1>13. /\ Balances(new, positions'[b])
         /\ new.interest = l.interest + (totalPooledAssets' - totalPooledAssets)
         /\ \A u \in Users : positions'[u] = positions[u]
    BY <1>1, <1>8, SameBalances
  <1>14. QED
    BY <1>1, <1>4, <1>8, <1>12, <1>13 DEF Entry, Replayed

\* The self-cure is told by three or four events in one transaction.
LEMMA StartEntry ==
  ASSUME TypeOK, CasesInv, BooksInv, NEW b \in Users, UnwindStarted(b)
  PROVE  Entry(b)
  <1> DEFINE l == ledgers[b]
             pos == positions[b]
             e == PaidEvent(b)
             begun == onUnwindStarted(l)
             cured == onCollateralAppliedToDebt(begun, e)
             ended == onUnwindCompleted(cured)
             w1 == [LastUnwind(l) EXCEPT !.started = TRUE]
             w2 == [w1 EXCEPT !.steps = @ + 1]
             w3 == [w2 EXCEPT !.outcome = "completed"]
  <1>1. /\ startUnwind(b) /\ UNCHANGED <<envVars, registryVars>>
        /\ Replayed(b, IF cases'[b].state = "RESOLVED" THEN ended ELSE cured)
    BY DEF UnwindStarted, StartUnwind, othersUnchanged
  <1>2. /\ l \in BorrowerLedger /\ History(l, cases[b]) /\ b \in Borrowers /\ now \in Nat
    BY BookFacts DEF BooksInv
  <1>3. PICK case \in GuardianPosition :
          /\ cases[b].state = "FLAGGED" /\ cases' = [cases EXCEPT ![b] = case]
          /\ case.state \in {"UNWINDING", "RESOLVED"}
          /\ case.reason = cases[b].reason /\ case.flaggedAt = cases[b].flaggedAt
          /\ case.graceEndsAt = cases[b].graceEndsAt
    BY <1>1, CaseWritten DEF CasesInv
  <1>4. cases'[b] = case /\ \A u \in Users \ {b} : cases'[u] = cases[u]
    BY <1>3, OtherCases
  <1>5. applyCollateralToDebt(Self, b, MaxUint) /\ MaxUint \in Nat
    BY <1>1, DeployedTogether, PoolConstants DEF startUnwind
  <1>6. PICK after \in BorrowerPosition, applied \in Nat : SettledTo(b, after, applied, applied)
    BY <1>2, <1>5, SelfCureSettles DEF Cured
  <1>7. positions'[b] = after /\ after.lastAccrualTimestamp = now /\ after.collateral \in Nat
    BY <1>2, <1>6, SettledPosition DEF BorrowerPosition
  <1>8. \A u \in Users \ {b} : positions'[u] = positions[u]
    BY <1>2, <1>5, SelfCureSettles, OthersKeepTheirs, DeployedTogether DEF Settles
  <1>9. l.active
    BY <1>2, <1>3, Zenon DEF History
  <1>10. /\ Len(l.unwinds) > 0 /\ LastUnwind(l) \in Unwind
         /\ LastUnwind(l).outcome = "open" /\ UnderWay(LastUnwind(l), cases[b])
    BY <1>2, <1>9, LastIsOpen
  <1>11. LastUnwind(l).steps = 0
    BY <1>3, <1>10, Zenon DEF UnderWay
  <1>12. /\ begun \in BorrowerLedger /\ begun.guardianState = "UNWINDING"
         /\ begun.unwinds = WithLast(l, w1)
         /\ begun.checkpoint = l.checkpoint /\ begun.interest = l.interest
         /\ begun.active = l.active
    BY <1>2, <1>9, <1>10, StartWritten
  <1>13. w1 \in Unwind /\ w1.steps = 0
    <2>1. w1 \in Unwind
      BY <1>10, Zenon DEF Unwind
    <2>2. w1.steps = 0
      BY <1>10, <1>11 DEF Unwind
    <2>3. QED
      BY <2>1, <2>2
  <1>14. /\ w1.started /\ w1.outcome = "open" /\ w1.reason = LastUnwind(l).reason
         /\ w1.flaggedAt = LastUnwind(l).flaggedAt /\ w1.graceEndsAt = LastUnwind(l).graceEndsAt
    BY <1>10 DEF Unwind
  <1> HIDE DEF begun, w1
  <1>15. w2 \in Unwind /\ w2.steps = 1
    <2>1. w2 = [w1 EXCEPT !.steps = 1]
      BY <1>13
    <2>2. [w1 EXCEPT !.steps = 1] \in Unwind
      BY <1>13, Zenon DEF Unwind
    <2>3. [w1 EXCEPT !.steps = 1].steps = 1
      BY <1>13 DEF Unwind
    <2>4. QED
      BY <2>1, <2>2, <2>3
  <1>16. /\ w2.started = w1.started /\ w2.outcome = w1.outcome /\ w2.reason = w1.reason
         /\ w2.flaggedAt = w1.flaggedAt /\ w2.graceEndsAt = w1.graceEndsAt
    BY <1>13 DEF Unwind
  <1> DEFINE c == Checkpoint(l.checkpoint.principal - e.principalPaid, e.remainingDebt)
  <1>17. /\ e.interestPaid \in Nat /\ e.interestPaid = totalPooledAssets' - totalPooledAssets
         /\ e.remainingCollateral = after.collateral
         /\ c \in CheckpointType /\ c.principal = after.principal
         /\ c.accruedInterest = after.accruedInterest /\ c.timestamp = now
    BY <1>6, PaidTold
  <1>18. /\ LastUnwind(begun) = w1 /\ Len(begun.unwinds) > 0
         /\ WithLast(begun, w2) = WithLast(l, w2)
    <2>1. LastUnwind(begun) = w1 /\ WithLast(begun, w2) = WithLast(l, w2)
      BY <1>2, <1>10, <1>12, <1>13, <1>15, WrittenAgain
    <2>2. Len(begun.unwinds) = Len(l.unwinds)
      BY <1>2, <1>10, <1>12, <1>13, WithLastType
    <2>3. QED
      BY <1>10, <2>1, <2>2
  <1>19. /\ cured \in BorrowerLedger /\ cured.checkpoint = c
         /\ cured.interest = l.interest + e.interestPaid
         /\ cured.collateral = after.collateral
         /\ cured.unwinds = WithLast(l, w2)
         /\ cured.guardianState = "UNWINDING"
         /\ cured.active
    <2>1. begun.active
      BY <1>9, <1>12, Zenon
    <2>2. /\ cured \in BorrowerLedger
          /\ cured.checkpoint =
               Checkpoint(begun.checkpoint.principal - e.principalPaid, e.remainingDebt)
          /\ cured.interest = begun.interest + e.interestPaid
          /\ cured.collateral = e.remainingCollateral
          /\ cured.unwinds = WithLast(begun, [LastUnwind(begun) EXCEPT !.steps = @ + 1])
          /\ cured.guardianState = begun.guardianState
          /\ cured.active = begun.active
      BY <1>7, <1>12, <1>17, <1>18, <2>1, CureWritten
    <2> HIDE DEF cured
    <2>3. QED
      BY <1>12, <1>17, <1>18, <2>1, <2>2, Zenon
  <1> HIDE DEF cured, w2, c, e
  <1>20. History(cured, [case EXCEPT !.state = "UNWINDING"])
    <2> DEFINE unwinding == [case EXCEPT !.state = "UNWINDING"]
    <2>1. /\ unwinding.state = "UNWINDING" /\ unwinding.reason = case.reason
          /\ unwinding.flaggedAt = case.flaggedAt /\ unwinding.graceEndsAt = case.graceEndsAt
      BY DEF GuardianPosition
    <2> HIDE DEF unwinding
    <2>2. /\ w2.reason = unwinding.reason /\ w2.flaggedAt = unwinding.flaggedAt
          /\ w2.graceEndsAt = unwinding.graceEndsAt
      BY <1>3, <1>10, <1>14, <1>16, <2>1, Zenon DEF UnderWay
    <2>3. w2.started /\ w2.steps = 1
      BY <1>14, <1>15, <1>16, Zenon
    <2>4. UnderWay(w2, unwinding)
      BY <2>1, <2>2, <2>3, Zenon DEF UnderWay
    <2>5. Ended(w2)
      BY <2>3, Zenon DEF Ended
    <2>6. w2.outcome = "open"
      BY <1>14, <1>16, Zenon
    <2>7. cured.active <=> unwinding.state \in {"FLAGGED", "UNWINDING"}
      BY <1>19, <2>1, Zenon
    <2>8. /\ cured.guardianState = unwinding.state
          /\ w2.outcome = "open" <=> cured.active
      BY <1>19, <2>1, <2>6, Zenon
    <2>9. History(cured, unwinding)
      BY <1>2, <1>9, <1>15, <1>19, <2>4, <2>5, <2>7, <2>8, HistoryAmended, Zenon
    <2>10. QED
      BY <2>9 DEF unwinding
  <1>21. l.interest + e.interestPaid = l.interest + (totalPooledAssets' - totalPooledAssets)
    BY <1>1, <1>17 DEF registryVars
  <1>22. CASE case.state = "UNWINDING"
    <2>1. [case EXCEPT !.state = "UNWINDING"] = case
      BY <1>22 DEF GuardianPosition
    <2>2. Balances(cured, positions'[b]) /\ History(cured, cases'[b])
      BY <1>2, <1>4, <1>7, <1>17, <1>19, <1>20, <2>1 DEF Balances, BorrowerPosition
    <2>3. ledgers' = [ledgers EXCEPT ![b] = cured] /\ UNCHANGED lent
      BY <1>1, <1>4, <1>22 DEF Replayed
    <2>4. QED
      BY <1>2, <1>4, <1>8, <1>19, <1>21, <2>2, <2>3 DEF Entry
  <1>23. CASE case.state = "RESOLVED"
    <2>1. Len(cured.unwinds) > 0 /\ LastUnwind(cured) = w2 /\ w3 \in Unwind
          /\ WithLast(cured, w3) = WithLast(l, w3)
      <3>1. w3 \in Unwind
        BY <1>15, Zenon DEF Unwind
      <3>2. Len(cured.unwinds) = Len(l.unwinds)
        BY <1>2, <1>10, <1>15, <1>19, WithLastType
      <3>3. QED
        BY <1>2, <1>10, <1>15, <1>19, <3>1, <3>2, WrittenAgain
    <2>2. /\ ended \in BorrowerLedger /\ ended.guardianState = "RESOLVED" /\ ~ended.active
          /\ ended.unwinds = WithLast(cured, [LastUnwind(cured) EXCEPT !.outcome = "completed"])
          /\ ended.checkpoint = cured.checkpoint /\ ended.interest = cured.interest
          /\ ended.collateral = cured.collateral
      BY <1>19, <2>1, CompletionWritten
    <2> HIDE DEF ended
    <2>3. ended.unwinds = WithLast(l, w3)
      BY <2>1, <2>2
    <2>4. w3.outcome = "completed" /\ w3.started = w2.started /\ w3.steps = w2.steps
      BY <1>15 DEF Unwind
    <2> HIDE DEF w3
    <2>5. Ended(w3) /\ w3.outcome # "open"
      BY <1>14, <1>15, <1>16, <2>4, Zenon DEF Ended
    <2>6. History(ended, case)
      BY <1>2, <1>9, <1>23, <2>1, <2>2, <2>3, <2>5, HistoryAmended
    <2>7. Balances(ended, positions'[b])
      BY <1>2, <1>7, <1>17, <1>19, <2>2 DEF Balances, BorrowerPosition
    <2>8. ledgers' = [ledgers EXCEPT ![b] = ended] /\ UNCHANGED lent
      BY <1>1, <1>4, <1>23 DEF Replayed
    <2>9. QED
      BY <1>2, <1>4, <1>8, <1>19, <1>21, <2>2, <2>6, <2>7, <2>8 DEF Entry
  <1>24. QED
    BY <1>3, <1>22, <1>23

LEMMA PositionMovesEntry ==
  ASSUME TypeOK, TypeOK', BooksInv, NEW b \in Users, PositionMoves(b)
  PROVE  Entry(b)
  <1>1. PICK amount \in Nat :
          \/ postCollateral(b, amount) /\ Replayed(b, onCollateral(ledgers[b], CollateralEvent(b)))
          \/ borrow(b, amount) /\ Replayed(b, onBorrow(ledgers[b], BorrowEvent(b)))
          \/ repay(b, amount) /\ Replayed(b, onRepay(ledgers[b], PaidEvent(b)))
          \/ /\ withdrawCollateral(b, amount)
             /\ Replayed(b, onCollateral(ledgers[b], CollateralEvent(b)))
    BY PoolConstants DEF PositionMoves
  <1>2. UNCHANGED <<envVars, registryVars, gateVars, guardianVars>>
    BY DEF PositionMoves
  <1>3. QED
    BY <1>1, <1>2, PostEntry, LoanEntry, RepayEntry, WithdrawalEntry

-----------------------------------------------------------------------------
(* The books agree with the chain after every step *)

LEMMA EntryKeepsBooks ==
  ASSUME BooksInv, NEW b \in Users, Entry(b)
  PROVE  BooksInv'
  <1>1. PICK new \in BorrowerLedger :
          /\ ledgers' = [ledgers EXCEPT ![b] = new]
          /\ Balances(new, positions'[b]) /\ History(new, cases'[b])
          /\ \A u \in Users \ {b} : /\ positions'[u] = positions[u] /\ cases'[u] = cases[u]
    BY DEF Entry
  <1>2. QED
    BY <1>1, OneBookWritten

\* What is told to nobody's ledger changes nothing a ledger tells.
LEMMA UntoldKeepsTruth ==
  ASSUME NotReplayed
  PROVE  UNCHANGED <<ledgers, positions, cases>>
  <1>1. UNCHANGED ledgers
    BY DEF NotReplayed
  <1>2. CASE TimePasses
    BY <1>1, <1>2 DEF TimePasses, registryVars, guardianVars, poolVars, ledger
  <1>3. CASE FactsChange
    BY <1>1, <1>3 DEF FactsChange, guardianVars, poolVars, ledger
  <1>4. CASE /\ LenderStep \/ \E r \in BaseRates : setBaseRateBpsPerSecond(r)
             /\ UNCHANGED <<envVars, registryVars, gateVars, guardianVars>>
    <2>1. UNCHANGED positions
      <3>1. ASSUME NEW lender \in Lenders, NEW amount \in Amounts,
                   deposit(lender, amount) \/ withdraw(lender, amount)
            PROVE  UNCHANGED positions
        BY <3>1 DEF deposit, withdraw
      <3>2. ASSUME NEW r \in BaseRates, setBaseRateBpsPerSecond(r)
            PROVE  UNCHANGED positions
        BY <3>2 DEF setBaseRateBpsPerSecond, setParams, ledger
      <3>3. QED
        BY <1>4, <3>1, <3>2 DEF LenderStep
    <2>2. QED
      BY <1>1, <1>4, <2>1 DEF registryVars, guardianVars
  <1>5. CASE setGuardian(Self) /\ UNCHANGED <<envVars, registryVars, gateVars, guardianVars>>
    BY <1>1, <1>5 DEF setGuardian, ledger, registryVars, guardianVars
  <1>6. QED
    BY <1>1, <1>2, <1>3, <1>4, <1>5 DEF NotReplayed

LEMMA AuditStepKinds ==
  ASSUME TypeOK, TypeOK', CasesInv, BooksInv,
         [AuditNext]_<<revocaVars, auditVars>>
  PROVE  \/ NotReplayed
         \/ UNCHANGED <<revocaVars, auditVars>>
         \/ \E b \in Users : Entry(b)
  <1>1. ASSUME NEW b \in Users,
               \/ PositionMoves(b) \/ Liquidated(b)
               \/ Flagged(b) \/ Reinstated(b) \/ UnwindStarted(b) \/ UnwindCompleted(b)
        PROVE  Entry(b)
    BY <1>1, PositionMovesEntry, LiquidationEntry, FlagEntry, ReinstateEntry,
       StartEntry, CompletionEntry
  <1>2. QED
    BY <1>1 DEF AuditNext

LEMMA BooksStep ==
  ASSUME TypeOK, TypeOK', CasesInv, BooksInv,
         [AuditNext]_<<revocaVars, auditVars>>
  PROVE  BooksInv'
  <1>1. CASE UNCHANGED <<ledgers, positions, cases>>
    BY <1>1 DEF BooksInv, Balances, History, LastUnwind, UnderWay, Ended
  <1>2. CASE UNCHANGED <<revocaVars, auditVars>>
    BY <1>1, <1>2 DEF revocaVars, auditVars, vars, poolVars, ledger, guardianVars, registryVars
  <1>3. QED
    BY <1>1, <1>2, AuditStepKinds, UntoldKeepsTruth, EntryKeepsBooks

LEMMA BooksInductive == AuditSpec => []BooksInv
  <1>1. AuditInit => BooksInv
    BY BooksInit
  <1>2. /\ TypeOK /\ TypeOK' /\ CasesInv /\ BooksInv
        /\ [AuditNext]_<<revocaVars, auditVars>>
        => BooksInv'
    BY BooksStep
  <1>3. QED
    BY <1>1, <1>2, ContractsSound, PTL DEF AuditSpec

(***************************************************************************)
(* reconstruct.ts rebuilds from the logs alone the collateral, principal   *)
(* and guardian state the contracts hold, for any number of borrowers and  *)
(* whatever they, the keeper, the liquidators and the attestors did, in    *)
(* whatever order.                                                         *)
(***************************************************************************)
THEOREM AuditMatchesChain == AuditSpec => []ReplayMatchesChain
  <1>1. BooksInv => ReplayMatchesChain
    BY DEF BooksInv, Balances, History, ReplayMatchesChain
  <1>2. QED
    BY <1>1, BooksInductive, PTL

(***************************************************************************)
(* Where the last accrual is one an event reported, the projected debt is  *)
(* what currentDebt returns to the unit: the report's rounding is the      *)
(* contract's, for every principal, rate and time elapsed.                 *)
(***************************************************************************)
THEOREM AuditDebtExact == AuditSpec => []DebtMatchesUnlessAccruedSilently
  <1>1. ASSUME TypeOK, BooksInv
        PROVE  DebtMatchesUnlessAccruedSilently
    <2>1. SUFFICES ASSUME NEW u \in Users,
                          positions[u].lastAccrualTimestamp = ledgers[u].checkpoint.timestamp
                   PROVE  reconstructedDebt(u) = currentDebt(u)
      BY DEF DebtMatchesUnlessAccruedSilently
    <2>2. /\ ledgers[u].checkpoint.principal = positions[u].principal
          /\ ledgers[u].checkpoint.accruedInterest = positions[u].accruedInterest
      BY <1>1, <2>1 DEF BooksInv, Balances
    <2> DEFINE elapsed == now - positions[u].lastAccrualTimestamp
               rate == currentInterestRate
    <2>3. elapsed \in Int /\ rate \in Nat /\ u \in Borrowers
      BY <1>1, BookFacts, RateType DEF BorrowerPosition
    <2> HIDE DEF elapsed, rate
    <2>4. positions[u].principal = 0 =>
            (positions[u].principal * (elapsed * rate)) \div BPS = 0
      BY <2>3, PolicyConstants
    <2>5. projectPendingInterest(positions[u].principal, elapsed, rate) = pendingInterest(u)
      BY <2>4 DEF projectPendingInterest, pendingInterest, elapsed, rate
    <2>6. reconstructedDebt(u) =
            positions[u].principal + positions[u].accruedInterest
              + projectPendingInterest(positions[u].principal, elapsed, rate)
      BY <2>1, <2>2, Zenon DEF reconstructedDebt, elapsed, rate
    <2>7. QED
      BY <2>5, <2>6, Zenon DEF currentDebt, owed
  <1>2. QED
    BY <1>1, ContractsSound, BooksInductive, PTL

(***************************************************************************)
(* No case is lost from the history, none ends twice, and the one under    *)
(* way is the guardian's own, however many a borrower has been through.    *)
(***************************************************************************)
THEOREM AuditUnwindHistory == AuditSpec => []UnwindHistoryTold
  <1>1. ASSUME BooksInv
        PROVE  UnwindHistoryTold
    <2>1. SUFFICES ASSUME NEW u \in Users
                   PROVE  /\ ledgers[u].active <=> cases[u].state \in {"FLAGGED", "UNWINDING"}
                          /\ \A i \in DOMAIN ledgers[u].unwinds :
                               /\ ledgers[u].unwinds[i].outcome = "open"
                                    <=> (ledgers[u].active /\ i = Len(ledgers[u].unwinds))
                               /\ ledgers[u].unwinds[i].outcome = "completed" =>
                                    /\ ledgers[u].unwinds[i].started
                                    /\ ledgers[u].unwinds[i].steps = 1
                          /\ ledgers[u].active =>
                               UnderWay(Last(ledgers[u].unwinds), cases[u])
      BY Zenon DEF UnwindHistoryTold, UnderWay
    <2>2. History(ledgers[u], cases[u]) /\ ledgers[u].unwinds \in Seq(Unwind)
      BY <1>1 DEF BooksInv, BorrowerLedger
    <2>3. DOMAIN ledgers[u].unwinds = 1..Len(ledgers[u].unwinds)
      BY <2>2
    <2>4. Last(ledgers[u].unwinds) = LastUnwind(ledgers[u])
      BY DEF Last, LastUnwind
    <2>5. QED
      BY <2>2, <2>3, <2>4, Zenon DEF History, Ended
  <1>2. QED
    BY <1>1, BooksInductive, PTL

-----------------------------------------------------------------------------
(* The interest told and the interest earned *)

interests == [u \in Users |-> ledgers[u].interest]

InterestInv == lent \in Int /\ totalPooledAssets = lent + SumOn(interests, Users)

LEMMA InterestsType == BooksInv => interests \in [Users -> Nat]
  BY DEF BooksInv, BorrowerLedger, interests

LEMMA NextInterestsType == BooksInv' => interests' \in [Users -> Nat]
  <1>1. BooksInv' => (interests \in [Users -> Nat])'
    BY InterestsType, PTL
  <1>2. QED
    BY <1>1

LEMMA NextPooledType == TypeOK' => totalPooledAssets' \in Nat
  <1>1. TypeOK => totalPooledAssets \in Nat
    BY DEF TypeOK, LedgerTypeOK, totalPooledAssets
  <1>2. TypeOK' => (totalPooledAssets \in Nat)'
    BY <1>1, PTL
  <1>3. QED
    BY <1>2

LEMMA InterestStep ==
  ASSUME TypeOK, TypeOK', CasesInv, BooksInv, BooksInv', InterestInv,
         [AuditNext]_<<revocaVars, auditVars>>
  PROVE  InterestInv'
  <1>1. /\ totalPooledAssets \in Nat /\ totalPooledAssets' \in Nat
        /\ interests \in [Users -> Nat] /\ interests' \in [Users -> Nat]
    <2>1. totalPooledAssets \in Nat
      BY DEF TypeOK, LedgerTypeOK, totalPooledAssets
    <2>2. totalPooledAssets' \in Nat
      BY NextPooledType
    <2>3. QED
      BY <2>1, <2>2, InterestsType, NextInterestsType
  <1>2. IsFiniteSet(Users)
    BY FiniteAccounts, DeployedTogether
  <1>3. SumOn(interests, Users) \in Nat
    BY <1>1, <1>2, SumType
  <1>4. SUFFICES /\ lent' \in Int
                 /\ totalPooledAssets' = lent' + SumOn(interests', Users)
    BY DEF InterestInv, SumOn, Sums
  <1>5. CASE NotReplayed
    <2>1. interests' = interests /\ lent' = lent + (totalPooledAssets' - totalPooledAssets)
      BY <1>5 DEF NotReplayed, interests
    <2>2. QED
      BY <1>1, <1>3, <2>1 DEF InterestInv
  <1>6. CASE UNCHANGED <<revocaVars, auditVars>>
    <2>1. interests' = interests /\ lent' = lent /\ totalPooledAssets' = totalPooledAssets
      BY <1>6 DEF revocaVars, auditVars, vars, poolVars, ledger, interests, totalPooledAssets
    <2>2. QED
      BY <2>1 DEF InterestInv
  <1>7. ASSUME NEW b \in Users, Entry(b)
        PROVE  /\ lent' \in Int
               /\ totalPooledAssets' = lent' + SumOn(interests', Users)
    <2>1. PICK new \in BorrowerLedger :
            /\ ledgers' = [ledgers EXCEPT ![b] = new] /\ lent' = lent
            /\ new.interest = ledgers[b].interest + (totalPooledAssets' - totalPooledAssets)
      BY <1>7 DEF Entry
    <2>2. \A u \in Users : ledgers'[u] = IF u = b THEN new ELSE ledgers[u]
      BY <2>1 DEF BooksInv
    <2>3. interests'[b] = interests[b] + (totalPooledAssets' - totalPooledAssets)
      BY <2>1, <2>2 DEF interests
    <2>4. \A u \in Users \ {b} : interests'[u] = interests[u]
      BY <2>2 DEF interests
    <2>5. SumOn(interests', Users) = SumOn(interests, Users) - interests[b] + interests'[b]
      <3>1. \A g \in [Users -> Nat] :
              (\A u \in Users \ {b} : g[u] = interests[u]) =>
                SumOn(g, Users) = SumOn(interests, Users) - interests[b] + g[b]
        BY <1>1, <1>2, SumUpdate
      <3>2. QED
        BY <1>1, <2>4, <3>1, Zenon
    <2>6. interests[b] \in Nat /\ interests'[b] \in Nat
      BY <1>1
    <2>7. QED
      BY <1>1, <1>3, <2>1, <2>3, <2>5, <2>6 DEF InterestInv
  <1>8. QED
    BY <1>5, <1>6, <1>7, AuditStepKinds

(***************************************************************************)
(* The interest the report calls realized is what the pool gained for its  *)
(* lenders beyond their own deposits, to the unit: no repayment, self-cure *)
(* or liquidation counts interest twice or leaves any out.                 *)
(***************************************************************************)
THEOREM AuditInterestIsLendersGain == AuditSpec => []InterestIsWhatLendersGained
  <1>1. ASSUME AuditInit
        PROVE  InterestInv
    <2>1. interests = [u \in Users |-> 0]
      BY <1>1, NewLedgerType DEF AuditInit, interests
    <2>2. lent = 0 /\ totalPooledAssets = 0
      BY <1>1 DEF AuditInit, RevocaInit, Init, totalPooledAssets
    <2>3. SumOn(interests, Users) = 0
      BY <2>1, SumOfNothing, FiniteAccounts, DeployedTogether
    <2>4. QED
      BY <2>2, <2>3 DEF InterestInv
  <1>2. /\ TypeOK /\ TypeOK' /\ CasesInv /\ BooksInv /\ BooksInv' /\ InterestInv
        /\ [AuditNext]_<<revocaVars, auditVars>>
        => InterestInv'
    BY InterestStep
  <1>3. InterestInv => InterestIsWhatLendersGained
    <2>1. SumOver(interests) = SumOn(interests, Users)
      BY SumOverIsSumOn DEF interests
    <2>2. QED
      BY <2>1 DEF InterestInv, InterestIsWhatLendersGained, totalInterestRealized, interests
  <1>4. QED
    BY <1>1, <1>2, <1>3, ContractsSound, BooksInductive, PTL DEF AuditSpec
=============================================================================
