--------------------------- MODULE PoolLedgerProofs ---------------------------
(***************************************************************************)
(* The lenders' and the lending side's books: the pool's solvency, the     *)
(* order of settlement, what a share is worth, what a borrower can lose,   *)
(* and the totals, for every sequence of calls, every interest curve and   *)
(* every answer of the gate.                                               *)
(***************************************************************************)
EXTENDS LendingPoolProofs, FiniteSetTheorems

-----------------------------------------------------------------------------
(* Solvency *)

LEMMA SolvencyStep ==
  ASSUME TypeOK, Solvency, [Next]_vars
  PROVE  Solvency'
  <1>1. CASE UNCHANGED ledger
    BY <1>1 DEF ledger, Solvency
  <1>2. CASE LedgerStep
    <2>1. /\ idleLiquidity \in Nat /\ totalCollateral \in Nat /\ poolBalance \in Nat
          /\ poolBalance = idleLiquidity + totalCollateral
      BY DEF TypeOK, LedgerTypeOK, Solvency
    <2>2. CASE \E l \in Lenders, amount \in Nat : deposit(l, amount)
      BY <2>1, <2>2 DEF deposit, Solvency
    <2>3. CASE \E l \in Lenders, amount \in Nat : withdraw(l, amount)
      BY <2>1, <2>3 DEF withdraw, Solvency
    <2>4. CASE \E b \in Borrowers, amount \in Nat : postCollateral(b, amount)
      BY <2>1, <2>4 DEF postCollateral, Solvency
    <2>5. CASE \E b \in Borrowers, amount \in Nat : borrow(b, amount)
      BY <2>1, <2>5 DEF borrow, Solvency
    <2>6. CASE \E b \in Borrowers : Settles(b)
      BY <2>1, <2>6, SettlesIsSettlement DEF Settlement, SettledTo, Solvency
    <2>7. QED
      BY <1>2, <2>2, <2>3, <2>4, <2>5, <2>6 DEF LedgerStep
  <1>3. QED
    BY <1>1, <1>2, StepKinds DEF vars, poolVars, Environment

(***************************************************************************)
(* The tokens the pool holds are always exactly the lenders' idle          *)
(* liquidity and the borrowers' collateral.                                *)
(***************************************************************************)
THEOREM PoolSolvent == Spec => []Solvency
  <1>1. Init => Solvency
    BY DEF Init, Solvency
  <1>2. TypeOK /\ Solvency /\ [Next]_vars => Solvency'
    BY SolvencyStep
  <1>3. QED
    BY <1>1, <1>2, PoolTypeCorrect, PTL DEF Spec

-----------------------------------------------------------------------------
(* Interest first *)

\* One borrower's position is replaced; the others' are left alone.
LEMMA InterestFirstUpdate ==
  ASSUME TypeOK, InterestFirst, NEW b \in Borrowers, NEW pos,
         positions' = [positions EXCEPT ![b] = pos],
         pos.principal = 0 => pos.accruedInterest = 0
  PROVE  InterestFirst'
  BY DEF TypeOK, LedgerTypeOK, InterestFirst

LEMMA InterestFirstStep ==
  ASSUME TypeOK, InterestFirst, [Next]_vars
  PROVE  InterestFirst'
  <1>1. CASE UNCHANGED positions
    BY <1>1 DEF InterestFirst
  <1>2. ASSUME NEW b \in Borrowers, NEW amount \in Nat, postCollateral(b, amount)
        PROVE  InterestFirst'
    <2> DEFINE pos == [positions[b] EXCEPT !.collateral = positions[b].collateral + amount]
    <2>1. positions' = [positions EXCEPT ![b] = pos]
      BY <1>2 DEF postCollateral
    <2>2. pos.principal = positions[b].principal
          /\ pos.accruedInterest = positions[b].accruedInterest
      BY DEF TypeOK, LedgerTypeOK, BorrowerPosition
    <2>3. QED
      BY <2>1, <2>2, InterestFirstUpdate DEF InterestFirst
  <1>3. ASSUME NEW b \in Borrowers, NEW amount \in Nat, borrow(b, amount)
        PROVE  InterestFirst'
    <2> DEFINE pos == [accrued(b) EXCEPT !.principal = accrued(b).principal + amount]
    <2>1. positions' = [positions EXCEPT ![b] = pos] /\ amount > 0
      BY <1>3 DEF borrow
    <2>2. accrued(b) \in BorrowerPosition
      BY AccruedPosition
    <2>3. pos.principal = accrued(b).principal + amount /\ accrued(b).principal \in Nat
      BY <2>2 DEF BorrowerPosition
    <2>4. pos.principal # 0
      BY <2>1, <2>3
    <2> HIDE DEF pos
    <2>5. QED
      BY <2>1, <2>4, InterestFirstUpdate
  <1>4. ASSUME NEW b \in Borrowers, Settlement(b)
        PROVE  InterestFirst'
    <2>1. PICK after \in BorrowerPosition, paid \in Nat, lost \in Nat :
            SettledTo(b, after, paid, lost)
      BY <1>4 DEF Settlement
    <2>2. positions[b].principal \in Nat
      BY DEF TypeOK, LedgerTypeOK, BorrowerPosition
    <2>3. CASE positions[b].principal > 0
      BY <2>1, <2>3, InterestFirstUpdate DEF SettledTo
    <2>4. CASE positions[b].principal = 0
      <3>1. positions[b].accruedInterest = 0 /\ pendingInterest(b) = 0
        BY <2>4, PendingType DEF InterestFirst
      <3>2. positions[b].accruedInterest + pendingInterest(b) = 0
        BY <3>1
      <3>3. after.accruedInterest = 0 /\ positions' = [positions EXCEPT ![b] = after]
        BY <2>1, <3>2 DEF SettledTo
      <3>4. QED
        BY <3>3, InterestFirstUpdate
    <2>5. QED
      BY <2>2, <2>3, <2>4
  <1>5. CASE LedgerStep
    BY <1>1, <1>2, <1>3, <1>4, <1>5, SettlesIsSettlement DEF LedgerStep, deposit, withdraw
  <1>6. QED
    BY <1>1, <1>5, StepKinds DEF vars, poolVars, Environment, ledger

(***************************************************************************)
(* A position without principal owes nothing: no order of borrowing,       *)
(* repaying, self-cure and liquidation leaves interest behind.             *)
(***************************************************************************)
THEOREM PoolInterestFirst == Spec => []InterestFirst
  <1>1. Init => InterestFirst
    BY DEF Init, InterestFirst
  <1>2. TypeOK /\ InterestFirst /\ [Next]_vars => InterestFirst'
    BY InterestFirstStep
  <1>3. QED
    BY <1>1, <1>2, PoolTypeCorrect, PTL DEF Spec

-----------------------------------------------------------------------------
(* Shares *)

\* deposit mints at most what the deposit is worth.
LEMMA MintWorth ==
  ASSUME TypeOK, SharesBacked, NEW amount \in Nat,
         totalShares = 0 \/ totalPooledAssets > 0
  PROVE  /\ SharesMinted(amount) \in Nat
         /\ SharesMinted(amount) <= amount
         /\ totalShares > 0 =>
              SharesMinted(amount) * totalPooledAssets <= amount * totalShares
  <1> DEFINE P == totalPooledAssets
             S == totalShares
             m == (amount * S) \div P
  <1>1. P \in Nat /\ S \in Nat /\ S <= P
    BY DEF TypeOK, LedgerTypeOK, totalPooledAssets, SharesBacked
  <1>2. CASE S = 0
    BY <1>2 DEF SharesMinted
  <1>3. CASE S # 0
    <2>1. P > 0
      BY <1>1, <1>3
    <2>2. SharesMinted(amount) = m
      BY <1>3 DEF SharesMinted
    <2> HIDE DEF P, S
    <2>3. amount * S \in Nat /\ amount * S <= amount * P
      <3>1. S * amount <= P * amount
        BY <1>1, MulMono
      <3>2. QED
        BY <1>1, <3>1
    <2>4. m \in Nat /\ m * P <= amount * S
      BY <1>1, <2>1, <2>3, FloorDiv
    <2> HIDE DEF m
    <2>5. m * P <= amount * P
      BY <1>1, <2>3, <2>4
    <2>6. m <= amount
      BY <1>1, <2>1, <2>4, <2>5, MulCancel
    <2>7. QED
      BY <2>2, <2>4, <2>6 DEF P, S
  <1>4. QED
    BY <1>2, <1>3

\* withdraw burns at least what the withdrawal is worth: the clamp to the
\* lender's own shares never takes effect.
LEMMA BurnWorth ==
  ASSUME TypeOK, NEW l \in Lenders, NEW amount \in Nat, amount > 0,
         amount <= idleLiquidity, amount <= shareValue(l)
  PROVE  /\ totalShares > 0
         /\ SharesBurned(l, amount) \in Nat
         /\ amount * totalShares <= SharesBurned(l, amount) * totalPooledAssets
  <1> DEFINE P == totalPooledAssets
             S == totalShares
             s == sharesOf[l]
             c == CeilDiv(amount * S, P)
  <1>1. P \in Nat /\ P > 0 /\ S \in Nat /\ s \in Nat
    BY DEF TypeOK, LedgerTypeOK, totalPooledAssets
  <1>2. S > 0
    BY <1>1 DEF shareValue
  <1>3. amount <= (s * P) \div S
    BY <1>2 DEF shareValue
  <1>4. SharesBurned(l, amount) = Lesser(c, s)
    BY DEF SharesBurned
  <1> HIDE DEF P, S, s
  <1>5. s * P \in Nat /\ amount * S \in Nat
    BY <1>1
  <1>6. (s * P) \div S \in Nat /\ ((s * P) \div S) * S <= s * P
    BY <1>1, <1>2, <1>5, FloorDiv
  <1>7. amount * S <= s * P
    <2>1. amount * S <= ((s * P) \div S) * S
      BY <1>1, <1>3, <1>6, MulMono
    <2>2. QED
      <3> DEFINE q == (s * P) \div S
      <3>1. q * S \in Nat
        BY <1>1, <1>6
      <3> HIDE DEF q
      <3>2. QED
        BY <1>5, <1>6, <2>1, <3>1 DEF q
  <1>8. c \in Nat /\ amount * S <= c * P /\ c <= s
    BY <1>1, <1>5, <1>7, CeilDivCovers
  <1> HIDE DEF c
  <1>9. Lesser(c, s) = c
    BY <1>1, <1>8 DEF Lesser
  <1>10. QED
    BY <1>2, <1>4, <1>8, <1>9 DEF P, S

\* The two facts every ledger step has: shares stay backed, their price does not fall.
ShareStep == SharesBacked' /\ SharePriceStep

\* Steps that leave the shares alone and lose the lenders nothing.
LEMMA SameShares ==
  ASSUME TypeOK, SharesBacked, UNCHANGED totalShares,
         totalPooledAssets' \in Nat, totalPooledAssets <= totalPooledAssets'
  PROVE  ShareStep
  <1>1. totalPooledAssets \in Nat /\ totalShares \in Nat
    BY DEF TypeOK, LedgerTypeOK, totalPooledAssets
  <1>2. totalShares * totalPooledAssets <= totalShares * totalPooledAssets'
    <2> DEFINE P == totalPooledAssets
               Q == totalPooledAssets'
    <2>1. P \in Nat /\ Q \in Nat /\ P <= Q
      BY <1>1
    <2> HIDE DEF P, Q
    <2>2. totalShares * P <= totalShares * Q
      BY <1>1, <2>1, MulMonoLeft
    <2>3. QED
      BY <2>2 DEF P, Q
  <1>3. SharesBacked'
    <2> DEFINE P == totalPooledAssets
               Q == totalPooledAssets'
    <2>1. P \in Nat /\ Q \in Nat /\ P <= Q /\ totalShares <= P /\ totalShares' = totalShares
      BY <1>1 DEF SharesBacked
    <2> HIDE DEF P, Q
    <2>2. totalShares' <= Q
      BY <1>1, <2>1
    <2>3. QED
      BY <2>2 DEF SharesBacked, Q
  <1>4. SharePriceStep
    BY <1>2 DEF SharePriceStep
  <1>5. QED
    BY <1>3, <1>4 DEF ShareStep

LEMMA DepositShares ==
  ASSUME TypeOK, SharesBacked, NEW l \in Lenders, NEW amount \in Nat, deposit(l, amount)
  PROVE  ShareStep
  <1> DEFINE P == totalPooledAssets
             S == totalShares
             m == SharesMinted(amount)
  <1>1. P \in Nat /\ S \in Nat /\ S <= P
    BY DEF TypeOK, LedgerTypeOK, totalPooledAssets, SharesBacked
  <1>2. m \in Nat /\ m <= amount /\ (S > 0 => m * P <= amount * S)
    BY MintWorth DEF deposit
  <1>3. totalShares' = S + m /\ totalPooledAssets' = P + amount
    BY DEF deposit, totalPooledAssets, TypeOK, LedgerTypeOK
  <1> HIDE DEF P, S, m
  <1>4. S + m <= P + amount
    BY <1>1, <1>2
  <1>5. S > 0 => (S + m) * P <= S * (P + amount)
    <2>1. (S + m) * P = S * P + m * P /\ S * (P + amount) = S * P + amount * S
      BY <1>1, <1>2
    <2>2. m * P \in Nat /\ amount * S \in Nat /\ S * P \in Nat
      BY <1>1, <1>2
    <2>3. QED
      BY <1>2, <2>1, <2>2
  <1>6. QED
    BY <1>3, <1>4, <1>5 DEF ShareStep, SharesBacked, SharePriceStep, P, S

LEMMA WithdrawShares ==
  ASSUME TypeOK, SharesBacked, NEW l \in Lenders, NEW amount \in Nat, withdraw(l, amount)
  PROVE  ShareStep
  <1> DEFINE P == totalPooledAssets
             S == totalShares
             c == SharesBurned(l, amount)
  <1>1. P \in Nat /\ S \in Nat /\ S <= P /\ amount <= P
    BY DEF TypeOK, LedgerTypeOK, totalPooledAssets, SharesBacked, withdraw, withdrawPasses
  <1>2. S > 0 /\ c \in Nat /\ amount * S <= c * P
    BY BurnWorth DEF withdraw, withdrawPasses
  <1>3. totalShares' = S - c /\ totalPooledAssets' = P - amount /\ c <= S
    BY DEF withdraw, withdrawPasses, totalPooledAssets, TypeOK, LedgerTypeOK
  <1> HIDE DEF P, S, c
  <1>4. (S - c) * P <= S * (P - amount)
    <2>1. (S - c) * P = S * P - c * P /\ S * (P - amount) = S * P - amount * S
      BY <1>1, <1>2
    <2>2. c * P \in Nat /\ amount * S \in Nat /\ S * P \in Nat
      BY <1>1, <1>2
    <2>3. QED
      BY <1>2, <2>1, <2>2
  <1>5. S - c <= P - amount
    <2> DEFINE left == P - amount
    <2>1. left \in Nat /\ S - c \in Nat
      BY <1>1, <1>2, <1>3
    <2>2. S * left <= P * left
      BY <1>1, <2>1, MulMono
    <2> HIDE DEF left
    <2>3. (S - c) * P \in Nat /\ S * left \in Nat /\ P * left \in Nat /\ P * left = left * P
      BY <1>1, <2>1, MulNat
    <2>4. (S - c) * P <= left * P
      BY <1>4, <2>2, <2>3 DEF left
    <2>5. P > 0
      BY <1>1, <1>2
    <2>6. S - c <= left
      BY <1>1, <2>1, <2>4, <2>5, MulCancel
    <2>7. QED
      BY <2>6 DEF left
  <1>6. QED
    BY <1>3, <1>4, <1>5 DEF ShareStep, SharesBacked, SharePriceStep, P, S

LEMMA SharesStep ==
  ASSUME TypeOK, SharesBacked, [Next]_vars
  PROVE  ShareStep
  <1>1. CASE UNCHANGED ledger
    <2>1. totalPooledAssets \in Nat
      BY DEF TypeOK, LedgerTypeOK, totalPooledAssets
    <2>2. totalPooledAssets' = totalPooledAssets /\ UNCHANGED totalShares
      BY <1>1 DEF ledger, totalPooledAssets
    <2>3. QED
      BY <2>1, <2>2, SameShares
  <1>2. ASSUME NEW b \in Borrowers, NEW amount \in Nat,
               postCollateral(b, amount) \/ borrow(b, amount)
        PROVE  ShareStep
    <2>1. totalPooledAssets' = totalPooledAssets /\ totalPooledAssets \in Nat
          /\ UNCHANGED totalShares
      BY <1>2 DEF postCollateral, borrow, totalPooledAssets, TypeOK, LedgerTypeOK
    <2>2. QED
      BY <2>1, SameShares
  <1>3. ASSUME NEW b \in Borrowers, Settlement(b)
        PROVE  ShareStep
    <2>1. PICK after \in BorrowerPosition, paid \in Nat, lost \in Nat :
            SettledTo(b, after, paid, lost)
      BY <1>3 DEF Settlement
    <2>2. /\ idleLiquidity \in Nat /\ totalPrincipalOutstanding \in Nat
          /\ positions[b].principal \in Nat /\ after.principal \in Nat
      BY DEF TypeOK, LedgerTypeOK, BorrowerPosition
    <2>3. /\ UNCHANGED totalShares
          /\ totalPooledAssets' \in Nat /\ totalPooledAssets <= totalPooledAssets'
      BY <2>1, <2>2 DEF SettledTo, totalPooledAssets
    <2>4. QED
      BY <2>3, SameShares
  <1>4. CASE LedgerStep
    BY <1>2, <1>3, <1>4, DepositShares, WithdrawShares, SettlesIsSettlement DEF LedgerStep
  <1>5. QED
    BY <1>1, <1>4, StepKinds DEF vars, poolVars, Environment

(***************************************************************************)
(* Every share is always worth at least the token it was bought with, so   *)
(* deposit never divides by zero.                                          *)
(***************************************************************************)
THEOREM PoolSharesBacked == Spec => []SharesBacked
  <1>1. Init => SharesBacked
    BY DEF Init, SharesBacked, totalPooledAssets
  <1>2. TypeOK /\ SharesBacked /\ [Next]_vars => SharesBacked'
    BY SharesStep DEF ShareStep
  <1>3. QED
    BY <1>1, <1>2, PoolTypeCorrect, PTL DEF Spec

(***************************************************************************)
(* No call of anyone lowers the value of a share: the rounding of deposit  *)
(* and withdraw goes against the caller, and a settlement never returns    *)
(* less than the principal it retires.                                     *)
(***************************************************************************)
THEOREM PoolSharePriceNeverFalls == Spec => SharePriceNeverFalls
  <1>1. TypeOK /\ SharesBacked /\ [Next]_vars => [SharePriceStep]_vars
    BY SharesStep DEF ShareStep
  <1>2. QED
    BY <1>1, PoolTypeCorrect, PoolSharesBacked, PTL DEF Spec, SharePriceNeverFalls

-----------------------------------------------------------------------------
(* Debt *)

(***************************************************************************)
(* Debt is never forgiven: whatever a position's debt falls by, interest   *)
(* up to this block included, reaches the lenders' idle liquidity.         *)
(***************************************************************************)
THEOREM PoolDebtOnlyFallsIfPaid == Spec => DebtOnlyFallsIfPaid
  <1> DEFINE Kept ==
        \A b \in Borrowers :
          owed(positions'[b]) < owed(positions[b]) =>
            idleLiquidity' - idleLiquidity = currentDebt(b) - owed(positions'[b])
  <1>1. ASSUME TypeOK, [Next]_vars
        PROVE  Kept
    <2> HIDE DEF Kept
    <2>0. /\ positions \in [Borrowers -> BorrowerPosition]
          /\ \A b \in Borrowers : positions[b] \in BorrowerPosition /\ owed(positions[b]) \in Nat
      <3>1. positions \in [Borrowers -> BorrowerPosition]
        BY <1>1 DEF TypeOK, LedgerTypeOK
      <3>2. \A pos \in BorrowerPosition : owed(pos) \in Nat
        BY DEF BorrowerPosition, owed
      <3>3. QED
        BY <3>1, <3>2
    <2>1. CASE UNCHANGED positions
      BY <2>0, <2>1 DEF Kept
    <2>2. ASSUME NEW b \in Borrowers, NEW amount \in Nat, postCollateral(b, amount)
          PROVE  Kept
      <3> DEFINE pos == [positions[b] EXCEPT !.collateral = positions[b].collateral + amount]
      <3>1. positions' = [positions EXCEPT ![b] = pos]
        BY <2>2 DEF postCollateral
      <3>2. positions[b] \in BorrowerPosition
        BY <2>0
      <3>3. owed(pos) = owed(positions[b])
        BY <3>2 DEF owed, BorrowerPosition
      <3> HIDE DEF pos
      <3>4. QED
        BY <2>0, <3>1, <3>3 DEF Kept
    <2>3. ASSUME NEW b \in Borrowers, NEW amount \in Nat, borrow(b, amount)
          PROVE  Kept
      <3> DEFINE pos == [accrued(b) EXCEPT !.principal = accrued(b).principal + amount]
      <3>1. positions' = [positions EXCEPT ![b] = pos]
        BY <2>3 DEF borrow
      <3>2. /\ accrued(b) \in BorrowerPosition
            /\ accrued(b).principal = positions[b].principal
            /\ accrued(b).accruedInterest = positions[b].accruedInterest + pendingInterest(b)
            /\ pendingInterest(b) \in Nat
        BY <1>1, AccruedPosition, PendingType
      <3>3. owed(positions[b]) <= owed(pos)
        BY <2>0, <3>2 DEF owed, BorrowerPosition
      <3>4. owed(pos) \in Nat
        BY <2>0, <3>2 DEF owed, BorrowerPosition
      <3> HIDE DEF pos
      <3>5. \A c \in Borrowers : positions'[c] = IF c = b THEN pos ELSE positions[c]
        BY <2>0, <3>1
      <3>6. QED
        BY <2>0, <3>3, <3>4, <3>5 DEF Kept
    <2>4. ASSUME NEW b \in Borrowers, Settlement(b)
          PROVE  Kept
      <3>1. PICK after \in BorrowerPosition, paid \in Nat, lost \in Nat :
              SettledTo(b, after, paid, lost)
        BY <2>4 DEF Settlement
      <3>2. \A c \in Borrowers : positions'[c] = IF c = b THEN after ELSE positions[c]
        BY <2>0, <3>1 DEF SettledTo
      <3>3. currentDebt(b) \in Nat /\ idleLiquidity \in Nat
        BY <1>1, AccruedPosition DEF TypeOK, LedgerTypeOK
      <3>4. owed(after) = currentDebt(b) - paid /\ idleLiquidity' = idleLiquidity + paid
        BY <3>1 DEF SettledTo
      <3>5. QED
        BY <2>0, <3>2, <3>3, <3>4 DEF Kept
    <2>5. CASE LedgerStep
      BY <1>1, <2>1, <2>2, <2>3, <2>4, <2>5, SettlesIsSettlement DEF LedgerStep, deposit, withdraw
    <2>6. QED
      BY <1>1, <2>1, <2>5, StepKinds DEF vars, poolVars, Environment, ledger
  <1>2. QED
    BY <1>1, PoolTypeCorrect, PTL DEF Spec, DebtOnlyFallsIfPaid

-----------------------------------------------------------------------------
(* What may happen to one position *)

Posted(c) ==
  \E amount \in Nat :
    positions'[c] = [positions[c] EXCEPT !.collateral = positions[c].collateral + amount]

\* What borrow asks of the borrower and leaves behind
Borrowed(c) ==
  /\ cleared(c)
  /\ positions'[c].collateral = positions[c].collateral
  /\ positions'[c].principal > positions[c].principal
  /\ positions'[c].lastAccrualTimestamp = now
  /\ owed(positions'[c]) > currentDebt(c)
  /\ Backed(owed(positions'[c]), positions'[c].collateral, currentRatioBps(c))

LEMMA BorrowLeaves ==
  ASSUME TypeOK, NEW b \in Borrowers, NEW amount \in Nat, borrow(b, amount)
  PROVE  Borrowed(b) /\ \A c \in Borrowers : c # b => positions'[c] = positions[c]
  <1> DEFINE pos == accrued(b)
             principal == pos.principal + amount
             after == [pos EXCEPT !.principal = principal]
  <1>1. /\ pos \in BorrowerPosition
        /\ pos.principal = positions[b].principal /\ pos.collateral = positions[b].collateral
        /\ pos.lastAccrualTimestamp = now
        /\ owed(pos) = currentDebt(b) /\ owed(pos) \in Nat
    BY AccruedPosition
  <1>2. /\ amount > 0 /\ cleared(b)
        /\ Backed(DebtAfterBorrow(pos, amount), pos.collateral, currentRatioBps(b))
        /\ positions' = [positions EXCEPT ![b] = after]
    BY DEF borrow
  <1> HIDE DEF pos
  <1>3. pos.principal \in Nat /\ pos.accruedInterest \in Nat /\ pos.collateral \in Nat
        /\ principal = pos.principal + amount
    BY <1>1 DEF BorrowerPosition
  <1> HIDE DEF principal
  <1>4. /\ after.principal = principal /\ after.accruedInterest = pos.accruedInterest
        /\ after.collateral = pos.collateral
        /\ after.lastAccrualTimestamp = pos.lastAccrualTimestamp
    BY <1>1 DEF BorrowerPosition
  <1> HIDE DEF after
  <1>5. owed(after) = DebtAfterBorrow(pos, amount) /\ owed(after) = owed(pos) + amount
    BY <1>3, <1>4 DEF owed, DebtAfterBorrow
  <1>6. positions'[b] = after /\ \A c \in Borrowers : c # b => positions'[c] = positions[c]
    BY <1>2 DEF TypeOK, LedgerTypeOK
  <1>7. QED
    BY <1>1, <1>2, <1>3, <1>4, <1>5, <1>6 DEF Borrowed

\* A step changes at most one position, and in one of these ways.
LEMMA PositionChange ==
  ASSUME TypeOK, [Next]_vars, NEW c \in Borrowers
  PROVE  \/ positions'[c] = positions[c]
         \/ /\ Posted(c) \/ Borrowed(c) \/ Settles(c)
            /\ UNCHANGED <<envVars, adminVars>>
  <1>1. positions \in [Borrowers -> BorrowerPosition]
    BY DEF TypeOK, LedgerTypeOK
  <1>2. CASE UNCHANGED ledger
    BY <1>2 DEF ledger
  <1>3. CASE LedgerStep /\ UNCHANGED <<envVars, adminVars>>
    <2>1. ASSUME NEW b \in Borrowers, NEW amount \in Nat, postCollateral(b, amount)
          PROVE  positions'[c] = positions[c] \/ Posted(c)
      BY <1>1, <2>1 DEF postCollateral, Posted
    <2>2. ASSUME NEW b \in Borrowers, NEW amount \in Nat, borrow(b, amount)
          PROVE  positions'[c] = positions[c] \/ Borrowed(c)
      BY <2>2, BorrowLeaves
    <2>3. ASSUME NEW b \in Borrowers, Settles(b)
          PROVE  positions'[c] = positions[c] \/ Settles(c)
      <3>1. PICK after \in BorrowerPosition : positions' = [positions EXCEPT ![b] = after]
        BY <2>3, SettlesIsSettlement DEF Settlement, SettledTo
      <3>2. QED
        BY <1>1, <2>3, <3>1
    <2>4. QED
      BY <1>3, <2>1, <2>2, <2>3 DEF LedgerStep, deposit, withdraw
  <1>4. QED
    BY <1>2, <1>3, StepKinds DEF vars, poolVars, Environment

\* The position one of the four settlements leaves
LEMMA SettledPosition ==
  ASSUME TypeOK, NEW b \in Borrowers, NEW after \in BorrowerPosition, NEW paid, NEW lost,
         SettledTo(b, after, paid, lost)
  PROVE  /\ positions'[b] = after
         /\ owed(after) = currentDebt(b) - paid /\ paid <= currentDebt(b)
         /\ after.collateral = positions[b].collateral - lost
         /\ after.principal <= positions[b].principal
         /\ after.lastAccrualTimestamp = now
  BY DEF SettledTo, TypeOK, LedgerTypeOK

LEMMA AmountTypes ==
  ASSUME TypeOK, NEW c \in Borrowers
  PROVE  /\ positions[c] \in BorrowerPosition
         /\ positions[c].collateral \in Nat /\ positions[c].principal \in Nat
         /\ owed(positions[c]) \in Nat /\ currentDebt(c) \in Nat
         /\ owed(positions[c]) <= currentDebt(c)
  <1>1. positions[c] \in BorrowerPosition
    BY DEF TypeOK, LedgerTypeOK
  <1>2. positions[c].principal \in Nat /\ positions[c].accruedInterest \in Nat
        /\ positions[c].collateral \in Nat /\ pendingInterest(c) \in Nat
    BY <1>1, PendingType DEF BorrowerPosition
  <1>3. QED
    BY <1>1, <1>2 DEF owed, currentDebt

\* Posting leaves the debt alone.
LEMMA PostedPosition ==
  ASSUME TypeOK, NEW c \in Borrowers, Posted(c)
  PROVE  /\ positions[c].collateral <= positions'[c].collateral
         /\ owed(positions'[c]) = owed(positions[c])
         /\ positions'[c].principal = positions[c].principal
  BY AmountTypes DEF Posted, owed, BorrowerPosition

(***************************************************************************)
(* Net exposure rises only in a step whose borrower the gate cleared and   *)
(* that leaves the position backed at its live ratio.                      *)
(***************************************************************************)
THEOREM PoolExposureRisesOnlyWhenCleared == Spec => ExposureRisesOnlyWhenCleared
  <1> DEFINE Bounded ==
        \A b \in Borrowers :
          /\ owed(positions'[b]) > 0
          /\ owed(positions'[b]) - positions'[b].collateral
               > currentDebt(b) - positions[b].collateral
          => cleared(b) /\ Backed(owed(positions'[b]), positions'[b].collateral,
                                  currentRatioBps(b))
  <1>1. ASSUME TypeOK, [Next]_vars
        PROVE  Bounded
    <2>1. SUFFICES ASSUME NEW b \in Borrowers, owed(positions'[b]) > 0,
                          owed(positions'[b]) - positions'[b].collateral
                            > currentDebt(b) - positions[b].collateral
                   PROVE  cleared(b) /\ Backed(owed(positions'[b]), positions'[b].collateral,
                                               currentRatioBps(b))
      OBVIOUS
    <2>2. /\ positions[b].collateral \in Nat /\ owed(positions[b]) \in Nat
          /\ currentDebt(b) \in Nat /\ owed(positions[b]) <= currentDebt(b)
      BY <1>1, AmountTypes
    <2>3. CASE positions'[b] = positions[b]
      BY <2>1, <2>2, <2>3
    <2>4. CASE Posted(b)
      <3>1. /\ positions[b].collateral <= positions'[b].collateral
            /\ owed(positions'[b]) = owed(positions[b])
            /\ positions'[b].collateral \in Nat
        BY <1>1, <2>4, PostedPosition, AmountTypes DEF Posted, BorrowerPosition
      <3>2. QED
        BY <2>1, <2>2, <3>1
    <2>5. CASE Borrowed(b)
      BY <2>5 DEF Borrowed
    <2>6. CASE Repaid(b)
      <3>1. PICK after \in BorrowerPosition, paid \in Nat : SettledTo(b, after, paid, 0)
        BY <2>6 DEF Repaid
      <3>2. positions'[b] = after /\ owed(after) = currentDebt(b) - paid
            /\ after.collateral = positions[b].collateral - 0
        BY <1>1, <3>1, SettledPosition
      <3>3. QED
        BY <2>1, <2>2, <3>2
    <2>7. CASE TakenOut(b)
      <3>1. PICK after \in BorrowerPosition, lost \in Nat :
              SettledTo(b, after, 0, lost) /\ WithdrawalAllowed(b, owed(after), after.collateral)
        BY <2>7 DEF TakenOut
      <3>2. positions'[b] = after
        BY <1>1, <3>1, SettledPosition
      <3>3. QED
        BY <2>1, <3>1, <3>2 DEF WithdrawalAllowed
    <2>8. CASE Cured(b)
      <3>1. PICK after \in BorrowerPosition, applied \in Nat :
              SettledTo(b, after, applied, applied)
        BY <2>8 DEF Cured
      <3>2. positions'[b] = after /\ owed(after) = currentDebt(b) - applied
            /\ after.collateral = positions[b].collateral - applied
        BY <1>1, <3>1, SettledPosition
      <3>3. QED
        BY <2>1, <2>2, <3>2
    <2>9. CASE SeizedFrom(b)
      <3>1. PICK after \in BorrowerPosition, lost \in Nat :
              SettledTo(b, after, currentDebt(b), lost)
        BY <2>9 DEF SeizedFrom
      <3>2. positions'[b] = after /\ owed(after) = currentDebt(b) - currentDebt(b)
        BY <1>1, <3>1, SettledPosition
      <3>3. QED
        BY <2>1, <2>2, <3>2
    <2>10. QED
      BY <1>1, <2>3, <2>4, <2>5, <2>6, <2>7, <2>8, <2>9, PositionChange DEF Settles
  <1>2. QED
    BY <1>1, PoolTypeCorrect, PTL DEF Spec, ExposureRisesOnlyWhenCleared

(***************************************************************************)
(* More collateral than the debt it settles is lost only to liquidation of *)
(* an unhealthy position, and then at most the bonus more.                 *)
(***************************************************************************)
THEOREM PoolSeizureIsBounded == Spec => SeizureIsBounded
  <1> DEFINE Bounded ==
        \A b \in Borrowers :
          LET lost == positions[b].collateral - positions'[b].collateral
          IN currentDebt(b) > 0 /\ owed(positions'[b]) = 0 /\ lost > currentDebt(b) =>
               /\ ~isHealthy(b)
               /\ lost * BPS <= currentDebt(b) * (BPS + params.bonus)
  <1>1. ASSUME TypeOK, [Next]_vars
        PROVE  Bounded
    <2>1. SUFFICES ASSUME NEW b \in Borrowers, NEW taken,
                          taken = positions[b].collateral - positions'[b].collateral,
                          currentDebt(b) > 0, owed(positions'[b]) = 0, taken > currentDebt(b)
                   PROVE  /\ ~isHealthy(b)
                          /\ taken * BPS <= currentDebt(b) * (BPS + params.bonus)
      BY Zenon
    <2>2. positions[b].collateral \in Nat /\ currentDebt(b) \in Nat
      BY <1>1, AmountTypes
    <2>3. CASE positions'[b] = positions[b]
      BY <2>1, <2>2, <2>3
    <2>4. CASE Posted(b)
      <3>1. /\ positions[b].collateral <= positions'[b].collateral
            /\ positions'[b].collateral \in Nat
        BY <1>1, <2>4, PostedPosition, AmountTypes DEF Posted, BorrowerPosition
      <3>2. QED
        BY <2>1, <2>2, <3>1
    <2>5. CASE Borrowed(b)
      BY <2>1, <2>2, <2>5 DEF Borrowed
    <2>6. CASE Repaid(b)
      <3>1. PICK after \in BorrowerPosition, paid \in Nat : SettledTo(b, after, paid, 0)
        BY <2>6 DEF Repaid
      <3>2. positions'[b] = after /\ after.collateral = positions[b].collateral - 0
        BY <1>1, <3>1, SettledPosition
      <3>3. QED
        BY <2>1, <2>2, <3>2
    <2>7. CASE TakenOut(b)
      <3>1. PICK after \in BorrowerPosition, lost \in Nat : SettledTo(b, after, 0, lost)
        BY <2>7 DEF TakenOut
      <3>2. positions'[b] = after /\ owed(after) = currentDebt(b) - 0
        BY <1>1, <3>1, SettledPosition
      <3>3. QED
        BY <2>1, <2>2, <3>2
    <2>8. CASE Cured(b)
      <3>1. PICK after \in BorrowerPosition, applied \in Nat :
              SettledTo(b, after, applied, applied)
        BY <2>8 DEF Cured
      <3>2. positions'[b] = after /\ applied <= currentDebt(b)
            /\ after.collateral = positions[b].collateral - applied
        BY <1>1, <3>1, SettledPosition
      <3>3. QED
        BY <2>1, <2>2, <3>2
    <2>9. CASE SeizedFrom(b)
      <3>1. PICK after \in BorrowerPosition, lost \in Nat :
              /\ SettledTo(b, after, currentDebt(b), lost)
              /\ ~isHealthy(b)
              /\ lost * BPS <= currentDebt(b) * (BPS + params.bonus)
        BY <2>9 DEF SeizedFrom
      <3>2. positions'[b] = after /\ after.collateral = positions[b].collateral - lost
        BY <1>1, <3>1, SettledPosition
      <3>3. taken = lost
        BY <2>1, <2>2, <3>2
      <3>4. QED
        BY <3>1, <3>3
    <2>10. QED
      BY <1>1, <2>3, <2>4, <2>5, <2>6, <2>7, <2>8, <2>9, PositionChange DEF Settles
  <1>2. QED
    BY <1>1, PoolTypeCorrect, PTL DEF Spec, SeizureIsBounded

-----------------------------------------------------------------------------
(* Health *)

LEMMA RatioType ==
  ASSUME TypeOK, NEW b \in Borrowers
  PROVE  currentRatioBps(b) \in Nat
  <1> DEFINE tier == gate[b].tier
             subTier == gate[b].subTier
  <1>1. policy.ratioBands \in Seq(RatioBand) /\ SafestRatioBps \in Nat
    BY PolicyConstants DEF TypeOK, EnvTypeOK, PolicyTypeOK, Policy
  <1>2. CASE Reached(tier, subTier) = {}
    <2>1. SelectInSeq(policy.ratioBands,
            LAMBDA band : AtLeast(tier, subTier, band.minTier, band.minSubTier)) = 0
      BY <1>2 DEF SelectInSeq, Reached
    <2>2. QED
      BY <1>1, <2>1 DEF currentRatioBps, collateralRatioBps
  <1>3. CASE Reached(tier, subTier) # {}
    <2>1. PICK first \in Reached(tier, subTier) :
            collateralRatioBps(tier, subTier) = policy.ratioBands[first].ratioBps
      BY <1>1, <1>3, FirstBandDecides
    <2>2. policy.ratioBands[first] \in RatioBand
      BY <1>1, <2>1 DEF Reached
    <2>3. QED
      BY <2>1, <2>2 DEF currentRatioBps, RatioBand
  <1>4. QED
    BY <1>2, <1>3

\* What of the primed state the step to it is typed by
LEMMA NextTypes ==
  TypeOK' => /\ currentInterestRate' \in Nat
             /\ \A b \in Borrowers : /\ pendingInterest(b)' \in Nat
                                     /\ positions'[b] \in BorrowerPosition
                                     /\ owed(positions'[b]) \in Nat
  <1>1. TypeOK => /\ currentInterestRate \in Nat
                  /\ \A b \in Borrowers : /\ pendingInterest(b) \in Nat
                                          /\ positions[b] \in BorrowerPosition
                                          /\ owed(positions[b]) \in Nat
    BY RateType, PendingType, AmountTypes
  <1>2. TypeOK' => (/\ currentInterestRate \in Nat
                    /\ \A b \in Borrowers : /\ pendingInterest(b) \in Nat
                                            /\ positions[b] \in BorrowerPosition
                                            /\ owed(positions[b]) \in Nat)'
    BY <1>1, PTL
  <1>3. QED
    BY <1>2 DEF owed

\* A position whose clock reads now has no interest pending.
LEMMA NothingPending ==
  ASSUME TypeOK, NEW b \in Borrowers, positions[b].lastAccrualTimestamp = now
  PROVE  pendingInterest(b) = 0
  <1> DEFINE principal == positions[b].principal
             rate == currentInterestRate
             time == now - positions[b].lastAccrualTimestamp
  <1>1. principal \in Nat /\ rate \in Nat /\ now \in Nat /\ BPS \in Nat /\ BPS > 0
    BY RateType, PolicyConstants DEF TypeOK, EnvTypeOK, LedgerTypeOK, BorrowerPosition
  <1>2. pendingInterest(b) =
          IF principal = 0 THEN 0
          ELSE (principal * (time * rate)) \div BPS
    BY DEF pendingInterest
  <1>3. time = 0
    <2>1. \A x \in Nat : x - x = 0
      OBVIOUS
    <2>2. QED
      BY <1>1, <2>1, Zenon
  <1> HIDE DEF principal, rate, time
  <1>4. time * rate = 0
    BY <1>1, <1>3
  <1>5. principal * (time * rate) = 0
    BY <1>1, <1>4
  <1>6. 0 \div BPS = 0
    BY <1>1
  <1>7. QED
    BY <1>2, <1>5, <1>6

LEMMA NextNothingPending ==
  TypeOK' => \A b \in Borrowers :
               positions'[b].lastAccrualTimestamp = now' => pendingInterest(b)' = 0
  <1>1. TypeOK => \A b \in Borrowers :
                    positions[b].lastAccrualTimestamp = now => pendingInterest(b) = 0
    BY NothingPending
  <1>2. TypeOK' => (\A b \in Borrowers :
                      positions[b].lastAccrualTimestamp = now => pendingInterest(b) = 0)'
    BY <1>1, PTL
  <1>3. QED
    BY <1>2

\* The same principal, over the same time, at a rate not raised.
LEMMA PendingNotRaised ==
  ASSUME TypeOK, TypeOK', UNCHANGED now, currentInterestRate' <= currentInterestRate,
         NEW b \in Borrowers, positions'[b].principal = positions[b].principal,
         positions'[b].lastAccrualTimestamp = positions[b].lastAccrualTimestamp
  PROVE  pendingInterest(b)' <= pendingInterest(b)
  <1> DEFINE principal == positions[b].principal
             time == now - positions[b].lastAccrualTimestamp
             old == currentInterestRate
             new == currentInterestRate'
  <1>1. /\ principal \in Nat /\ time \in Nat /\ old \in Nat /\ new \in Nat /\ new <= old
        /\ BPS \in Nat /\ BPS > 0
    <2>1. old \in Nat /\ new \in Nat /\ new <= old
      BY NextTypes, RateType
    <2>2. principal \in Nat /\ time \in Nat /\ BPS \in Nat /\ BPS > 0
      BY PolicyConstants DEF TypeOK, EnvTypeOK, LedgerTypeOK, BorrowerPosition
    <2>3. QED
      BY <2>1, <2>2
  <1>2. pendingInterest(b) = IF principal = 0 THEN 0 ELSE (principal * (time * old)) \div BPS
    BY DEF pendingInterest
  <1>3. pendingInterest(b)' = IF principal = 0 THEN 0 ELSE (principal * (time * new)) \div BPS
    BY DEF pendingInterest
  <1> HIDE DEF principal, time, old, new
  <1>4. time * new \in Nat /\ time * old \in Nat /\ time * new <= time * old
    BY <1>1, MulNat, MulMonoLeft
  <1>5. /\ principal * (time * new) \in Nat /\ principal * (time * old) \in Nat
        /\ principal * (time * new) <= principal * (time * old)
    BY <1>1, <1>4, MulNat, MulMonoLeft
  <1>6. (principal * (time * new)) \div BPS <= (principal * (time * old)) \div BPS
    BY <1>1, <1>5, DivMono
  <1>7. QED
    BY <1>2, <1>3, <1>6

\* The ratio is the gate's answer priced by the policy, and nothing else.
LEMMA SameRatio ==
  ASSUME UNCHANGED <<gate, policy>>, NEW b
  PROVE  currentRatioBps(b)' = currentRatioBps(b)
  BY DEF currentRatioBps, collateralRatioBps, AtLeast, SelectInSeq, Min

\* Less debt on more collateral stays backed.
LEMMA BackedMono ==
  ASSUME NEW debt \in Nat, NEW less \in Nat, NEW collateral \in Nat, NEW more \in Nat,
         NEW ratio \in Nat, less <= debt, collateral <= more, Backed(debt, collateral, ratio)
  PROVE  Backed(less, more, ratio)
  <1>1. BPS \in Nat
    BY PolicyConstants
  <1>2. less * ratio <= debt * ratio /\ collateral * BPS <= more * BPS
    BY <1>1, MulMono
  <1>3. /\ less * ratio \in Nat /\ debt * ratio \in Nat
        /\ collateral * BPS \in Nat /\ more * BPS \in Nat
    BY <1>1, MulNat
  <1>4. QED
    BY <1>2, <1>3 DEF Backed

\* A position is healthy after a step that leaves it no worse than it was,
LEMMA NoWorse ==
  ASSUME TypeOK, TypeOK', NEW b \in Borrowers, UNCHANGED envVars, isHealthy(b),
         currentDebt(b)' <= currentDebt(b),
         positions[b].collateral <= positions'[b].collateral
  PROVE  isHealthy(b)'
  <1> DEFINE debt == currentDebt(b)
             less == currentDebt(b)'
             collateral == positions[b].collateral
             more == positions'[b].collateral
             ratio == currentRatioBps(b)
  <1>1. debt \in Nat /\ collateral \in Nat /\ ratio \in Nat /\ more \in Nat /\ less \in Nat
    <2>1. pendingInterest(b)' \in Nat /\ owed(positions'[b]) \in Nat
          /\ positions'[b] \in BorrowerPosition
      BY NextTypes
    <2>2. less = owed(positions'[b]) + pendingInterest(b)'
      BY DEF currentDebt, owed
    <2>3. QED
      BY <2>1, <2>2, AmountTypes, RatioType DEF BorrowerPosition
  <1>2. currentRatioBps(b)' = ratio
    BY SameRatio DEF envVars
  <1>3. debt = 0 \/ Backed(debt, collateral, ratio)
    BY DEF isHealthy
  <1>4. isHealthy(b)' <=> less = 0 \/ Backed(less, more, ratio)
    BY <1>2 DEF isHealthy, Backed
  <1> HIDE DEF debt, less, collateral, more, ratio
  <1>5. debt = 0 => less = 0
    BY <1>1 DEF debt, less
  <1>6. QED
    BY <1>1, <1>3, <1>4, <1>5, BackedMono DEF debt, less, collateral, more

\* or whose debt, accrued up to this step, it leaves backed or settled.
LEMMA LeftBacked ==
  ASSUME TypeOK, TypeOK', NEW b \in Borrowers, UNCHANGED envVars,
         positions'[b].lastAccrualTimestamp = now,
         owed(positions'[b]) > 0 =>
           Backed(owed(positions'[b]), positions'[b].collateral, currentRatioBps(b))
  PROVE  isHealthy(b)'
  <1>1. pendingInterest(b)' = 0 /\ owed(positions'[b]) \in Nat
    BY NextNothingPending, NextTypes DEF envVars
  <1>2. currentDebt(b)' = owed(positions'[b]) + pendingInterest(b)'
    BY DEF currentDebt, owed
  <1>3. currentDebt(b)' = owed(positions'[b])
    BY <1>1, <1>2
  <1>4. currentRatioBps(b)' = currentRatioBps(b)
    BY SameRatio DEF envVars
  <1>5. isHealthy(b)' <=>
          \/ currentDebt(b)' = 0
          \/ Backed(currentDebt(b)', positions'[b].collateral, currentRatioBps(b)')
    BY DEF isHealthy, Backed
  <1>6. QED
    BY <1>1, <1>3, <1>4, <1>5

LEMMA HealthStep ==
  ASSUME TypeOK, TypeOK', [Next]_vars, UNCHANGED <<envVars, params>>,
         currentInterestRate' <= currentInterestRate,
         NEW b \in Borrowers, isHealthy(b), ~SelfCured(b)
  PROVE  isHealthy(b)'
  <1>1. /\ positions[b].collateral \in Nat /\ owed(positions[b]) \in Nat
        /\ currentDebt(b) \in Nat /\ pendingInterest(b) \in Nat
        /\ positions[b] \in BorrowerPosition
    BY AmountTypes, PendingType
  <1>2. /\ positions'[b] \in BorrowerPosition /\ owed(positions'[b]) \in Nat
        /\ pendingInterest(b)' \in Nat /\ positions'[b].collateral \in Nat
    BY NextTypes DEF BorrowerPosition
  <1>3. /\ currentDebt(b) = owed(positions[b]) + pendingInterest(b)
        /\ currentDebt(b)' = owed(positions'[b]) + pendingInterest(b)'
    BY DEF currentDebt, owed
  <1>4. ASSUME positions[b].collateral <= positions'[b].collateral,
               owed(positions'[b]) = owed(positions[b]),
               positions'[b].principal = positions[b].principal,
               positions'[b].lastAccrualTimestamp = positions[b].lastAccrualTimestamp
        PROVE  isHealthy(b)'
    <2>1. pendingInterest(b)' <= pendingInterest(b)
      BY <1>4, PendingNotRaised DEF envVars
    <2>2. currentDebt(b)' <= currentDebt(b)
      BY <1>1, <1>2, <1>3, <1>4, <2>1
    <2>3. QED
      BY <1>4, <2>2, NoWorse
  <1>5. CASE positions'[b] = positions[b]
    BY <1>1, <1>4, <1>5
  <1>6. CASE Posted(b)
    <2>1. positions'[b].lastAccrualTimestamp = positions[b].lastAccrualTimestamp
      BY <1>1, <1>6 DEF Posted, BorrowerPosition
    <2>2. QED
      BY <1>4, <1>6, <2>1, PostedPosition
  <1>7. CASE Borrowed(b)
    BY <1>7, LeftBacked DEF Borrowed
  <1>8. ASSUME NEW after \in BorrowerPosition, NEW paid \in Nat, NEW lost \in Nat,
               SettledTo(b, after, paid, lost)
        PROVE  /\ positions'[b].lastAccrualTimestamp = now
               /\ owed(positions'[b]) = currentDebt(b) - paid
               /\ positions'[b].collateral = positions[b].collateral - lost
               /\ lost = 0 => isHealthy(b)'
    <2>1. /\ positions'[b].lastAccrualTimestamp = now
          /\ owed(positions'[b]) = currentDebt(b) - paid
          /\ positions'[b].collateral = positions[b].collateral - lost
      BY <1>8, SettledPosition
    <2>2. currentDebt(b)' <= currentDebt(b)
      <3>1. pendingInterest(b)' = 0
        BY <2>1, NextNothingPending DEF envVars
      <3>2. QED
        BY <1>1, <1>2, <1>3, <2>1, <3>1
    <2>3. lost = 0 => positions[b].collateral <= positions'[b].collateral
      BY <1>1, <2>1
    <2>4. QED
      BY <2>1, <2>2, <2>3, NoWorse
  <1>9. CASE Repaid(b)
    <2>1. PICK after \in BorrowerPosition, paid \in Nat : SettledTo(b, after, paid, 0)
      BY <1>9 DEF Repaid
    <2>2. QED
      BY <1>8, <2>1
  <1>10. CASE TakenOut(b)
    <2>1. PICK after \in BorrowerPosition, lost \in Nat :
            SettledTo(b, after, 0, lost) /\ WithdrawalAllowed(b, owed(after), after.collateral)
      BY <1>10 DEF TakenOut
    <2>2. positions'[b] = after /\ positions'[b].lastAccrualTimestamp = now
      BY <2>1, SettledPosition
    <2>3. QED
      BY <2>1, <2>2, LeftBacked DEF WithdrawalAllowed
  <1>11. CASE Cured(b)
    <2>1. PICK after \in BorrowerPosition, applied \in Nat :
            SettledTo(b, after, applied, applied)
      BY <1>11 DEF Cured
    <2>2. /\ owed(positions'[b]) = currentDebt(b) - applied
          /\ positions'[b].collateral = positions[b].collateral - applied
          /\ applied = 0 => isHealthy(b)'
      BY <1>8, <2>1
    <2>3. applied > 0 => SelfCured(b)
      BY <1>1, <1>2, <2>2 DEF SelfCured
    <2>4. QED
      BY <2>2, <2>3
  <1>12. ~SeizedFrom(b)
    BY DEF SeizedFrom
  <1>13. QED
    BY <1>5, <1>6, <1>7, <1>9, <1>10, <1>11, <1>12, PositionChange DEF Settles

(***************************************************************************)
(* At an unchanged ratio, in an unchanged block, at a rate not raised, no  *)
(* call makes a healthy position liquidatable, whoever makes it; the       *)
(* guardian's self-cure alone may.                                         *)
(***************************************************************************)
THEOREM PoolNoCallUnderminesAHealthyPosition == Spec => NoCallUnderminesAHealthyPosition
  <1> DEFINE Healthy ==
        UNCHANGED <<envVars, params>> /\ currentInterestRate' <= currentInterestRate =>
          \A b \in Borrowers : isHealthy(b) /\ ~SelfCured(b) => isHealthy(b)'
  <1>1. ASSUME TypeOK, TypeOK', [Next]_vars
        PROVE  Healthy
    BY <1>1, HealthStep
  <1>2. QED
    BY <1>1, PoolTypeCorrect, PTL DEF Spec, NoCallUnderminesAHealthyPosition

-----------------------------------------------------------------------------
(***************************************************************************)
(* The pool-wide totals are the sums of the accounts, for any finite       *)
(* number of them.  LendingPool sums with the library's fold, which takes  *)
(* the accounts in an unknown order: the first half shows that the order   *)
(* does not matter to what changing one account does to the sum.           *)
(***************************************************************************)

(* Sums *)

\* Induction over the subsets of a finite set: a least one of any kind exists.
LEMMA SmallestSubset ==
  ASSUME NEW S, IsFiniteSet(S), NEW Bad \in SUBSET (SUBSET S), Bad # {}
  PROVE  \E T \in Bad : \A U \in SUBSET T : U # T => U \notin Bad
  <1> DEFINE sizes == {Cardinality(T) : T \in Bad}
  <1>1. \A T \in SUBSET S : IsFiniteSet(T) /\ Cardinality(T) \in Nat
    BY FS_Subset, FS_CardinalityType
  <1>2. sizes \in SUBSET Nat /\ sizes # {}
    BY <1>1
  <1>3. PICK n \in sizes : \A m \in sizes : n <= m
    BY <1>2, LeastNatural
  <1>4. PICK T \in Bad : Cardinality(T) = n
    OBVIOUS
  <1>5. ASSUME NEW U \in SUBSET T, U # T, U \in Bad
        PROVE  FALSE
    <2>1. Cardinality(U) <= Cardinality(T) /\ Cardinality(U) # Cardinality(T)
      BY <1>1, <1>5, FS_Subset
    <2>2. n <= Cardinality(U)
      BY <1>3, <1>5
    <2>3. QED
      BY <1>1, <1>4, <1>5, <2>1, <2>2
  <1>6. QED
    BY <1>5

first(s) == CHOOSE x \in s : TRUE

\* The recursion of the library's fold, over the subsets of S
Sums(f, S, g) ==
  g = [s \in SUBSET S |-> IF s = {} THEN 0 ELSE f[first(s)] + g[s \ {first(s)}]]

SumOn(f, S) == (CHOOSE g : Sums(f, S, g))[S]

LEMMA SumOverIsSumOn ==
  ASSUME NEW f
  PROVE  SumOver(f) = SumOn(f, DOMAIN f)
  BY DEF SumOver, FoldFunction, FoldFunctionOnSet, MapThenFoldSet, SumOn, Sums, first

LEMMA FirstOf ==
  ASSUME NEW s, s # {}
  PROVE  first(s) \in s
  BY DEF first

LEMMA SumsValue ==
  ASSUME NEW f, NEW S, NEW g, Sums(f, S, g), NEW s \in SUBSET S
  PROVE  g[s] = IF s = {} THEN 0 ELSE f[first(s)] + g[s \ {first(s)}]
  BY DEF Sums

\* Two such recursions agree wherever both are defined.
LEMMA SumsAgree ==
  ASSUME NEW f, NEW S, NEW g, Sums(f, S, g), NEW T, NEW h, Sums(f, T, h),
         IsFiniteSet(S), NEW s \in SUBSET S, s \in SUBSET T
  PROVE  g[s] = h[s]
  <1> DEFINE Bad == {u \in SUBSET S : u \in SUBSET T /\ g[u] # h[u]}
  <1>1. SUFFICES ASSUME Bad # {} PROVE FALSE
    OBVIOUS
  <1>2. PICK u \in Bad : \A v \in SUBSET u : v # u => v \notin Bad
    <2>1. Bad \in SUBSET (SUBSET S)
      OBVIOUS
    <2> HIDE DEF Bad
    <2>2. QED
      BY <1>1, <2>1, SmallestSubset
  <1>3. /\ g[u] = IF u = {} THEN 0 ELSE f[first(u)] + g[u \ {first(u)}]
        /\ h[u] = IF u = {} THEN 0 ELSE f[first(u)] + h[u \ {first(u)}]
    BY SumsValue
  <1>4. CASE u = {}
    BY <1>3, <1>4
  <1>5. CASE u # {}
    <2>1. u \ {first(u)} # u /\ u \ {first(u)} \in SUBSET u
      BY <1>5, FirstOf
    <2>2. g[u \ {first(u)}] = h[u \ {first(u)}]
      BY <1>2, <2>1
    <2>3. QED
      BY <1>3, <1>5, <2>2
  <1>6. QED
    BY <1>4, <1>5

\* The recursion is well defined.
LEMMA SumsExist ==
  ASSUME NEW f, NEW S, IsFiniteSet(S)
  PROVE  \E g : Sums(f, S, g)
  <1> DEFINE Bad == {T \in SUBSET S : ~ \E g : Sums(f, T, g)}
  <1>1. SUFFICES ASSUME Bad # {} PROVE FALSE
    OBVIOUS
  <1>2. PICK T \in Bad : \A U \in SUBSET T : U # T => U \notin Bad
    <2>1. Bad \in SUBSET (SUBSET S)
      OBVIOUS
    <2> HIDE DEF Bad
    <2>2. QED
      BY <1>1, <2>1, SmallestSubset
  <1> DEFINE V(t) == IF t = {} THEN 0 ELSE f[first(t)] + SumOn(f, t \ {first(t)})
             G == [t \in SUBSET T |-> V(t)]
  <1>3. ASSUME NEW U \in SUBSET T, U # T
        PROVE  Sums(f, U, CHOOSE g : Sums(f, U, g))
    <2>1. \E g : Sums(f, U, g)
      BY <1>2, <1>3
    <2>2. QED
      BY <2>1
  <1>4. ASSUME NEW u \in SUBSET T, u # T
        PROVE  V(u) = SumOn(f, u)
    <2> DEFINE g == CHOOSE k : Sums(f, u, k)
               w == u \ {first(u)}
               h == CHOOSE k : Sums(f, w, k)
    <2>1. Sums(f, u, g)
      BY <1>3, <1>4
    <2>2. CASE u = {}
      <3>1. g[u] = 0
        BY <2>1, <2>2, SumsValue
      <3>2. QED
        BY <2>2, <3>1 DEF SumOn
    <2>3. CASE u # {}
      <3>1. first(u) \in u
        BY <2>3, FirstOf
      <3>2. w \in SUBSET u /\ w \in SUBSET T /\ w # T /\ w \in SUBSET w
        BY <1>4, <3>1
      <3>3. Sums(f, w, h)
        BY <1>3, <3>2
      <3>4. IsFiniteSet(u)
        BY FS_Subset
      <3>5. g[w] = h[w]
        BY <2>1, <3>2, <3>3, <3>4, SumsAgree
      <3>6. g[u] = f[first(u)] + g[w]
        BY <2>1, <2>3, SumsValue
      <3>7. QED
        BY <2>3, <3>5, <3>6 DEF SumOn
    <2>4. QED
      BY <2>2, <2>3
  <1>5. ASSUME NEW t \in SUBSET T
        PROVE  G[t] = IF t = {} THEN 0 ELSE f[first(t)] + G[t \ {first(t)}]
    <2>1. CASE t = {}
      BY <2>1
    <2>2. CASE t # {}
      <3>1. t \ {first(t)} \in SUBSET T /\ t \ {first(t)} # T
        BY <2>2, FirstOf
      <3>2. G[t \ {first(t)}] = SumOn(f, t \ {first(t)})
        BY <1>4, <3>1
      <3>3. QED
        BY <2>2, <3>2
    <2>3. QED
      BY <2>1, <2>2
  <1> HIDE DEF V
  <1>6. Sums(f, T, G)
    BY <1>5 DEF Sums
  <1>7. QED
    BY <1>2, <1>6

\* The sum taken one account at a time
LEMMA SumStep ==
  ASSUME NEW f, NEW S, IsFiniteSet(S)
  PROVE  SumOn(f, S) = IF S = {} THEN 0 ELSE f[first(S)] + SumOn(f, S \ {first(S)})
  <1> DEFINE g == CHOOSE k : Sums(f, S, k)
             T == S \ {first(S)}
             h == CHOOSE k : Sums(f, T, k)
  <1>1. IsFiniteSet(T) /\ T \in SUBSET S
    BY FS_Subset
  <1>2. Sums(f, S, g) /\ Sums(f, T, h)
    BY <1>1, SumsExist
  <1>3. g[S] = IF S = {} THEN 0 ELSE f[first(S)] + g[T]
    BY <1>2, SumsValue
  <1>4. g[T] = h[T]
    BY <1>1, <1>2, SumsAgree
  <1>5. QED
    BY <1>3, <1>4 DEF SumOn

LEMMA SumType ==
  ASSUME NEW S, IsFiniteSet(S), NEW f \in [S -> Nat]
  PROVE  \A T \in SUBSET S : SumOn(f, T) \in Nat /\ \A a \in T : f[a] <= SumOn(f, T)
  <1> DEFINE Good(T) == SumOn(f, T) \in Nat /\ \A a \in T : f[a] <= SumOn(f, T)
             Bad == {T \in SUBSET S : ~Good(T)}
  <1>1. SUFFICES ASSUME Bad # {} PROVE FALSE
    OBVIOUS
  <1>2. PICK T \in Bad : \A U \in SUBSET T : U # T => U \notin Bad
    <2>1. Bad \in SUBSET (SUBSET S)
      OBVIOUS
    <2> HIDE DEF Bad
    <2>2. QED
      BY <1>1, <2>1, SmallestSubset
  <1>3. SumOn(f, T) = IF T = {} THEN 0 ELSE f[first(T)] + SumOn(f, T \ {first(T)})
    BY SumStep, FS_Subset
  <1>4. CASE T = {}
    BY <1>3, <1>4
  <1>5. CASE T # {}
    <2>1. first(T) \in T
      BY <1>5, FirstOf
    <2>2. Good(T \ {first(T)})
      BY <1>2, <2>1
    <2>3. f[first(T)] \in Nat
      BY <2>1
    <2>4. SumOn(f, T) \in Nat
      BY <1>3, <1>5, <2>2, <2>3
    <2>5. ASSUME NEW a \in T
          PROVE  f[a] <= SumOn(f, T)
      <3>1. f[a] \in Nat
        OBVIOUS
      <3>2. a = first(T) \/ f[a] <= SumOn(f, T \ {first(T)})
        BY <2>2
      <3>3. QED
        BY <1>3, <1>5, <2>2, <2>3, <3>1, <3>2
    <2>6. QED
      BY <1>2, <2>4, <2>5
  <1>6. QED
    BY <1>4, <1>5

\* Changing one account changes the sum by as much, wherever the fold meets it.
LEMMA SumUpdate ==
  ASSUME NEW S, IsFiniteSet(S), NEW f \in [S -> Nat], NEW g \in [S -> Nat], NEW a \in S,
         \A x \in S \ {a} : g[x] = f[x]
  PROVE  SumOn(g, S) = SumOn(f, S) - f[a] + g[a]
  <1> DEFINE Good(T) == SumOn(g, T) = IF a \in T THEN SumOn(f, T) - f[a] + g[a] ELSE SumOn(f, T)
             Bad == {T \in SUBSET S : ~Good(T)}
  <1>1. SUFFICES ASSUME Bad # {} PROVE FALSE
    OBVIOUS
  <1>2. PICK T \in Bad : \A U \in SUBSET T : U # T => U \notin Bad
    <2>1. Bad \in SUBSET (SUBSET S)
      OBVIOUS
    <2> HIDE DEF Bad
    <2>2. QED
      BY <1>1, <2>1, SmallestSubset
  <1>3. /\ SumOn(f, T) = IF T = {} THEN 0 ELSE f[first(T)] + SumOn(f, T \ {first(T)})
        /\ SumOn(g, T) = IF T = {} THEN 0 ELSE g[first(T)] + SumOn(g, T \ {first(T)})
    BY SumStep, FS_Subset
  <1>4. CASE T = {}
    BY <1>3, <1>4
  <1>5. CASE T # {}
    <2>1. first(T) \in T /\ first(T) \in S
      BY <1>5, FirstOf
    <2>2. Good(T \ {first(T)})
      BY <1>2, <2>1
    <2>3. SumOn(f, T \ {first(T)}) \in Nat
      BY SumType
    <2>4. f[first(T)] \in Nat /\ g[first(T)] \in Nat /\ f[a] \in Nat /\ g[a] \in Nat
      BY <2>1
    <2>5. CASE first(T) = a
      BY <1>2, <1>3, <1>5, <2>1, <2>2, <2>3, <2>4, <2>5
    <2>6. CASE first(T) # a
      <3>1. g[first(T)] = f[first(T)]
        BY <2>1, <2>6
      <3>2. a \in T <=> a \in T \ {first(T)}
        BY <2>6
      <3>3. QED
        BY <1>2, <1>3, <1>5, <2>2, <2>3, <2>4, <3>1, <3>2
    <2>7. QED
      BY <2>5, <2>6
  <1>6. QED
    BY <1>4, <1>5

-----------------------------------------------------------------------------
(* The accounts *)

principals  == [b \in Borrowers |-> positions[b].principal]
collaterals == [b \in Borrowers |-> positions[b].collateral]

LEMMA AccountTypes ==
  ASSUME TypeOK
  PROVE  /\ sharesOf \in [Lenders -> Nat]
         /\ principals \in [Borrowers -> Nat] /\ collaterals \in [Borrowers -> Nat]
  BY DEF TypeOK, LedgerTypeOK, BorrowerPosition, principals, collaterals

LEMMA NextAccountTypes ==
  TypeOK' => /\ sharesOf' \in [Lenders -> Nat]
             /\ principals' \in [Borrowers -> Nat] /\ collaterals' \in [Borrowers -> Nat]
  <1>1. TypeOK => /\ sharesOf \in [Lenders -> Nat]
                  /\ principals \in [Borrowers -> Nat] /\ collaterals \in [Borrowers -> Nat]
    BY AccountTypes
  <1>2. TypeOK' => (/\ sharesOf \in [Lenders -> Nat]
                    /\ principals \in [Borrowers -> Nat]
                    /\ collaterals \in [Borrowers -> Nat])'
    BY <1>1, PTL
  <1>3. QED
    BY <1>2

\* LedgerTotalsAgree, with the sums named
LEMMA TotalsAre ==
  ASSUME TypeOK
  PROVE  LedgerTotalsAgree <=>
           /\ totalShares = SumOn(sharesOf, Lenders)
           /\ totalPrincipalOutstanding = SumOn(principals, Borrowers)
           /\ totalCollateral = SumOn(collaterals, Borrowers)
  <1>1. DOMAIN sharesOf = Lenders /\ DOMAIN principals = Borrowers
        /\ DOMAIN collaterals = Borrowers
    BY AccountTypes
  <1>2. /\ SumOver(sharesOf) = SumOn(sharesOf, Lenders)
        /\ SumOver(principals) = SumOn(principals, Borrowers)
        /\ SumOver(collaterals) = SumOn(collaterals, Borrowers)
    BY <1>1, SumOverIsSumOn
  <1>3. LedgerTotalsAgree <=>
          /\ totalShares = SumOver(sharesOf)
          /\ totalPrincipalOutstanding = SumOver(principals)
          /\ totalCollateral = SumOver(collaterals)
    BY DEF LedgerTotalsAgree, principals, collaterals
  <1>4. QED
    BY <1>2, <1>3

LEMMA NextTotalsAre ==
  TypeOK' => (LedgerTotalsAgree' <=>
                /\ totalShares' = SumOn(sharesOf', Lenders)
                /\ totalPrincipalOutstanding' = SumOn(principals', Borrowers)
                /\ totalCollateral' = SumOn(collaterals', Borrowers))
  <1>1. TypeOK => (LedgerTotalsAgree <=>
                    /\ totalShares = SumOn(sharesOf, Lenders)
                    /\ totalPrincipalOutstanding = SumOn(principals, Borrowers)
                    /\ totalCollateral = SumOn(collaterals, Borrowers))
    BY TotalsAre
  <1>2. TypeOK' => (LedgerTotalsAgree <=>
                    /\ totalShares = SumOn(sharesOf, Lenders)
                    /\ totalPrincipalOutstanding = SumOn(principals, Borrowers)
                    /\ totalCollateral = SumOn(collaterals, Borrowers))'
    BY <1>1, PTL
  <1>3. QED
    BY <1>2 DEF SumOn, Sums

\* A borrower's position and the two totals it is part of move together.
LEMMA PositionMoved ==
  ASSUME TypeOK, TypeOK', LedgerTotalsAgree,
         NEW b \in Borrowers, NEW pos \in BorrowerPosition,
         positions' = [positions EXCEPT ![b] = pos], UNCHANGED <<totalShares, sharesOf>>,
         totalPrincipalOutstanding' =
           totalPrincipalOutstanding - positions[b].principal + pos.principal,
         totalCollateral' = totalCollateral - positions[b].collateral + pos.collateral
  PROVE  LedgerTotalsAgree'
  <1>1. /\ principals \in [Borrowers -> Nat] /\ principals' \in [Borrowers -> Nat]
        /\ collaterals \in [Borrowers -> Nat] /\ collaterals' \in [Borrowers -> Nat]
    BY AccountTypes, NextAccountTypes
  <1>2. \A x \in Borrowers : positions'[x] = IF x = b THEN pos ELSE positions[x]
    BY DEF TypeOK, LedgerTypeOK
  <1>3. /\ principals[b] = positions[b].principal /\ principals'[b] = pos.principal
        /\ collaterals[b] = positions[b].collateral /\ collaterals'[b] = pos.collateral
    BY <1>2 DEF principals, collaterals
  <1>4. \A x \in Borrowers \ {b} :
          principals'[x] = principals[x] /\ collaterals'[x] = collaterals[x]
    BY <1>2 DEF principals, collaterals
  <1>5. SumOn(principals', Borrowers) =
          SumOn(principals, Borrowers) - principals[b] + principals'[b]
    BY <1>1, <1>4, SumUpdate, FiniteAccounts
  <1>6. SumOn(collaterals', Borrowers) =
          SumOn(collaterals, Borrowers) - collaterals[b] + collaterals'[b]
    BY <1>1, <1>4, SumUpdate, FiniteAccounts
  <1>7. QED
    BY <1>3, <1>5, <1>6, TotalsAre, NextTotalsAre

\* And a lender's shares with theirs.
LEMMA SharesMoved ==
  ASSUME TypeOK, TypeOK', LedgerTotalsAgree,
         NEW l \in Lenders, NEW shares \in Nat,
         sharesOf' = [sharesOf EXCEPT ![l] = shares],
         totalShares' = totalShares - sharesOf[l] + shares,
         UNCHANGED <<positions, totalPrincipalOutstanding, totalCollateral>>
  PROVE  LedgerTotalsAgree'
  <1>1. sharesOf \in [Lenders -> Nat] /\ sharesOf' \in [Lenders -> Nat]
    BY AccountTypes, NextAccountTypes
  <1>2. sharesOf'[l] = shares /\ \A x \in Lenders \ {l} : sharesOf'[x] = sharesOf[x]
    BY <1>1
  <1>3. SumOn(sharesOf', Lenders) = SumOn(sharesOf, Lenders) - sharesOf[l] + sharesOf'[l]
    <2>1. \A g \in [Lenders -> Nat] :
            (\A x \in Lenders \ {l} : g[x] = sharesOf[x]) =>
              SumOn(g, Lenders) = SumOn(sharesOf, Lenders) - sharesOf[l] + g[l]
      BY <1>1, SumUpdate, FiniteAccounts
    <2>2. \A x \in Lenders \ {l} : sharesOf'[x] = sharesOf[x]
      BY <1>2
    <2>3. QED
      BY <1>1, <2>1, <2>2, Zenon
  <1>4. principals' = principals /\ collaterals' = collaterals
    BY DEF principals, collaterals
  <1>5. QED
    BY <1>2, <1>3, <1>4, TotalsAre, NextTotalsAre

LEMMA TotalsStep ==
  ASSUME TypeOK, TypeOK', LedgerTotalsAgree, [Next]_vars
  PROVE  LedgerTotalsAgree'
  <1>1. /\ totalShares \in Nat /\ totalPrincipalOutstanding \in Nat /\ totalCollateral \in Nat
        /\ \A l \in Lenders : sharesOf[l] \in Nat
        /\ \A b \in Borrowers : /\ positions[b] \in BorrowerPosition
                                /\ positions[b].principal \in Nat
                                /\ positions[b].collateral \in Nat
    BY DEF TypeOK, LedgerTypeOK, BorrowerPosition
  <1>2. CASE UNCHANGED ledger
    BY <1>2 DEF ledger, LedgerTotalsAgree
  <1>3. ASSUME NEW l \in Lenders, NEW amount \in Nat, deposit(l, amount)
        PROVE  LedgerTotalsAgree'
    <2> DEFINE minted == SharesMinted(amount)
    <2>1. /\ sharesOf' = [sharesOf EXCEPT ![l] = sharesOf[l] + minted]
          /\ totalShares' = totalShares + minted
          /\ UNCHANGED <<positions, totalPrincipalOutstanding, totalCollateral>>
      BY <1>3 DEF deposit
    <2>2. sharesOf'[l] \in Nat /\ totalShares' \in Nat /\ sharesOf'[l] = sharesOf[l] + minted
      BY <2>1, AccountTypes, NextAccountTypes DEF TypeOK, LedgerTypeOK
    <2>3. sharesOf[l] + minted \in Nat
      BY <2>2
    <2>4. totalShares' = totalShares - sharesOf[l] + (sharesOf[l] + minted)
      <3>1. minted \in Nat
        BY <1>1, <1>3, MintType DEF deposit
      <3> HIDE DEF minted
      <3>2. QED
        BY <1>1, <2>1, <3>1
    <2> HIDE DEF minted
    <2>5. QED
      BY <2>1, <2>3, <2>4, SharesMoved
  <1>4. ASSUME NEW l \in Lenders, NEW amount \in Nat, withdraw(l, amount)
        PROVE  LedgerTotalsAgree'
    <2> DEFINE burned == SharesBurned(l, amount)
    <2>1. /\ sharesOf' = [sharesOf EXCEPT ![l] = sharesOf[l] - burned]
          /\ totalShares' = totalShares - burned
          /\ UNCHANGED <<positions, totalPrincipalOutstanding, totalCollateral>>
      BY <1>4 DEF withdraw, withdrawPasses
    <2>2. burned \in Nat /\ burned <= sharesOf[l]
      BY <1>4, BurnType DEF withdraw, withdrawPasses
    <2> HIDE DEF burned
    <2>3. sharesOf[l] - burned \in Nat
      BY <1>1, <2>2
    <2>4. totalShares' = totalShares - sharesOf[l] + (sharesOf[l] - burned)
      BY <1>1, <2>1, <2>2
    <2>5. QED
      BY <2>1, <2>3, <2>4, SharesMoved
  <1>5. ASSUME NEW b \in Borrowers, NEW amount \in Nat, postCollateral(b, amount)
        PROVE  LedgerTotalsAgree'
    <2> DEFINE collateral == positions[b].collateral + amount
               pos == [positions[b] EXCEPT !.collateral = collateral]
    <2>1. /\ positions' = [positions EXCEPT ![b] = pos]
          /\ totalCollateral' = totalCollateral + amount
          /\ UNCHANGED <<totalShares, sharesOf, totalPrincipalOutstanding>>
      BY <1>5 DEF postCollateral
    <2>2. collateral \in Nat /\ collateral = positions[b].collateral + amount
      BY <1>1
    <2> HIDE DEF collateral
    <2>3. /\ pos \in BorrowerPosition
          /\ pos.principal = positions[b].principal /\ pos.collateral = collateral
      BY <1>1, <2>2 DEF BorrowerPosition
    <2> HIDE DEF pos
    <2>4. /\ totalPrincipalOutstanding' =
               totalPrincipalOutstanding - positions[b].principal + pos.principal
          /\ totalCollateral' = totalCollateral - positions[b].collateral + pos.collateral
      BY <1>1, <2>1, <2>2, <2>3
    <2>5. QED
      BY <2>1, <2>3, <2>4, PositionMoved
  <1>6. ASSUME NEW b \in Borrowers, NEW amount \in Nat, borrow(b, amount)
        PROVE  LedgerTotalsAgree'
    <2> DEFINE principal == accrued(b).principal + amount
               pos == [accrued(b) EXCEPT !.principal = principal]
    <2>1. /\ positions' = [positions EXCEPT ![b] = pos]
          /\ totalPrincipalOutstanding' = totalPrincipalOutstanding + amount
          /\ UNCHANGED <<totalShares, sharesOf, totalCollateral>>
      BY <1>6 DEF borrow
    <2>2. /\ accrued(b) \in BorrowerPosition
          /\ accrued(b).principal = positions[b].principal
          /\ accrued(b).collateral = positions[b].collateral
      BY AccruedPosition
    <2>3. principal \in Nat /\ principal = positions[b].principal + amount
      BY <1>1, <2>2
    <2> HIDE DEF principal
    <2>4. /\ pos \in BorrowerPosition
          /\ pos.principal = principal /\ pos.collateral = positions[b].collateral
      BY <2>2, <2>3 DEF BorrowerPosition
    <2> HIDE DEF pos
    <2>5. /\ totalPrincipalOutstanding' =
               totalPrincipalOutstanding - positions[b].principal + pos.principal
          /\ totalCollateral' = totalCollateral - positions[b].collateral + pos.collateral
      BY <1>1, <2>1, <2>3, <2>4
    <2>6. QED
      BY <2>1, <2>4, <2>5, PositionMoved
  <1>7. ASSUME NEW b \in Borrowers, Settles(b)
        PROVE  LedgerTotalsAgree'
    <2>1. PICK after \in BorrowerPosition, paid \in Nat, lost \in Nat :
            SettledTo(b, after, paid, lost)
      BY <1>7, SettlesIsSettlement DEF Settlement
    <2>2. after.principal \in Nat /\ after.collateral \in Nat
      BY DEF BorrowerPosition
    <2>3. /\ positions' = [positions EXCEPT ![b] = after]
          /\ after.collateral = positions[b].collateral - lost
          /\ totalPrincipalOutstanding' =
               totalPrincipalOutstanding - (positions[b].principal - after.principal)
          /\ totalCollateral' = totalCollateral - lost
          /\ UNCHANGED <<totalShares, sharesOf>>
      BY <2>1 DEF SettledTo
    <2>4. /\ totalPrincipalOutstanding' =
               totalPrincipalOutstanding - positions[b].principal + after.principal
          /\ totalCollateral' = totalCollateral - positions[b].collateral + after.collateral
      BY <1>1, <2>2, <2>3
    <2>5. QED
      BY <2>3, <2>4, PositionMoved
  <1>8. CASE LedgerStep
    BY <1>3, <1>4, <1>5, <1>6, <1>7, <1>8 DEF LedgerStep
  <1>9. QED
    BY <1>2, <1>8, StepKinds DEF vars, poolVars, Environment

\* No account holds anything at first.
LEMMA SumOfNothing ==
  ASSUME NEW S, IsFiniteSet(S)
  PROVE  SumOn([x \in S |-> 0], S) = 0
  <1> DEFINE f == [x \in S |-> 0]
             Bad == {T \in SUBSET S : SumOn(f, T) # 0}
  <1>1. SUFFICES ASSUME Bad # {} PROVE FALSE
    OBVIOUS
  <1>2. PICK T \in Bad : \A U \in SUBSET T : U # T => U \notin Bad
    <2>1. Bad \in SUBSET (SUBSET S)
      OBVIOUS
    <2> HIDE DEF Bad
    <2>2. QED
      BY <1>1, <2>1, SmallestSubset
  <1>3. SumOn(f, T) = IF T = {} THEN 0 ELSE f[first(T)] + SumOn(f, T \ {first(T)})
    BY SumStep, FS_Subset
  <1>4. CASE T # {}
    <2>1. first(T) \in T
      BY <1>4, FirstOf
    <2>2. f[first(T)] = 0 /\ SumOn(f, T \ {first(T)}) = 0
      BY <1>2, <2>1
    <2>3. QED
      BY <1>2, <1>3, <1>4, <2>2
  <1>5. QED
    BY <1>2, <1>3, <1>4

(***************************************************************************)
(* The pool-wide totals are the sums of the accounts, whatever the number  *)
(* of accounts and whoever is settled in whatever order.                   *)
(***************************************************************************)
THEOREM PoolTotalsAgree == Spec => []LedgerTotalsAgree
  <1>1. Init /\ TypeOK => LedgerTotalsAgree
    <2>1. SUFFICES ASSUME Init, TypeOK
                   PROVE  LedgerTotalsAgree
      OBVIOUS
    <2>2. /\ sharesOf = [l \in Lenders |-> 0]
          /\ principals = [b \in Borrowers |-> 0] /\ collaterals = [b \in Borrowers |-> 0]
          /\ totalShares = 0 /\ totalPrincipalOutstanding = 0 /\ totalCollateral = 0
      BY <2>1 DEF Init, principals, collaterals
    <2>3. QED
      BY <2>1, <2>2, TotalsAre, SumOfNothing, FiniteAccounts
  <1>2. TypeOK /\ TypeOK' /\ LedgerTotalsAgree /\ [Next]_vars => LedgerTotalsAgree'
    BY TotalsStep
  <1>3. QED
    BY <1>1, <1>2, PoolTypeCorrect, PTL DEF Spec

(***************************************************************************)
(* So no account is larger than the total it is subtracted from, and no    *)
(* borrower's collateral than what the pool holds.                         *)
(***************************************************************************)
AccountsCovered ==
  /\ \A l \in Lenders : sharesOf[l] <= totalShares
  /\ \A b \in Borrowers :
       /\ positions[b].principal <= totalPrincipalOutstanding
       /\ positions[b].collateral <= totalCollateral
  /\ totalCollateral <= poolBalance

\* The checked subtractions of the pool never meet a total that lags its
\* accounts: no account exceeds its total, nor the collateral the tokens held.
THEOREM PoolTotalsCoverEveryAccount == Spec => []AccountsCovered
  <1>1. ASSUME TypeOK, LedgerTotalsAgree, Solvency
        PROVE  AccountsCovered
    <2>1. /\ \A l \in Lenders : sharesOf[l] <= totalShares
          /\ \A b \in Borrowers : /\ principals[b] <= totalPrincipalOutstanding
                                  /\ collaterals[b] <= totalCollateral
      BY <1>1, AccountTypes, TotalsAre, SumType, FiniteAccounts
    <2>2. \A b \in Borrowers : /\ principals[b] = positions[b].principal
                               /\ collaterals[b] = positions[b].collateral
      BY DEF principals, collaterals
    <2>3. totalCollateral <= poolBalance
      BY <1>1 DEF TypeOK, LedgerTypeOK, Solvency
    <2>4. QED
      BY <2>1, <2>2, <2>3 DEF AccountsCovered
  <1>2. QED
    BY <1>1, PoolTypeCorrect, PoolTotalsAgree, PoolSolvent, PTL

-----------------------------------------------------------------------------
(* Claims: what a lender's shares are worth *)

LEMMA ClaimTypes ==
  ASSUME TypeOK, AccountsCovered, NEW l \in Lenders
  PROVE  /\ sharesOf[l] \in Nat /\ totalShares \in Nat /\ sharesOf[l] <= totalShares
         /\ totalPooledAssets \in Nat
  BY DEF TypeOK, LedgerTypeOK, AccountsCovered, totalPooledAssets

LEMMA NextClaimTypes ==
  ASSUME TypeOK', AccountsCovered', NEW l \in Lenders
  PROVE  /\ sharesOf'[l] \in Nat /\ totalShares' \in Nat /\ sharesOf'[l] <= totalShares'
         /\ totalPooledAssets' \in Nat
  <1>1. sharesOf' \in [Lenders -> Nat] /\ totalShares' \in Nat
    BY DEF TypeOK, LedgerTypeOK
  <1>2. sharesOf'[l] <= totalShares'
    BY DEF AccountsCovered
  <1>3. idleLiquidity' \in Nat /\ totalPrincipalOutstanding' \in Nat
    BY DEF TypeOK, LedgerTypeOK
  <1>4. totalPooledAssets' \in Nat
    BY <1>3, AddNat, Zenon DEF totalPooledAssets
  <1>5. sharesOf'[l] \in Nat
    BY <1>1
  <1>6. QED
    BY <1>1, <1>2, <1>4, <1>5

\* A claim on shares that stay where they are follows the price of a share.
LEMMA ClaimFollowsPrice ==
  ASSUME TypeOK, TypeOK', AccountsCovered, AccountsCovered', SharePriceStep, NEW l \in Lenders
  PROVE  ClaimStep(l)
  <1> DEFINE P == totalPooledAssets
             Q == totalPooledAssets'
  <1>1. SUFFICES ASSUME sharesOf'[l] = sharesOf[l]
                 PROVE  shareValue(l) <= shareValue(l)'
    BY DEF ClaimStep
  <1>2. /\ sharesOf[l] \in Nat /\ sharesOf[l] <= totalShares /\ sharesOf[l] <= totalShares'
        /\ totalShares \in Nat /\ totalShares' \in Nat /\ P \in Nat /\ Q \in Nat
    BY <1>1, ClaimTypes, NextClaimTypes
  <1>3. /\ shareValue(l) = IF totalShares = 0 THEN 0 ELSE (sharesOf[l] * P) \div totalShares
        /\ shareValue(l)' = IF totalShares' = 0 THEN 0 ELSE (sharesOf[l] * Q) \div totalShares'
    BY <1>1 DEF shareValue
  <1>4. totalShares > 0 => totalShares' * P <= totalShares * Q
    BY DEF SharePriceStep
  <1> HIDE DEF P, Q
  <1>5. (IF totalShares = 0 THEN 0 ELSE (sharesOf[l] * P) \div totalShares)
          <= (IF totalShares' = 0 THEN 0 ELSE (sharesOf[l] * Q) \div totalShares')
    BY <1>2, <1>4, ClaimWorthNoLess, Zenon
  <1>6. QED
    BY <1>3, <1>5, Zenon

LEMMA DepositClaim ==
  ASSUME TypeOK, SharesBacked, AccountsCovered, NEW l \in Lenders, NEW amount \in Nat
  PROVE  DepositStep(l, amount)
  <1> DEFINE P == totalPooledAssets
             m == SharesMinted(amount)
  <1>1. SUFFICES ASSUME totalShares > 0, deposit(l, amount)
                 PROVE  shareValue(l)' <= shareValue(l) + amount
    BY DEF DepositStep
  <1>2. /\ sharesOf[l] \in Nat /\ totalShares \in Nat /\ sharesOf[l] <= totalShares /\ P \in Nat
    BY ClaimTypes
  <1>3. m \in Nat /\ m * P <= amount * totalShares
    BY <1>1, MintWorth DEF deposit
  <1>4. /\ sharesOf'[l] = sharesOf[l] + m /\ totalShares' = totalShares + m
        /\ totalPooledAssets' = P + amount
    BY <1>1 DEF deposit, totalPooledAssets, TypeOK, LedgerTypeOK
  <1>5. /\ shareValue(l) = (sharesOf[l] * P) \div totalShares
        /\ shareValue(l)' = ((sharesOf[l] + m) * (P + amount)) \div (totalShares + m)
    BY <1>1, <1>2, <1>3, <1>4 DEF shareValue
  <1> HIDE DEF P, m
  <1>6. QED
    BY <1>1, <1>2, <1>3, <1>5, MintGainsNothing

LEMMA WithdrawClaim ==
  ASSUME TypeOK, AccountsCovered, NEW l \in Lenders, NEW amount \in Nat
  PROVE  WithdrawStep(l, amount)
  <1> DEFINE P == totalPooledAssets
             c == SharesBurned(l, amount)
  <1>1. SUFFICES ASSUME withdraw(l, amount)
                 PROVE  shareValue(l)' + amount <= shareValue(l)
    BY DEF WithdrawStep
  <1>2. /\ sharesOf[l] \in Nat /\ totalShares \in Nat /\ sharesOf[l] <= totalShares /\ P \in Nat
    BY ClaimTypes
  <1>3. amount > 0 /\ amount <= shareValue(l) /\ amount <= idleLiquidity /\ amount <= P
    BY <1>1 DEF withdraw, withdrawPasses, totalPooledAssets, TypeOK, LedgerTypeOK
  <1>4. /\ totalShares > 0 /\ c \in Nat /\ c <= sharesOf[l]
        /\ amount * totalShares <= c * P
    BY <1>3, BurnWorth, BurnType
  <1>5. /\ sharesOf'[l] = sharesOf[l] - c /\ totalShares' = totalShares - c
        /\ totalPooledAssets' = P - amount
    BY <1>1 DEF withdraw, totalPooledAssets, TypeOK, LedgerTypeOK
  <1>6. shareValue(l) = (sharesOf[l] * P) \div totalShares
    BY <1>4 DEF shareValue
  <1>7. CASE c = totalShares
    <2>1. shareValue(l)' = 0
      BY <1>2, <1>5, <1>7 DEF shareValue
    <2>2. QED
      BY <1>3, <2>1
  <1>8. CASE c # totalShares
    <2>1. c < totalShares /\ totalShares' # 0
      BY <1>2, <1>4, <1>5, <1>8
    <2>2. shareValue(l)' = (sharesOf'[l] * totalPooledAssets') \div totalShares'
      BY <2>1 DEF shareValue
    <2> HIDE DEF P, c
    <2>3. shareValue(l)' = ((sharesOf[l] - c) * (P - amount)) \div (totalShares - c)
      BY <1>5, <2>2, Zenon
    <2>4. QED
      BY <1>2, <1>3, <1>4, <1>6, <2>1, <2>3, BurnGainsNothing
  <1>9. QED
    BY <1>7, <1>8

(***************************************************************************)
(* Rounding never pays: no sequence of deposits and withdrawals earns its  *)
(* lender anything but a share of the interest, and none of them costs     *)
(* another lender anything.                                                *)
(***************************************************************************)
THEOREM PoolRoundingNeverPays == Spec => RoundingNeverPays
  <1> DEFINE Step == \A l \in Lenders :
               /\ \A amount \in Amounts : DepositStep(l, amount) /\ WithdrawStep(l, amount)
               /\ ClaimStep(l)
  <1>1. TypeOK /\ TypeOK' /\ SharesBacked /\ AccountsCovered /\ AccountsCovered' /\ [Next]_vars
          => [Step]_vars
    <2>1. SUFFICES ASSUME TypeOK, TypeOK', SharesBacked, AccountsCovered, AccountsCovered',
                          [Next]_vars, NEW l \in Lenders
                   PROVE  /\ \A amount \in Amounts : DepositStep(l, amount) /\ WithdrawStep(l, amount)
                          /\ ClaimStep(l)
      OBVIOUS
    <2>2. \A amount \in Amounts : amount \in Nat
      BY PoolConstants
    <2>3. SharePriceStep
      BY <2>1, SharesStep DEF ShareStep
    <2>4. QED
      BY <2>1, <2>2, <2>3, DepositClaim, WithdrawClaim, ClaimFollowsPrice
  <1> HIDE DEF Step
  <1>2. Spec => [][Step]_vars
    BY <1>1, PoolTypeCorrect, PoolSharesBacked, PoolTotalsCoverEveryAccount, PTL DEF Spec
  <1>3. QED
    BY <1>2 DEF RoundingNeverPays, Step

\* Accounts that are each covered at one rate are covered together.
LEMMA SumScaled ==
  ASSUME NEW S, IsFiniteSet(S), NEW f \in [S -> Nat], NEW g \in [S -> Nat],
         NEW k \in Nat, NEW d \in Nat, \A a \in S : f[a] * d <= g[a] * k
  PROVE  \A T \in SUBSET S : SumOn(f, T) * d <= SumOn(g, T) * k
  <1> DEFINE Good(T) == SumOn(f, T) * d <= SumOn(g, T) * k
             Bad == {T \in SUBSET S : ~Good(T)}
  <1>1. SUFFICES ASSUME Bad # {} PROVE FALSE
    OBVIOUS
  <1>2. PICK T \in Bad : \A U \in SUBSET T : U # T => U \notin Bad
    <2>1. Bad \in SUBSET (SUBSET S)
      OBVIOUS
    <2> HIDE DEF Bad
    <2>2. QED
      BY <1>1, <2>1, SmallestSubset
  <1>3. /\ SumOn(f, T) = IF T = {} THEN 0 ELSE f[first(T)] + SumOn(f, T \ {first(T)})
        /\ SumOn(g, T) = IF T = {} THEN 0 ELSE g[first(T)] + SumOn(g, T \ {first(T)})
    BY SumStep, FS_Subset
  <1>4. CASE T = {}
    BY <1>3, <1>4
  <1>5. CASE T # {}
    <2> DEFINE a == first(T)
               u == SumOn(f, T \ {a})
               v == SumOn(g, T \ {a})
    <2>1. a \in T /\ a \in S
      BY <1>5, FirstOf
    <2>2. u * d <= v * k
      BY <1>2, <2>1
    <2>3. u \in Nat /\ v \in Nat
      BY SumType
    <2>4. f[a] \in Nat /\ g[a] \in Nat /\ f[a] * d <= g[a] * k
      BY <2>1
    <2>5. SumOn(f, T) = f[a] + u /\ SumOn(g, T) = g[a] + v
      BY <1>3, <1>5
    <2> HIDE DEF a, u, v
    <2>6. (f[a] + u) * d <= (g[a] + v) * k
      <3>1. (f[a] + u) * d = f[a] * d + u * d /\ (g[a] + v) * k = g[a] * k + v * k
        BY <2>3, <2>4
      <3>2. f[a] * d \in Nat /\ u * d \in Nat /\ g[a] * k \in Nat /\ v * k \in Nat
        BY <2>3, <2>4, MulNat
      <3>3. QED
        BY <2>2, <2>4, <3>1, <3>2
    <2>7. QED
      BY <1>2, <2>5, <2>6
  <1>6. QED
    BY <1>4, <1>5

claims == [l \in Lenders |-> shareValue(l)]

ClaimsCovered == SumOver(claims) <= totalPooledAssets

(***************************************************************************)
(* All lenders together can never claim more than the pool is worth: each  *)
(* claim is rounded down, and the shares add up to the total they are      *)
(* measured against.                                                       *)
(***************************************************************************)
THEOREM PoolCoversEveryClaim == Spec => []ClaimsCovered
  <1>1. ASSUME TypeOK, LedgerTotalsAgree, AccountsCovered
        PROVE  ClaimsCovered
    <2> DEFINE P == totalPooledAssets
               S == totalShares
               C == SumOn(claims, Lenders)
    <2>1. S \in Nat /\ P \in Nat /\ sharesOf \in [Lenders -> Nat] /\ IsFiniteSet(Lenders)
      BY <1>1, FiniteAccounts DEF TypeOK, LedgerTypeOK, totalPooledAssets
    <2>2. \A l \in Lenders : shareValue(l) = IF S = 0 THEN 0 ELSE (sharesOf[l] * P) \div S
      BY DEF shareValue
    <2>3. SumOver(claims) = C /\ SumOn(sharesOf, Lenders) = S
      <3>1. DOMAIN claims = Lenders /\ DOMAIN sharesOf = Lenders
        BY <2>1 DEF claims
      <3>2. QED
        BY <1>1, <3>1, SumOverIsSumOn DEF LedgerTotalsAgree
    <2> HIDE DEF P, S, C
    <2>4. \A l \in Lenders : claims[l] \in Nat /\ claims[l] * S <= sharesOf[l] * P
      <3>1. SUFFICES ASSUME NEW l \in Lenders
                     PROVE  claims[l] \in Nat /\ claims[l] * S <= sharesOf[l] * P
        OBVIOUS
      <3>2. claims[l] = IF S = 0 THEN 0 ELSE (sharesOf[l] * P) \div S
        BY <2>2 DEF claims
      <3>3. sharesOf[l] \in Nat /\ sharesOf[l] * P \in Nat
        BY <2>1, MulNat
      <3>4. CASE S = 0
        BY <3>2, <3>3, <3>4
      <3>5. CASE S # 0
        BY <2>1, <3>2, <3>3, <3>5, FloorDiv
      <3>6. QED
        BY <3>4, <3>5
    <2>5. claims \in [Lenders -> Nat]
      BY <2>4 DEF claims
    <2>6. C \in Nat /\ C * S <= S * P
      BY <2>1, <2>3, <2>4, <2>5, SumType, SumScaled DEF C
    <2>7. CASE S = 0
      <3>1. \A l \in Lenders : claims[l] = 0
        BY <2>2, <2>7 DEF claims
      <3>2. C = 0
        BY <2>1, <2>5, <3>1, SumOfNothing DEF C
      <3>3. QED
        BY <2>1, <2>3, <3>2 DEF ClaimsCovered, P
    <2>8. CASE S # 0
      <3>1. C * S <= P * S
        BY <2>1, <2>6
      <3>2. C <= P
        BY <2>1, <2>6, <2>8, <3>1, MulCancel
      <3>3. QED
        BY <2>3, <3>2 DEF ClaimsCovered, P
    <2>9. QED
      BY <2>7, <2>8
  <1>2. QED
    BY <1>1, PoolTypeCorrect, PoolTotalsAgree, PoolTotalsCoverEveryAccount, PTL

-----------------------------------------------------------------------------
(* The exits: what each requires holds wherever it is needed *)

\* A borrower without debt takes all of its collateral out, cleared or not.
LEMMA DebtFreeBorrowerLeaves ==
  ASSUME TypeOK, AccountsCovered, NEW b \in Borrowers
  PROVE  DebtFreeLeaves(b)
  <1>1. /\ accrued(b).collateral = positions[b].collateral
        /\ owed(accrued(b)) = currentDebt(b)
    BY AccruedPosition
  <1>2. positions[b].collateral \in Nat /\ totalCollateral \in Nat /\ poolBalance \in Nat
    BY DEF TypeOK, LedgerTypeOK, BorrowerPosition
  <1>3. positions[b].collateral <= totalCollateral /\ positions[b].collateral <= poolBalance
    BY <1>2 DEF AccountsCovered
  <1>4. QED
    BY <1>1, <1>2, <1>3 DEF DebtFreeLeaves, withdrawCollateralPasses, WithdrawalAllowed

\* Whoever offers all of a debt is taken at its word, and then owes nothing.
LEMMA DebtorIsHeard ==
  ASSUME TypeOK, AccountsCovered, NEW b \in Borrowers
  PROVE  DebtorPays(b)
  <1>1. SUFFICES ASSUME currentDebt(b) > 0, NEW amount \in Nat, amount >= currentDebt(b)
                 PROVE  /\ repayPasses(b, amount)
                        /\ owed(Paid(accrued(b), Lesser(amount, currentDebt(b)))) = 0
    BY DEF DebtorPays
  <1>2. /\ accrued(b) \in BorrowerPosition
        /\ accrued(b).principal = positions[b].principal
        /\ owed(accrued(b)) = currentDebt(b) /\ currentDebt(b) \in Nat
    BY AccruedPosition
  <1>3. Lesser(amount, currentDebt(b)) = currentDebt(b)
    BY <1>1, <1>2 DEF Lesser
  <1> DEFINE after == Paid(accrued(b), currentDebt(b))
  <1>4. after \in BorrowerPosition /\ owed(after) = 0
    BY <1>2, PaidPosition
  <1>5. /\ positions[b].principal \in Nat /\ after.principal \in Nat
        /\ totalPrincipalOutstanding \in Nat
        /\ positions[b].principal <= totalPrincipalOutstanding
    BY <1>4 DEF TypeOK, LedgerTypeOK, BorrowerPosition, AccountsCovered
  <1> HIDE DEF after
  <1>6. positions[b].principal - after.principal <= totalPrincipalOutstanding
    BY <1>5
  <1>7. QED
    BY <1>1, <1>2, <1>3, <1>4, <1>6 DEF repayPasses, after

\* An unhealthy position can be liquidated, whatever its collateral is worth.
LEMMA UnhealthyCanBeLiquidated ==
  ASSUME TypeOK, AccountsCovered, NEW b \in Borrowers
  PROVE  UnhealthyIsLiquidated(b)
  <1>1. SUFFICES ASSUME ~isHealthy(b)
                 PROVE  liquidatePasses(b)
    BY DEF UnhealthyIsLiquidated
  <1>2. /\ accrued(b).principal = positions[b].principal
        /\ accrued(b).collateral = positions[b].collateral
        /\ owed(accrued(b)) = currentDebt(b) /\ currentDebt(b) \in Nat
    BY AccruedPosition
  <1>3. currentDebt(b) > 0
    BY <1>1, <1>2 DEF isHealthy
  <1>4. /\ positions[b].collateral \in Nat /\ totalCollateral \in Nat /\ poolBalance \in Nat
        /\ positions[b].principal <= totalPrincipalOutstanding
        /\ positions[b].collateral <= totalCollateral /\ totalCollateral <= poolBalance
    BY DEF TypeOK, LedgerTypeOK, BorrowerPosition, AccountsCovered
  <1> DEFINE seized == CollateralSeized(currentDebt(b), positions[b].collateral)
  <1>5. seized \in Nat /\ seized <= positions[b].collateral
    BY <1>2, <1>4, SeizedType
  <1> HIDE DEF seized
  <1>6. seized <= totalCollateral /\ seized <= poolBalance + currentDebt(b)
    BY <1>2, <1>4, <1>5
  <1>7. QED
    BY <1>1, <1>2, <1>3, <1>4, <1>6 DEF liquidatePasses, seized

\* Idle liquidity that a lender's shares are worth is the lender's to take.
LEMMA LenderCanLeave ==
  ASSUME TypeOK, AccountsCovered, Solvency, NEW l \in Lenders
  PROVE  LenderLeaves(l)
  <1> DEFINE amount == Lesser(shareValue(l), idleLiquidity)
  <1>1. SUFFICES ASSUME amount > 0
                 PROVE  withdrawPasses(l, amount)
    BY DEF LenderLeaves
  <1>2. /\ idleLiquidity \in Nat /\ totalCollateral \in Nat /\ poolBalance \in Nat
        /\ totalPrincipalOutstanding \in Nat
        /\ totalShares \in Nat /\ sharesOf[l] \in Nat /\ sharesOf[l] <= totalShares
        /\ idleLiquidity <= poolBalance
    BY DEF TypeOK, LedgerTypeOK, AccountsCovered, Solvency
  <1>3. shareValue(l) \in Nat
    <2>1. totalPooledAssets \in Nat
      BY <1>2 DEF totalPooledAssets
    <2>2. sharesOf[l] * totalPooledAssets \in Nat
      BY <1>2, <2>1, MulNat
    <2>3. totalShares # 0 => (sharesOf[l] * totalPooledAssets) \div totalShares \in Nat
      BY <1>2, <2>2, FloorDiv
    <2>4. QED
      BY <2>3 DEF shareValue
  <1>4. amount \in Nat /\ amount <= shareValue(l) /\ amount <= idleLiquidity
    BY <1>2, <1>3, LesserType
  <1> HIDE DEF amount
  <1>5. SharesBurned(l, amount) \in Nat /\ SharesBurned(l, amount) <= sharesOf[l]
    BY <1>1, <1>4, BurnType
  <1>6. SharesBurned(l, amount) <= totalShares /\ amount <= poolBalance
    BY <1>2, <1>4, <1>5
  <1>7. QED
    BY <1>1, <1>4, <1>6 DEF withdrawPasses

\* The installed guardian's self-cure applies what there is and never reverts.
LEMMA SelfCureIsHeard ==
  ASSUME TypeOK, AccountsCovered, NEW b \in Borrowers
  PROVE  SelfCurePasses(b)
  <1>1. SUFFICES ASSUME NEW amount \in Nat
                 PROVE  applyCollateralToDebtPasses(guardian, b, amount)
    BY DEF SelfCurePasses
  <1>2. /\ accrued(b) \in BorrowerPosition
        /\ accrued(b).principal = positions[b].principal
        /\ accrued(b).collateral = positions[b].collateral
        /\ owed(accrued(b)) \in Nat
    BY AccruedPosition
  <1>3. /\ positions[b].collateral \in Nat /\ totalCollateral \in Nat
        /\ positions[b].principal \in Nat /\ totalPrincipalOutstanding \in Nat
        /\ positions[b].principal <= totalPrincipalOutstanding
        /\ positions[b].collateral <= totalCollateral
    BY DEF TypeOK, LedgerTypeOK, BorrowerPosition, AccountsCovered
  <1> DEFINE there   == Lesser(owed(accrued(b)), positions[b].collateral)
             applied == Lesser(amount, there)
  <1>4. there \in Nat /\ there <= owed(accrued(b)) /\ there <= positions[b].collateral
    BY <1>2, <1>3, LesserType
  <1> HIDE DEF there
  <1>5. applied \in Nat /\ applied <= there
    BY <1>4, LesserType
  <1> HIDE DEF applied
  <1>6. applied <= owed(accrued(b)) /\ applied <= totalCollateral
    BY <1>2, <1>3, <1>4, <1>5
  <1> DEFINE after == Paid(accrued(b), applied)
  <1>7. after \in BorrowerPosition
    BY <1>2, <1>5, <1>6, PaidPosition
  <1>8. after.principal \in Nat
    BY <1>7 DEF BorrowerPosition
  <1> HIDE DEF after
  <1>9. positions[b].principal - after.principal <= totalPrincipalOutstanding
    BY <1>3, <1>8
  <1>10. QED
    BY <1>2, <1>6, <1>9 DEF applyCollateralToDebtPasses, after, applied, there

(***************************************************************************)
(* No exit is ever trapped, by any number of accounts and in any state of  *)
(* gate, pause and clock: what ExitsOpen asks of the actions, said of the  *)
(* conditions they wait for.  Nor can the guardian's self-cure revert.     *)
(***************************************************************************)
THEOREM PoolExitsPass == Spec => []ExitsPass
  <1>1. TypeOK /\ AccountsCovered /\ Solvency => ExitsPass
    BY DebtFreeBorrowerLeaves, DebtorIsHeard, UnhealthyCanBeLiquidated, LenderCanLeave,
       SelfCureIsHeard DEF ExitsPass
  <1>2. QED
    BY <1>1, PoolTypeCorrect, PoolTotalsCoverEveryAccount, PoolSolvent, PTL
=============================================================================
