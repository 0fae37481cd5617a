-------------------------- MODULE LendingPoolProofs --------------------------
(***************************************************************************)
(* What LendingPool guarantees for every number of users, every amount,    *)
(* every interest curve and every behaviour of the gate and the policy.    *)
(***************************************************************************)
EXTENDS LendingPool, CompliancePolicyProofs

-----------------------------------------------------------------------------
(* Arithmetic of mulDiv *)

\* mulDiv rounding down: the quotient never exceeds the exact value.
LEMMA FloorDiv ==
  ASSUME NEW a \in Nat, NEW b \in Nat, b > 0
  PROVE  a \div b \in Nat /\ (a \div b) * b <= a /\ a < (a \div b) * b + b
  BY Z3

LEMMA NothingDivided == ASSUME NEW b \in Nat, b > 0 PROVE 0 \div b = 0
  BY Z3

LEMMA AddNat == ASSUME NEW a \in Nat, NEW b \in Nat PROVE a + b \in Nat
  OBVIOUS

LEMMA MulNat == ASSUME NEW a \in Nat, NEW b \in Nat PROVE a * b \in Nat
  OBVIOUS

LEMMA MulMono ==
  ASSUME NEW a \in Nat, NEW b \in Nat, NEW c \in Nat, a <= b
  PROVE  a * c <= b * c
  OBVIOUS

LEMMA MulMonoLeft ==
  ASSUME NEW a \in Nat, NEW b \in Nat, NEW c \in Nat, a <= b
  PROVE  c * a <= c * b
  BY MulMono

LEMMA DivMono ==
  ASSUME NEW a \in Nat, NEW b \in Nat, NEW c \in Nat, c > 0, a <= b
  PROVE  a \div c <= b \div c
  <1> DEFINE p == a \div c
             q == b \div c
  <1>1. p \in Nat /\ q \in Nat /\ p * c <= a /\ b < q * c + c
    BY FloorDiv
  <1> HIDE DEF p, q
  <1>2. p * c < q * c + c
    BY <1>1
  <1>3. p <= q
    <2>1. SUFFICES ASSUME q + 1 <= p PROVE FALSE
      BY <1>1
    <2>2. (q + 1) * c <= p * c
      BY <1>1, <2>1, MulMono
    <2>3. (q + 1) * c = q * c + c /\ q * c \in Nat /\ p * c \in Nat
      BY <1>1
    <2>4. QED
      BY <1>2, <2>2, <2>3
  <1>4. QED
    BY <1>3 DEF p, q

LEMMA MulCancel ==
  ASSUME NEW a \in Int, NEW b \in Int, NEW c \in Nat, c > 0, a * c <= b * c
  PROVE  a <= b
  OBVIOUS

\* mulDiv rounding up: the least quotient that covers the exact value.
LEMMA CeilDivCovers ==
  ASSUME NEW a \in Nat, NEW b \in Nat, b > 0
  PROVE  /\ CeilDiv(a, b) \in Nat
         /\ a <= CeilDiv(a, b) * b
         /\ \A s \in Nat : a <= s * b => CeilDiv(a, b) <= s
  <1> DEFINE c == CeilDiv(a, b)
  <1>1. a + b - 1 \in Nat
    OBVIOUS
  <1>2. c \in Nat /\ c * b <= a + b - 1 /\ a + b - 1 < c * b + b
    BY <1>1, FloorDiv DEF CeilDiv
  <1>3. c * b \in Nat
    BY <1>2, MulNat
  <1>4. a <= c * b
    BY <1>2, <1>3
  <1>5. ASSUME NEW s \in Nat, a <= s * b
        PROVE  c <= s
    <2>1. SUFFICES ASSUME s + 1 <= c PROVE FALSE
      BY <1>2
    <2>2. (s + 1) * b <= c * b
      BY <2>1, <1>2, MulMono
    <2>3. (s + 1) * b = s * b + b /\ s * b \in Nat
      OBVIOUS
    <2>4. QED
      BY <1>2, <1>3, <1>5, <2>2, <2>3
  <1>6. QED
    BY <1>2, <1>4, <1>5

\* What is a multiple of the divisor bounds the quotient.
LEMMA FloorAtLeast ==
  ASSUME NEW v \in Nat, NEW x \in Nat, NEW d \in Nat, d > 0, v * d <= x
  PROVE  v <= x \div d
  <1> DEFINE q == x \div d
  <1>1. q \in Nat /\ x < q * d + d
    BY FloorDiv
  <1> HIDE DEF q
  <1>2. v * d < (q + 1) * d
    <2>1. (q + 1) * d = q * d + d /\ q * d \in Nat /\ v * d \in Nat
      BY <1>1
    <2>2. QED
      BY <1>1, <2>1
  <1>3. v <= q
    <2>1. SUFFICES ASSUME q + 1 <= v PROVE FALSE
      BY <1>1
    <2>2. (q + 1) * d <= v * d
      BY <1>1, <2>1, MulMono
    <2>3. (q + 1) * d \in Nat /\ v * d \in Nat
      BY <1>1
    <2>4. QED
      BY <1>2, <2>2, <2>3
  <1>4. QED
    BY <1>3 DEF q

\* The same shares are worth no less at a price that has not fallen.
LEMMA WorthNoLess ==
  ASSUME NEW s \in Nat, NEW S \in Nat, NEW P \in Nat, NEW S2 \in Nat, NEW P2 \in Nat,
         S > 0, S2 > 0, S2 * P <= S * P2
  PROVE  (s * P) \div S <= (s * P2) \div S2
  <1> DEFINE v == (s * P) \div S
  <1>1. v \in Nat /\ v * S <= s * P
    BY MulNat, FloorDiv
  <1> HIDE DEF v
  <1>2. (v * S) * S2 <= (s * P) * S2
    BY <1>1, MulNat, MulMono
  <1>3. s * (S2 * P) <= s * (S * P2)
    BY MulNat, MulMonoLeft
  <1>4. (v * S2) * S <= (s * P2) * S
    <2>1. (v * S) * S2 = (v * S2) * S /\ (s * P) * S2 = s * (S2 * P)
          /\ s * (S * P2) = (s * P2) * S
      BY <1>1
    <2>2. (v * S2) * S \in Nat /\ s * (S2 * P) \in Nat /\ (s * P2) * S \in Nat
      BY <1>1
    <2>3. QED
      BY <1>2, <1>3, <2>1, <2>2
  <1>5. v * S2 <= s * P2
    BY <1>1, <1>4, MulNat, MulCancel
  <1>6. QED
    BY <1>1, <1>5, MulNat, FloorAtLeast DEF v

\* Nor does it matter that no shares are worth nothing.
LEMMA ClaimWorthNoLess ==
  ASSUME NEW s \in Nat, NEW S \in Nat, NEW P \in Nat, NEW S2 \in Nat, NEW P2 \in Nat,
         s <= S, s <= S2, S > 0 => S2 * P <= S * P2
  PROVE  (IF S = 0 THEN 0 ELSE (s * P) \div S) <= (IF S2 = 0 THEN 0 ELSE (s * P2) \div S2)
  <1>1. CASE S = 0 /\ S2 # 0
    <2>1. (s * P2) \div S2 \in Nat
      BY <1>1, MulNat, FloorDiv
    <2>2. QED
      BY <1>1, <2>1
  <1>2. CASE S # 0 /\ S2 = 0
    <2>1. s * P = 0
      BY <1>2
    <2>2. 0 \div S = 0
      BY <1>2, NothingDivided
    <2>3. QED
      BY <1>2, <2>1, <2>2
  <1>3. CASE S # 0 /\ S2 # 0
    <2>1. S > 0 /\ S2 > 0
      BY <1>3
    <2>2. (s * P) \div S <= (s * P2) \div S2
      BY <2>1, WorthNoLess
    <2>3. QED
      BY <1>3, <2>2
  <1>4. CASE S = 0 /\ S2 = 0
    BY <1>4
  <1>5. QED
    BY <1>1, <1>2, <1>3, <1>4

\* Minting at most what a deposit is worth gains its lender nothing.
LEMMA MintGainsNothing ==
  ASSUME NEW s \in Nat, NEW S \in Nat, NEW P \in Nat, NEW m \in Nat, NEW a \in Nat,
         s <= S, S > 0, m * P <= a * S
  PROVE  ((s + m) * (P + a)) \div (S + m) <= (s * P) \div S + a
  <1> DEFINE v == ((s + m) * (P + a)) \div (S + m)
             spare == (S - s) * (a * S - m * P)
  <1>1. v \in Nat /\ v * (S + m) <= (s + m) * (P + a)
    BY MulNat, FloorDiv
  <1> HIDE DEF v
  <1>2. spare \in Nat
    <2>1. S - s \in Nat /\ a * S - m * P \in Nat
      BY MulNat
    <2>2. QED
      BY <2>1, MulNat
  <1>3. ((s + m) * (P + a)) * S + spare = (s * P + a * S) * (S + m)
    OBVIOUS
  <1> HIDE DEF spare
  <1>4. (v * (S + m)) * S <= ((s + m) * (P + a)) * S
    BY <1>1, MulNat, MulMono
  <1>5. (v * S) * (S + m) <= (s * P + a * S) * (S + m)
    <2>1. (v * (S + m)) * S = (v * S) * (S + m)
      BY <1>1
    <2>2. (v * S) * (S + m) \in Nat /\ ((s + m) * (P + a)) * S \in Nat
      BY <1>1
    <2>3. QED
      BY <1>2, <1>3, <1>4, <2>1, <2>2
  <1>6. v * S <= s * P + a * S
    BY <1>1, <1>5, MulNat, MulCancel
  <1>7. CASE v <= a
    BY <1>1, <1>7, MulNat, FloorDiv DEF v
  <1>8. CASE v > a
    <2>1. v - a \in Nat /\ (v - a) * S = v * S - a * S
      BY <1>1, <1>8
    <2>2. (v - a) * S <= s * P
      BY <1>1, <1>6, <2>1, MulNat
    <2>3. v - a <= (s * P) \div S
      BY <2>1, <2>2, MulNat, FloorAtLeast
    <2>4. QED
      BY <1>1, <2>1, <2>3, MulNat, FloorDiv DEF v
  <1>9. QED
    BY <1>1, <1>7, <1>8

\* Burning at least what a withdrawal is worth gains its lender nothing.
LEMMA BurnGainsNothing ==
  ASSUME NEW s \in Nat, NEW S \in Nat, NEW P \in Nat, NEW c \in Nat, NEW a \in Nat,
         s <= S, c <= s, c < S, a <= P, a * S <= c * P
  PROVE  ((s - c) * (P - a)) \div (S - c) + a <= (s * P) \div S
  <1> DEFINE left == (s - c) * (P - a)
             v == left \div (S - c)
             spare == (S - s) * (c * P - a * S)
  <1>1. S - c \in Nat /\ S - c > 0 /\ s - c \in Nat /\ P - a \in Nat
    OBVIOUS
  <1>2. left \in Nat /\ v \in Nat /\ v * (S - c) <= left
    BY <1>1, MulNat, FloorDiv
  <1>3. spare \in Nat
    <2>1. S - s \in Nat /\ c * P - a * S \in Nat
      BY MulNat
    <2>2. QED
      BY <2>1, MulNat
  <1>4. left * S + (a * S) * (S - c) + spare = (s * P) * (S - c)
    OBVIOUS
  <1> HIDE DEF v, spare, left
  <1>5. (v * (S - c)) * S <= left * S
    BY <1>1, <1>2, MulNat, MulMono
  <1>6. ((v + a) * S) * (S - c) <= (s * P) * (S - c)
    <2>1. ((v + a) * S) * (S - c) = (v * (S - c)) * S + (a * S) * (S - c)
      BY <1>1, <1>2
    <2>2. (v * (S - c)) * S \in Nat /\ (a * S) * (S - c) \in Nat /\ left * S \in Nat
      BY <1>1, <1>2, MulNat
    <2>3. QED
      BY <1>3, <1>4, <1>5, <2>1, <2>2
  <1>7. (v + a) * S <= s * P
    BY <1>1, <1>2, <1>6, MulNat, MulCancel
  <1>8. v + a \in Nat
    BY <1>2
  <1>9. v + a <= (s * P) \div S
    BY <1>7, <1>8, MulNat, FloorAtLeast
  <1>10. QED
    BY <1>9 DEF v, left

-----------------------------------------------------------------------------
(* Positions stay positions when their fields are given natural values. *)

LEMMA SetCollateral ==
  ASSUME NEW pos \in BorrowerPosition, NEW x \in Nat
  PROVE  [pos EXCEPT !.collateral = x] \in BorrowerPosition
  BY DEF BorrowerPosition

LEMMA SetPrincipal ==
  ASSUME NEW pos \in BorrowerPosition, NEW x \in Nat
  PROVE  [pos EXCEPT !.principal = x] \in BorrowerPosition
  BY DEF BorrowerPosition

LEMMA SetInterestAndTime ==
  ASSUME NEW pos \in BorrowerPosition, NEW x \in Nat, NEW y \in Nat
  PROVE  [pos EXCEPT !.accruedInterest = x, !.lastAccrualTimestamp = y] \in BorrowerPosition
  BY Zenon DEF BorrowerPosition

LEMMA SetInterestAndPrincipal ==
  ASSUME NEW pos \in BorrowerPosition, NEW x \in Nat, NEW y \in Nat
  PROVE  [pos EXCEPT !.accruedInterest = x, !.principal = y] \in BorrowerPosition
  BY Zenon DEF BorrowerPosition

LEMMA SetAllAmounts ==
  ASSUME NEW pos \in BorrowerPosition, NEW x \in Nat, NEW y \in Nat, NEW z \in Nat
  PROVE  [pos EXCEPT !.principal = x, !.accruedInterest = y, !.collateral = z]
           \in BorrowerPosition
  BY Zenon DEF BorrowerPosition

-----------------------------------------------------------------------------
(* The interest and settlement operators *)

\* The utilization is a fraction: never above BPS.
LEMMA UtilizationType ==
  ASSUME TypeOK
  PROVE  currentUtilizationBps \in 0..BPS
  <1> DEFINE P == totalPooledAssets
             T == totalPrincipalOutstanding
  <1>1. P \in Nat /\ T \in Nat /\ T <= P /\ BPS \in Nat
    BY PolicyConstants DEF TypeOK, LedgerTypeOK, totalPooledAssets
  <1>2. CASE P = 0
    BY <1>1, <1>2 DEF currentUtilizationBps
  <1>3. CASE P > 0
    <2> DEFINE u == (T * BPS) \div P
    <2>1. T * BPS \in Nat /\ T * BPS <= P * BPS
      BY <1>1, MulNat, MulMono
    <2>2. u \in Nat /\ u * P <= T * BPS
      BY <1>1, <1>3, <2>1, FloorDiv
    <2>3. u * P <= BPS * P /\ u * P \in Nat
      BY <1>1, <2>1, <2>2
    <2>4. u <= BPS
      BY <1>1, <1>3, <2>2, <2>3, MulCancel
    <2>5. QED
      BY <1>1, <1>3, <2>2, <2>4 DEF currentUtilizationBps
  <1>4. QED
    BY <1>1, <1>2, <1>3

LEMMA RateType ==
  ASSUME TypeOK
  PROVE  currentInterestRate \in Nat
  <1> DEFINE u == currentUtilizationBps
  <1>1. /\ params.baseRate \in Nat /\ params.slope1 \in Nat /\ params.slope2 \in Nat
        /\ params.kink \in Nat /\ params.kink > 0 /\ params.kink <= BPS /\ BPS \in Nat
    BY PolicyConstants DEF TypeOK, AdminTypeOK
  <1>2. u \in Nat /\ u <= BPS
    BY <1>1, UtilizationType
  <1>3. CASE u <= params.kink
    <2>1. (params.slope1 * u) \div params.kink \in Nat
      BY <1>1, <1>2, MulNat, FloorDiv
    <2>2. QED
      BY <1>1, <1>3, <2>1 DEF currentInterestRate
  <1>4. CASE u > params.kink
    <2>1. u - params.kink \in Nat /\ BPS - params.kink \in Nat /\ BPS - params.kink > 0
      BY <1>1, <1>2, <1>4
    <2>2. (params.slope2 * (u - params.kink)) \div (BPS - params.kink) \in Nat
      BY <1>1, <2>1, MulNat, FloorDiv
    <2>3. QED
      BY <1>1, <1>2, <1>4, <2>2 DEF currentInterestRate
  <1>5. QED
    BY <1>1, <1>2, <1>3, <1>4

LEMMA PendingType ==
  ASSUME TypeOK, NEW b \in Borrowers
  PROVE  /\ pendingInterest(b) \in Nat
         /\ positions[b].principal = 0 => pendingInterest(b) = 0
  <1> DEFINE pos == positions[b]
             time == now - pos.lastAccrualTimestamp
  <1>1. pos.principal \in Nat /\ time \in Nat /\ BPS \in Nat /\ BPS > 0
    BY PolicyConstants DEF TypeOK, EnvTypeOK, LedgerTypeOK, BorrowerPosition
  <1>2. pos.principal * (time * currentInterestRate) \in Nat
    BY <1>1, RateType, MulNat
  <1>3. (pos.principal * (time * currentInterestRate)) \div BPS \in Nat
    BY <1>1, <1>2, FloorDiv
  <1>4. QED
    BY <1>3 DEF pendingInterest

\* _accrueInterest only adds interest, and none to a position without principal.
LEMMA AccruedPosition ==
  ASSUME TypeOK, NEW b \in Borrowers
  PROVE  /\ accrued(b) \in BorrowerPosition
         /\ accrued(b).collateral = positions[b].collateral
         /\ accrued(b).principal = positions[b].principal
         /\ accrued(b).accruedInterest = positions[b].accruedInterest + pendingInterest(b)
         /\ accrued(b).lastAccrualTimestamp = now
         /\ owed(accrued(b)) = currentDebt(b)
         /\ owed(accrued(b)) \in Nat
  <1>1. positions[b] \in BorrowerPosition /\ now \in Nat
    BY DEF TypeOK, EnvTypeOK, LedgerTypeOK
  <1>2. pendingInterest(b) \in Nat
    BY PendingType
  <1>3. /\ accrued(b) \in BorrowerPosition
        /\ accrued(b).collateral = positions[b].collateral
        /\ accrued(b).principal = positions[b].principal
        /\ accrued(b).accruedInterest = positions[b].accruedInterest + pendingInterest(b)
        /\ accrued(b).lastAccrualTimestamp = now
    <2> DEFINE interest == positions[b].accruedInterest + pendingInterest(b)
    <2>1. accrued(b) = [positions[b] EXCEPT !.accruedInterest = interest,
                                            !.lastAccrualTimestamp = now]
      BY DEF accrued
    <2>2. interest \in Nat
      BY <1>1, <1>2 DEF BorrowerPosition
    <2> HIDE DEF interest
    <2>3. accrued(b) \in BorrowerPosition
      BY <1>1, <2>1, <2>2, SetInterestAndTime
    <2>4. /\ accrued(b).collateral = positions[b].collateral
          /\ accrued(b).principal = positions[b].principal
          /\ accrued(b).accruedInterest = interest
          /\ accrued(b).lastAccrualTimestamp = now
      BY <1>1, <2>1, <2>2 DEF BorrowerPosition
    <2>5. QED
      BY <2>3, <2>4 DEF interest
  <1>4. QED
    BY <1>1, <1>2, <1>3 DEF owed, currentDebt, BorrowerPosition

\* A payment is taken from the interest first and is never lost.
LEMMA LesserType ==
  ASSUME NEW x \in Nat, NEW y \in Nat
  PROVE  Lesser(x, y) \in Nat /\ Lesser(x, y) <= x /\ Lesser(x, y) <= y
  BY DEF Lesser
LEMMA PaidPosition ==
  ASSUME NEW pos \in BorrowerPosition, NEW amount \in Nat, amount <= owed(pos)
  PROVE  /\ Paid(pos, amount) \in BorrowerPosition
         /\ Paid(pos, amount).collateral = pos.collateral
         /\ Paid(pos, amount).lastAccrualTimestamp = pos.lastAccrualTimestamp
         /\ Paid(pos, amount).principal <= pos.principal
         /\ pos.principal - Paid(pos, amount).principal <= amount
         /\ owed(Paid(pos, amount)) = owed(pos) - amount
         /\ Paid(pos, amount).principal = 0 /\ pos.principal > 0
              => Paid(pos, amount).accruedInterest = 0
         /\ pos.accruedInterest = 0 => Paid(pos, amount).accruedInterest = 0
  <1> DEFINE interestPaid == Lesser(amount, pos.accruedInterest)
             interest == pos.accruedInterest - interestPaid
             principal == pos.principal - (amount - interestPaid)
  <1>1. pos.accruedInterest \in Nat /\ pos.principal \in Nat
    BY DEF BorrowerPosition
  <1>2. owed(pos) = pos.principal + pos.accruedInterest
    BY DEF owed
  <1>3. /\ interest \in Nat /\ principal \in Nat
        /\ principal <= pos.principal /\ pos.principal - principal <= amount
        /\ principal + interest = owed(pos) - amount
        /\ principal = 0 /\ pos.principal > 0 => interest = 0
        /\ pos.accruedInterest = 0 => interest = 0
    BY <1>1, <1>2 DEF Lesser
  <1>4. Paid(pos, amount) = [pos EXCEPT !.accruedInterest = interest, !.principal = principal]
    BY DEF Paid
  <1> HIDE DEF interest, principal
  <1>5. Paid(pos, amount) \in BorrowerPosition
    BY <1>3, <1>4, SetInterestAndPrincipal
  <1>6. /\ Paid(pos, amount).collateral = pos.collateral
        /\ Paid(pos, amount).lastAccrualTimestamp = pos.lastAccrualTimestamp
        /\ Paid(pos, amount).principal = principal
        /\ Paid(pos, amount).accruedInterest = interest
    BY <1>3, <1>4 DEF BorrowerPosition
  <1>7. QED
    BY <1>3, <1>5, <1>6 DEF owed

-----------------------------------------------------------------------------
(* Type correctness *)

LEMMA PoolTypeInit ==
  ASSUME Init
  PROVE  TypeOK
  <1>1. EnvTypeOK
    BY PolicyTypeInit DEF Init, EnvTypeOK
  <1>2. AdminTypeOK
    <2>1. PICK rate \in BaseRates, bonus \in Bonuses :
            params = [baseRate |-> rate, slope1 |-> 0, slope2 |-> 0, kink |-> BPS, bonus |-> bonus]
      BY DEF Init
    <2>2. rate \in Nat /\ bonus \in Nat /\ BPS \in 1..BPS
      BY PoolConstants, PolicyConstants
    <2>3. params \in [baseRate : Nat, slope1 : Nat, slope2 : Nat, kink : 1..BPS, bonus : Nat]
      BY <2>1, <2>2
    <2>4. QED
      BY <2>3 DEF Init, AdminTypeOK
  <1>3. LedgerTypeOK
    BY DEF Init, LedgerTypeOK, BorrowerPosition
  <1>4. QED
    BY <1>1, <1>2, <1>3 DEF TypeOK

LEMMA MintType ==
  ASSUME TypeOK, NEW amount \in Nat, totalShares = 0 \/ totalPooledAssets > 0
  PROVE  SharesMinted(amount) \in Nat
  <1>1. totalPooledAssets \in Nat /\ totalShares \in Nat
    BY DEF TypeOK, LedgerTypeOK, totalPooledAssets
  <1>2. CASE totalShares = 0
    BY <1>2 DEF SharesMinted
  <1>3. CASE totalShares # 0
    <2>1. totalPooledAssets > 0
      BY <1>3
    <2>2. (amount * totalShares) \div totalPooledAssets \in Nat
      BY <1>1, <2>1, MulNat, FloorDiv
    <2>3. QED
      BY <1>3, <2>2 DEF SharesMinted
  <1>4. QED
    BY <1>2, <1>3

LEMMA DepositType ==
  ASSUME TypeOK, NEW l \in Lenders, NEW amount \in Nat, deposit(l, amount), UNCHANGED now
  PROVE  LedgerTypeOK'
  <1>1. SharesMinted(amount) \in Nat
    BY MintType DEF deposit
  <1>2. QED
    BY <1>1 DEF deposit, TypeOK, LedgerTypeOK

\* The clamp keeps a withdrawal from burning more shares than the lender has.
LEMMA BurnType ==
  ASSUME TypeOK, NEW l \in Lenders, NEW amount \in Nat, amount > 0, amount <= idleLiquidity
  PROVE  SharesBurned(l, amount) \in Nat /\ SharesBurned(l, amount) <= sharesOf[l]
  <1>1. totalPooledAssets \in Nat /\ totalPooledAssets > 0
        /\ totalShares \in Nat /\ sharesOf[l] \in Nat
    BY DEF TypeOK, LedgerTypeOK, totalPooledAssets
  <1>2. CeilDiv(amount * totalShares, totalPooledAssets) \in Nat
    BY <1>1, MulNat, CeilDivCovers
  <1>3. QED
    BY <1>1, <1>2, LesserType DEF SharesBurned

LEMMA WithdrawType ==
  ASSUME TypeOK, NEW l \in Lenders, NEW amount \in Nat, withdraw(l, amount), UNCHANGED now
  PROVE  LedgerTypeOK'
  <1>1. SharesBurned(l, amount) \in Nat /\ SharesBurned(l, amount) <= sharesOf[l]
    BY BurnType DEF withdraw, withdrawPasses
  <1>2. QED
    BY <1>1 DEF withdraw, withdrawPasses, TypeOK, LedgerTypeOK

LEMMA PostCollateralType ==
  ASSUME TypeOK, NEW b \in Borrowers, NEW amount \in Nat, postCollateral(b, amount),
         UNCHANGED now
  PROVE  LedgerTypeOK'
  <1>1. positions[b].collateral + amount \in Nat
    BY DEF TypeOK, LedgerTypeOK, BorrowerPosition
  <1>2. [positions[b] EXCEPT !.collateral = positions[b].collateral + amount] \in BorrowerPosition
    BY <1>1, SetCollateral DEF TypeOK, LedgerTypeOK
  <1>3. QED
    BY <1>1, <1>2 DEF postCollateral, TypeOK, LedgerTypeOK, BorrowerPosition

\* Replacing one borrower's position by one accrued up to now keeps the ledger typed.
LEMMA OnePositionType ==
  ASSUME TypeOK, NEW b \in Borrowers, NEW pos \in BorrowerPosition,
         pos.lastAccrualTimestamp = now,
         positions' = [positions EXCEPT ![b] = pos], UNCHANGED now
  PROVE  /\ positions' \in [Borrowers -> BorrowerPosition]
         /\ \A c \in Borrowers : positions'[c].lastAccrualTimestamp <= now'
  BY DEF TypeOK, EnvTypeOK, LedgerTypeOK

LEMMA BorrowType ==
  ASSUME TypeOK, NEW b \in Borrowers, NEW amount \in Nat, borrow(b, amount), UNCHANGED now
  PROVE  LedgerTypeOK'
  <1> DEFINE pos == accrued(b)
             principal == pos.principal + amount
             after == [pos EXCEPT !.principal = principal]
  <1>1. pos \in BorrowerPosition /\ pos.lastAccrualTimestamp = now
    BY AccruedPosition
  <1>2. principal \in Nat
    BY <1>1 DEF BorrowerPosition
  <1>3. after \in BorrowerPosition
    BY <1>1, <1>2, SetPrincipal
  <1>4. after.lastAccrualTimestamp = now
    BY <1>1 DEF BorrowerPosition
  <1>5. positions' = [positions EXCEPT ![b] = after]
    BY DEF borrow
  <1>6. /\ positions' \in [Borrowers -> BorrowerPosition]
        /\ \A c \in Borrowers : positions'[c].lastAccrualTimestamp <= now'
    <2> HIDE DEF after
    <2>1. QED
      BY <1>3, <1>4, <1>5, OnePositionType
  <1>7. QED
    BY <1>6 DEF borrow, TypeOK, LedgerTypeOK

\* A liquidator never takes more collateral than there is.
LEMMA SeizedType ==
  ASSUME TypeOK, NEW debt \in Nat, NEW collateral \in Nat
  PROVE  /\ CollateralSeized(debt, collateral) \in Nat
         /\ CollateralSeized(debt, collateral) <= collateral
         /\ CollateralSeized(debt, collateral) * BPS <= debt * (BPS + params.bonus)
  <1> DEFINE full == (debt * (BPS + params.bonus)) \div BPS
  <1>1. BPS \in Nat /\ BPS > 0 /\ BPS + params.bonus \in Nat
    BY PolicyConstants DEF TypeOK, AdminTypeOK
  <1>2. debt * (BPS + params.bonus) \in Nat
    BY <1>1, MulNat
  <1>3. full \in Nat /\ full * BPS <= debt * (BPS + params.bonus)
    BY <1>1, <1>2, FloorDiv
  <1> HIDE DEF full
  <1>4. Lesser(full, collateral) \in Nat /\ Lesser(full, collateral) <= collateral
        /\ Lesser(full, collateral) <= full
    BY <1>3, LesserType
  <1>5. Lesser(full, collateral) * BPS <= full * BPS
    BY <1>1, <1>3, <1>4, MulMono
  <1>6. Lesser(full, collateral) * BPS \in Nat /\ full * BPS \in Nat
    BY <1>1, <1>3, <1>4, MulNat
  <1>7. CollateralSeized(debt, collateral) = Lesser(full, collateral)
    BY DEF CollateralSeized, full
  <1>8. QED
    BY <1>2, <1>3, <1>4, <1>5, <1>6, <1>7

-----------------------------------------------------------------------------
(***************************************************************************)
(* repay, withdrawCollateral, applyCollateralToDebt and liquidate have one *)
(* shape: the position is accrued, `paid' of its debt is settled into      *)
(* idle liquidity and `lost' of its collateral leaves the collateral side. *)
(***************************************************************************)

SettledTo(b, after, paid, lost) ==
  /\ paid <= currentDebt(b)
  /\ owed(after) = currentDebt(b) - paid
  /\ lost <= positions[b].collateral /\ lost <= totalCollateral
  /\ after.collateral = positions[b].collateral - lost
  /\ after.lastAccrualTimestamp = now
  /\ after.principal <= positions[b].principal
  /\ positions[b].principal - after.principal <= paid
  /\ positions[b].principal - after.principal <= totalPrincipalOutstanding
  /\ positions[b].principal > 0 /\ after.principal = 0 => after.accruedInterest = 0
  /\ positions[b].accruedInterest + pendingInterest(b) = 0 => after.accruedInterest = 0
  /\ lost <= poolBalance + paid
  /\ positions' = [positions EXCEPT ![b] = after]
  /\ totalPrincipalOutstanding' =
       totalPrincipalOutstanding - (positions[b].principal - after.principal)
  /\ totalCollateral' = totalCollateral - lost
  /\ idleLiquidity' = idleLiquidity + paid
  /\ poolBalance' = poolBalance + paid - lost
  /\ UNCHANGED <<totalShares, sharesOf>>

Settlement(b) ==
  \E after \in BorrowerPosition, paid \in Nat, lost \in Nat : SettledTo(b, after, paid, lost)

\* What each of the four adds to it
Repaid(b) ==
  \E after \in BorrowerPosition, paid \in Nat : SettledTo(b, after, paid, 0)

TakenOut(b) ==
  \E after \in BorrowerPosition, lost \in Nat :
    SettledTo(b, after, 0, lost) /\ WithdrawalAllowed(b, owed(after), after.collateral)

Cured(b) ==
  \E after \in BorrowerPosition, applied \in Nat : SettledTo(b, after, applied, applied)

SeizedFrom(b) ==
  \E after \in BorrowerPosition, lost \in Nat :
    /\ SettledTo(b, after, currentDebt(b), lost)
    /\ ~isHealthy(b)
    /\ lost * BPS <= currentDebt(b) * (BPS + params.bonus)

Settles(b) == Repaid(b) \/ TakenOut(b) \/ Cured(b) \/ SeizedFrom(b)

LEMMA SettlesIsSettlement ==
  ASSUME TypeOK, NEW b \in Borrowers, Settles(b)
  PROVE  Settlement(b)
  <1>1. 0 \in Nat /\ currentDebt(b) \in Nat
    BY AccruedPosition
  <1>2. QED
    BY <1>1 DEF Settles, Repaid, TakenOut, Cured, SeizedFrom, Settlement

LEMMA RepaySettles ==
  ASSUME TypeOK, NEW b \in Borrowers, NEW amount \in Nat, repay(b, amount)
  PROVE  Repaid(b)
  <1> DEFINE pos == accrued(b)
             actual == Lesser(amount, owed(pos))
             after == Paid(pos, actual)
  <1>1. /\ pos \in BorrowerPosition /\ pos.lastAccrualTimestamp = now
        /\ owed(pos) \in Nat /\ owed(pos) = currentDebt(b)
        /\ pos.principal = positions[b].principal
        /\ pos.collateral = positions[b].collateral
        /\ pos.accruedInterest = positions[b].accruedInterest + pendingInterest(b)
    BY AccruedPosition
  <1>2. /\ positions' = [positions EXCEPT ![b] = after]
        /\ totalPrincipalOutstanding' =
             totalPrincipalOutstanding - (pos.principal - after.principal)
        /\ pos.principal - after.principal <= totalPrincipalOutstanding
        /\ idleLiquidity' = idleLiquidity + actual
        /\ poolBalance' = poolBalance + actual
        /\ UNCHANGED <<totalCollateral, totalShares, sharesOf>>
    BY DEF repay, repayPasses
  <1>3. /\ pos.collateral \in Nat /\ totalCollateral \in Nat /\ poolBalance \in Nat
        /\ pos.principal \in Nat
    BY <1>1 DEF TypeOK, LedgerTypeOK, BorrowerPosition
  <1> HIDE DEF pos
  <1>4. actual \in Nat /\ actual <= owed(pos)
    BY <1>1, LesserType
  <1> HIDE DEF actual
  <1>5. /\ after \in BorrowerPosition
        /\ after.collateral = pos.collateral
        /\ after.lastAccrualTimestamp = pos.lastAccrualTimestamp
        /\ after.principal <= pos.principal /\ pos.principal - after.principal <= actual
        /\ owed(after) = owed(pos) - actual
        /\ after.principal = 0 /\ pos.principal > 0 => after.accruedInterest = 0
        /\ pos.accruedInterest = 0 => after.accruedInterest = 0
    BY <1>1, <1>4, PaidPosition
  <1> HIDE DEF after
  <1>6. SettledTo(b, after, actual, 0)
    BY <1>1, <1>2, <1>3, <1>4, <1>5 DEF SettledTo
  <1>7. QED
    BY <1>4, <1>5, <1>6 DEF Repaid

LEMMA WithdrawCollateralSettles ==
  ASSUME TypeOK, NEW b \in Borrowers, NEW amount \in Nat, withdrawCollateral(b, amount)
  PROVE  TakenOut(b)
  <1> DEFINE pos == accrued(b)
             left == pos.collateral - amount
             after == [pos EXCEPT !.collateral = left]
  <1>1. /\ pos \in BorrowerPosition /\ pos.lastAccrualTimestamp = now
        /\ owed(pos) \in Nat /\ owed(pos) = currentDebt(b)
        /\ pos.principal = positions[b].principal
        /\ pos.collateral = positions[b].collateral
        /\ pos.accruedInterest = positions[b].accruedInterest + pendingInterest(b)
    BY AccruedPosition
  <1>2. /\ amount \in Nat /\ amount <= pos.collateral
        /\ WithdrawalAllowed(b, owed(pos), left)
        /\ amount <= totalCollateral /\ amount <= poolBalance
        /\ positions' = [positions EXCEPT ![b] = after]
        /\ totalCollateral' = totalCollateral - amount
        /\ poolBalance' = poolBalance - amount
        /\ UNCHANGED <<idleLiquidity, totalPrincipalOutstanding, totalShares, sharesOf>>
    BY DEF withdrawCollateral, withdrawCollateralPasses
  <1>3. /\ pos.collateral \in Nat /\ pos.principal \in Nat /\ pos.accruedInterest \in Nat
        /\ idleLiquidity \in Nat /\ poolBalance \in Nat /\ totalPrincipalOutstanding \in Nat
    BY <1>1 DEF TypeOK, LedgerTypeOK, BorrowerPosition
  <1> HIDE DEF pos
  <1>4. left \in Nat
    BY <1>2, <1>3
  <1> HIDE DEF left
  <1>5. /\ after \in BorrowerPosition /\ after.collateral = left
        /\ after.lastAccrualTimestamp = pos.lastAccrualTimestamp
        /\ after.principal = pos.principal
        /\ after.accruedInterest = pos.accruedInterest
    BY <1>1, <1>4, SetCollateral DEF BorrowerPosition
  <1> HIDE DEF after
  <1>6. owed(after) = currentDebt(b) - 0
    BY <1>1, <1>3, <1>5 DEF owed
  <1>7. SettledTo(b, after, 0, amount)
    <2>1. left = positions[b].collateral - amount
      BY <1>1 DEF left
    <2>2. QED
      BY <1>1, <1>2, <1>3, <1>5, <1>6, <2>1 DEF SettledTo
  <1>8. WithdrawalAllowed(b, owed(after), after.collateral)
    BY <1>1, <1>2, <1>3, <1>5 DEF owed
  <1>9. QED
    BY <1>2, <1>3, <1>5, <1>7, <1>8 DEF TakenOut

LEMMA SelfCureSettles ==
  ASSUME TypeOK, NEW b \in Borrowers, NEW amount \in Nat, NEW g,
         applyCollateralToDebt(g, b, amount)
  PROVE  Cured(b)
  <1> DEFINE pos == accrued(b)
             applied == Lesser(amount, Lesser(owed(pos), pos.collateral))
             paid == Paid(pos, applied)
             left == paid.collateral - applied
             after == [paid EXCEPT !.collateral = left]
  <1>1. /\ pos \in BorrowerPosition /\ pos.lastAccrualTimestamp = now
        /\ owed(pos) \in Nat /\ owed(pos) = currentDebt(b)
        /\ pos.principal = positions[b].principal
        /\ pos.collateral = positions[b].collateral
        /\ pos.accruedInterest = positions[b].accruedInterest + pendingInterest(b)
    BY AccruedPosition
  <1>2. /\ positions' = [positions EXCEPT ![b] = after]
        /\ totalPrincipalOutstanding' =
             totalPrincipalOutstanding - (pos.principal - paid.principal)
        /\ pos.principal - paid.principal <= totalPrincipalOutstanding
        /\ totalCollateral' = totalCollateral - applied /\ applied <= totalCollateral
        /\ idleLiquidity' = idleLiquidity + applied
        /\ UNCHANGED <<totalShares, sharesOf, poolBalance>>
    BY DEF applyCollateralToDebt, applyCollateralToDebtPasses
  <1>3. pos.collateral \in Nat /\ pos.principal \in Nat /\ poolBalance \in Nat
    BY <1>1 DEF TypeOK, LedgerTypeOK, BorrowerPosition
  <1> HIDE DEF pos
  <1>4. applied \in Nat /\ applied <= owed(pos) /\ applied <= pos.collateral
    BY <1>1, <1>3 DEF Lesser
  <1> HIDE DEF applied
  <1>5. /\ paid \in BorrowerPosition
        /\ paid.collateral = pos.collateral
        /\ paid.lastAccrualTimestamp = pos.lastAccrualTimestamp
        /\ paid.principal <= pos.principal /\ pos.principal - paid.principal <= applied
        /\ owed(paid) = owed(pos) - applied
        /\ paid.principal = 0 /\ pos.principal > 0 => paid.accruedInterest = 0
        /\ pos.accruedInterest = 0 => paid.accruedInterest = 0
    BY <1>1, <1>4, PaidPosition
  <1> HIDE DEF paid
  <1>6. left \in Nat /\ left = pos.collateral - applied
    BY <1>3, <1>4, <1>5
  <1> HIDE DEF left
  <1>7. /\ after \in BorrowerPosition /\ after.collateral = left
        /\ after.lastAccrualTimestamp = paid.lastAccrualTimestamp
        /\ after.principal = paid.principal
        /\ after.accruedInterest = paid.accruedInterest
    BY <1>5, <1>6, SetCollateral DEF BorrowerPosition
  <1> HIDE DEF after
  <1>8. owed(after) = owed(paid)
    BY <1>7 DEF owed
  <1>9. SettledTo(b, after, applied, applied)
    BY <1>1, <1>2, <1>3, <1>4, <1>5, <1>6, <1>7, <1>8 DEF SettledTo
  <1>10. QED
    BY <1>4, <1>7, <1>9 DEF Cured

LEMMA LiquidateSettles ==
  ASSUME TypeOK, NEW b \in Borrowers, liquidate(b)
  PROVE  SeizedFrom(b)
  <1> DEFINE pos == accrued(b)
             debt == owed(pos)
             seized == CollateralSeized(debt, pos.collateral)
             left == pos.collateral - seized
             after == [pos EXCEPT !.principal = 0, !.accruedInterest = 0, !.collateral = left]
  <1>1. /\ pos \in BorrowerPosition /\ pos.lastAccrualTimestamp = now
        /\ debt \in Nat /\ debt = currentDebt(b)
        /\ pos.principal = positions[b].principal
        /\ pos.collateral = positions[b].collateral
    BY AccruedPosition
  <1>2. /\ positions' = [positions EXCEPT ![b] = after]
        /\ totalPrincipalOutstanding' = totalPrincipalOutstanding - pos.principal
        /\ pos.principal <= totalPrincipalOutstanding
        /\ totalCollateral' = totalCollateral - seized /\ seized <= totalCollateral
        /\ idleLiquidity' = idleLiquidity + debt
        /\ poolBalance' = poolBalance + debt - seized /\ seized <= poolBalance + debt
        /\ ~isHealthy(b)
        /\ UNCHANGED <<totalShares, sharesOf>>
    BY DEF liquidate, liquidatePasses
  <1>3. /\ pos.collateral \in Nat /\ pos.principal \in Nat /\ pos.accruedInterest \in Nat
        /\ debt = pos.principal + pos.accruedInterest
    BY <1>1 DEF BorrowerPosition, owed
  <1> HIDE DEF pos, debt
  <1>4. /\ seized \in Nat /\ seized <= pos.collateral
        /\ seized * BPS <= debt * (BPS + params.bonus)
    BY <1>1, <1>3, SeizedType
  <1> HIDE DEF seized
  <1>5. left \in Nat /\ left = pos.collateral - seized
    BY <1>3, <1>4
  <1> HIDE DEF left
  <1>6. after \in BorrowerPosition
    BY <1>1, <1>5, SetAllAmounts
  <1>7. /\ after.principal = 0 /\ after.accruedInterest = 0 /\ after.collateral = left
        /\ after.lastAccrualTimestamp = pos.lastAccrualTimestamp
    BY <1>1 DEF BorrowerPosition
  <1> HIDE DEF after
  <1>8. owed(after) = debt - debt
    BY <1>1, <1>7 DEF owed
  <1>9. SettledTo(b, after, debt, seized)
    <2>1. /\ debt <= currentDebt(b) /\ owed(after) = currentDebt(b) - debt
          /\ seized <= positions[b].collateral
          /\ after.collateral = positions[b].collateral - seized
      BY <1>1, <1>4, <1>5, <1>7, <1>8
    <2>2. /\ after.lastAccrualTimestamp = now /\ after.accruedInterest = 0
          /\ after.principal <= positions[b].principal
          /\ positions[b].principal - after.principal = pos.principal /\ pos.principal <= debt
      BY <1>1, <1>3, <1>7
    <2>3. QED
      BY <1>2, <2>1, <2>2 DEF SettledTo
  <1>10. QED
    BY <1>1, <1>2, <1>4, <1>6, <1>9 DEF SeizedFrom

LEMMA SettlementType ==
  ASSUME TypeOK, NEW b \in Borrowers, Settlement(b), UNCHANGED now
  PROVE  LedgerTypeOK'
  <1>1. PICK after \in BorrowerPosition, paid \in Nat, lost \in Nat :
          SettledTo(b, after, paid, lost)
    BY DEF Settlement
  <1>2. /\ positions' \in [Borrowers -> BorrowerPosition]
        /\ \A c \in Borrowers : positions'[c].lastAccrualTimestamp <= now'
    BY <1>1, OnePositionType DEF SettledTo
  <1>3. after.principal \in Nat /\ positions[b].principal \in Nat
    BY DEF TypeOK, LedgerTypeOK, BorrowerPosition
  <1>4. QED
    BY <1>1, <1>2, <1>3 DEF SettledTo, TypeOK, LedgerTypeOK

-----------------------------------------------------------------------------
(* Every step is one of these *)

LedgerStep ==
  \/ \E l \in Lenders, amount \in Nat : deposit(l, amount) \/ withdraw(l, amount)
  \/ \E b \in Borrowers, amount \in Nat : postCollateral(b, amount) \/ borrow(b, amount)
  \/ \E b \in Borrowers : Settles(b)

LEMMA StepKinds ==
  ASSUME TypeOK, Next
  PROVE  \/ Environment
         \/ LedgerStep /\ UNCHANGED <<envVars, adminVars>>
         \/ OwnerStep /\ UNCHANGED <<envVars, ledger>>
  <1>1. Amounts \subseteq Nat
    BY PoolConstants
  <1>2. CASE LenderStep /\ UNCHANGED envVars
    BY <1>1, <1>2 DEF LenderStep, LedgerStep, deposit, withdraw, adminVars
  <1>3. CASE BorrowerStep /\ UNCHANGED envVars
    <2>1. PICK b \in Borrowers, amount \in Amounts :
            \/ postCollateral(b, amount)
            \/ borrow(b, amount)
            \/ repay(b, amount)
            \/ withdrawCollateral(b, amount)
      BY <1>3 DEF BorrowerStep
    <2>2. amount \in Nat
      BY <1>1
    <2>3. LedgerStep
      BY <2>1, <2>2, RepaySettles, WithdrawCollateralSettles DEF LedgerStep, Settles
    <2>4. UNCHANGED adminVars
      BY <2>1 DEF postCollateral, borrow, repay, withdrawCollateral, adminVars
    <2>5. QED
      BY <1>3, <2>3, <2>4
  <1>4. CASE SettlementStep /\ UNCHANGED envVars
    <2>1. PICK b \in Borrowers :
            \/ \E g \in Guardians, amount \in Amounts : applyCollateralToDebt(g, b, amount)
            \/ liquidate(b)
      BY <1>4 DEF SettlementStep
    <2>2. Settles(b)
      BY <1>1, <2>1, SelfCureSettles, LiquidateSettles DEF Settles
    <2>3. UNCHANGED adminVars
      BY <2>1 DEF applyCollateralToDebt, liquidate, adminVars
    <2>4. QED
      BY <1>4, <2>2, <2>3 DEF LedgerStep
  <1>5. CASE OwnerStep /\ UNCHANGED envVars
    BY <1>5 DEF OwnerStep, pause, unpause, setGuardian, setParams, setBaseRateBpsPerSecond,
         setSlope1BpsPerSecond, setSlope2BpsPerSecond, setKinkUtilizationBps,
         setLiquidationBonusBps, ledger
  <1>6. QED
    BY <1>2, <1>3, <1>4, <1>5 DEF Next

LEMMA LedgerStepType ==
  ASSUME TypeOK, LedgerStep, UNCHANGED now
  PROVE  LedgerTypeOK'
  BY DepositType, WithdrawType, PostCollateralType, BorrowType, SettlesIsSettlement,
     SettlementType DEF LedgerStep

LEMMA OwnerStepType ==
  ASSUME TypeOK, OwnerStep
  PROVE  AdminTypeOK'
  <1>1. /\ BaseRates \subseteq Nat /\ Slopes \subseteq Nat /\ Bonuses \subseteq Nat
        /\ Kinks \subseteq Nat /\ BPS \in Nat
    BY PoolConstants, PolicyConstants
  <1>2. CASE pause \/ unpause \/ \E g \in Guardians \cup {NoGuardian} : setGuardian(g)
    BY <1>2 DEF pause, unpause, setGuardian, TypeOK, AdminTypeOK
  <1>3. CASE \E new \in [baseRate : Nat, slope1 : Nat, slope2 : Nat, kink : 1..BPS, bonus : Nat] :
               setParams(new)
    BY <1>3 DEF setParams, TypeOK, AdminTypeOK
  <1>4. CASE \E r \in BaseRates : setBaseRateBpsPerSecond(r)
    BY <1>1, <1>3, <1>4 DEF setBaseRateBpsPerSecond, TypeOK, AdminTypeOK
  <1>5. CASE \E s \in Slopes : setSlope1BpsPerSecond(s) \/ setSlope2BpsPerSecond(s)
    BY <1>1, <1>3, <1>5 DEF setSlope1BpsPerSecond, setSlope2BpsPerSecond, TypeOK, AdminTypeOK
  <1>6. CASE \E k \in Kinks : setKinkUtilizationBps(k)
    BY <1>1, <1>3, <1>6 DEF setKinkUtilizationBps, TypeOK, AdminTypeOK
  <1>7. CASE \E bonus \in Bonuses : setLiquidationBonusBps(bonus)
    BY <1>1, <1>3, <1>7 DEF setLiquidationBonusBps, TypeOK, AdminTypeOK
  <1>8. QED
    BY <1>2, <1>4, <1>5, <1>6, <1>7 DEF OwnerStep

LEMMA EnvironmentType ==
  ASSUME TypeOK, Environment
  PROVE  TypeOK'
  <1>1. PolicyTypeOK'
    BY PolicyTypeStep DEF Environment, TypeOK, EnvTypeOK, PolicyTypeOK
  <1>2. now' \in Nat /\ now <= now' /\ gate' \in [Borrowers -> GateAnswers]
    BY DEF Environment, Tick, TypeOK, EnvTypeOK
  <1>3. AdminTypeOK'
    BY DEF Environment, TypeOK, AdminTypeOK, poolVars, adminVars
  <1>4. LedgerTypeOK'
    <2>1. \A b \in Borrowers : positions[b].lastAccrualTimestamp \in Nat
      BY DEF TypeOK, LedgerTypeOK, BorrowerPosition
    <2>2. UNCHANGED ledger
      BY DEF Environment, poolVars
    <2>3. QED
      BY <1>2, <2>1, <2>2 DEF TypeOK, EnvTypeOK, LedgerTypeOK, ledger
  <1>5. QED
    BY <1>1, <1>2, <1>3, <1>4 DEF TypeOK, EnvTypeOK

LEMMA PoolTypeStep ==
  ASSUME TypeOK, [Next]_vars
  PROVE  TypeOK'
  <1>1. CASE Environment
    BY <1>1, EnvironmentType
  <1>2. CASE LedgerStep /\ UNCHANGED <<envVars, adminVars>>
    BY <1>2, LedgerStepType DEF envVars, adminVars, TypeOK, EnvTypeOK, AdminTypeOK, PolicyTypeOK
  <1>3. CASE OwnerStep /\ UNCHANGED <<envVars, ledger>>
    BY <1>3, OwnerStepType DEF envVars, ledger, TypeOK, EnvTypeOK, LedgerTypeOK, PolicyTypeOK
  <1>4. CASE UNCHANGED vars
    BY <1>4 DEF vars, envVars, poolVars, adminVars, ledger,
         TypeOK, EnvTypeOK, AdminTypeOK, LedgerTypeOK, PolicyTypeOK
  <1>5. QED
    BY <1>1, <1>2, <1>3, <1>4, StepKinds

(***************************************************************************)
(* The pool's storage keeps its types: no total, share or balance ever     *)
(* goes below zero and no accrual timestamp lies in the future, whatever   *)
(* the gate answers and the policy says.                                   *)
(***************************************************************************)
THEOREM PoolTypeCorrect == Spec => []TypeOK
  <1>1. Init => TypeOK
    BY PoolTypeInit
  <1>2. TypeOK /\ [Next]_vars => TypeOK'
    BY PoolTypeStep
  <1>3. QED
    BY <1>1, <1>2, PTL DEF Spec
=============================================================================
