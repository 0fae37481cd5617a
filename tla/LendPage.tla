------------------------------- MODULE LendPage -------------------------------
(***************************************************************************)
(* LendPage.tsx: one wallet, two sides of the pool.  A poll reads what the *)
(* connected wallet holds and decides which surface is mounted; the        *)
(* surface offers actions by that snapshot, which the chain has moved past *)
(* by the time a transaction lands.  A surface that is unmounted forgets   *)
(* the transactions it sent; they land all the same.                       *)
(*                                                                         *)
(* Amounts are units of the asset, of which a wallet never runs out (its   *)
(* mint is open to everyone); a unit of collateral covers a unit of debt.  *)
(***************************************************************************)
EXTENDS Integers, FiniteSets

CONSTANTS
  Wallets,
  NoWallet,  \* not connected, or on another network
  Openings,  \* what the chain holds for a wallet when the page is opened
  Units,     \* amounts a user types
  MaxUnits,  \* bound: debt and collateral of one wallet, and the pool's idle units
  MAX_UINT,
  MaxTxs,    \* bound: transactions under way at once
  MaxPolls,  \* bound: polls under way at once
  MaxWhims   \* bound: presses other than those on the way out, and moves of others

ASSUME LendConstants ==
  /\ NoWallet \notin Wallets
  /\ Units \subseteq 1..MaxUnits /\ MAX_UINT > MaxUnits
  /\ {MaxUnits, MaxTxs, MaxPolls, MaxWhims} \subseteq Nat

VARIABLES
  account,   \* wallet -> what the chain holds for it
  idle,      \* idle liquidity of the pool
  wallet, mode,
  shown,     \* what the poll of this wallet and mode last said
  polls,     \* polls under way, of the running effect or a cancelled one
  pending,   \* the action whose buttons say so
  txs,       \* transactions asked of the wallet or sent
  whims

pageVars == <<wallet, mode, shown, polls, pending, txs, whims>>
lendVars == <<account, idle, pageVars>>

None == "none"
Lesser(a, b) == IF a < b THEN a ELSE b

-----------------------------------------------------------------------------
(* The contracts, as one wallet meets them *)

Approve(a, amount) == [a EXCEPT !.allowance = amount]
Spent(a, amount) == [a EXCEPT !.allowance = IF @ = MAX_UINT THEN @ ELSE @ - amount]

Paid(a, amount) == Lesser(amount, a.debt)

\* The call reverts unless
Passes(t) ==
  LET a == account[t.wallet]
  IN CASE t.kind \in {"approve", "mint"} -> TRUE
       [] t.kind = "post" -> t.amount <= a.allowance /\ a.collateral + t.amount <= MaxUnits
       [] t.kind = "borrow" -> a.standing /\ a.debt + t.amount <= a.collateral /\ t.amount <= idle
       [] t.kind = "repay" -> a.debt > 0 /\ Paid(a, t.amount) <= a.allowance
       [] t.kind = "withdraw" -> t.amount <= a.collateral /\ a.debt = 0
       [] t.kind = "deposit" -> t.amount <= a.allowance /\ a.shares + t.amount <= MaxUnits
       [] t.kind = "withdrawShares" -> t.amount <= Lesser(a.shares, idle)

Done(t) ==
  LET a == account[t.wallet]
  IN CASE t.kind = "approve" -> Approve(a, t.amount)
       [] t.kind = "mint" -> a
       [] t.kind = "post" -> [Spent(a, t.amount) EXCEPT !.collateral = @ + t.amount]
       [] t.kind = "borrow" -> [a EXCEPT !.debt = @ + t.amount]
       [] t.kind = "repay" -> [Spent(a, Paid(a, t.amount)) EXCEPT !.debt = @ - Paid(a, t.amount)]
       [] t.kind = "withdraw" -> [a EXCEPT !.collateral = @ - t.amount]
       [] t.kind = "deposit" -> [Spent(a, t.amount) EXCEPT !.shares = @ + t.amount]
       [] t.kind = "withdrawShares" -> [a EXCEPT !.shares = @ - t.amount]

IdleAfter(t) ==
  CASE t.kind = "borrow" -> idle - t.amount
    [] t.kind = "repay" -> Lesser(idle + Paid(account[t.wallet], t.amount), MaxUnits)
    [] t.kind = "deposit" -> Lesser(idle + t.amount, MaxUnits)
    [] t.kind = "withdrawShares" -> idle - t.amount
    [] OTHER -> idle

-----------------------------------------------------------------------------
(* What is on display *)

Key == IF wallet = NoWallet THEN NoWallet ELSE <<mode, wallet>>
Loading == [status |-> "loading"]
Failed == [status |-> "error"]
Ready(key) == [status |-> "ready", key |-> key, data |-> account[key[2]], idle |-> idle]

\* A wallet without standing sees the onboarding card, whatever it owes
Surface(w, m, s) ==
  IF w = NoWallet THEN "connect"
  ELSE IF s.status # "ready" THEN s.status
  ELSE IF m = "lend" THEN "LenderSurface"
  ELSE IF s.data.standing THEN "BorrowerSurface" ELSE "OnboardingCard"
Showing == Surface(wallet, mode, shown)

Acting(kinds) == pending \in kinds

\* A button for an amount typed, or the most there is: an approval first where
\* the allowance falls short
AmountAction(kind, max, needsApproval, busy) ==
  LET typed == (Units \union {max}) \ {0}
      short == {n \in typed : needsApproval /\ n > shown.data.allowance}
  IN IF busy THEN {}
     ELSE {[kind |-> "approve", amount |-> n] : n \in short}
          \union {[kind |-> kind, amount |-> n] : n \in {u \in typed \ short : u <= max}}

\* Part of the debt, or all of it: MAX_UINT, which the pool clamps to what is owed
\* Mutant: all of it is the debt last read
RepayActionByFigure(busy) ==
  LET data == shown.data
  IN IF busy THEN {}
     ELSE {IF n > data.allowance THEN [kind |-> "approve", amount |-> n]
           ELSE [kind |-> "repay", amount |-> n] : n \in Units}
          \union IF data.debt = 0 THEN {}
                 ELSE {[kind |-> IF data.allowance < data.debt THEN "approve" ELSE "repay",
                        amount |-> data.debt]}
RepayAction(busy) ==
  LET data == shown.data
  IN IF busy THEN {}
     ELSE {IF n > data.allowance THEN [kind |-> "approve", amount |-> n]
           ELSE [kind |-> "repay", amount |-> n] : n \in Units}
          \union IF data.debt = 0 THEN {}
                 ELSE {[kind |-> IF data.allowance < data.debt THEN "approve" ELSE "repay",
                        amount |-> MAX_UINT]}

BorrowRoom == shown.data.collateral - shown.data.debt
BorrowerSurface ==
  AmountAction("post", MaxUnits, TRUE, Acting({"approve", "post"}))
    \union AmountAction("borrow", BorrowRoom, FALSE, Acting({"borrow"}))
    \union RepayAction(Acting({"approve", "repay"}))
    \union AmountAction("withdraw", shown.data.collateral, FALSE, Acting({"withdraw"}))

Withdrawable == Lesser(shown.data.shares, shown.idle)
LenderSurface ==
  {[kind |-> "mint", amount |-> n] : n \in IF pending = None THEN {1} ELSE {}}
    \union AmountAction("deposit", MaxUnits, TRUE, Acting({"approve", "deposit"}))
    \union AmountAction("withdrawShares", Withdrawable, FALSE, Acting({"withdrawShares"}))

Offers ==
  CASE Showing = "BorrowerSurface" -> BorrowerSurface
    [] Showing = "LenderSurface" -> LenderSurface
    [] OTHER -> {}

\* A surface that goes takes `pending' with it and no longer hears of its transactions.
Shows(w, m, s) ==
  /\ shown' = s
  /\ IF <<Surface(w, m, s), w>> = <<Showing, wallet>>
     THEN UNCHANGED <<pending, txs>>
     ELSE /\ pending' = None
          /\ txs' = {[t EXCEPT !.heard = FALSE] : t \in txs}

-----------------------------------------------------------------------------
(* The poll: useBorrowerStanding and useLenderPosition *)

PollsCancelled == {[p EXCEPT !.effect = "cancelled"] : p \in polls}
Polling == \E p \in polls : p.effect = "running"

\* The effect runs again with another wallet or mode: the old poll is cancelled.
Turn(w, m) ==
  /\ <<w, m>> # <<wallet, mode>> /\ (w = NoWallet \/ Cardinality(polls) < MaxPolls)
  /\ wallet' = w /\ mode' = m
  /\ polls' = PollsCancelled \union
       IF w = NoWallet THEN {} ELSE {[effect |-> "running", key |-> <<m, w>>]}
  /\ Shows(w, m, Loading)
  /\ UNCHANGED <<account, idle, whims>>

Poll ==
  /\ Key # NoWallet /\ ~Polling /\ Cardinality(polls) < MaxPolls
  /\ polls' = polls \union {[effect |-> "running", key |-> Key]}
  /\ UNCHANGED <<account, idle, wallet, mode, shown, pending, txs, whims>>

\* Mutant: the answer of a cancelled poll is shown as well
AcceptedAlways(p) == TRUE
Accepted(p) == p.effect = "running"

PollEnds(p, s) ==
  /\ polls' = polls \ {p}
  /\ IF Accepted(p) THEN Shows(wallet, mode, s) ELSE UNCHANGED <<shown, pending, txs>>
  /\ UNCHANGED <<account, idle, wallet, mode, whims>>

PollAnswered(p) == PollEnds(p, Ready(p.key))
PollFailed(p) == PollEnds(p, Failed)

-----------------------------------------------------------------------------
(* The actions: useBorrowerActions and useLenderActions *)

\* setPending is one slot, whatever else is under way.
Press(offer) ==
  LET t == [wallet |-> wallet, kind |-> offer.kind, amount |-> offer.amount,
            at |-> "signing", heard |-> TRUE]
  IN /\ Cardinality(txs) < MaxTxs /\ t \notin txs
     /\ txs' = txs \union {t}
     /\ pending' = offer.kind
     /\ UNCHANGED <<account, idle, wallet, mode, shown, polls>>

\* finally: the slot is cleared, whoever holds it
Ends(t, left) ==
  /\ txs' = (txs \ {t}) \union left
  /\ pending' = IF t.heard THEN None ELSE pending
  /\ UNCHANGED <<wallet, mode, shown, polls, whims>>

\* The wallet estimates the call and asks its owner
Signed(t) ==
  /\ t.at = "signing"
  /\ IF Passes(t)
     THEN /\ txs' = (txs \ {t}) \union {[t EXCEPT !.at = "sent"]}
          /\ UNCHANGED <<pending, wallet, mode, shown, polls, whims>>
     ELSE Ends(t, {})
  /\ UNCHANGED <<account, idle>>

Declined(t) == t.at = "signing" /\ Ends(t, {}) /\ UNCHANGED <<account, idle>>

\* The receipt comes; its status is not looked at.
Mined(t) ==
  /\ t.at = "sent"
  /\ IF Passes(t)
     THEN account' = [account EXCEPT ![t.wallet] = Done(t)] /\ idle' = IdleAfter(t)
     ELSE UNCHANGED <<account, idle>>
  /\ Ends(t, {})

\* The wait for the receipt is given up; the transaction is not.
TimedOut(t) ==
  /\ t.at = "sent" /\ t.heard
  /\ Ends(t, {[t EXCEPT !.heard = FALSE]})
  /\ UNCHANGED <<account, idle>>

-----------------------------------------------------------------------------

\* Interest; what the issuer and the other users of the pool do
Others ==
  /\ \/ /\ \E w \in Wallets : account[w].debt \in 1..(MaxUnits - 1)
                               /\ account' = [account EXCEPT ![w].debt = @ + 1]
        /\ UNCHANGED <<idle, whims>>
     \/ /\ whims < MaxWhims /\ whims' = whims + 1
        /\ \/ \E w \in Wallets : account' = [account EXCEPT ![w].standing = ~@] /\ UNCHANGED idle
           \/ idle' \in 0..MaxUnits /\ UNCHANGED account
  /\ UNCHANGED <<wallet, mode, shown, polls, pending, txs>>

\* The presses of a user who wants out: all of the debt, then all that is left
WayOut ==
  {o \in Offers :
     \/ o.kind \in {"approve", "repay"} /\ o.amount = MAX_UINT
     \/ o.kind = "withdraw" /\ o.amount = shown.data.collateral /\ shown.data.debt = 0
     \/ o.kind = "withdrawShares" /\ o.amount = Withdrawable}
PressOut == \E offer \in WayOut : Press(offer) /\ UNCHANGED whims
PressWhim ==
  /\ whims < MaxWhims /\ whims' = whims + 1
  /\ \E offer \in Offers : Press(offer)

LendInit ==
  /\ account \in [Wallets -> Openings]
  /\ idle = MaxUnits
  /\ wallet = NoWallet /\ mode = "borrow" /\ shown = Loading /\ polls = {}
  /\ pending = None /\ txs = {} /\ whims = 0

LendNext ==
  \/ \E w \in Wallets \union {NoWallet}, m \in {"borrow", "lend"} : Turn(w, m)
  \/ Poll \/ \E p \in polls : PollAnswered(p) \/ PollFailed(p)
  \/ PressOut \/ PressWhim
  \/ \E t \in txs : Signed(t) \/ Declined(t) \/ Mined(t) \/ TimedOut(t)
  \/ Others

LendFairness == WF_lendVars(Poll)

\* Polls are answered now and then, a transaction sent is mined, and the user
\* keeps at it and does not decline every prompt
LendPersists ==
  /\ SF_lendVars(\E p \in polls : PollAnswered(p))
  /\ SF_lendVars(PressOut)
  /\ SF_lendVars(\E t \in txs : Signed(t))
  /\ WF_lendVars(\E t \in txs : Mined(t))

-----------------------------------------------------------------------------

(***************************************************************************)
(* What the page shows is the connected wallet's, on the side it is on:    *)
(* no answer of a poll begun for another wallet or mode gets through.      *)
(***************************************************************************)
ShownIsTheirs == shown.status = "ready" => shown.key = Key

(***************************************************************************)
(* Who stays on the page and keeps pressing gets out: a borrower in        *)
(* standing clears the debt to the last unit and takes the collateral      *)
(* back, though interest accrues behind every figure shown, polls fail,    *)
(* prompts are declined, receipts time out and transactions revert; a      *)
(* lender gets the shares out while the pool has the units idle.           *)
(***************************************************************************)
ThePageLetsYouOut ==
  LendPersists =>
    \A w \in Wallets :
      /\ <>[](wallet = w /\ mode = "borrow" /\ account[w].standing)
           => []<>(account[w].debt = 0 /\ account[w].collateral = 0)
      /\ <>[](wallet = w /\ mode = "lend" /\ idle >= account[w].shares)
           => []<>(account[w].shares = 0)
=============================================================================
