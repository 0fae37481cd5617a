---------------------------- MODULE TestnetScripts ----------------------------
(***************************************************************************)
(* backend/scripts: what the operator runs against the testnet for the one *)
(* borrower of the demo.  A script is a list of steps; it ends at its last *)
(* one, at one that throws, or wherever it is cut off: every transaction   *)
(* is awaited for three minutes, and one that takes longer ends the script *)
(* and may land after all.  The keeper and everyone else act meanwhile.    *)
(*                                                                         *)
(* Amounts are units of the asset.  What a step spends was minted and      *)
(* approved just before, for the amount it carries, by steps that cannot   *)
(* revert: they are left out.  Next to what the lender deposits the demo   *)
(* borrows little, so the pool is never short of liquidity.                *)
(***************************************************************************)
EXTENDS Naturals, Sequences

CONSTANTS
  COLLATERAL_AMOUNT, BORROW_AMOUNT, BORROW_ATTEMPT_AMOUNT,
  SafestRatio, BorrowerRatio, \* collateral per debt, in percent
  Headroom,    \* what full-clear repays beyond the debt it read
  NoTx,
  MaxPosition, \* bound: collateral and debt
  MaxTrouble   \* bound: cuts, units of interest, stale attestations, moves of others

ASSUME ScriptConstants ==
  /\ {COLLATERAL_AMOUNT, BORROW_AMOUNT, BORROW_ATTEMPT_AMOUNT} \subseteq 1..MaxPosition
  /\ {SafestRatio, BorrowerRatio, Headroom, MaxPosition, MaxTrouble} \subseteq Nat

VARIABLES
  testnet,  \* the contracts and Cleanverse, as far as the borrower is concerned
  late,     \* a transaction whose script has ended without its receipt
  run,      \* the script under way, or how the last one ended
  trouble

scriptVars == <<testnet, late, run, trouble>>

-----------------------------------------------------------------------------
(* The contracts, as the scripts meet them *)

\* Until a tier is attested the safest ratio holds
Ratio == IF testnet.attested = "nothing" THEN SafestRatio ELSE BorrowerRatio
Backed(debt, collateral) == debt * Ratio <= collateral * 100
Healthy == testnet.debt = 0 \/ Backed(testnet.debt, testnet.collateral)

Cleared ==
  IF testnet.mode = "ValidatorGated" THEN testnet.facts = "ACTIVE" ELSE testnet.attested = "ACTIVE"

\* A transaction: who sends it, what it calls, an amount, a status or a mode
Succeeds(t) ==
  LET n == t.what
  IN CASE t.call \in {"deposit", "attest", "setMode"} -> TRUE
       [] t.call = "postCollateral" -> testnet.collateral + n <= MaxPosition
       [] t.call = "borrow" ->
            /\ Cleared
            /\ testnet.debt + n <= MaxPosition
            /\ Backed(testnet.debt + n, testnet.collateral)
       [] t.call \in {"repay", "repayAll"} -> testnet.debt > 0
       [] t.call = "withdrawCollateral" ->
            /\ 0 < n /\ n <= testnet.collateral
            /\ testnet.debt > 0 => Cleared /\ Backed(testnet.debt, testnet.collateral - n)
       [] t.call = "liquidate" -> ~Healthy /\ testnet.debt <= n
       [] t.call = "flag" ->
            /\ testnet.state \in {"HEALTHY", "RESOLVED"}
            /\ testnet.attested \in {"ACTIVE", "FROZEN"}
            /\ testnet.attested = "ACTIVE" => ~Healthy
       [] t.call = "reinstate" -> testnet.state = "FLAGGED" /\ testnet.attested = "ACTIVE" /\ Healthy
       [] t.call = "startUnwind" -> testnet.state = "FLAGGED" /\ testnet.graceOver
       [] t.call = "completeUnwind" -> testnet.state = "UNWINDING" /\ testnet.debt = 0

LesserOf(a, b) == IF a < b THEN a ELSE b

After(t) ==
  LET n == t.what
      cured == LesserOf(testnet.debt, testnet.collateral)
      seized == LesserOf((testnet.debt * 21) \div 20, testnet.collateral)
  IN CASE t.call = "deposit" -> testnet
       [] t.call = "attest" -> [testnet EXCEPT !.attested = n]
       [] t.call = "setMode" -> [testnet EXCEPT !.mode = n]
       [] t.call = "postCollateral" -> [testnet EXCEPT !.collateral = @ + n]
       [] t.call = "borrow" -> [testnet EXCEPT !.debt = @ + n]
       [] t.call \in {"repay", "repayAll"} -> [testnet EXCEPT !.debt = @ - LesserOf(@, n)]
       [] t.call = "withdrawCollateral" -> [testnet EXCEPT !.collateral = @ - n]
       [] t.call = "liquidate" -> [testnet EXCEPT !.debt = 0, !.collateral = @ - seized]
       [] t.call = "flag" -> [testnet EXCEPT !.state = "FLAGGED", !.graceOver = FALSE]
       [] t.call = "reinstate" -> [testnet EXCEPT !.state = "HEALTHY", !.graceOver = FALSE]
       [] t.call = "startUnwind" ->
            [testnet EXCEPT !.debt = @ - cured, !.collateral = @ - cured,
               !.graceOver = FALSE,
               !.state = IF testnet.debt = cured THEN "RESOLVED" ELSE "UNWINDING"]
       [] t.call = "completeUnwind" -> [testnet EXCEPT !.state = "RESOLVED"]

-----------------------------------------------------------------------------
(* The scripts *)

\* A transaction that is awaited; `what' is left to ReadAmount where it was read before
Sends(from, call, what) == [do |-> "send", from |-> from, call |-> call, what |-> what]
SendIf(when, from, call) ==
  [do |-> "sendIf", when |-> when, from |-> from, call |-> call, what |-> 0]
Read(field) == [do |-> "read", field |-> field]
\* Read and throw unless it is so
Expect(what) == [do |-> "expect", what |-> what]
UpdateStatus(to) == [do |-> "updateStatus", to |-> to]
Attest(status) == [do |-> "attest", status |-> status]

lenderDeposit == <<Sends("deployer", "deposit", 0)>>
postAndBorrow(amount) ==
  <<Sends("borrower", "postCollateral", COLLATERAL_AMOUNT), Sends("borrower", "borrow", amount)>>
submitRealAttestation == <<Read("facts"), Attest("as read")>>

phaseBorrow == lenderDeposit \o submitRealAttestation \o postAndBorrow(BORROW_AMOUNT)
phaseFreeze == <<UpdateStatus("FROZEN")>> \o submitRealAttestation
phaseFlag == <<Sends("deployer", "flag", 0)>>
phaseUnwind ==
  <<Sends("deployer", "startUnwind", 0), Read("state"), Read("debt"),
    SendIf("insufficient", "deployer", "liquidate"),
    Sends("deployer", "completeUnwind", 0), Read("collateral"),
    SendIf("residual", "borrower", "withdrawCollateral")>>

hedgeSwitchMode == <<Sends("deployer", "setMode", "AttestorGated")>>
hedgeRestoreMode == <<Sends("deployer", "setMode", "ValidatorGated")>>
\* Does not wait for the receipt: the transaction that is late when it is cut off
hedgeFreezeAttest == <<Read("facts"), Attest("FROZEN")>>
hedgeUnwind ==
  <<Sends("deployer", "startUnwind", 0), Read("debt"), Read("state"),
    SendIf("insufficient", "deployer", "liquidate"), Sends("deployer", "completeUnwind", 0)>>

resetDemoPositionContinue ==
  <<Expect("active")>> \o submitRealAttestation \o postAndBorrow(BORROW_AMOUNT)
resetDemoPosition == <<UpdateStatus("ACTIVE")>> \o resetDemoPositionContinue
fullClear ==
  <<Read("debt"), Sends("borrower", "repay", 0),
    Read("collateral"), Sends("borrower", "withdrawCollateral", 0),
    Expect("clean")>> \o postAndBorrow(BORROW_AMOUNT)

freezeAndAttest == <<UpdateStatus("FROZEN")>> \o submitRealAttestation
lifecycleLite == lenderDeposit \o postAndBorrow(BORROW_ATTEMPT_AMOUNT)

\* Provisioning is Onboarding's, here only what it comes to
onboardingE2E ==
  <<UpdateStatus("ACTIVE")>> \o submitRealAttestation \o <<Expect("standing")>>
    \o postAndBorrow(BORROW_ATTEMPT_AMOUNT)
    \o <<Expect("indebted"), Sends("borrower", "repayAll", 0), Expect("debtFree"),
         Sends("borrower", "withdrawCollateral", COLLATERAL_AMOUNT)>>

Scripts ==
  [borrow |-> phaseBorrow, freeze |-> phaseFreeze, flag |-> phaseFlag, unwind |-> phaseUnwind,
   switchMode |-> hedgeSwitchMode, restoreMode |-> hedgeRestoreMode,
   hedgeAttest |-> hedgeFreezeAttest, hedgeFlag |-> phaseFlag, hedgeUnwind |-> hedgeUnwind,
   reset |-> resetDemoPosition, resetContinue |-> resetDemoPositionContinue,
   fullClear |-> fullClear, freezeAndAttest |-> freezeAndAttest, lite |-> lifecycleLite,
   onboardingE2E |-> onboardingE2E]

\* The end-to-end test has a wallet of its own
ScriptsOf(borrower) ==
  IF borrower = "e2e" THEN {"onboardingE2E"} ELSE DOMAIN Scripts \ {"onboardingE2E"}

\* Who throws when a transaction reverts, or would; the others print its status
\* Mutants: all of them; none
StrictAll(script) == TRUE
StrictNone(script) == FALSE
Strict(script) ==
  script \in {"switchMode", "restoreMode", "hedgeFlag", "hedgeUnwind", "fullClear", "onboardingE2E"}

-----------------------------------------------------------------------------
(* Running one *)

Unread == [state |-> "HEALTHY", debt |-> 0, collateral |-> 0, facts |-> "ACTIVE"]
Running == run.how = "running"
step == Scripts[run.script][run.pc]

Ended(how) == [script |-> "none", pc |-> 0, how |-> how, seen |-> Unread]
Stops(how) == run' = Ended(how)
Continues(seen) ==
  IF run.pc = Len(Scripts[run.script]) THEN Stops("done")
  ELSE run' = [run EXCEPT !.pc = @ + 1, !.seen = seen]
GoesOn == Continues(run.seen)

\* Amounts that come from what was read
ReadAmount ==
  CASE step.call = "liquidate" -> run.seen.debt
    [] step.call = "repay" -> run.seen.debt + Headroom
    [] step.call = "repayAll" -> MaxPosition
    [] step.call = "withdrawCollateral" /\ step.what = 0 -> run.seen.collateral
    [] OTHER -> step.what
TheTx ==
  IF step.do = "attest"
  THEN [from |-> "attestor", call |-> "attest",
        what |-> IF step.status = "as read" THEN run.seen.facts ELSE step.status]
  ELSE [from |-> step.from, call |-> step.call, what |-> ReadAmount]

Wanted ==
  \/ step.do \in {"send", "attest"}
  \/ /\ step.do = "sendIf"
     /\ CASE step.when = "insufficient" -> run.seen.state = "UNWINDING" /\ run.seen.debt > 0
          [] step.when = "residual" -> run.seen.collateral > 0

Start(script) ==
  /\ ~Running
  /\ run' = [script |-> script, pc |-> 1, how |-> "running", seen |-> Unread]
  /\ UNCHANGED <<testnet, late, trouble>>

\* The transactions of an account land in the order of their nonces
Blocked(from) == late # NoTx /\ late.from = from

SendsTx ==
  /\ Wanted /\ ~Blocked(TheTx.from)
  /\ IF Succeeds(TheTx)
     THEN testnet' = After(TheTx) /\ GoesOn
     ELSE UNCHANGED testnet /\ IF Strict(run.script) THEN Stops("failed") ELSE GoesOn
SkipsTx == step.do = "sendIf" /\ ~Wanted /\ GoesOn /\ UNCHANGED testnet

ReadsField ==
  /\ step.do = "read"
  /\ Continues([run.seen EXCEPT ![step.field] = testnet[step.field]])
  /\ UNCHANGED testnet

ExpectsIt ==
  /\ step.do = "expect"
  /\ IF CASE step.what = "active" -> testnet.facts = "ACTIVE"
          [] step.what = "clean" -> testnet.collateral = 0 /\ testnet.debt = 0
          [] step.what = "standing" -> Cleared
          [] step.what = "indebted" -> testnet.debt > 0
          [] step.what = "debtFree" -> testnet.debt = 0
     THEN GoesOn ELSE Stops("failed")
  /\ UNCHANGED testnet

UpdatesStatus ==
  /\ step.do = "updateStatus"
  /\ testnet' = [testnet EXCEPT !.facts = step.to]
  /\ GoesOn

ScriptStep ==
  /\ Running
  /\ SendsTx \/ SkipsTx \/ ReadsField \/ ExpectsIt \/ UpdatesStatus
  /\ UNCHANGED <<late, trouble>>

-----------------------------------------------------------------------------
(* What else happens *)

Troubled == trouble < MaxTrouble /\ trouble' = trouble + 1

\* No answer in time: from Cleanverse, from a node, or for a transaction that was sent
ScriptCutOff ==
  /\ Running /\ Troubled
  /\ Stops("failed")
  /\ \/ UNCHANGED late
     \/ Wanted /\ late = NoTx /\ late' = TheTx
  /\ UNCHANGED testnet
LateLands ==
  /\ late # NoTx
  /\ testnet' = IF Succeeds(late) THEN After(late) ELSE testnet
  /\ late' = NoTx
  /\ UNCHANGED <<run, trouble>>
LateDropped == late # NoTx /\ late' = NoTx /\ UNCHANGED <<testnet, run, trouble>>

GraceElapses ==
  /\ testnet.state = "FLAGGED" /\ ~testnet.graceOver
  /\ testnet' = [testnet EXCEPT !.graceOver = TRUE]
  /\ UNCHANGED <<late, run, trouble>>

Interest ==
  /\ 0 < testnet.debt /\ testnet.debt < MaxPosition
  /\ testnet' = [testnet EXCEPT !.debt = @ + 1]
AttestationAges ==
  /\ testnet.attested \in {"ACTIVE", "FROZEN"}
  /\ testnet' = [testnet EXCEPT !.attested = "stale"]

\* The keeper, a liquidator or anyone else
KeeperAttests ==
  /\ ~Blocked("attestor")
  /\ testnet' = After([call |-> "attest", what |-> testnet.facts])
OthersCall ==
  \E call \in {"flag", "reinstate", "startUnwind", "liquidate", "completeUnwind"} :
    LET t == [from |-> "other", call |-> call, what |-> testnet.debt]
    IN Succeeds(t) /\ testnet' = After(t)
Meanwhile ==
  /\ Troubled
  /\ Interest \/ AttestationAges \/ KeeperAttests \/ OthersCall
  /\ UNCHANGED <<late, run>>

-----------------------------------------------------------------------------

ScriptInit ==
  /\ \E borrower \in {"demo", "e2e"} :
       testnet = [borrower |-> borrower, collateral |-> 0, debt |-> 0,
                  mode |-> "ValidatorGated", facts |-> "ACTIVE", attested |-> "nothing",
                  state |-> "HEALTHY", graceOver |-> FALSE]
  /\ late = NoTx
  /\ run = Ended("done")
  /\ trouble = 0

ScriptNext ==
  \/ \E script \in ScriptsOf(testnet.borrower) : Start(script)
  \/ ScriptStep \/ ScriptCutOff \/ LateLands \/ LateDropped \/ GraceElapses \/ Meanwhile

ScriptFairness ==
  /\ WF_scriptVars(ScriptStep)
  /\ WF_scriptVars(LateLands \/ LateDropped)
  /\ WF_scriptVars(GraceElapses)

ScriptSpec == ScriptInit /\ [][ScriptNext]_scriptVars /\ ScriptFairness

-----------------------------------------------------------------------------

(***************************************************************************)
(* full-clear says that it rebuilt the position only when it did: nothing  *)
(* of an earlier position, of a script cut off before it or of a           *)
(* transaction that landed late is left in it.                             *)
(***************************************************************************)
FullClearRebuilds ==
  [][run.script = "fullClear" /\ Running /\ run'.how = "done" =>
       testnet'.collateral = COLLATERAL_AMOUNT /\ testnet'.debt = BORROW_AMOUNT]_scriptVars

(***************************************************************************)
(* The phases can be retried one by one: however often the unwind phase    *)
(* was cut off, and whatever landed late or was done by others, running it *)
(* again and again ends the case - but for the position that became        *)
(* healthy while it was unwinding, which nothing ends.                     *)
(***************************************************************************)
StuckHealthy == testnet.state = "UNWINDING" /\ testnet.debt > 0 /\ Healthy
RetriedUnwindEnds ==
  <>[](Running => run.script = "unwind") /\ []<>(Running /\ run.pc = 1) =>
    <>[](testnet.state \in {"HEALTHY", "RESOLVED"} \/ StuckHealthy)
=============================================================================
