--------------------------------- MODULE Dapp ---------------------------------
(***************************************************************************)
(* The clients of the contracts: the three pages a visitor meets, the      *)
(* backend that lets a wallet in, and the scripts of the operator.  They   *)
(* share nothing but the chain, and one page is mounted at a time, so a    *)
(* behaviour is one client's; leaving a page and coming back to it, or     *)
(* running a script after another one, is part of its view.                *)
(***************************************************************************)
EXTENDS PositionsScan, RecordLedger, LendPage, Onboarding, TestnetScripts, Deployment,
        RecordPage

VARIABLE view

visitorVars == <<chainVars, scanVars, ledgerVars, lendVars, recordPageVars>>
operatorVars == <<scriptVars, deploymentVars>>
dappVars == <<view, visitorVars, onboardingVars, operatorVars>>
Views == {"positions", "record", "standing", "lend", "onboarding", "scripts", "deployment"}

DappInit ==
  /\ view \in Views
  /\ ChainInit /\ ScanInit /\ LedgerInit /\ LendInit /\ OnboardingInit
  /\ RecordPageInit
  /\ DeploymentInit
  /\ ScriptInit /\ (view = "scripts" \/ testnet.borrower = "demo")
  /\ view = "lend" \/ account = [w \in Wallets |-> CHOOSE opening \in Openings : TRUE]

\* The positions page and a record page both follow the chain
PositionsNext ==
  /\ view = "positions"
  /\ \/ Mine /\ UNCHANGED scanVars
     \/ ScanNext /\ UNCHANGED chainVars
  /\ UNCHANGED <<view, ledgerVars, lendVars, recordPageVars, onboardingVars, operatorVars>>
RecordNext ==
  /\ view = "record"
  /\ \/ Mine /\ UNCHANGED ledgerVars
     \/ LedgerNext /\ UNCHANGED chainVars
  /\ UNCHANGED <<view, scanVars, lendVars, recordPageVars, onboardingVars, operatorVars>>
StandingNext ==
  /\ view = "standing"
  /\ RecordPageNext
  /\ UNCHANGED <<view, chainVars, scanVars, ledgerVars, lendVars, onboardingVars, operatorVars>>
LendViewNext ==
  /\ view = "lend"
  /\ LendNext
  /\ UNCHANGED <<view, chainVars, scanVars, ledgerVars, recordPageVars, onboardingVars, operatorVars>>
BackendNext ==
  /\ view = "onboarding"
  /\ OnboardingNext
  /\ UNCHANGED <<view, visitorVars, operatorVars>>
ScriptsNext ==
  /\ view = "scripts"
  /\ ScriptNext
  /\ UNCHANGED <<view, visitorVars, onboardingVars, deploymentVars>>
DeployNext ==
  /\ view = "deployment"
  /\ DeploymentNext
  /\ UNCHANGED <<view, visitorVars, onboardingVars, scriptVars>>

DappNext ==
  PositionsNext \/ RecordNext \/ StandingNext \/ LendViewNext \/ BackendNext \/ ScriptsNext
  \/ DeployNext

\* The timers of the pages and what a script does next; what the nodes, the
\* wallet and the user must do is said where it is needed.
DappSpec ==
  /\ DappInit /\ [][DappNext]_dappVars
  /\ ScanFairness /\ LedgerFairness /\ RecordPageFairness /\ LendFairness
  /\ ScriptFairness

-----------------------------------------------------------------------------

(***************************************************************************)
(* A page left open catches up with the chain and stays so, though chunks  *)
(* fail, heads lag and answers come late: the positions page lists who has *)
(* an open position - unless getBlockNumber once rejected, which ends its  *)
(* scan for good -, a record page has a row for every event up to where    *)
(* its scan is capped and shows the standing the record has, its ring with *)
(* it and no button left waiting.  Neither catches up with the blocks that *)
(* a node asked for their logs did not have: they count as scanned.        *)
(***************************************************************************)
PagesCatchUp ==
  /\ ScanNodes =>
       (<>[](scan.at \notin {"unmounted", "ended"}) =>
          <>[](/\ checkpoint # Nothing
               /\ entries = open \intersect Discovered(DOMAIN log \ checkpoint.missed)))
  /\ LedgerNodes =>
       \A address \in Records :
         <>[](record = address) =>
           <>[](ToSet(EventsOf(address, Earlier(HeadBlock, MaxBlockOf[address]), unserved))
                  \subseteq ToSet(rows))
  /\ StandingIsShown
=============================================================================
