--------------------------- MODULE UnwindLifecycle ---------------------------
(***************************************************************************)
(* What the guardian promises its borrowers, with no word about            *)
(* registries, policies, ratios or tokens: a case is opened with a         *)
(* deadline that is never moved, is dropped or acted upon only as below,   *)
(* and once acted upon is closed exactly when the debt is gone.            *)
(***************************************************************************)
EXTENDS Naturals

CONSTANT Borrowers

VARIABLES
  clock,
  stage,     \* borrower -> HEALTHY, FLAGGED, UNWINDING or RESOLVED
  deadline,  \* borrower -> when the grace of the open case runs out
  owes       \* borrower -> whether it has debt

lifecycle == <<clock, stage, deadline, owes>>

LifecycleInit ==
  /\ clock = 0
  /\ stage = [b \in Borrowers |-> "HEALTHY"]
  /\ deadline = [b \in Borrowers |-> 0]
  /\ owes \in [Borrowers -> BOOLEAN]

Open(b) ==
  /\ stage[b] \in {"HEALTHY", "RESOLVED"}
  /\ stage' = [stage EXCEPT ![b] = "FLAGGED"]
  /\ deadline' = [deadline EXCEPT ![b] = deadline'[b]] /\ deadline'[b] >= clock
  /\ UNCHANGED <<clock, owes>>

Drop(b) ==
  /\ stage[b] = "FLAGGED"
  /\ stage' = [stage EXCEPT ![b] = "HEALTHY"]
  /\ deadline' = [deadline EXCEPT ![b] = 0]
  /\ UNCHANGED <<clock, owes>>

\* Acting on a case never makes a debtor of someone who owed nothing.
Act(b) ==
  /\ stage[b] = "FLAGGED" /\ clock >= deadline[b]
  /\ \E left \in BOOLEAN :
       /\ left => owes[b]
       /\ owes' = [owes EXCEPT ![b] = left]
       /\ stage' = [stage EXCEPT ![b] = IF left THEN "UNWINDING" ELSE "RESOLVED"]
  /\ UNCHANGED <<clock, deadline>>

Close(b) ==
  /\ stage[b] = "UNWINDING" /\ ~owes[b]
  /\ stage' = [stage EXCEPT ![b] = "RESOLVED"]
  /\ UNCHANGED <<clock, deadline, owes>>

\* Everything else: time, and what borrowers, lenders and liquidators do.
Elsewhere ==
  /\ clock' >= clock
  /\ owes' \in [Borrowers -> BOOLEAN]
  /\ UNCHANGED <<stage, deadline>>

LifecycleNext ==
  Elsewhere \/ \E b \in Borrowers : Open(b) \/ Drop(b) \/ Act(b) \/ Close(b)

LifecycleSpec == LifecycleInit /\ [][LifecycleNext]_lifecycle
=============================================================================
