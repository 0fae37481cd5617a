-------------------------------- MODULE Keeper --------------------------------
(***************************************************************************)
(* backend/src/keeper beside the contracts it drives.  Each await of       *)
(* poller.ts is a step of its own, so the issuer, the clock, the borrowers *)
(* and anyone else on the chain may act between two of them.  A second     *)
(* service (onboarding) attests with the same key.  The keeper keeps       *)
(* nothing between cycles: a crash, a failed read and a receipt that times *)
(* out all end the cycle, and the next one starts over.                    *)
(*                                                                         *)
(* Time and nonces are kept relative, so the loop may run forever: `age'   *)
(* is block.timestamp - issuedAt, `graceLeft' is graceEndsAt -             *)
(* block.timestamp, and `next' says a nonce read is still lastNonce + 1.   *)
(***************************************************************************)
EXTENDS Attestor, FiniteSets

CONSTANTS
  Discovery,   \* borrowers in the order their first event appears in the log
  RawFacts,    \* answers the issuer may give
  Ratios,      \* tier, sub-tier -> collateral due per 2 of debt, from the policy's bands
  Loan,        \* what a borrower draws against a collateral of 1
  Window,      \* policy.maxComplianceStaleness
  FutureSkew,  \* MAX_FUTURE_SKEW
  Grace,       \* grace of the active strategy
  HostSkews,   \* how far the host's clock may be ahead of the chain's
  MaxFailures  \* bound: cycles that fail for want of an answer

Borrowers == {Discovery[i] : i \in DOMAIN Discovery}

ASSUME KeeperConstants ==
  /\ Discovery \in Seq(Borrowers) /\ Discovery # <<>>
  /\ {Window, FutureSkew, Grace, MaxFailures, Loan} \subseteq Nat
  /\ HostSkews \subseteq Int /\ HostSkews # {}
  /\ Ratios[0][0] \in Nat
  /\ \A raw \in RawFacts : Ratios[attested(raw).tier][attested(raw).subTier] \in Nat

VARIABLES
  issuer,    \* borrower -> its A-Pass at the issuer
  registry,  \* borrower -> the facts on chain, their age, and whether the
             \*   issuer has changed them since they were fetched
  cases,     \* borrower -> its case at the guardian
  loans,     \* borrower -> collateral and debt in the pool
  joined,    \* how many of Discovery have an event in the pool's log
  hostAhead, \* the host's clock less the chain's
  keeper,    \* the running poll cycle
  mempool,   \* the keeper's transactions not mined yet, in nonce order
  other,     \* what the other attestor has in hand
  failures,  \* cycles that failed so far
  blameless  \* borrowers whose A-Pass and position were never at fault

chainVars == <<registry, cases, loans, joined>>
vars == <<issuer, chainVars, hostAhead, keeper, mempool, other, failures, blameless>>

-----------------------------------------------------------------------------
(* The contracts, as the keeper sees them *)

TooOld == Window + 1
Older(age) == IF age = TooOld THEN age ELSE age + 1
Sooner(left) == IF left = -1 THEN left ELSE left - 1

NeverAttested ==
  [tier |-> 0, subTier |-> 0, country |-> NoCountry, apassStatus |-> "UNKNOWN", lapsed |-> FALSE]
NoCase == [state |-> "HEALTHY", graceLeft |-> -1]

\* Mutant: facts never attested pass for fresh
isFreshOrNever(u) == registry[u].age >= 0
isFresh(u) == registry[u].age \in 0..Window
isCompliant(u) == policyCompliant(registry[u].facts)

Healthy(loan, facts) ==
  loan.debt * Ratios[facts.tier][facts.subTier] <= loan.collateral * 2
isPoolHealthy(u) == Healthy(loans[u], registry[u].facts)

\* A transaction's guards: what eth_estimateGas checks, and the chain again.
\* onlyGuardian of the pool is taken as met: this guardian is the one installed.
Passes(tx) ==
  LET u == tx.user
  IN CASE tx.kind = "submitAttestation" -> tx.next /\ -FutureSkew <= tx.age /\ tx.age <= Window
       [] tx.kind = "flag" -> /\ cases[u].state \in {"HEALTHY", "RESOLVED"}
                              /\ isFresh(u) /\ (~isCompliant(u) \/ ~isPoolHealthy(u))
       [] tx.kind = "reinstate" -> /\ cases[u].state = "FLAGGED"
                                   /\ isFresh(u) /\ isCompliant(u) /\ isPoolHealthy(u)
       [] tx.kind = "startUnwind" -> cases[u].state = "FLAGGED" /\ cases[u].graceLeft <= 0
       [] tx.kind = "completeUnwind" -> cases[u].state = "UNWINDING" /\ loans[u].debt = 0

SelfCured(loan) ==
  LET applied == IF loan.debt < loan.collateral THEN loan.debt ELSE loan.collateral
  IN [collateral |-> loan.collateral - applied, debt |-> loan.debt - applied]

\* What a transaction that passes does
Takes(tx) ==
  LET u == tx.user
  IN CASE tx.kind = "submitAttestation" ->
            /\ registry' = [registry EXCEPT ![u] =
                 [facts |-> tx.facts, age |-> tx.age, outdated |-> tx.outdated]]
            /\ UNCHANGED <<cases, loans>>
       [] tx.kind = "flag" ->
            /\ cases' = [cases EXCEPT ![u] = [state |-> "FLAGGED", graceLeft |-> Grace]]
            /\ UNCHANGED <<registry, loans>>
       [] tx.kind = "reinstate" ->
            /\ cases' = [cases EXCEPT ![u] = NoCase]
            /\ UNCHANGED <<registry, loans>>
       [] tx.kind = "startUnwind" ->
            /\ loans' = [loans EXCEPT ![u] = SelfCured(@)]
            /\ cases' = [cases EXCEPT ![u] =
                 [state |-> IF SelfCured(loans[u]).debt = 0 THEN "RESOLVED" ELSE "UNWINDING",
                  graceLeft |-> -1]]
            /\ UNCHANGED registry
       [] tx.kind = "completeUnwind" ->
            /\ cases' = [cases EXCEPT ![u].state = "RESOLVED"]
            /\ UNCHANGED <<registry, loans>>

\* A nonce someone holds for u is used up once another message for u lands.
Used(tx, holder) ==
  IF tx.kind = "submitAttestation" /\ tx.user = holder.user
  THEN [holder EXCEPT !.next = FALSE] ELSE holder

\* A position at fault is never again blameless.
Blame ==
  blameless' = {u \in blameless :
    policyCompliant(attested(issuer'[u])) /\ Healthy(loans'[u], registry'[u].facts)}

-----------------------------------------------------------------------------
(* One poll cycle *)

NoRaw == [status |-> 0, expirationTime |-> "null", tier |-> Missing,
          subTier |-> Missing, countries |-> <<>>]

Asleep == [pc |-> "asleep", todo |-> <<>>, user |-> Discovery[1],
           raw |-> NoRaw, outdated |-> FALSE, next |-> FALSE,        \* to attest
           compliant |-> FALSE, position |-> NoCase, healthy |-> FALSE] \* to decide

\* The poll of the first borrower of `todo', or the end of the cycle
PollOf(todo) ==
  IF todo = <<>> THEN Asleep
  ELSE [Asleep EXCEPT !.pc = "fetch", !.todo = Tail(todo), !.user = Head(todo)]

Action(kind, u) == [kind |-> kind, user |-> u, facts |-> NeverAttested, age |-> 0,
                    outdated |-> FALSE, next |-> FALSE]

\* The attestation of what is in hand, issued now by the host's clock
Attestation(holder, next) ==
  [kind |-> "submitAttestation", user |-> holder.user, facts |-> attested(holder.raw),
   age |-> -hostAhead, outdated |-> holder.outdated, next |-> next]

\* discoverBorrowers: every borrower with an event up to the latest block
discoverBorrowers == SubSeq(Discovery, 1, joined)

\* tick, getBorrowers and the head of pollOnce's loop
Wake ==
  /\ keeper.pc = "asleep"
  /\ keeper' = PollOf(discoverBorrowers)
  /\ UNCHANGED <<issuer, chainVars, hostAhead, mempool, other, failures, blameless>>

NextBorrower == keeper' = PollOf(keeper.todo)

\* Mutant: the timer is armed only after a cycle that did not throw
EndsForGood == keeper' = [Asleep EXCEPT !.pc = "stopped"]
Ends == keeper' = Asleep

FetchFacts ==
  /\ keeper.pc = "fetch"
  /\ keeper' = [keeper EXCEPT !.pc = "nonce", !.raw = issuer[keeper.user],
                              !.compliant = keeperCompliant(issuer[keeper.user])]
  /\ UNCHANGED <<issuer, chainVars, hostAhead, mempool, other, failures, blameless>>

getNextNonce ==
  /\ keeper.pc = "nonce"
  /\ keeper' = [keeper EXCEPT !.pc = "attest", !.next = TRUE]
  /\ UNCHANGED <<issuer, chainVars, hostAhead, mempool, other, failures, blameless>>

\* execute, first half: gas is estimated, and a call that would revert throws,
\* which ends the whole cycle.
Sends(tx, pc) ==
  /\ IF Passes(tx)
     THEN /\ mempool' = Append(mempool, tx)
          /\ keeper' = [Asleep EXCEPT !.pc = pc, !.todo = keeper.todo, !.user = keeper.user,
                                      !.compliant = keeper.compliant /\ pc = "attestSent"]
     ELSE UNCHANGED mempool /\ Ends
  /\ UNCHANGED <<issuer, chainVars, hostAhead, other, failures, blameless>>

SignAndSubmit ==
  /\ keeper.pc = "attest"
  /\ IF signable(keeper.raw) THEN Sends(Attestation(keeper, keeper.next), "attestSent")
     ELSE Ends /\ UNCHANGED <<issuer, chainVars, hostAhead, mempool, other, failures, blameless>>

\* execute, second half: any receipt will do, success or not.
Receipt ==
  /\ keeper.pc \in {"attestSent", "actSent"} /\ mempool = <<>>
  /\ IF keeper.pc = "attestSent"
     THEN keeper' = [keeper EXCEPT !.pc = "position"]
     ELSE NextBorrower
  /\ UNCHANGED <<issuer, chainVars, hostAhead, mempool, other, failures, blameless>>

getGuardianPosition ==
  /\ keeper.pc = "position"
  /\ keeper' = [keeper EXCEPT !.pc = "health", !.position = cases[keeper.user]]
  /\ UNCHANGED <<issuer, chainVars, hostAhead, mempool, other, failures, blameless>>

ReadHealth ==
  /\ keeper.pc = "health"
  /\ keeper' = [keeper EXCEPT !.pc = "decide", !.healthy = isPoolHealthy(keeper.user)]
  /\ UNCHANGED <<issuer, chainVars, hostAhead, mempool, other, failures, blameless>>

\* Mutant of Decision: unwinds a flagged borrower only while it is unhealthy
DecisionUnhealthyOnly ==
  LET good == keeper.compliant /\ keeper.healthy
  IN CASE keeper.position.state \in {"HEALTHY", "RESOLVED"} -> IF good THEN "nothing" ELSE "flag"
       [] keeper.position.state = "FLAGGED" ->
            IF good THEN "reinstate"
            ELSE IF keeper.position.graceLeft <= hostAhead /\ ~keeper.healthy
                 THEN "startUnwind" ELSE "nothing"
       [] keeper.position.state = "UNWINDING" -> "completeUnwind"

\* Mutant of Decision: looks at the A-Pass of a borrower only while it has debt
DecisionIfUnhealthy ==
  LET good == keeper.compliant /\ keeper.healthy
  IN CASE keeper.position.state \in {"HEALTHY", "RESOLVED"} ->
            IF keeper.healthy THEN "nothing" ELSE "flag"
       [] keeper.position.state = "FLAGGED" ->
            IF good THEN "reinstate"
            ELSE IF keeper.position.graceLeft <= hostAhead THEN "startUnwind" ELSE "nothing"
       [] keeper.position.state = "UNWINDING" -> "completeUnwind"

\* pollBorrower's switch, on what was read; the host's clock decides on grace.
Decision ==
  LET good == keeper.compliant /\ keeper.healthy
  IN CASE keeper.position.state \in {"HEALTHY", "RESOLVED"} -> IF good THEN "nothing" ELSE "flag"
       [] keeper.position.state = "FLAGGED" ->
            IF good THEN "reinstate"
            ELSE IF keeper.position.graceLeft <= hostAhead THEN "startUnwind" ELSE "nothing"
       [] keeper.position.state = "UNWINDING" -> "completeUnwind"

Decide ==
  /\ keeper.pc = "decide"
  /\ CASE Decision = "nothing" ->
            NextBorrower /\ UNCHANGED <<issuer, chainVars, hostAhead, mempool, other, failures, blameless>>
       [] Decision = "completeUnwind" ->
            /\ keeper' = [keeper EXCEPT !.pc = "debt"]
            /\ UNCHANGED <<issuer, chainVars, hostAhead, mempool, other, failures, blameless>>
       [] OTHER -> Sends(Action(Decision, keeper.user), "actSent")

currentDebt ==
  /\ keeper.pc = "debt"
  /\ IF loans[keeper.user].debt = 0 THEN keeper' = [keeper EXCEPT !.pc = "complete"] ELSE NextBorrower
  /\ UNCHANGED <<issuer, chainVars, hostAhead, mempool, other, failures, blameless>>

Complete == keeper.pc = "complete" /\ Sends(Action("completeUnwind", keeper.user), "actSent")

\* A call that throws, a receipt not seen in time, or the process dies: what was
\* sent stays sent.  pollOnce has no handler of its own, so the cycle is over.
CycleFails ==
  /\ keeper.pc # "asleep" /\ failures < MaxFailures
  /\ failures' = failures + 1
  /\ Ends
  /\ UNCHANGED <<issuer, chainVars, hostAhead, mempool, other, blameless>>

KeeperSteps ==
  \/ Wake \/ FetchFacts \/ getNextNonce \/ SignAndSubmit \/ Receipt
  \/ getGuardianPosition \/ ReadHealth \/ Decide \/ currentDebt \/ Complete

-----------------------------------------------------------------------------
(* The chain and everyone else *)

Mined ==
  /\ mempool # <<>>
  /\ LET tx == Head(mempool)
     IN IF Passes(tx)
        THEN /\ Takes(tx)
             /\ mempool' = [i \in 1..Len(mempool) - 1 |-> Used(tx, mempool[i + 1])]
             /\ keeper' = Used(tx, keeper)
        ELSE /\ mempool' = Tail(mempool)
             /\ UNCHANGED <<registry, cases, loans, keeper>>
  /\ UNCHANGED <<issuer, joined, hostAhead, other, failures>>
  /\ Blame

\* The guardian is open to anyone, and does not ask who calls.
AnyoneCalls(kind, u) ==
  /\ Passes(Action(kind, u)) /\ Takes(Action(kind, u))
  /\ UNCHANGED <<issuer, joined, hostAhead, keeper, mempool, other, failures>>
  /\ Blame

Idle == [pc |-> "idle", user |-> Discovery[1], raw |-> NoRaw, outdated |-> FALSE]

\* attest() and relay.submit of the other service, with the same order of calls.
\* Were its nonce used between the two, its message would only be lost.
OtherFetches(u) ==
  /\ other.pc = "idle"
  /\ other' = [Idle EXCEPT !.pc = "fetched", !.user = u, !.raw = issuer[u]]
  /\ UNCHANGED <<issuer, chainVars, hostAhead, keeper, mempool, failures, blameless>>

OtherSubmits ==
  /\ other.pc = "fetched"
  /\ LET tx == Attestation(other, TRUE)
     IN IF signable(other.raw) /\ Passes(tx)
        THEN /\ Takes(tx)
             /\ mempool' = [i \in DOMAIN mempool |-> Used(tx, mempool[i])]
             /\ keeper' = Used(tx, keeper)
        ELSE UNCHANGED <<registry, cases, loans, mempool, keeper>>
  /\ other' = Idle
  /\ UNCHANGED <<issuer, joined, hostAhead, failures>>
  /\ Blame

IssuerChanges(u, raw) ==
  /\ raw # issuer[u]
  /\ issuer' = [issuer EXCEPT ![u] = raw]
  /\ registry' = [registry EXCEPT ![u].outdated = TRUE]
  /\ keeper' = IF keeper.user = u /\ keeper.pc \in {"nonce", "attest"}
               THEN [keeper EXCEPT !.outdated = TRUE] ELSE keeper
  /\ mempool' = [i \in DOMAIN mempool |->
       IF mempool[i].user = u /\ mempool[i].kind = "submitAttestation"
       THEN [mempool[i] EXCEPT !.outdated = TRUE] ELSE mempool[i]]
  /\ other' = IF other.user = u /\ other.pc # "idle" THEN [other EXCEPT !.outdated = TRUE] ELSE other
  /\ UNCHANGED <<cases, loans, joined, hostAhead, failures>>
  /\ Blame

\* Bound: the polls of a cycle are short against a tick; what a failed cycle
\* left in the mempool may wait for any number of them.
Tick ==
  /\ keeper.pc = "asleep"
  /\ registry' = [u \in Borrowers |-> [registry[u] EXCEPT !.age = Older(@)]]
  /\ cases' = [u \in Borrowers |-> [cases[u] EXCEPT !.graceLeft = Sooner(@)]]
  /\ mempool' = [i \in DOMAIN mempool |->
       IF mempool[i].kind = "submitAttestation"
       THEN [mempool[i] EXCEPT !.age = Older(@)] ELSE mempool[i]]
  /\ UNCHANGED <<issuer, loans, joined, hostAhead, keeper, other, failures, blameless>>

\* The next borrower of Discovery posts collateral for the first time.
Joins ==
  /\ joined < Len(Discovery)
  /\ joined' = joined + 1
  /\ loans' = [loans EXCEPT ![Discovery[joined + 1]].collateral = 1]
  /\ UNCHANGED <<issuer, registry, cases, hostAhead, keeper, mempool, other, failures, blameless>>

LoanChanges(u, loan) ==
  /\ loans' = [loans EXCEPT ![u] = loan]
  /\ UNCHANGED <<issuer, registry, cases, joined, hostAhead, keeper, mempool, other, failures>>
  /\ Blame

\* Collateral of 1 is posted if none is there; the pool does not ask the guardian.
Borrows(u) ==
  LET loan == [collateral |-> 1, debt |-> Loan]
  IN /\ loans[u].debt = 0 /\ \E i \in 1..joined : Discovery[i] = u
     /\ isFresh(u) /\ isCompliant(u) /\ Healthy(loan, registry[u].facts)
     /\ LoanChanges(u, loan)

Repays(u) == loans[u].debt > 0 /\ LoanChanges(u, [loans[u] EXCEPT !.debt = 0])
Liquidated(u) == ~isPoolHealthy(u) /\ LoanChanges(u, [collateral |-> 0, debt |-> 0])

-----------------------------------------------------------------------------
(* The specification *)

KeeperInit ==
  /\ issuer \in [Borrowers -> RawFacts]
  /\ registry = [u \in Borrowers |-> [facts |-> NeverAttested, age |-> TooOld, outdated |-> TRUE]]
  /\ cases = [u \in Borrowers |-> NoCase]
  /\ loans = [u \in Borrowers |-> [collateral |-> 0, debt |-> 0]]
  /\ joined = 0
  /\ hostAhead \in HostSkews
  /\ keeper = Asleep /\ mempool = <<>> /\ other = Idle
  /\ failures = 0
  /\ blameless = {u \in Borrowers : policyCompliant(attested(issuer[u]))}

KeeperNext ==
  \/ KeeperSteps \/ CycleFails \/ Mined \/ Tick \/ Joins
  \/ OtherSubmits
  \/ \E u \in Borrowers :
       \/ \E raw \in RawFacts : IssuerChanges(u, raw)
       \/ \E kind \in {"flag", "reinstate", "startUnwind", "completeUnwind"} : AnyoneCalls(kind, u)
       \/ OtherFetches(u) \/ Borrows(u) \/ Repays(u) \/ Liquidated(u)

KeeperSpec == KeeperInit /\ [][KeeperNext]_vars

(***************************************************************************)
(* Fairness: the process runs (setTimeout re-arms the loop whatever the    *)
(* cycle threw), the chain mines what was sent, and the clock goes on in   *)
(* the sleeps between cycles.  Nobody else is bound to do anything, and    *)
(* MaxFailures says that reads and receipts do not fail for ever.          *)
(***************************************************************************)
KeeperFairSpec ==
  KeeperSpec /\ WF_vars(KeeperSteps) /\ WF_vars(Mined) /\ SF_vars(Tick)

-----------------------------------------------------------------------------
(* Properties *)

Seen(u) == \E i \in 1..joined : Discovery[i] = u

(***************************************************************************)
(* A borrower whose A-Pass was always acceptable and whose position was    *)
(* always backed is never flagged: not by a keeper that works on an old    *)
(* snapshot, not by one whose floor is higher than the policy's, not by a  *)
(* rival, not by attestations landing late or out of order.                *)
(***************************************************************************)
BlamelessNeverFlagged == \A u \in blameless : cases[u].state = "HEALTHY"

(***************************************************************************)
(* An entry not marked outdated says what the issuer says now, whatever    *)
(* was signed, overwritten or mined late in between.  This is what the     *)
(* convergence below brings about.                                         *)
(***************************************************************************)
FactsAreTheirs ==
  \A u \in Borrowers : ~registry[u].outdated => registry[u].facts = attested(issuer[u])

(***************************************************************************)
(* While they are so, nobody is flagged, cleared or lent to but as their   *)
(* A-Pass of today deserves, by the keeper, a rival or the pool: what goes *)
(* wrong on old facts goes wrong only on old facts.                        *)
(***************************************************************************)
JudgedByTheirFacts(u) ==
  LET now          == attested(issuer[u])
      backed(loan) == Healthy(loan, now)
  IN /\ cases[u].state # "FLAGGED" /\ cases'[u].state = "FLAGGED" =>
          ~policyCompliant(now) \/ ~backed(loans[u])
     /\ cases[u].state # "HEALTHY" /\ cases'[u].state = "HEALTHY" =>
          policyCompliant(now) /\ backed(loans[u])
     /\ loans'[u].debt > loans[u].debt => policyCompliant(now) /\ backed(loans'[u])

JudgedByTheIssuer ==
  [][ \A u \in Borrowers : ~registry[u].outdated => JudgedByTheirFacts(u) ]_vars

(* The issuer and the other attestor come to rest (each of its messages may  *)
(* cost the keeper a cycle), and so do the differences of opinion that end   *)
(* every cycle before its later borrowers are reached (see Disputed).        *)
Settled == <>[][UNCHANGED <<issuer, other>>]_vars
Undisputed == <>[](\A u \in Borrowers : Seen(u) => ~Disputed(issuer[u]))

(***************************************************************************)
(* Whatever was lost, overwritten by the other attestor or mined late: once *)
(* the issuer stops changing a borrower's A-Pass, the chain comes to hold  *)
(* that A-Pass and keeps it.                                               *)
(***************************************************************************)
FactsConverge ==
  Settled /\ Undisputed => \A u \in Borrowers : Seen(u) ~> [](~registry[u].outdated)

(***************************************************************************)
(* A borrower whose A-Pass is revoked for good does not stay HEALTHY: the  *)
(* keeper finds it and flags it, through failed cycles and rival calls.    *)
(***************************************************************************)
RevocationIsActedOn ==
  Settled /\ Undisputed =>
    \A u \in Borrowers :
      Seen(u) /\ ~policyCompliant(attested(issuer[u])) ~>
        \/ cases[u].state # "HEALTHY"
        \/ policyCompliant(attested(issuer[u]))

(***************************************************************************)
(* No case of a borrower the pool has seen stays FLAGGED: it is reinstated *)
(* or, once grace is over, unwound.                                        *)
(***************************************************************************)
FlagsAreActedOn ==
  Settled /\ Undisputed =>
    \A u \in Borrowers :
      Seen(u) /\ cases[u].state = "FLAGGED" ~> cases[u].state # "FLAGGED"
=============================================================================
