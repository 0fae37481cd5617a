----------------------------- MODULE KeeperProofs -----------------------------
(***************************************************************************)
(* The keeper harms nobody: whatever its reads and transactions interleave *)
(* with, for any number of borrowers, any answers of the issuer, any       *)
(* windows, ratios and clocks, and however many polls fail.                *)
(***************************************************************************)
EXTENDS Keeper, TLAPS

-----------------------------------------------------------------------------
(* Types *)

Facts == {NeverAttested} \cup {attested(raw) : raw \in RawFacts}
Entry == [facts : Facts, age : Int, outdated : BOOLEAN]
Case == [state : {"HEALTHY", "FLAGGED", "UNWINDING", "RESOLVED"}, graceLeft : Int]
Position == [collateral : {0, 1}, debt : Nat]

Kinds == {"submitAttestation", "flag", "reinstate", "startUnwind", "completeUnwind"}
Transaction == [kind : Kinds, user : Borrowers, facts : Facts, age : Int,
                outdated : BOOLEAN, next : BOOLEAN]

Places == {"asleep", "fetch", "nonce", "attest", "attestSent", "position", "health",
           "decide", "debt", "complete", "actSent"}
Cycle == [pc : Places, todo : Seq(Borrowers), user : Borrowers, raw : RawFacts \cup {NoRaw},
          outdated : BOOLEAN, next : BOOLEAN, compliant : BOOLEAN, position : Case,
          healthy : BOOLEAN]
Hand == [pc : {"idle", "fetched"}, user : Borrowers, raw : RawFacts \cup {NoRaw},
         outdated : BOOLEAN]

ToAttest == keeper.pc \in {"nonce", "attest"}

KeeperTypeOK ==
  /\ issuer \in [Borrowers -> RawFacts]
  /\ registry \in [Borrowers -> Entry] /\ cases \in [Borrowers -> Case]
  /\ loans \in [Borrowers -> Position] /\ joined \in 0..Len(Discovery)
  /\ hostAhead \in Int
  /\ keeper \in Cycle /\ (ToAttest => keeper.raw \in RawFacts)
  /\ mempool \in Seq(Transaction)
  /\ other \in Hand /\ (other.pc = "fetched" => other.raw \in RawFacts)
  /\ blameless \subseteq Borrowers

-----------------------------------------------------------------------------
(* What keeps a blameless borrower safe: nobody holds anything against it,  *)
(* on the chain, in the mempool or in hand, however old.                    *)

\* A transaction that says nothing false of u
Fair(tx, u) ==
  tx.kind = "submitAttestation" /\ tx.user = u => policyCompliant(tx.facts)

NothingAgainst(u) ==
  /\ policyCompliant(attested(issuer[u]))
  /\ Healthy(loans[u], registry[u].facts)
  /\ registry[u].age # TooOld => policyCompliant(registry[u].facts)
  /\ cases[u].state = "HEALTHY"
  /\ ToAttest /\ keeper.user = u => policyCompliant(attested(keeper.raw))
  /\ other.pc = "fetched" /\ other.user = u => policyCompliant(attested(other.raw))
  /\ \A i \in 1..Len(mempool) : Fair(mempool[i], u)

BlamelessInv == \A u \in blameless : NothingAgainst(u)

KeeperInv == KeeperTypeOK /\ BlamelessInv

-----------------------------------------------------------------------------
(* Lemmas of the operators *)

LEMMA DiscoveryFacts ==
  /\ Discovery \in Seq(Borrowers) /\ Len(Discovery) \in Nat /\ Discovery[1] \in Borrowers
  /\ \A i \in 1..Len(Discovery) : Discovery[i] \in Borrowers
  <1>1. Discovery \in Seq(Borrowers) /\ Len(Discovery) \in Nat /\ Len(Discovery) # 0
    BY KeeperConstants
  <1>2. QED
    BY <1>1

LEMMA RatioType ==
  ASSUME NEW facts \in Facts
  PROVE  Ratios[facts.tier][facts.subTier] \in Nat
  BY KeeperConstants DEF Facts, NeverAttested

\* Collateral posted for the first time makes no position unhealthy.
LEMMA CollateralHelps ==
  ASSUME NEW loan \in Position, NEW facts \in Facts, Healthy(loan, facts)
  PROVE  Healthy([loan EXCEPT !.collateral = 1], facts)
  <1>1. [loan EXCEPT !.collateral = 1].debt = loan.debt
        /\ [loan EXCEPT !.collateral = 1].collateral = 1
    BY DEF Position
  <1>2. loan.debt \in Nat /\ loan.collateral \in {0, 1}
    BY DEF Position
  <1> DEFINE r == Ratios[facts.tier][facts.subTier]
  <1>3. r \in Nat
    BY RatioType
  <1>4. loan.debt * r <= loan.collateral * 2
    BY DEF Healthy
  <1> HIDE DEF r
  <1>5. loan.debt * r \in Nat
    BY <1>2, <1>3
  <1>6. loan.debt * r <= 1 * 2
    BY <1>2, <1>4, <1>5
  <1>7. QED
    BY <1>1, <1>6 DEF Healthy, r

LEMMA OwingNothingIsHealthy ==
  ASSUME NEW facts \in Facts
  PROVE  Healthy([collateral |-> 0, debt |-> 0], facts)
  BY RatioType DEF Healthy

LEMMA SelfCuredType ==
  ASSUME NEW loan \in Position
  PROVE  SelfCured(loan) \in Position
  BY DEF SelfCured, Position

LEMMA CaseTypes ==
  /\ NoCase \in Case
  /\ \A g \in Int : [state |-> "FLAGGED", graceLeft |-> g] \in Case
  /\ \A c \in Case : /\ [c EXCEPT !.state = "RESOLVED"] \in Case
                     /\ [c EXCEPT !.graceLeft = Sooner(@)] \in Case
                     /\ [c EXCEPT !.graceLeft = Sooner(@)].state = c.state
  BY DEF NoCase, Case, Sooner

LEMMA TooOldType == TooOld \in Nat /\ \A age \in 0..Window : age # TooOld
  BY KeeperConstants DEF TooOld

\* Used changes nothing but whether a nonce is the next one.
LEMMA UsedCycle ==
  ASSUME NEW tx, NEW k \in Cycle
  PROVE  /\ Used(tx, k) \in Cycle
         /\ Used(tx, k).pc = k.pc /\ Used(tx, k).user = k.user /\ Used(tx, k).raw = k.raw
         /\ Used(tx, k).outdated = k.outdated
  <1> DEFINE used == [k EXCEPT !.next = FALSE]
  <1>1. used \in Cycle
    BY Zenon DEF Cycle
  <1>2. /\ used.pc = k.pc /\ used.user = k.user /\ used.raw = k.raw
        /\ used.outdated = k.outdated
    BY DEF Cycle
  <1>3. Used(tx, k) = used \/ Used(tx, k) = k
    BY DEF Used
  <1> HIDE DEF used
  <1>4. QED
    BY <1>1, <1>2, <1>3

LEMMA UsedTransaction ==
  ASSUME NEW tx, NEW held \in Transaction
  PROVE  /\ Used(tx, held) \in Transaction
         /\ Used(tx, held).kind = held.kind /\ Used(tx, held).user = held.user
         /\ Used(tx, held).facts = held.facts /\ Used(tx, held).outdated = held.outdated
  <1> DEFINE used == [held EXCEPT !.next = FALSE]
  <1>1. used \in Transaction
    BY Zenon DEF Transaction
  <1>2. /\ used.kind = held.kind /\ used.user = held.user /\ used.facts = held.facts
        /\ used.outdated = held.outdated
    BY DEF Transaction
  <1>3. Used(tx, held) = used \/ Used(tx, held) = held
    BY DEF Used
  <1> HIDE DEF used
  <1>4. QED
    BY <1>1, <1>2, <1>3

LEMMA AsleepType ==
  Asleep \in Cycle /\ Asleep.pc = "asleep" /\ NoRaw \in RawFacts \cup {NoRaw}
  <1>1. <<>> \in Seq(Borrowers)
    OBVIOUS
  <1>2. QED
    BY <1>1, DiscoveryFacts, CaseTypes, Zenon DEF Asleep, Cycle, Places

LEMMA PollOfType ==
  ASSUME NEW todo \in Seq(Borrowers)
  PROVE  PollOf(todo) \in Cycle /\ PollOf(todo).pc \in {"asleep", "fetch"}
  <1> DEFINE poll == [Asleep EXCEPT !.pc = "fetch", !.todo = Tail(todo), !.user = Head(todo)]
  <1>1. CASE todo = <<>>
    BY <1>1, AsleepType DEF PollOf
  <1>2. CASE todo # <<>>
    <2>1. Tail(todo) \in Seq(Borrowers) /\ Head(todo) \in Borrowers
      BY <1>2
    <2>2. poll \in Cycle
      BY <2>1, AsleepType, Zenon DEF Cycle, Places
    <2>3. poll.pc = "fetch"
      BY AsleepType DEF Cycle
    <2>4. PollOf(todo) = poll
      BY <1>2 DEF PollOf
    <2>5. QED
      BY <2>2, <2>3, <2>4
  <1>3. QED
    BY <1>1, <1>2

LEMMA ActionType ==
  ASSUME NEW kind \in Kinds, NEW u \in Borrowers
  PROVE  /\ Action(kind, u) \in Transaction
         /\ Action(kind, u).kind = kind /\ Action(kind, u).user = u
  BY DEF Action, Transaction, Facts

LEMMA AttestationType ==
  ASSUME NEW holder, holder.user \in Borrowers, holder.raw \in RawFacts,
         holder.outdated \in BOOLEAN, hostAhead \in Int, NEW next \in BOOLEAN
  PROVE  /\ Attestation(holder, next) \in Transaction
         /\ Attestation(holder, next).kind = "submitAttestation"
         /\ Attestation(holder, next).user = holder.user
         /\ Attestation(holder, next).facts = attested(holder.raw)
         /\ Attestation(holder, next).outdated = holder.outdated
  <1>1. attested(holder.raw) \in Facts
    BY DEF Facts
  <1>2. -hostAhead \in Int
    OBVIOUS
  <1>3. QED
    BY <1>1, <1>2, Zenon DEF Attestation, Transaction, Kinds

-----------------------------------------------------------------------------
(* The poll cycle only reads, decides and sends *)

LEMMA CycleMoves ==
  ASSUME KeeperInv, UNCHANGED <<issuer, chainVars, hostAhead, mempool, other, blameless>>,
         NEW cycle \in Cycle, keeper' = cycle,
         cycle.pc \in {"nonce", "attest"} =>
           /\ cycle.raw \in RawFacts
           /\ cycle.user \in blameless => policyCompliant(attested(cycle.raw))
  PROVE  KeeperInv'
  <1>1. KeeperTypeOK'
    BY DEF KeeperInv, KeeperTypeOK, ToAttest, chainVars
  <1>2. BlamelessInv'
    BY DEF KeeperInv, BlamelessInv, NothingAgainst, ToAttest, chainVars, Fair, Healthy
  <1>3. QED
    BY <1>1, <1>2 DEF KeeperInv

LEMMA TransactionSent ==
  ASSUME KeeperInv, NEW tx \in Transaction, NEW pc \in {"attestSent", "actSent"}, Sends(tx, pc),
         \A u \in blameless : Fair(tx, u)
  PROVE  KeeperInv'
  <1>1. keeper \in Cycle /\ mempool \in Seq(Transaction)
    BY DEF KeeperInv, KeeperTypeOK
  <1>2. UNCHANGED <<issuer, chainVars, hostAhead, other, failures, blameless>>
    BY DEF Sends
  <1>3. CASE mempool' = mempool /\ keeper' = Asleep
    BY <1>2, <1>3, AsleepType, CycleMoves
  <1> DEFINE cycle == [Asleep EXCEPT !.pc = pc, !.todo = keeper.todo, !.user = keeper.user,
                                     !.compliant = keeper.compliant /\ pc = "attestSent"]
  <1>4. CASE mempool' = Append(mempool, tx) /\ keeper' = cycle
    <2>1. keeper.todo \in Seq(Borrowers) /\ keeper.user \in Borrowers
      BY <1>1 DEF Cycle
    <2>2. cycle \in Cycle
      BY <2>1, AsleepType, Zenon DEF Cycle, Places
    <2>3. cycle.pc = pc
      BY AsleepType DEF Cycle
    <2> HIDE DEF cycle
    <2>4. mempool' \in Seq(Transaction) /\ Len(mempool') = Len(mempool) + 1
          /\ \A i \in 1..Len(mempool') :
                \/ i \in 1..Len(mempool) /\ mempool'[i] = mempool[i]
                \/ mempool'[i] = tx
      BY <1>1, <1>4
    <2>5. KeeperTypeOK'
      BY <1>2, <1>4, <2>2, <2>3, <2>4 DEF KeeperInv, KeeperTypeOK, ToAttest, chainVars
    <2>6. \A u \in blameless : \A i \in 1..Len(mempool') : Fair(mempool'[i], u)
      BY <2>4, Zenon DEF KeeperInv, BlamelessInv, NothingAgainst
    <2>7. BlamelessInv'
      BY <1>2, <1>4, <2>3, <2>6
         DEF KeeperInv, BlamelessInv, NothingAgainst, ToAttest, chainVars, Fair, Healthy
    <2>8. QED
      BY <2>5, <2>7 DEF KeeperInv
  <1>5. QED
    BY <1>3, <1>4 DEF Sends, Ends

LEMMA NextPoll ==
  ASSUME KeeperInv, NextBorrower, UNCHANGED <<issuer, chainVars, hostAhead, mempool, other, blameless>>
  PROVE  KeeperInv'
  <1>1. keeper.todo \in Seq(Borrowers)
    BY DEF KeeperInv, KeeperTypeOK, Cycle
  <1>2. keeper' = PollOf(keeper.todo)
    BY DEF NextBorrower
  <1>3. PollOf(keeper.todo) \in Cycle /\ PollOf(keeper.todo).pc \in {"asleep", "fetch"}
    BY <1>1, PollOfType
  <1>4. QED
    BY <1>2, <1>3, CycleMoves

LEMMA CycleEnds ==
  ASSUME KeeperInv, Ends, UNCHANGED <<issuer, chainVars, hostAhead, mempool, other, blameless>>
  PROVE  KeeperInv'
  BY AsleepType, CycleMoves DEF Ends

\* The next step of a poll that is not about to attest
LEMMA PollGoesOn ==
  ASSUME KeeperInv, NEW pc \in Places, pc \notin {"nonce", "attest"}
  PROVE  /\ [keeper EXCEPT !.pc = pc] \in Cycle
         /\ [keeper EXCEPT !.pc = pc].pc = pc
  <1>1. keeper \in Cycle
    BY DEF KeeperInv, KeeperTypeOK
  <1>2. [keeper EXCEPT !.pc = pc] \in Cycle
    BY <1>1, Zenon DEF Cycle
  <1>3. [keeper EXCEPT !.pc = pc].pc = pc
    BY <1>1 DEF Cycle
  <1>4. QED
    BY <1>2, <1>3

LEMMA KeeperStepSafe ==
  ASSUME KeeperInv, KeeperSteps
  PROVE  KeeperInv'
  <1>1. /\ keeper \in Cycle /\ keeper.user \in Borrowers /\ hostAhead \in Int
        /\ keeper.outdated \in BOOLEAN
        /\ (ToAttest => keeper.raw \in RawFacts)
        /\ \A u \in blameless : u \in Borrowers /\ NothingAgainst(u)
        /\ issuer \in [Borrowers -> RawFacts] /\ cases \in [Borrowers -> Case]
    BY DEF KeeperInv, KeeperTypeOK, BlamelessInv, Cycle
  <1>2. CASE Wake
    <2>1. discoverBorrowers \in Seq(Borrowers)
      BY DiscoveryFacts DEF discoverBorrowers, KeeperInv, KeeperTypeOK
    <2>2. QED
      BY <1>2, <2>1, PollOfType, CycleMoves DEF Wake
  <1>3. CASE FetchFacts
    <2> DEFINE compliant == keeperCompliant(issuer[keeper.user])
               cycle == [keeper EXCEPT !.pc = "nonce", !.raw = issuer[keeper.user],
                                       !.compliant = compliant]
    <2>1. issuer[keeper.user] \in RawFacts /\ compliant \in BOOLEAN
      BY <1>1 DEF keeperCompliant
    <2> HIDE DEF compliant
    <2>2. cycle \in Cycle
      BY <1>1, <2>1, Zenon DEF Cycle, Places
    <2>3. cycle.raw = issuer[keeper.user] /\ cycle.user = keeper.user
      BY <1>1 DEF Cycle
    <2> HIDE DEF cycle
    <2>4. keeper' = cycle
      BY <1>3 DEF FetchFacts, cycle, compliant
    <2>5. cycle.user \in blameless => policyCompliant(attested(cycle.raw))
      BY <1>1, <2>3, Zenon DEF NothingAgainst
    <2>6. QED
      BY <1>3, <2>1, <2>2, <2>3, <2>4, <2>5, CycleMoves DEF FetchFacts
  <1>4. CASE getNextNonce
    <2> DEFINE cycle == [keeper EXCEPT !.pc = "attest", !.next = TRUE]
    <2>1. cycle \in Cycle
      BY <1>1, Zenon DEF Cycle, Places
    <2>2. cycle.raw = keeper.raw /\ cycle.user = keeper.user
      BY <1>1 DEF Cycle
    <2> HIDE DEF cycle
    <2>3. keeper' = cycle /\ ToAttest
      BY <1>4 DEF getNextNonce, cycle, ToAttest
    <2>4. cycle.user \in blameless => policyCompliant(attested(cycle.raw))
      BY <1>1, <2>2, <2>3, Zenon DEF NothingAgainst
    <2>5. QED
      BY <1>1, <1>4, <2>1, <2>2, <2>3, <2>4, CycleMoves DEF getNextNonce
  <1>5. CASE SignAndSubmit
    <2> DEFINE tx == Attestation(keeper, keeper.next)
    <2>1. ToAttest /\ keeper.next \in BOOLEAN
      BY <1>1, <1>5 DEF SignAndSubmit, ToAttest, Cycle
    <2>2. /\ tx \in Transaction /\ tx.kind = "submitAttestation"
          /\ tx.user = keeper.user /\ tx.facts = attested(keeper.raw)
      BY <1>1, <2>1, AttestationType
    <2>3. \A u \in blameless : Fair(tx, u)
      BY <1>1, <2>1, <2>2, Zenon DEF Fair, NothingAgainst
    <2>4. \/ Sends(tx, "attestSent")
          \/ Ends /\ UNCHANGED <<issuer, chainVars, hostAhead, mempool, other, failures, blameless>>
      BY <1>5 DEF SignAndSubmit
    <2> HIDE DEF tx
    <2>5. QED
      BY <2>2, <2>3, <2>4, TransactionSent, CycleEnds
  <1>6. CASE Receipt
    BY <1>6, PollGoesOn, CycleMoves, NextPoll DEF Receipt, Places
  <1>7. CASE getGuardianPosition
    <2> DEFINE position == cases[keeper.user]
               cycle == [keeper EXCEPT !.pc = "health", !.position = position]
    <2>1. position \in Case
      BY <1>1
    <2> HIDE DEF position
    <2>2. cycle \in Cycle
      BY <1>1, <2>1, Zenon DEF Cycle, Places
    <2>3. cycle.pc = "health"
      BY <1>1 DEF Cycle
    <2> HIDE DEF cycle
    <2>4. keeper' = cycle
      BY <1>7 DEF getGuardianPosition, cycle, position
    <2>5. QED
      BY <1>7, <2>2, <2>3, <2>4, CycleMoves DEF getGuardianPosition
  <1>8. CASE ReadHealth
    <2> DEFINE healthy == isPoolHealthy(keeper.user)
               cycle == [keeper EXCEPT !.pc = "decide", !.healthy = healthy]
    <2>1. healthy \in BOOLEAN
      BY DEF isPoolHealthy, Healthy
    <2> HIDE DEF healthy
    <2>2. cycle \in Cycle
      BY <1>1, <2>1, Zenon DEF Cycle, Places
    <2>3. cycle.pc = "decide"
      BY <1>1 DEF Cycle
    <2> HIDE DEF cycle
    <2>4. keeper' = cycle
      BY <1>8 DEF ReadHealth, cycle, healthy
    <2>5. QED
      BY <1>8, <2>2, <2>3, <2>4, CycleMoves DEF ReadHealth
  <1>9. CASE Decide
    <2>1. Decision \in {"nothing", "flag", "reinstate", "startUnwind", "completeUnwind"}
      BY <1>1 DEF Decision, Cycle, Case
    <2>2. CASE Decision = "nothing"
      BY <1>9, <2>2, NextPoll DEF Decide
    <2>3. CASE Decision = "completeUnwind"
      BY <1>9, <2>3, PollGoesOn, CycleMoves DEF Decide, Places
    <2>4. CASE Decision \in {"flag", "reinstate", "startUnwind"}
      <3> DEFINE tx == Action(Decision, keeper.user)
      <3>1. tx \in Transaction /\ tx.kind = Decision
        BY <1>1, <2>4, ActionType DEF Kinds
      <3>2. \A u \in blameless : Fair(tx, u)
        BY <2>4, <3>1 DEF Fair
      <3>3. Sends(tx, "actSent")
        BY <1>9, <2>4 DEF Decide
      <3> HIDE DEF tx
      <3>4. QED
        BY <3>1, <3>2, <3>3, TransactionSent
    <2>5. QED
      BY <2>1, <2>2, <2>3, <2>4
  <1>10. CASE currentDebt
    BY <1>10, PollGoesOn, CycleMoves, NextPoll DEF currentDebt, Places
  <1>11. CASE Complete
    <2> DEFINE tx == Action("completeUnwind", keeper.user)
    <2>1. tx \in Transaction /\ tx.kind = "completeUnwind"
      BY <1>1, ActionType DEF Kinds
    <2>2. \A u \in blameless : Fair(tx, u)
      BY <2>1 DEF Fair
    <2>3. Sends(tx, "actSent")
      BY <1>11 DEF Complete
    <2> HIDE DEF tx
    <2>4. QED
      BY <2>1, <2>2, <2>3, TransactionSent
  <1>12. QED
    BY <1>2, <1>3, <1>4, <1>5, <1>6, <1>7, <1>8, <1>9, <1>10, <1>11 DEF KeeperSteps

-----------------------------------------------------------------------------
(* The chain takes what passes, from whoever sent it *)

\* A flag that passes is never one of a borrower nothing is held against.
LEMMA NoFlagPasses ==
  ASSUME NEW u \in Borrowers, NothingAgainst(u), NEW tx, tx.user = u, tx.kind = "flag"
  PROVE  ~Passes(tx)
  BY TooOldType DEF NothingAgainst, Passes, isFresh, isCompliant, isPoolHealthy

LEMMA TakenSafely ==
  ASSUME KeeperInv, NEW tx \in Transaction, Passes(tx), Takes(tx), \A u \in blameless : Fair(tx, u)
  PROVE  /\ registry' \in [Borrowers -> Entry] /\ cases' \in [Borrowers -> Case]
         /\ loans' \in [Borrowers -> Position]
         /\ \A u \in blameless :
              /\ registry'[u].age # TooOld => policyCompliant(registry'[u].facts)
              /\ cases'[u].state = "HEALTHY"
  <1>1. /\ registry \in [Borrowers -> Entry] /\ cases \in [Borrowers -> Case]
        /\ loans \in [Borrowers -> Position]
        /\ \A u \in blameless : u \in Borrowers /\ NothingAgainst(u)
    BY DEF KeeperInv, KeeperTypeOK, BlamelessInv
  <1>2. /\ tx.kind \in Kinds /\ tx.user \in Borrowers /\ tx.facts \in Facts
        /\ tx.age \in Int /\ tx.outdated \in BOOLEAN
    BY DEF Transaction
  <1> DEFINE v == tx.user
  <1>3. CASE tx.kind = "submitAttestation"
    <2> DEFINE entry == [facts |-> tx.facts, age |-> tx.age, outdated |-> tx.outdated]
    <2>1. registry' = [registry EXCEPT ![v] = entry] /\ UNCHANGED <<cases, loans>>
      BY <1>3 DEF Takes
    <2>2. entry \in Entry /\ entry.facts = tx.facts
      BY <1>2 DEF Entry
    <2> HIDE DEF entry
    <2>3. registry' \in [Borrowers -> Entry]
      BY <1>1, <2>1, <2>2
    <2>4. ASSUME NEW u \in blameless
          PROVE  registry'[u].age # TooOld => policyCompliant(registry'[u].facts)
      <3>1. CASE u = v
        <4>1. policyCompliant(tx.facts)
          BY <1>3, <3>1 DEF Fair
        <4>2. registry'[u] = entry
          BY <1>1, <2>1, <3>1
        <4>3. QED
          BY <2>2, <4>1, <4>2, Zenon
      <3>2. CASE u # v
        <4>1. registry'[u] = registry[u]
          BY <1>1, <2>1, <3>2
        <4>2. QED
          BY <1>1, <4>1, Zenon DEF NothingAgainst
      <3>3. QED
        BY <3>1, <3>2
    <2>5. QED
      BY <1>1, <2>1, <2>3, <2>4 DEF NothingAgainst
  <1>4. CASE tx.kind = "flag"
    <2> DEFINE opened == [state |-> "FLAGGED", graceLeft |-> Grace]
    <2>1. cases' = [cases EXCEPT ![v] = opened] /\ UNCHANGED <<registry, loans>>
      BY <1>4 DEF Takes
    <2>2. v \notin blameless
      BY <1>1, <1>2, <1>4, NoFlagPasses
    <2>3. opened \in Case
      BY CaseTypes, KeeperConstants
    <2> HIDE DEF opened
    <2>4. cases' \in [Borrowers -> Case] /\ \A u \in blameless : cases'[u] = cases[u]
      BY <1>1, <2>1, <2>2, <2>3
    <2>5. QED
      BY <1>1, <2>1, <2>4 DEF NothingAgainst
  <1>5. CASE tx.kind = "reinstate"
    <2>1. cases' = [cases EXCEPT ![v] = NoCase] /\ UNCHANGED <<registry, loans>>
      BY <1>5 DEF Takes
    <2>2. cases[v].state = "FLAGGED"
      BY <1>5 DEF Passes
    <2>3. v \notin blameless
      BY <1>1, <2>2 DEF NothingAgainst
    <2>4. cases' \in [Borrowers -> Case] /\ \A u \in blameless : cases'[u] = cases[u]
      BY <1>1, <2>1, <2>3, CaseTypes
    <2>5. QED
      BY <1>1, <2>1, <2>4 DEF NothingAgainst
  <1>6. CASE tx.kind = "startUnwind"
    <2> DEFINE begun == [state |-> IF SelfCured(loans[v]).debt = 0 THEN "RESOLVED"
                                                                   ELSE "UNWINDING",
                         graceLeft |-> -1]
    <2>1. /\ loans' = [loans EXCEPT ![v] = SelfCured(loans[v])]
          /\ cases' = [cases EXCEPT ![v] = begun] /\ UNCHANGED registry
      BY <1>6 DEF Takes
    <2>2. cases[v].state = "FLAGGED"
      BY <1>6 DEF Passes
    <2>3. v \notin blameless
      BY <1>1, <2>2 DEF NothingAgainst
    <2>4. begun \in Case
      BY DEF Case
    <2> HIDE DEF begun
    <2>5. cases' \in [Borrowers -> Case] /\ \A u \in blameless : cases'[u] = cases[u]
      BY <1>1, <2>1, <2>3, <2>4
    <2>6. loans' \in [Borrowers -> Position]
      BY <1>1, <1>2, <2>1, SelfCuredType
    <2>7. QED
      BY <1>1, <2>1, <2>5, <2>6 DEF NothingAgainst
  <1>7. CASE tx.kind = "completeUnwind"
    <2> DEFINE closed == [cases[v] EXCEPT !.state = "RESOLVED"]
    <2>1. cases' = [cases EXCEPT ![v] = closed] /\ UNCHANGED <<registry, loans>>
      BY <1>7 DEF Takes
    <2>2. cases[v].state = "UNWINDING"
      BY <1>7 DEF Passes
    <2>3. v \notin blameless
      BY <1>1, <2>2 DEF NothingAgainst
    <2>4. closed \in Case
      BY <1>1, <1>2, CaseTypes
    <2> HIDE DEF closed
    <2>5. cases' \in [Borrowers -> Case] /\ \A u \in blameless : cases'[u] = cases[u]
      BY <1>1, <2>1, <2>3, <2>4
    <2>6. QED
      BY <1>1, <2>1, <2>5 DEF NothingAgainst
  <1>8. QED
    BY <1>2, <1>3, <1>4, <1>5, <1>6, <1>7 DEF Kinds

\* After a step that weighs the blame, who is still blameless is not at fault.
LEMMA Blamed ==
  ASSUME Blame
  PROVE  /\ blameless' \subseteq blameless
         /\ \A u \in blameless' : /\ policyCompliant(attested(issuer'[u]))
                                  /\ Healthy(loans'[u], registry'[u].facts)
  BY DEF Blame

\* What is left to show of such a step
LEMMA BlamedStep ==
  ASSUME KeeperInv, Blame, UNCHANGED <<joined, hostAhead>>,
         issuer' \in [Borrowers -> RawFacts], registry' \in [Borrowers -> Entry],
         cases' \in [Borrowers -> Case], loans' \in [Borrowers -> Position],
         keeper' \in Cycle, mempool' \in Seq(Transaction), other' \in Hand,
         keeper'.pc = keeper.pc /\ keeper'.user = keeper.user /\ keeper'.raw = keeper.raw,
         other'.pc = "fetched" =>
           other.pc = "fetched" /\ other'.user = other.user /\ other'.raw = other.raw,
         \A u \in blameless :
           /\ registry'[u].age # TooOld => policyCompliant(registry'[u].facts)
           /\ cases'[u].state = "HEALTHY"
           /\ \A i \in 1..Len(mempool') : Fair(mempool'[i], u)
  PROVE  KeeperInv'
  <1>1. KeeperTypeOK'
    BY Blamed DEF KeeperInv, KeeperTypeOK, ToAttest
  <1>2. ASSUME NEW u \in blameless'
        PROVE  /\ policyCompliant(attested(issuer'[u]))
               /\ Healthy(loans'[u], registry'[u].facts)
               /\ registry'[u].age # TooOld => policyCompliant(registry'[u].facts)
               /\ cases'[u].state = "HEALTHY"
               /\ ToAttest' /\ keeper'.user = u => policyCompliant(attested(keeper'.raw))
               /\ other'.pc = "fetched" /\ other'.user = u => policyCompliant(attested(other'.raw))
               /\ \A i \in 1..Len(mempool') : Fair(mempool'[i], u)
    <2>1. u \in blameless /\ NothingAgainst(u)
      BY <1>2, Blamed DEF KeeperInv, BlamelessInv
    <2>2. ToAttest' /\ keeper'.user = u => policyCompliant(attested(keeper'.raw))
      BY <2>1 DEF NothingAgainst, ToAttest
    <2>3. other'.pc = "fetched" /\ other'.user = u => policyCompliant(attested(other'.raw))
      BY <2>1 DEF NothingAgainst
    <2>4. QED
      BY <1>2, <2>1, <2>2, <2>3, Blamed
  <1>3. BlamelessInv'
    BY <1>2 DEF BlamelessInv, NothingAgainst, Fair, Healthy
  <1>4. QED
    BY <1>1, <1>3 DEF KeeperInv

\* The mempool with one field of each transaction rewritten
LEMMA SequenceOf ==
  ASSUME NEW S, NEW n \in Nat, NEW f \in [1..n -> S]
  PROVE  f \in Seq(S) /\ Len(f) = n
  OBVIOUS

\* What everyone else's steps start from
LEMMA Premises ==
  ASSUME KeeperInv
  PROVE  /\ issuer \in [Borrowers -> RawFacts] /\ registry \in [Borrowers -> Entry]
         /\ cases \in [Borrowers -> Case] /\ loans \in [Borrowers -> Position]
         /\ keeper \in Cycle /\ mempool \in Seq(Transaction) /\ other \in Hand
         /\ Len(mempool) \in Nat /\ \A i \in 1..Len(mempool) : mempool[i] \in Transaction
         /\ hostAhead \in Int
         /\ \A u \in blameless :
              /\ registry[u].age # TooOld => policyCompliant(registry[u].facts)
              /\ cases[u].state = "HEALTHY"
              /\ \A i \in 1..Len(mempool) : Fair(mempool[i], u)
  BY DEF KeeperInv, KeeperTypeOK, BlamelessInv, NothingAgainst

\* The rest of the mempool, once a transaction has used up a nonce
LEMMA MempoolUsed ==
  ASSUME KeeperInv, NEW tx, NEW n \in Nat, NEW skip \in Nat, n + skip = Len(mempool),
         mempool' = [i \in 1..n |-> Used(tx, mempool[i + skip])]
  PROVE  /\ mempool' \in Seq(Transaction)
         /\ \A u \in blameless : \A i \in 1..Len(mempool') : Fair(mempool'[i], u)
  <1>1. \A i \in 1..n : i + skip \in 1..Len(mempool)
    BY Premises
  <1>2. \A i \in 1..n : /\ mempool'[i] \in Transaction
                        /\ mempool'[i].kind = mempool[i + skip].kind
                        /\ mempool'[i].user = mempool[i + skip].user
                        /\ mempool'[i].facts = mempool[i + skip].facts
    BY <1>1, Premises, UsedTransaction
  <1>3. mempool' \in Seq(Transaction) /\ Len(mempool') = n
    <2>1. mempool' \in [1..n -> Transaction]
      BY <1>2
    <2>2. QED
      BY <2>1, SequenceOf
  <1>4. ASSUME NEW u \in blameless, NEW i \in 1..n
        PROVE  Fair(mempool'[i], u)
    <2>1. Fair(mempool[i + skip], u)
      BY <1>1, Premises
    <2>2. QED
      BY <1>2, <2>1, Zenon DEF Fair
  <1>5. QED
    BY <1>3, <1>4

LEMMA MinedSafe ==
  ASSUME KeeperInv, Mined
  PROVE  KeeperInv'
  <1> DEFINE tx == Head(mempool)
  <1>1. mempool # <<>> /\ Blame /\ UNCHANGED <<issuer, joined, hostAhead, other>>
    BY DEF Mined
  <1>2. tx \in Transaction /\ 1 \in 1..Len(mempool) /\ tx = mempool[1]
    BY <1>1, Premises
  <1>3. \A u \in blameless : Fair(tx, u)
    BY <1>2, Premises
  <1>4. CASE Passes(tx)
    <2>1. /\ Takes(tx) /\ keeper' = Used(tx, keeper)
          /\ mempool' = [i \in 1..Len(mempool) - 1 |-> Used(tx, mempool[i + 1])]
      BY <1>4 DEF Mined
    <2> HIDE DEF tx
    <2>2. /\ registry' \in [Borrowers -> Entry] /\ cases' \in [Borrowers -> Case]
          /\ loans' \in [Borrowers -> Position]
          /\ \A u \in blameless :
               /\ registry'[u].age # TooOld => policyCompliant(registry'[u].facts)
               /\ cases'[u].state = "HEALTHY"
      BY <1>2, <1>3, <1>4, <2>1, TakenSafely
    <2>3. /\ mempool' \in Seq(Transaction)
          /\ \A u \in blameless : \A i \in 1..Len(mempool') : Fair(mempool'[i], u)
      <3>1. Len(mempool) - 1 \in Nat /\ (Len(mempool) - 1) + 1 = Len(mempool) /\ 1 \in Nat
        BY <1>2, Premises
      <3>2. QED
        BY <2>1, <3>1, MempoolUsed, Zenon
    <2>4. /\ keeper' \in Cycle
          /\ keeper'.pc = keeper.pc /\ keeper'.user = keeper.user /\ keeper'.raw = keeper.raw
      BY <2>1, UsedCycle, Premises
    <2>5. QED
      BY <1>1, <2>2, <2>3, <2>4, Premises, BlamedStep
  <1>5. CASE ~Passes(tx)
    <2>1. mempool' = Tail(mempool) /\ UNCHANGED <<registry, cases, loans, keeper>>
      BY <1>5 DEF Mined
    <2>2. /\ mempool' \in Seq(Transaction)
          /\ \A i \in 1..Len(mempool') :
               i + 1 \in 1..Len(mempool) /\ mempool'[i] = mempool[i + 1]
      BY <1>1, <2>1, Premises
    <2>3. \A u \in blameless : \A i \in 1..Len(mempool') : Fair(mempool'[i], u)
      BY <2>2, Premises
    <2>4. QED
      BY <1>1, <2>1, <2>2, <2>3, Premises, BlamedStep
  <1>6. QED
    BY <1>4, <1>5

\* Anyone's call of the guardian
LEMMA CalledSafe ==
  ASSUME KeeperInv, NEW kind \in Kinds, kind # "submitAttestation", NEW u \in Borrowers,
         AnyoneCalls(kind, u)
  PROVE  KeeperInv'
  <1> DEFINE tx == Action(kind, u)
  <1>1. tx \in Transaction /\ tx.kind = kind
    BY ActionType
  <1>2. \A v \in blameless : Fair(tx, v)
    BY <1>1 DEF Fair
  <1>3. /\ Passes(tx) /\ Takes(tx) /\ Blame
        /\ UNCHANGED <<issuer, joined, hostAhead, keeper, mempool, other>>
    BY DEF AnyoneCalls
  <1> HIDE DEF tx
  <1>4. /\ registry' \in [Borrowers -> Entry] /\ cases' \in [Borrowers -> Case]
        /\ loans' \in [Borrowers -> Position]
        /\ \A v \in blameless :
             /\ registry'[v].age # TooOld => policyCompliant(registry'[v].facts)
             /\ cases'[v].state = "HEALTHY"
    BY <1>1, <1>2, <1>3, TakenSafely
  <1>5. QED
    BY <1>3, <1>4, Premises, BlamedStep

LEMMA IdleType == Idle \in Hand /\ Idle.pc = "idle"
  BY DiscoveryFacts, AsleepType DEF Idle, Hand

LEMMA OtherFetchesSafe ==
  ASSUME KeeperInv, NEW v \in Borrowers, OtherFetches(v)
  PROVE  KeeperInv'
  <1> DEFINE hand == [Idle EXCEPT !.pc = "fetched", !.user = v, !.raw = issuer[v]]
  <1>1. issuer[v] \in RawFacts
    BY Premises
  <1>2. hand \in Hand
    BY <1>1, IdleType, Zenon DEF Hand
  <1>3. hand.user = v /\ hand.raw = issuer[v]
    BY IdleType DEF Hand
  <1> HIDE DEF hand
  <1>4. other' = hand
    BY DEF OtherFetches, hand
  <1>5. UNCHANGED <<issuer, chainVars, hostAhead, keeper, mempool, blameless>>
    BY DEF OtherFetches
  <1>6. KeeperTypeOK'
    BY <1>1, <1>2, <1>3, <1>4, <1>5 DEF KeeperInv, KeeperTypeOK, ToAttest, chainVars
  <1>7. \A u \in blameless : hand.user = u => policyCompliant(attested(hand.raw))
    BY <1>3, Zenon DEF KeeperInv, BlamelessInv, NothingAgainst
  <1>8. BlamelessInv'
    BY <1>4, <1>5, <1>7
       DEF KeeperInv, BlamelessInv, NothingAgainst, ToAttest, chainVars, Fair, Healthy
  <1>9. QED
    BY <1>6, <1>8 DEF KeeperInv

LEMMA OtherSubmitsSafe ==
  ASSUME KeeperInv, OtherSubmits
  PROVE  KeeperInv'
  <1> DEFINE tx == Attestation(other, TRUE)
  <1>1. /\ other.pc = "fetched" /\ other' = Idle /\ Blame
        /\ UNCHANGED <<issuer, joined, hostAhead>>
    BY DEF OtherSubmits
  <1>2. /\ other.user \in Borrowers /\ other.raw \in RawFacts /\ other.outdated \in BOOLEAN
    BY <1>1, Premises DEF KeeperInv, KeeperTypeOK, Hand
  <1>3. /\ tx \in Transaction /\ tx.kind = "submitAttestation"
        /\ tx.user = other.user /\ tx.facts = attested(other.raw)
    BY <1>2, Premises, AttestationType
  <1>4. \A u \in blameless : Fair(tx, u)
    <2>1. \A u \in blameless : other.user = u => policyCompliant(attested(other.raw))
      BY <1>1 DEF KeeperInv, BlamelessInv, NothingAgainst
    <2>2. QED
      BY <1>3, <2>1, Zenon DEF Fair
  <1>5. CASE signable(other.raw) /\ Passes(tx)
    <2>1. /\ Takes(tx) /\ keeper' = Used(tx, keeper)
          /\ mempool' = [i \in DOMAIN mempool |-> Used(tx, mempool[i])]
      BY <1>5 DEF OtherSubmits
    <2> HIDE DEF tx
    <2>2. /\ registry' \in [Borrowers -> Entry] /\ cases' \in [Borrowers -> Case]
          /\ loans' \in [Borrowers -> Position]
          /\ \A u \in blameless :
               /\ registry'[u].age # TooOld => policyCompliant(registry'[u].facts)
               /\ cases'[u].state = "HEALTHY"
      BY <1>3, <1>4, <1>5, <2>1, TakenSafely
    <2>3. mempool' = [i \in 1..Len(mempool) |-> Used(tx, mempool[i + 0])]
      BY <2>1, Premises
    <2>4. /\ mempool' \in Seq(Transaction)
          /\ \A u \in blameless : \A i \in 1..Len(mempool') : Fair(mempool'[i], u)
      <3>1. Len(mempool) \in Nat /\ Len(mempool) + 0 = Len(mempool) /\ 0 \in Nat
        BY Premises
      <3>2. QED
        BY <2>3, <3>1, MempoolUsed, Zenon
    <2>5. /\ keeper' \in Cycle
          /\ keeper'.pc = keeper.pc /\ keeper'.user = keeper.user /\ keeper'.raw = keeper.raw
      BY <2>1, UsedCycle, Premises
    <2>6. QED
      BY <1>1, <2>2, <2>4, <2>5, IdleType, Premises, BlamedStep
  <1>6. CASE ~(signable(other.raw) /\ Passes(tx))
    <2>1. UNCHANGED <<registry, cases, loans, mempool, keeper>>
      BY <1>6 DEF OtherSubmits
    <2>2. QED
      BY <1>1, <2>1, IdleType, Premises, BlamedStep
  <1>7. QED
    BY <1>5, <1>6

\* Time passing or the issuer changing its mind rewrites what is under way.
LEMMA MempoolRewritten ==
  ASSUME KeeperInv, NEW later \in [1..Len(mempool) -> Transaction], mempool' = later,
         \A i \in 1..Len(mempool) : /\ later[i].kind = mempool[i].kind
                                    /\ later[i].user = mempool[i].user
                                    /\ later[i].facts = mempool[i].facts
  PROVE  /\ mempool' \in Seq(Transaction)
         /\ \A u \in blameless : \A i \in 1..Len(mempool') : Fair(mempool'[i], u)
  <1>1. later \in Seq(Transaction) /\ Len(later) = Len(mempool)
    BY Premises, SequenceOf
  <1>2. ASSUME NEW u \in blameless, NEW i \in 1..Len(mempool)
        PROVE  Fair(later[i], u)
    <2>1. Fair(mempool[i], u)
      BY Premises
    <2>2. QED
      BY <2>1, Zenon DEF Fair
  <1>3. QED
    BY <1>1, <1>2

LEMMA IssuerChangesSafe ==
  ASSUME KeeperInv, NEW v \in Borrowers, NEW raw \in RawFacts, IssuerChanges(v, raw)
  PROVE  KeeperInv'
  <1>1. /\ issuer' = [issuer EXCEPT ![v] = raw] /\ Blame
        /\ registry' = [registry EXCEPT ![v].outdated = TRUE]
        /\ UNCHANGED <<cases, loans, joined, hostAhead>>
    BY DEF IssuerChanges
  <1>2. issuer' \in [Borrowers -> RawFacts]
    BY <1>1, Premises
  <1>3. /\ registry' \in [Borrowers -> Entry]
        /\ \A u \in Borrowers : /\ registry'[u].age = registry[u].age
                                /\ registry'[u].facts = registry[u].facts
    <2> DEFINE entry == [registry[v] EXCEPT !.outdated = TRUE]
    <2>1. entry \in Entry /\ entry.age = registry[v].age /\ entry.facts = registry[v].facts
      BY Premises DEF Entry
    <2> HIDE DEF entry
    <2>2. registry' = [registry EXCEPT ![v] = entry]
      BY <1>1 DEF entry
    <2>3. QED
      BY <2>1, <2>2, Premises
  <1>4. \A u \in blameless :
          registry'[u].age # TooOld => policyCompliant(registry'[u].facts)
    <2>1. \A u \in blameless :
            u \in Borrowers /\ (registry[u].age # TooOld => policyCompliant(registry[u].facts))
      BY Premises DEF KeeperInv, KeeperTypeOK
    <2>2. QED
      BY <1>3, <2>1, Zenon
  <1>5. /\ keeper' \in Cycle
        /\ keeper'.pc = keeper.pc /\ keeper'.user = keeper.user /\ keeper'.raw = keeper.raw
    <2> DEFINE cycle == [keeper EXCEPT !.outdated = TRUE]
    <2>1. cycle \in Cycle
      BY Premises, Zenon DEF Cycle
    <2>2. cycle.pc = keeper.pc /\ cycle.user = keeper.user /\ cycle.raw = keeper.raw
      BY Premises DEF Cycle
    <2>3. keeper' = cycle \/ keeper' = keeper
      BY DEF IssuerChanges
    <2> HIDE DEF cycle
    <2>4. QED
      BY <2>1, <2>2, <2>3, Premises
  <1>6. /\ other' \in Hand /\ other'.pc = other.pc
        /\ other'.user = other.user /\ other'.raw = other.raw
    <2> DEFINE hand == [other EXCEPT !.outdated = TRUE]
    <2>1. hand \in Hand
      BY Premises, Zenon DEF Hand
    <2>2. hand.pc = other.pc /\ hand.user = other.user /\ hand.raw = other.raw
      BY Premises DEF Hand
    <2>3. other' = hand \/ other' = other
      BY DEF IssuerChanges
    <2> HIDE DEF hand
    <2>4. QED
      BY <2>1, <2>2, <2>3, Premises
  <1>7. /\ mempool' \in Seq(Transaction)
        /\ \A u \in blameless : \A i \in 1..Len(mempool') : Fair(mempool'[i], u)
    <2> DEFINE Rewritten(tx) == IF tx.user = v /\ tx.kind = "submitAttestation"
                                THEN [tx EXCEPT !.outdated = TRUE] ELSE tx
               later == [i \in 1..Len(mempool) |-> Rewritten(mempool[i])]
    <2>1. ASSUME NEW tx \in Transaction
          PROVE  /\ Rewritten(tx) \in Transaction /\ Rewritten(tx).kind = tx.kind
                 /\ Rewritten(tx).user = tx.user /\ Rewritten(tx).facts = tx.facts
      BY DEF Transaction
    <2>2. mempool' = later
      BY Premises DEF IssuerChanges
    <2> HIDE DEF Rewritten
    <2>3. /\ later \in [1..Len(mempool) -> Transaction]
          /\ \A i \in 1..Len(mempool) : /\ later[i].kind = mempool[i].kind
                                        /\ later[i].user = mempool[i].user
                                        /\ later[i].facts = mempool[i].facts
      BY <2>1, Premises
    <2> HIDE DEF later
    <2>4. QED
      BY <2>2, <2>3, MempoolRewritten
  <1>8. QED
    BY <1>1, <1>2, <1>3, <1>4, <1>5, <1>6, <1>7, Premises, BlamedStep

\* Time takes nothing from the blameless: facts only grow too old to flag by.
LEMMA TickSafe ==
  ASSUME KeeperInv, Tick
  PROVE  KeeperInv'
  <1>1. UNCHANGED <<issuer, loans, joined, hostAhead, keeper, other, blameless>>
    BY DEF Tick
  <1>2. ASSUME NEW u \in Borrowers
        PROVE  /\ registry'[u] \in Entry /\ registry'[u].facts = registry[u].facts
               /\ registry'[u].age # TooOld => registry[u].age # TooOld
    <2> DEFINE age == Older(registry[u].age)
               entry == [registry[u] EXCEPT !.age = age]
    <2>1. registry'[u] = entry
      BY Premises DEF Tick
    <2>2. registry[u] \in Entry /\ registry[u].age \in Int
      BY Premises DEF Entry
    <2>3. age \in Int /\ (age # TooOld => registry[u].age # TooOld)
      BY <2>2 DEF Older
    <2> HIDE DEF age
    <2>4. entry \in Entry /\ entry.facts = registry[u].facts /\ entry.age = age
      BY <2>2, <2>3 DEF Entry
    <2>5. QED
      BY <2>1, <2>3, <2>4
  <1>3. registry' \in [Borrowers -> Entry]
    <2>1. registry' = [u \in Borrowers |-> registry'[u]]
      BY DEF Tick
    <2>2. QED
      BY <1>2, <2>1
  <1>4. cases' \in [Borrowers -> Case] /\ \A u \in Borrowers : cases'[u].state = cases[u].state
    BY CaseTypes, Premises DEF Tick
  <1>5. /\ mempool' \in Seq(Transaction)
        /\ \A u \in blameless : \A i \in 1..Len(mempool') : Fair(mempool'[i], u)
    <2> DEFINE Rewritten(tx) == IF tx.kind = "submitAttestation"
                                THEN [tx EXCEPT !.age = Older(@)] ELSE tx
               later == [i \in 1..Len(mempool) |-> Rewritten(mempool[i])]
    <2>1. ASSUME NEW tx \in Transaction
          PROVE  /\ Rewritten(tx) \in Transaction /\ Rewritten(tx).kind = tx.kind
                 /\ Rewritten(tx).user = tx.user /\ Rewritten(tx).facts = tx.facts
      <3>1. Older(tx.age) \in Int
        BY DEF Transaction, Older
      <3>2. QED
        BY <3>1 DEF Transaction
    <2>2. mempool' = later
      BY Premises DEF Tick
    <2> HIDE DEF Rewritten
    <2>3. /\ later \in [1..Len(mempool) -> Transaction]
          /\ \A i \in 1..Len(mempool) : /\ later[i].kind = mempool[i].kind
                                        /\ later[i].user = mempool[i].user
                                        /\ later[i].facts = mempool[i].facts
      BY <2>1, Premises
    <2> HIDE DEF later
    <2>4. QED
      BY <2>2, <2>3, MempoolRewritten
  <1>6. KeeperTypeOK'
    BY <1>1, <1>3, <1>4, <1>5 DEF KeeperInv, KeeperTypeOK, ToAttest
  <1>7. ASSUME NEW u \in blameless
        PROVE  /\ Healthy(loans[u], registry'[u].facts)
               /\ registry'[u].age # TooOld => policyCompliant(registry'[u].facts)
               /\ cases'[u].state = "HEALTHY"
    <2>1. u \in Borrowers /\ NothingAgainst(u)
      BY DEF KeeperInv, KeeperTypeOK, BlamelessInv
    <2>2. QED
      BY <1>2, <1>4, <2>1, Zenon DEF NothingAgainst
  <1>8. BlamelessInv'
    BY <1>1, <1>5, <1>7 DEF KeeperInv, BlamelessInv, NothingAgainst, ToAttest, Fair, Healthy
  <1>9. QED
    BY <1>6, <1>8 DEF KeeperInv

LEMMA JoinsSafe ==
  ASSUME KeeperInv, Joins
  PROVE  KeeperInv'
  <1> DEFINE v == Discovery[joined + 1]
             loan == [loans[v] EXCEPT !.collateral = 1]
  <1>1. joined' \in 0..Len(Discovery) /\ v \in Borrowers
    BY DiscoveryFacts DEF Joins, KeeperInv, KeeperTypeOK
  <1>2. /\ loans' = [loans EXCEPT ![v] = loan]
        /\ UNCHANGED <<issuer, registry, cases, hostAhead, keeper, mempool, other, blameless>>
    BY DEF Joins
  <1>3. loan \in Position
    BY <1>1, Premises DEF Position
  <1>4. \A u \in blameless : Healthy(loans'[u], registry[u].facts)
    <2>1. SUFFICES ASSUME NEW u \in blameless
                   PROVE  Healthy(loans'[u], registry[u].facts)
      OBVIOUS
    <2>2. u \in Borrowers /\ Healthy(loans[u], registry[u].facts)
      BY DEF KeeperInv, KeeperTypeOK, BlamelessInv, NothingAgainst
    <2>3. loans[u] \in Position /\ registry[u].facts \in Facts
      BY <2>2, Premises DEF Entry
    <2>4. Healthy([loans[u] EXCEPT !.collateral = 1], registry[u].facts)
      BY <2>2, <2>3, CollateralHelps
    <2>5. loans'[u] = IF u = v THEN [loans[u] EXCEPT !.collateral = 1] ELSE loans[u]
      BY <1>2, <2>2, Premises
    <2>6. QED
      BY <2>2, <2>4, <2>5
  <1> HIDE DEF loan
  <1>5. KeeperTypeOK'
    BY <1>1, <1>2, <1>3, Premises DEF KeeperInv, KeeperTypeOK, ToAttest
  <1>6. BlamelessInv'
    BY <1>2, <1>4 DEF KeeperInv, BlamelessInv, NothingAgainst, ToAttest, Fair, Healthy
  <1>7. QED
    BY <1>5, <1>6 DEF KeeperInv

LEMMA LoanChangesSafe ==
  ASSUME KeeperInv, NEW v \in Borrowers, NEW loan \in Position, LoanChanges(v, loan)
  PROVE  KeeperInv'
  <1>1. /\ loans' = [loans EXCEPT ![v] = loan] /\ Blame
        /\ UNCHANGED <<issuer, registry, cases, joined, hostAhead, keeper, mempool, other>>
    BY DEF LoanChanges
  <1>2. loans' \in [Borrowers -> Position]
    BY <1>1, Premises
  <1>3. QED
    BY <1>1, <1>2, Premises, BlamedStep

LEMMA BorrowerSafe ==
  ASSUME KeeperInv, NEW v \in Borrowers, Borrows(v) \/ Repays(v) \/ Liquidated(v)
  PROVE  KeeperInv'
  <1>1. /\ [collateral |-> 1, debt |-> Loan] \in Position
        /\ [collateral |-> 0, debt |-> 0] \in Position
        /\ [loans[v] EXCEPT !.debt = 0] \in Position
    BY KeeperConstants, Premises DEF Position
  <1>2. QED
    BY <1>1, LoanChangesSafe DEF Borrows, Repays, Liquidated

-----------------------------------------------------------------------------
(* The theorem *)

LEMMA KeeperInitSafe ==
  ASSUME KeeperInit
  PROVE  KeeperInv
  <1> DEFINE entry == [facts |-> NeverAttested, age |-> TooOld, outdated |-> TRUE]
             loan == [collateral |-> 0, debt |-> 0]
  <1>1. entry \in Entry /\ entry.age = TooOld /\ entry.facts = NeverAttested
    BY TooOldType DEF Entry, Facts
  <1>2. loan \in Position /\ Healthy(loan, NeverAttested)
    BY OwingNothingIsHealthy DEF Position, Facts
  <1>3. /\ issuer \in [Borrowers -> RawFacts] /\ registry = [u \in Borrowers |-> entry]
        /\ cases = [u \in Borrowers |-> NoCase] /\ loans = [u \in Borrowers |-> loan]
        /\ joined = 0 /\ hostAhead \in HostSkews
        /\ keeper = Asleep /\ mempool = <<>> /\ other = Idle
        /\ blameless = {u \in Borrowers : policyCompliant(attested(issuer[u]))}
    BY DEF KeeperInit
  <1> HIDE DEF entry, loan
  <1>4. NoCase.state = "HEALTHY"
    BY DEF NoCase
  <1>5. <<>> \in Seq(Transaction) /\ Len(<<>>) = 0 /\ hostAhead \in Int
        /\ joined \in 0..Len(Discovery)
    BY <1>3, KeeperConstants, DiscoveryFacts
  <1>6. KeeperTypeOK
    BY <1>1, <1>2, <1>3, <1>5, CaseTypes, AsleepType, IdleType DEF KeeperTypeOK, ToAttest
  <1>7. ASSUME NEW u \in blameless
        PROVE  NothingAgainst(u)
    <2>1. u \in Borrowers /\ policyCompliant(attested(issuer[u]))
      BY <1>3, <1>7
    <2>2. registry[u] = entry /\ loans[u] = loan /\ cases[u] = NoCase
      BY <1>3, <2>1
    <2>3. ~ToAttest /\ other.pc # "fetched"
      BY <1>3, AsleepType, IdleType DEF ToAttest
    <2>4. \A i \in 1..Len(mempool) : Fair(mempool[i], u)
      BY <1>3, <1>5
    <2>5. QED
      BY <1>1, <1>2, <1>4, <2>1, <2>2, <2>3, <2>4, Zenon DEF NothingAgainst
  <1>8. QED
    BY <1>6, <1>7 DEF KeeperInv, BlamelessInv

LEMMA KeeperInvStep ==
  ASSUME KeeperInv, [KeeperNext]_vars
  PROVE  KeeperInv'
  <1>1. CASE UNCHANGED vars
    BY <1>1 DEF vars, chainVars, KeeperInv, KeeperTypeOK, ToAttest, BlamelessInv,
       NothingAgainst, Fair, Healthy
  <1>2. CASE KeeperSteps
    BY <1>2, KeeperStepSafe
  <1>3. CASE CycleFails
    BY <1>3, CycleEnds DEF CycleFails
  <1>4. CASE Mined \/ Tick \/ Joins \/ OtherSubmits
    BY <1>4, MinedSafe, TickSafe, JoinsSafe, OtherSubmitsSafe
  <1>5. ASSUME NEW u \in Borrowers,
               \/ \E raw \in RawFacts : IssuerChanges(u, raw)
               \/ \E kind \in {"flag", "reinstate", "startUnwind", "completeUnwind"} :
                    AnyoneCalls(kind, u)
               \/ OtherFetches(u) \/ Borrows(u) \/ Repays(u) \/ Liquidated(u)
        PROVE  KeeperInv'
    BY <1>5, IssuerChangesSafe, CalledSafe, OtherFetchesSafe, BorrowerSafe DEF Kinds
  <1>6. QED
    BY <1>1, <1>2, <1>3, <1>4, <1>5 DEF KeeperNext

(***************************************************************************)
(* The keeper's types, and that no fact in hand, in the mempool or on      *)
(* chain speaks against a borrower who gave no cause: whatever poller.ts   *)
(* was awaiting while the issuer, the borrowers, a rival attestor and the  *)
(* clock moved on.                                                         *)
(***************************************************************************)
THEOREM KeeperInductive == KeeperSpec => []KeeperInv
  <1>1. KeeperInit => KeeperInv
    BY KeeperInitSafe
  <1>2. KeeperInv /\ [KeeperNext]_vars => KeeperInv'
    BY KeeperInvStep
  <1>3. QED
    BY <1>1, <1>2, PTL DEF KeeperSpec

(***************************************************************************)
(* Nobody is flagged without cause, by the keeper or by anyone, though     *)
(* keeper and chain judge by different floors and clocks.                  *)
(***************************************************************************)
THEOREM KeeperNeverFlagsTheBlameless == KeeperSpec => []BlamelessNeverFlagged
  <1>1. KeeperInv => BlamelessNeverFlagged
    BY DEF KeeperInv, BlamelessInv, NothingAgainst, BlamelessNeverFlagged
  <1>2. QED
    BY <1>1, KeeperInductive, PTL

-----------------------------------------------------------------------------
(* What is not marked outdated is true: on the chain, in the mempool and in *)
(* the hands of both attestors.                                             *)

True(u, facts, outdated) == ~outdated => facts = attested(issuer[u])

KeeperTrue == ToAttest => True(keeper.user, attested(keeper.raw), keeper.outdated)
OtherTrue ==
  other.pc = "fetched" => True(other.user, attested(other.raw), other.outdated)
TransactionTrue(tx) ==
  tx.kind = "submitAttestation" => True(tx.user, tx.facts, tx.outdated)
MempoolTrue == \A i \in 1..Len(mempool) : TransactionTrue(mempool[i])

TruthInv == FactsAreTheirs /\ KeeperTrue /\ OtherTrue /\ MempoolTrue

\* A poll that is about to attest has just fetched, or asked for the nonce.
LEMMA AttestsWhatItFetched ==
  ASSUME KeeperInv, KeeperSteps, ~FetchFacts, ~getNextNonce
  PROVE  ~ToAttest'
  <1>1. /\ keeper \in Cycle /\ keeper.todo \in Seq(Borrowers) /\ keeper.user \in Borrowers
        /\ hostAhead \in Int
    BY Premises DEF Cycle
  <1>2. PollOf(keeper.todo).pc \in {"asleep", "fetch"}
    BY <1>1, PollOfType
  <1>3. ASSUME NEW tx, NEW pc \in {"attestSent", "actSent"}, Sends(tx, pc)
        PROVE  ~ToAttest'
    BY <1>3, AsleepType DEF Sends, Ends, ToAttest, Cycle
  <1>4. CASE Wake
    <2>1. discoverBorrowers \in Seq(Borrowers)
      BY DiscoveryFacts DEF discoverBorrowers, KeeperInv, KeeperTypeOK
    <2>2. QED
      BY <1>4, <2>1, PollOfType DEF Wake, ToAttest
  <1>5. CASE SignAndSubmit
    BY <1>3, <1>5, AsleepType DEF SignAndSubmit, Ends, ToAttest
  <1>6. CASE Receipt
    BY <1>1, <1>2, <1>6 DEF Receipt, NextBorrower, ToAttest, Cycle
  <1>7. CASE getGuardianPosition \/ ReadHealth
    BY <1>1, <1>7 DEF getGuardianPosition, ReadHealth, ToAttest, Cycle
  <1>8. CASE Decide
    <2>1. CASE Decision = "nothing"
      BY <1>2, <1>8, <2>1 DEF Decide, NextBorrower, ToAttest
    <2>2. CASE Decision = "completeUnwind"
      BY <1>1, <1>8, <2>2 DEF Decide, ToAttest, Cycle
    <2>3. CASE Decision \notin {"nothing", "completeUnwind"}
      BY <1>3, <1>8, <2>3 DEF Decide
    <2>4. QED
      BY <2>1, <2>2, <2>3
  <1>9. CASE currentDebt
    BY <1>1, <1>2, <1>9 DEF currentDebt, NextBorrower, ToAttest, Cycle
  <1>10. CASE Complete
    BY <1>3, <1>10 DEF Complete
  <1>11. QED
    BY <1>4, <1>5, <1>6, <1>7, <1>8, <1>9, <1>10 DEF KeeperSteps

\* What the keeper adds to the mempool is what it holds, or no attestation.
LEMMA SendsTheTruth ==
  ASSUME KeeperInv, TruthInv, KeeperSteps
  PROVE  \/ mempool' = mempool
         \/ \E tx \in Transaction : mempool' = Append(mempool, tx) /\ TransactionTrue(tx)
  <1>1. keeper \in Cycle /\ keeper.user \in Borrowers /\ hostAhead \in Int
    BY Premises DEF Cycle
  <1>2. ASSUME NEW kind \in Kinds, kind # "submitAttestation"
        PROVE  /\ Action(kind, keeper.user) \in Transaction
               /\ TransactionTrue(Action(kind, keeper.user))
    BY <1>1, <1>2, ActionType DEF TransactionTrue
  <1>3. CASE SignAndSubmit
    <2> DEFINE tx == Attestation(keeper, keeper.next)
    <2>1. /\ ToAttest /\ keeper.next \in BOOLEAN /\ keeper.outdated \in BOOLEAN
          /\ keeper.raw \in RawFacts
      BY <1>1, <1>3 DEF SignAndSubmit, ToAttest, Cycle, KeeperInv, KeeperTypeOK
    <2>2. /\ tx \in Transaction /\ tx.user = keeper.user
          /\ tx.facts = attested(keeper.raw) /\ tx.outdated = keeper.outdated
      BY <1>1, <2>1, AttestationType
    <2>3. True(keeper.user, attested(keeper.raw), keeper.outdated)
      BY <2>1 DEF TruthInv, KeeperTrue
    <2>4. TransactionTrue(tx)
      BY <2>2, <2>3, Zenon DEF TransactionTrue
    <2>5. mempool' = mempool \/ mempool' = Append(mempool, tx)
      BY <1>3 DEF SignAndSubmit, Sends
    <2> HIDE DEF tx
    <2>6. QED
      BY <2>2, <2>4, <2>5
  <1>4. CASE Decide
    <2>1. Decision \in {"nothing", "flag", "reinstate", "startUnwind", "completeUnwind"}
      BY Premises DEF Decision, Cycle, Case
    <2>2. CASE Decision \in {"nothing", "completeUnwind"}
      BY <1>4, <2>2 DEF Decide
    <2>3. CASE Decision \in {"flag", "reinstate", "startUnwind"}
      <3>1. mempool' = mempool \/ mempool' = Append(mempool, Action(Decision, keeper.user))
        BY <1>4, <2>3 DEF Decide, Sends
      <3>2. Decision \in Kinds /\ Decision # "submitAttestation"
        BY <2>3 DEF Kinds
      <3>3. QED
        BY <1>2, <3>1, <3>2
    <2>4. QED
      BY <2>1, <2>2, <2>3
  <1>5. CASE Complete
    <2>1. \/ mempool' = mempool
          \/ mempool' = Append(mempool, Action("completeUnwind", keeper.user))
      BY <1>5 DEF Complete, Sends
    <2>2. "completeUnwind" \in Kinds
      BY DEF Kinds
    <2>3. QED
      BY <1>2, <2>1, <2>2
  <1>6. QED
    BY <1>3, <1>4, <1>5 DEF KeeperSteps, Wake, FetchFacts, getNextNonce, Receipt,
       getGuardianPosition, ReadHealth, currentDebt

LEMMA KeeperStepsTrue ==
  ASSUME KeeperInv, TruthInv, KeeperSteps \/ CycleFails
  PROVE  TruthInv'
  <1>1. UNCHANGED <<issuer, registry, other>>
    BY DEF KeeperSteps, CycleFails, Wake, FetchFacts, getNextNonce, SignAndSubmit, Receipt,
       getGuardianPosition, ReadHealth, Decide, currentDebt, Complete, Sends, chainVars
  <1>2. FactsAreTheirs' /\ OtherTrue'
    BY <1>1 DEF TruthInv, FactsAreTheirs, OtherTrue, True
  <1>3. MempoolTrue'
    <2>1. CASE mempool' = mempool
      BY <1>1, <2>1 DEF TruthInv, MempoolTrue, TransactionTrue, True
    <2>2. ASSUME NEW tx \in Transaction, mempool' = Append(mempool, tx), TransactionTrue(tx)
          PROVE  MempoolTrue'
      <3>1. /\ Len(mempool') = Len(mempool) + 1
            /\ \A i \in 1..Len(mempool') :
                  \/ i \in 1..Len(mempool) /\ mempool'[i] = mempool[i]
                  \/ mempool'[i] = tx
        BY <2>2, Premises
      <3>2. \A i \in 1..Len(mempool') : TransactionTrue(mempool'[i])
        BY <2>2, <3>1, Zenon DEF TruthInv, MempoolTrue
      <3>3. QED
        BY <1>1, <3>2 DEF MempoolTrue, TransactionTrue, True
    <2>3. CASE CycleFails
      BY <2>1, <2>3 DEF CycleFails
    <2>4. CASE KeeperSteps
      BY <2>1, <2>2, <2>4, SendsTheTruth
    <2>5. QED
      BY <2>3, <2>4
  <1>4. KeeperTrue'
    <2>1. CASE FetchFacts
      <3>1. keeper'.user = keeper.user /\ keeper'.raw = issuer[keeper.user]
        BY <2>1, Premises DEF FetchFacts, Cycle
      <3>2. QED
        BY <1>1, <3>1 DEF KeeperTrue, True
    <2>2. CASE getNextNonce
      <3>1. /\ keeper'.user = keeper.user /\ keeper'.raw = keeper.raw
            /\ keeper'.outdated = keeper.outdated /\ ToAttest
        BY <2>2, Premises DEF getNextNonce, Cycle, ToAttest
      <3>2. QED
        BY <1>1, <3>1 DEF TruthInv, KeeperTrue, True
    <2>3. CASE KeeperSteps /\ ~FetchFacts /\ ~getNextNonce
      BY <2>3, AttestsWhatItFetched DEF KeeperTrue
    <2>4. CASE CycleFails
      BY <2>4, AsleepType DEF CycleFails, Ends, KeeperTrue, ToAttest
    <2>5. QED
      BY <2>1, <2>2, <2>3, <2>4
  <1>5. QED
    BY <1>2, <1>3, <1>4 DEF TruthInv

\* What a transaction that lands leaves on the chain
LEMMA TakenTrue ==
  ASSUME KeeperInv, TruthInv, NEW tx \in Transaction, TransactionTrue(tx), Takes(tx),
         UNCHANGED issuer
  PROVE  FactsAreTheirs'
  <1>1. registry \in [Borrowers -> Entry] /\ tx.user \in Borrowers /\ tx.kind \in Kinds
    BY Premises DEF Transaction
  <1>2. CASE tx.kind = "submitAttestation"
    <2> DEFINE entry == [facts |-> tx.facts, age |-> tx.age, outdated |-> tx.outdated]
    <2>1. registry' = [registry EXCEPT ![tx.user] = entry]
      BY <1>2 DEF Takes
    <2>2. entry.facts = tx.facts /\ entry.outdated = tx.outdated
      OBVIOUS
    <2> HIDE DEF entry
    <2>3. True(tx.user, tx.facts, tx.outdated)
      BY <1>2 DEF TransactionTrue
    <2>4. \A u \in Borrowers : registry'[u] = IF u = tx.user THEN entry ELSE registry[u]
      BY <1>1, <2>1
    <2>5. QED
      BY <2>2, <2>3, <2>4 DEF TruthInv, FactsAreTheirs, True
  <1>3. CASE tx.kind # "submitAttestation"
    <2>1. UNCHANGED registry
      BY <1>1, <1>3 DEF Takes, Kinds
    <2>2. QED
      BY <2>1 DEF TruthInv, FactsAreTheirs
  <1>4. QED
    BY <1>2, <1>3

\* A nonce that is used up makes nothing in hand or in the mempool less true.
LEMMA UsedTrue ==
  ASSUME KeeperInv, TruthInv, UNCHANGED issuer, NEW tx, keeper' = Used(tx, keeper)
  PROVE  KeeperTrue'
  <1>1. /\ keeper'.pc = keeper.pc /\ keeper'.user = keeper.user /\ keeper'.raw = keeper.raw
        /\ keeper'.outdated = keeper.outdated
    BY Premises, UsedCycle
  <1>2. QED
    BY <1>1 DEF TruthInv, KeeperTrue, ToAttest, True

LEMMA MempoolUsedTrue ==
  ASSUME KeeperInv, TruthInv, UNCHANGED issuer, NEW tx,
         NEW n \in Nat, NEW skip \in Nat, n + skip = Len(mempool),
         mempool' = [i \in 1..n |-> Used(tx, mempool[i + skip])]
  PROVE  MempoolTrue'
  <1>1. \A i \in 1..n : i + skip \in 1..Len(mempool)
    BY Premises
  <1>2. \A i \in 1..n : /\ mempool'[i].kind = mempool[i + skip].kind
                        /\ mempool'[i].user = mempool[i + skip].user
                        /\ mempool'[i].facts = mempool[i + skip].facts
                        /\ mempool'[i].outdated = mempool[i + skip].outdated
    BY <1>1, Premises, UsedTransaction
  <1>3. Len(mempool') = n
    BY SequenceOf
  <1>4. \A i \in 1..n : TransactionTrue(mempool[i + skip])
    BY <1>1 DEF TruthInv, MempoolTrue
  <1>5. QED
    BY <1>2, <1>3, <1>4 DEF MempoolTrue, TransactionTrue, True

LEMMA MinedTrue ==
  ASSUME KeeperInv, TruthInv, Mined
  PROVE  TruthInv'
  <1> DEFINE tx == Head(mempool)
  <1>1. mempool # <<>> /\ UNCHANGED <<issuer, other>>
    BY DEF Mined
  <1>2. OtherTrue'
    BY <1>1 DEF TruthInv, OtherTrue, True
  <1>3. tx \in Transaction /\ 1 \in 1..Len(mempool) /\ tx = mempool[1]
    BY <1>1, Premises
  <1>4. CASE Passes(tx)
    <2>1. /\ Takes(tx) /\ keeper' = Used(tx, keeper)
          /\ mempool' = [i \in 1..Len(mempool) - 1 |-> Used(tx, mempool[i + 1])]
      BY <1>4 DEF Mined
    <2>2. TransactionTrue(tx)
      BY <1>3 DEF TruthInv, MempoolTrue
    <2> HIDE DEF tx
    <2>3. FactsAreTheirs'
      BY <1>1, <1>3, <2>1, <2>2, TakenTrue
    <2>4. KeeperTrue'
      BY <1>1, <2>1, UsedTrue
    <2>5. Len(mempool) - 1 \in Nat /\ (Len(mempool) - 1) + 1 = Len(mempool) /\ 1 \in Nat
      BY <1>3, Premises
    <2>6. MempoolTrue'
      BY <1>1, <2>1, <2>5, MempoolUsedTrue, Zenon
    <2>7. QED
      BY <1>2, <2>3, <2>4, <2>6 DEF TruthInv
  <1>5. CASE ~Passes(tx)
    <2>1. mempool' = Tail(mempool) /\ UNCHANGED <<registry, keeper>>
      BY <1>5 DEF Mined
    <2>2. \A i \in 1..Len(mempool') :
            i + 1 \in 1..Len(mempool) /\ mempool'[i] = mempool[i + 1]
      BY <1>1, <2>1, Premises
    <2>3. \A i \in 1..Len(mempool') : TransactionTrue(mempool'[i])
      BY <2>2, Zenon DEF TruthInv, MempoolTrue
    <2>4. MempoolTrue'
      BY <1>1, <2>3 DEF MempoolTrue, TransactionTrue, True
    <2>5. QED
      BY <1>1, <1>2, <2>1, <2>4 DEF TruthInv, FactsAreTheirs, KeeperTrue, ToAttest, True
  <1>6. QED
    BY <1>4, <1>5

LEMMA OtherSubmitsTrue ==
  ASSUME KeeperInv, TruthInv, OtherSubmits
  PROVE  TruthInv'
  <1> DEFINE tx == Attestation(other, TRUE)
  <1>1. other.pc = "fetched" /\ other' = Idle /\ UNCHANGED issuer
    BY DEF OtherSubmits
  <1>2. OtherTrue'
    BY <1>1, IdleType DEF OtherTrue
  <1>3. /\ other.user \in Borrowers /\ other.raw \in RawFacts /\ other.outdated \in BOOLEAN
    BY <1>1, Premises DEF KeeperInv, KeeperTypeOK, Hand
  <1>4. /\ tx \in Transaction /\ tx.user = other.user
        /\ tx.facts = attested(other.raw) /\ tx.outdated = other.outdated
    BY <1>3, Premises, AttestationType
  <1>5. True(other.user, attested(other.raw), other.outdated)
    BY <1>1 DEF TruthInv, OtherTrue
  <1>6. TransactionTrue(tx)
    BY <1>4, <1>5, Zenon DEF TransactionTrue
  <1>7. CASE signable(other.raw) /\ Passes(tx)
    <2>1. /\ Takes(tx) /\ keeper' = Used(tx, keeper)
          /\ mempool' = [i \in DOMAIN mempool |-> Used(tx, mempool[i])]
      BY <1>7 DEF OtherSubmits
    <2> HIDE DEF tx
    <2>2. FactsAreTheirs' /\ KeeperTrue'
      BY <1>1, <1>4, <1>6, <2>1, TakenTrue, UsedTrue
    <2>3. mempool' = [i \in 1..Len(mempool) |-> Used(tx, mempool[i + 0])]
      BY <2>1, Premises
    <2>4. Len(mempool) \in Nat /\ Len(mempool) + 0 = Len(mempool) /\ 0 \in Nat
      BY Premises
    <2>5. MempoolTrue'
      BY <1>1, <2>3, <2>4, MempoolUsedTrue, Zenon
    <2>6. QED
      BY <1>2, <2>2, <2>5 DEF TruthInv
  <1>8. CASE ~(signable(other.raw) /\ Passes(tx))
    <2>1. UNCHANGED <<registry, mempool, keeper>>
      BY <1>8 DEF OtherSubmits
    <2>2. QED
      BY <1>1, <1>2, <2>1 DEF TruthInv, FactsAreTheirs, KeeperTrue, MempoolTrue,
         TransactionTrue, ToAttest, True
  <1>9. QED
    BY <1>7, <1>8

\* The issuer's change reaches every place that held what it said before.
LEMMA IssuerChangesTrue ==
  ASSUME KeeperInv, TruthInv, NEW v \in Borrowers, NEW raw \in RawFacts, IssuerChanges(v, raw)
  PROVE  TruthInv'
  <1>1. \A u \in Borrowers : u # v => issuer'[u] = issuer[u]
    BY Premises DEF IssuerChanges
  <1>2. FactsAreTheirs'
    <2>1. registry' = [registry EXCEPT ![v].outdated = TRUE]
      BY DEF IssuerChanges
    <2>2. registry'[v].outdated = TRUE
      BY <2>1, Premises DEF Entry
    <2>3. \A u \in Borrowers : u # v => registry'[u] = registry[u]
      BY <2>1, Premises
    <2>4. QED
      BY <1>1, <2>2, <2>3 DEF TruthInv, FactsAreTheirs
  <1>3. KeeperTrue'
    <2>1. CASE keeper.user = v /\ ToAttest
      <3>1. keeper' = [keeper EXCEPT !.outdated = TRUE]
        BY <2>1 DEF IssuerChanges, ToAttest
      <3>2. keeper'.outdated = TRUE
        BY <3>1, Premises DEF Cycle
      <3>3. QED
        BY <3>2 DEF KeeperTrue, True
    <2>2. CASE ~(keeper.user = v /\ ToAttest)
      <3>1. keeper' = keeper /\ keeper.user \in Borrowers
        BY <2>2, Premises DEF IssuerChanges, ToAttest, Cycle
      <3>2. ToAttest' => ToAttest /\ keeper.user # v
        BY <2>2, <3>1 DEF ToAttest
      <3>3. QED
        BY <1>1, <3>1, <3>2 DEF TruthInv, KeeperTrue, True
    <2>3. QED
      BY <2>1, <2>2
  <1>4. OtherTrue'
    <2>1. CASE other.user = v /\ other.pc # "idle"
      <3>1. other' = [other EXCEPT !.outdated = TRUE]
        BY <2>1 DEF IssuerChanges
      <3>2. other'.outdated = TRUE
        BY <3>1, Premises DEF Hand
      <3>3. QED
        BY <3>2 DEF OtherTrue, True
    <2>2. CASE ~(other.user = v /\ other.pc # "idle")
      <3>1. other' = other /\ other.user \in Borrowers
        BY <2>2, Premises DEF IssuerChanges, Hand
      <3>2. QED
        BY <1>1, <2>2, <3>1 DEF TruthInv, OtherTrue, True
    <2>3. QED
      BY <2>1, <2>2
  <1>5. MempoolTrue'
    <2> DEFINE Rewritten(tx) == IF tx.user = v /\ tx.kind = "submitAttestation"
                                THEN [tx EXCEPT !.outdated = TRUE] ELSE tx
    <2>1. mempool' = [i \in 1..Len(mempool) |-> Rewritten(mempool[i])]
      BY Premises DEF IssuerChanges
    <2>2. Len(mempool') = Len(mempool)
      BY <2>1, Premises, SequenceOf
    <2>3. ASSUME NEW i \in 1..Len(mempool)
          PROVE  TransactionTrue(mempool[i])
                 /\ mempool'[i] = Rewritten(mempool[i]) /\ mempool[i] \in Transaction
      BY <2>1, Premises DEF TruthInv, MempoolTrue
    <2>4. ASSUME NEW tx \in Transaction, TransactionTrue(tx),
                 NEW later, later = Rewritten(tx), later.kind = "submitAttestation",
                 ~later.outdated
          PROVE  later.facts = attested(issuer'[later.user])
      <3>1. CASE tx.user = v /\ tx.kind = "submitAttestation"
        <4>1. later.outdated = TRUE
          BY <2>4, <3>1 DEF Transaction
        <4>2. QED
          BY <2>4, <4>1
      <3>2. CASE ~(tx.user = v /\ tx.kind = "submitAttestation")
        <4>1. later = tx /\ tx.user \in Borrowers
          BY <2>4, <3>2 DEF Transaction
        <4>2. QED
          BY <1>1, <2>4, <3>2, <4>1 DEF TransactionTrue, True
      <3>3. QED
        BY <3>1, <3>2
    <2> HIDE DEF Rewritten
    <2>5. QED
      BY <2>2, <2>3, <2>4 DEF MempoolTrue, TransactionTrue, True
  <1>6. QED
    BY <1>2, <1>3, <1>4, <1>5 DEF TruthInv

LEMMA TickTrue ==
  ASSUME KeeperInv, TruthInv, Tick
  PROVE  TruthInv'
  <1>1. UNCHANGED <<issuer, keeper, other>>
    BY DEF Tick
  <1>2. \A u \in Borrowers : /\ registry'[u].facts = registry[u].facts
                             /\ registry'[u].outdated = registry[u].outdated
    <2>1. \A u \in Borrowers : registry'[u] = [registry[u] EXCEPT !.age = Older(@)]
      BY DEF Tick
    <2>2. QED
      BY <2>1, Premises DEF Entry
  <1>3. MempoolTrue'
    <2> DEFINE Rewritten(tx) == IF tx.kind = "submitAttestation"
                                THEN [tx EXCEPT !.age = Older(@)] ELSE tx
    <2>1. mempool' = [i \in 1..Len(mempool) |-> Rewritten(mempool[i])]
      BY Premises DEF Tick
    <2>2. Len(mempool') = Len(mempool)
      BY <2>1, Premises, SequenceOf
    <2>3. ASSUME NEW tx \in Transaction
          PROVE  /\ Rewritten(tx).kind = tx.kind /\ Rewritten(tx).user = tx.user
                 /\ Rewritten(tx).facts = tx.facts /\ Rewritten(tx).outdated = tx.outdated
      BY DEF Transaction
    <2>4. ASSUME NEW i \in 1..Len(mempool)
          PROVE  TransactionTrue(mempool[i])
                 /\ mempool'[i] = Rewritten(mempool[i]) /\ mempool[i] \in Transaction
      BY <2>1, Premises DEF TruthInv, MempoolTrue
    <2> HIDE DEF Rewritten
    <2>5. QED
      BY <1>1, <2>2, <2>3, <2>4 DEF MempoolTrue, TransactionTrue, True
  <1>4. QED
    BY <1>1, <1>2, <1>3
       DEF TruthInv, FactsAreTheirs, KeeperTrue, OtherTrue, ToAttest, True

LEMMA CalledTrue ==
  ASSUME KeeperInv, TruthInv, NEW kind \in Kinds, kind # "submitAttestation",
         NEW u \in Borrowers, AnyoneCalls(kind, u)
  PROVE  TruthInv'
  <1>1. /\ Takes(Action(kind, u)) /\ UNCHANGED <<issuer, keeper, mempool, other>>
    BY DEF AnyoneCalls
  <1>2. Action(kind, u) \in Transaction /\ TransactionTrue(Action(kind, u))
    BY ActionType DEF TransactionTrue
  <1>3. FactsAreTheirs'
    BY <1>1, <1>2, TakenTrue
  <1>4. QED
    BY <1>1, <1>3 DEF TruthInv, KeeperTrue, OtherTrue, MempoolTrue, TransactionTrue,
       ToAttest, True

LEMMA OtherFetchesTrue ==
  ASSUME KeeperInv, TruthInv, NEW v \in Borrowers, OtherFetches(v)
  PROVE  TruthInv'
  <1>1. other'.raw = issuer[v] /\ other'.user = v
    BY IdleType DEF OtherFetches, Hand
  <1>2. UNCHANGED <<issuer, registry, keeper, mempool>>
    BY DEF OtherFetches, chainVars
  <1>3. QED
    BY <1>1, <1>2 DEF TruthInv, FactsAreTheirs, KeeperTrue, OtherTrue, MempoolTrue,
       TransactionTrue, ToAttest, True

LEMMA TruthAtFirst ==
  ASSUME KeeperInit
  PROVE  TruthInv
  <1>1. /\ \A u \in Borrowers : registry[u].outdated = TRUE
        /\ keeper = Asleep /\ other = Idle /\ mempool = <<>>
    BY DEF KeeperInit
  <1>2. FactsAreTheirs /\ KeeperTrue /\ OtherTrue
    BY <1>1, AsleepType, IdleType DEF FactsAreTheirs, KeeperTrue, OtherTrue, ToAttest
  <1>3. MempoolTrue
    BY <1>1 DEF MempoolTrue
  <1>4. QED
    BY <1>2, <1>3 DEF TruthInv

LEMMA TruthInvStep ==
  ASSUME KeeperInv, TruthInv, [KeeperNext]_vars
  PROVE  TruthInv'
  <1>1. CASE UNCHANGED <<issuer, registry, keeper, mempool, other>>
    BY <1>1 DEF TruthInv, FactsAreTheirs, KeeperTrue, OtherTrue, MempoolTrue,
       TransactionTrue, ToAttest, True
  <1>2. CASE UNCHANGED vars
    BY <1>1, <1>2 DEF vars, chainVars
  <1>3. CASE Joins \/ \E u \in Borrowers : Borrows(u) \/ Repays(u) \/ Liquidated(u)
    BY <1>1, <1>3 DEF Joins, Borrows, Repays, Liquidated, LoanChanges
  <1>4. CASE KeeperSteps \/ CycleFails \/ Mined \/ Tick \/ OtherSubmits
    BY <1>4, KeeperStepsTrue, MinedTrue, TickTrue, OtherSubmitsTrue
  <1>5. ASSUME NEW u \in Borrowers,
               \/ \E raw \in RawFacts : IssuerChanges(u, raw)
               \/ \E kind \in {"flag", "reinstate", "startUnwind", "completeUnwind"} :
                    AnyoneCalls(kind, u)
               \/ OtherFetches(u)
        PROVE  TruthInv'
    BY <1>5, IssuerChangesTrue, CalledTrue, OtherFetchesTrue DEF Kinds
  <1>6. QED
    BY <1>2, <1>3, <1>4, <1>5 DEF KeeperNext

(***************************************************************************)
(* What the chain holds of a borrower and is not marked outdated is what   *)
(* the issuer answers now, through lost cycles, two attestors with one key *)
(* and messages mined late: so the facts FactsConverge brings about are    *)
(* the issuer's.                                                           *)
(***************************************************************************)
THEOREM KeeperFactsAreTheirs == KeeperSpec => []FactsAreTheirs
  <1>1. KeeperInit => TruthInv
    BY TruthAtFirst
  <1>2. KeeperInv /\ TruthInv /\ [KeeperNext]_vars => TruthInv'
    BY TruthInvStep
  <1>3. TruthInv => FactsAreTheirs
    BY DEF TruthInv
  <1>4. QED
    BY <1>1, <1>2, <1>3, KeeperInductive, PTL DEF KeeperSpec

-----------------------------------------------------------------------------
(* Nobody is judged by anything but true facts, or outdated ones            *)

\* A step that changes neither u's state nor raises its debt judges nobody.
LEMMA NothingJudged ==
  ASSUME NEW u, cases'[u].state = cases[u].state, loans'[u].debt \in Nat,
         loans[u].debt \in Nat, loans'[u].debt <= loans[u].debt
  PROVE  JudgedByTheirFacts(u)
  BY DEF JudgedByTheirFacts

LEMMA TakenJudged ==
  ASSUME KeeperInv, FactsAreTheirs, NEW tx \in Transaction, Passes(tx), Takes(tx),
         NEW u \in Borrowers, ~registry[u].outdated
  PROVE  JudgedByTheirFacts(u)
  <1>1. /\ registry \in [Borrowers -> Entry] /\ cases \in [Borrowers -> Case]
        /\ loans \in [Borrowers -> Position] /\ loans[u] \in Position
        /\ loans[u].debt \in Nat /\ tx.user \in Borrowers /\ tx.kind \in Kinds
    BY Premises DEF Transaction, Position
  <1>2. registry[u].facts = attested(issuer[u])
    BY DEF FactsAreTheirs
  <1>3. CASE tx.kind = "submitAttestation" \/ tx.user # u
    <2>1. cases'[u] = cases[u] /\ loans'[u] = loans[u]
      BY <1>1, <1>3 DEF Takes, Kinds
    <2>2. QED
      BY <1>1, <2>1, NothingJudged
  <1>4. CASE tx.kind = "flag" /\ tx.user = u
    <2>1. ~isCompliant(u) \/ ~isPoolHealthy(u)
      BY <1>4 DEF Passes
    <2>2. ~policyCompliant(attested(issuer[u])) \/ ~Healthy(loans[u], attested(issuer[u]))
      BY <1>2, <2>1 DEF isCompliant, isPoolHealthy
    <2>3. cases'[u].state = "FLAGGED" /\ loans' = loans
      BY <1>1, <1>4 DEF Takes
    <2>4. QED
      BY <1>1, <2>2, <2>3 DEF JudgedByTheirFacts
  <1>5. CASE tx.kind = "reinstate" /\ tx.user = u
    <2>1. isCompliant(u) /\ isPoolHealthy(u)
      BY <1>5 DEF Passes
    <2>2. policyCompliant(attested(issuer[u])) /\ Healthy(loans[u], attested(issuer[u]))
      BY <1>2, <2>1 DEF isCompliant, isPoolHealthy
    <2>3. cases'[u].state = "HEALTHY" /\ loans' = loans
      BY <1>1, <1>5 DEF Takes, NoCase
    <2>4. QED
      BY <1>1, <2>2, <2>3 DEF JudgedByTheirFacts
  <1>6. CASE tx.kind = "startUnwind" /\ tx.user = u
    <2>1. loans'[u] = SelfCured(loans[u]) /\ cases'[u].state \in {"RESOLVED", "UNWINDING"}
      BY <1>1, <1>6 DEF Takes
    <2>2. SelfCured(loans[u]).debt \in Nat /\ SelfCured(loans[u]).debt <= loans[u].debt
      BY <1>1 DEF SelfCured, Position
    <2>3. QED
      BY <1>1, <2>1, <2>2 DEF JudgedByTheirFacts
  <1>7. CASE tx.kind = "completeUnwind" /\ tx.user = u
    <2>1. cases'[u].state = "RESOLVED" /\ loans' = loans
      BY <1>1, <1>7 DEF Takes, Case
    <2>2. QED
      BY <1>1, <2>1 DEF JudgedByTheirFacts
  <1>8. QED
    BY <1>1, <1>3, <1>4, <1>5, <1>6, <1>7 DEF Kinds

LEMMA LentJudged ==
  ASSUME KeeperInv, FactsAreTheirs, NEW v \in Borrowers,
         Borrows(v) \/ Repays(v) \/ Liquidated(v),
         NEW u \in Borrowers, ~registry[u].outdated
  PROVE  JudgedByTheirFacts(u)
  <1>1. loans \in [Borrowers -> Position] /\ loans[u] \in Position /\ loans[u].debt \in Nat
    BY Premises DEF Position
  <1>2. UNCHANGED cases
    BY DEF Borrows, Repays, Liquidated, LoanChanges
  <1>3. CASE Borrows(v) /\ u = v
    <2> DEFINE loan == [collateral |-> 1, debt |-> Loan]
    <2>1. isCompliant(u) /\ Healthy(loan, registry[u].facts) /\ loans'[u] = loan
      BY <1>1, <1>3 DEF Borrows, LoanChanges
    <2>2. registry[u].facts = attested(issuer[u])
      BY DEF FactsAreTheirs
    <2> HIDE DEF loan
    <2>3. policyCompliant(attested(issuer[u])) /\ Healthy(loan, attested(issuer[u]))
      BY <2>1, <2>2 DEF isCompliant
    <2>4. QED
      BY <1>2, <2>1, <2>3 DEF JudgedByTheirFacts
  <1>4. CASE Borrows(v) /\ u # v
    <2>1. loans'[u] = loans[u]
      BY <1>1, <1>4 DEF Borrows, LoanChanges
    <2>2. QED
      BY <1>1, <1>2, <2>1, NothingJudged
  <1>5. CASE Repays(v) \/ Liquidated(v)
    <2>1. loans'[u] = loans[u] \/ loans'[u].debt = 0
      BY <1>1, <1>5 DEF Repays, Liquidated, LoanChanges, Position
    <2>2. QED
      BY <1>1, <1>2, <2>1, NothingJudged
  <1>6. QED
    BY <1>3, <1>4, <1>5

LEMMA StepJudged ==
  ASSUME KeeperInv, TruthInv, [KeeperNext]_vars, NEW u \in Borrowers, ~registry[u].outdated
  PROVE  JudgedByTheirFacts(u)
  <1>1. loans[u] \in Position /\ loans[u].debt \in Nat /\ FactsAreTheirs
    BY Premises DEF Position, TruthInv
  <1>2. CASE UNCHANGED <<cases, loans>>
    BY <1>1, <1>2, NothingJudged
  <1>3. CASE UNCHANGED vars \/ KeeperSteps \/ CycleFails
    BY <1>2, <1>3 DEF vars, chainVars, KeeperSteps, CycleFails, Wake, FetchFacts, getNextNonce,
       SignAndSubmit, Receipt, getGuardianPosition, ReadHealth, Decide, currentDebt, Complete,
       Sends
  <1>4. CASE Mined
    <2>1. CASE Passes(Head(mempool))
      <3>1. Head(mempool) \in Transaction /\ Takes(Head(mempool))
        BY <1>4, <2>1, Premises DEF Mined
      <3>2. QED
        BY <1>1, <2>1, <3>1, TakenJudged
    <2>2. CASE ~Passes(Head(mempool))
      BY <1>2, <1>4, <2>2 DEF Mined
    <2>3. QED
      BY <2>1, <2>2
  <1>5. CASE OtherSubmits
    <2>1. Takes(Attestation(other, TRUE)) \/ UNCHANGED <<cases, loans>>
      BY <1>5 DEF OtherSubmits
    <2>2. Attestation(other, TRUE).kind = "submitAttestation"
      BY DEF Attestation
    <2>3. UNCHANGED <<cases, loans>>
      BY <2>1, <2>2 DEF Takes
    <2>4. QED
      BY <1>2, <2>3
  <1>6. CASE Tick
    <2>1. cases'[u].state = cases[u].state /\ loans' = loans
      BY <1>6, Premises DEF Tick, Case
    <2>2. QED
      BY <1>1, <2>1, NothingJudged
  <1>7. CASE Joins
    <2>1. loans'[u].debt = loans[u].debt /\ cases' = cases
      BY <1>7, Premises DEF Joins, Position
    <2>2. QED
      BY <1>1, <2>1, NothingJudged
  <1>8. ASSUME NEW v \in Borrowers, NEW kind \in Kinds, AnyoneCalls(kind, v)
        PROVE  JudgedByTheirFacts(u)
    BY <1>1, <1>8, ActionType, TakenJudged DEF AnyoneCalls
  <1>9. ASSUME NEW v \in Borrowers, (\E raw \in RawFacts : IssuerChanges(v, raw)) \/ OtherFetches(v)
        PROVE  JudgedByTheirFacts(u)
    BY <1>2, <1>9 DEF IssuerChanges, OtherFetches, chainVars
  <1>10. ASSUME NEW v \in Borrowers, Borrows(v) \/ Repays(v) \/ Liquidated(v)
         PROVE  JudgedByTheirFacts(u)
    BY <1>1, <1>10, LentJudged
  <1>11. QED
    BY <1>3, <1>4, <1>5, <1>6, <1>7, <1>8, <1>9, <1>10 DEF KeeperNext, Kinds

(***************************************************************************)
(* While the chain's facts of a borrower are not outdated, nobody flags,   *)
(* reinstates or lends to it but as its A-Pass of today deserves: keeper,  *)
(* rival callers of the guardian and the pool alike.                       *)
(***************************************************************************)
THEOREM KeeperJudgesByTheIssuer == KeeperSpec => JudgedByTheIssuer
  <1>1. KeeperInit => TruthInv
    BY TruthAtFirst
  <1>2. KeeperInv /\ TruthInv /\ [KeeperNext]_vars => TruthInv'
    BY TruthInvStep
  <1>3. KeeperInv /\ TruthInv /\ [KeeperNext]_vars =>
          [\A u \in Borrowers : ~registry[u].outdated => JudgedByTheirFacts(u)]_vars
    BY StepJudged
  <1>4. QED
    BY <1>1, <1>2, <1>3, KeeperInductive, PTL DEF KeeperSpec, JudgedByTheIssuer

-----------------------------------------------------------------------------
(* The two readers of one answer *)

LEMMA KeeperReading ==
  ASSUME NEW raw \in RawApassFactFields
  PROVE  LET tier == parseApiTier(raw.tier)
         IN /\ tier \in Nat \cup {Missing}
            /\ keeperCompliant(raw) <=>
                 /\ raw.status = 1 /\ raw.expirationTime \notin {"past", "zero"}
                 /\ tier # Missing /\ tier >= PoolMinTier
  <1> DEFINE tier == parseApiTier(raw.tier)
  <1>1. tier \in Nat \cup {Missing}
    BY DEF parseApiTier, RawApassFactFields, Missing, NotANumber
  <1>2. raw.status \in {0, 1, 2} /\ PoolMinTier \in Nat
    BY FloorsAreTiers DEF RawApassFactFields
  <1> HIDE DEF tier
  <1>3. determineEligibility(raw.status, raw.expirationTime, tier) = "NONE" <=>
          /\ raw.status = 1 /\ raw.expirationTime \notin {"past", "zero"}
          /\ tier # Missing /\ tier >= PoolMinTier
    BY <1>1, <1>2 DEF determineEligibility, Missing
  <1>4. keeperCompliant(raw) <=>
          determineEligibility(raw.status, raw.expirationTime, tier) = "NONE"
    BY DEF keeperCompliant, classifyFromRawFields, tier
  <1>5. QED
    BY <1>1, <1>3, <1>4 DEF tier

LEMMA ChainReading ==
  ASSUME NEW raw \in RawApassFactFields
  PROVE  policyCompliant(attested(raw)) <=>
           /\ raw.status = 1 /\ raw.expirationTime # "past"
           /\ isTierEligible(orZero(parseApiTier(raw.tier)), orZero(raw.subTier))
           /\ attested(raw).country \notin Blocked
  <1>1. raw.status \in {0, 1, 2}
    BY DEF RawApassFactFields
  <1>2. attested(raw).apassStatus = "ACTIVE" <=> raw.status = 1
    BY <1>1 DEF attested
  <1>3. /\ attested(raw).lapsed <=> raw.expirationTime = "past"
        /\ attested(raw).tier = orZero(parseApiTier(raw.tier))
        /\ attested(raw).subTier = orZero(raw.subTier)
    BY DEF attested
  <1>4. QED
    BY <1>2, <1>3 DEF policyCompliant

(***************************************************************************)
(* Where the keeper's rules and the chain's part, for every answer of the  *)
(* issuer and any floors.  The keeper clears whom the chain refuses only   *)
(* below the policy's own floor - by its tier, or at that tier by the      *)
(* sub-tier, which the keeper never looks at - or in a country the policy  *)
(* blocks, of which classify.ts knows nothing.  The chain clears whom the  *)
(* keeper refuses only on an expiry of 0, on no tier at all under a policy *)
(* with no floor, or below the keeper's own floor.  These, and a country   *)
(* that cannot be signed, are all the answers the liveness of the keeper   *)
(* needs to rule out.                                                      *)
(***************************************************************************)
THEOREM KeeperAndChainPart ==
  ASSUME NEW raw \in RawApassFactFields
  PROVE  LET tier    == parseApiTier(raw.tier)
             subTier == orZero(raw.subTier)
             refused == attested(raw).country \in Blocked
         IN /\ keeperCompliant(raw) /\ ~policyCompliant(attested(raw)) <=>
                 /\ raw.status = 1 /\ raw.expirationTime \in {"null", "ahead"}
                 /\ tier # Missing /\ tier >= PoolMinTier
                 /\ \/ tier < PolicyMinTier
                    \/ tier = PolicyMinTier /\ subTier < PolicyMinSubTier
                    \/ refused
            /\ policyCompliant(attested(raw)) /\ ~keeperCompliant(raw) <=>
                 /\ raw.status = 1 /\ raw.expirationTime # "past" /\ ~refused
                 /\ \/ orZero(tier) > PolicyMinTier
                    \/ orZero(tier) = PolicyMinTier /\ subTier >= PolicyMinSubTier
                 /\ \/ raw.expirationTime = "zero"
                    \/ tier = Missing
                    \/ tier < PoolMinTier
  <1> DEFINE tier == parseApiTier(raw.tier)
             subTier == orZero(raw.subTier)
             refused == attested(raw).country \in Blocked
             keeps == keeperCompliant(raw)
             clears == policyCompliant(attested(raw))
  <1>1. /\ tier \in Nat \cup {Missing}
        /\ keeps <=> /\ raw.status = 1 /\ raw.expirationTime \notin {"past", "zero"}
                     /\ tier # Missing /\ tier >= PoolMinTier
    BY KeeperReading
  <1>2. clears <=> /\ raw.status = 1 /\ raw.expirationTime # "past"
                   /\ isTierEligible(orZero(tier), subTier) /\ ~refused
    BY ChainReading
  <1>3. /\ raw.expirationTime \in {"null", "zero", "past", "ahead"}
        /\ subTier \in Nat
        /\ PoolMinTier \in Nat /\ PolicyMinTier \in Nat /\ PolicyMinSubTier \in Nat
    BY FloorsAreTiers DEF RawApassFactFields, orZero, Missing
  <1> HIDE DEF tier, subTier, refused, keeps, clears
  <1>4. orZero(tier) \in Nat /\ (tier # Missing => orZero(tier) = tier)
    BY <1>1 DEF orZero
  <1>5. isTierEligible(orZero(tier), subTier) <=>
          ~(\/ orZero(tier) < PolicyMinTier
            \/ orZero(tier) = PolicyMinTier /\ subTier < PolicyMinSubTier)
    BY <1>3, <1>4 DEF isTierEligible
  <1>6. keeps /\ ~clears <=>
          /\ raw.status = 1 /\ raw.expirationTime \in {"null", "ahead"}
          /\ tier # Missing /\ tier >= PoolMinTier
          /\ \/ tier < PolicyMinTier
             \/ tier = PolicyMinTier /\ subTier < PolicyMinSubTier
             \/ refused
    BY <1>1, <1>2, <1>3, <1>4, <1>5
  <1>7. clears /\ ~keeps <=>
          /\ raw.status = 1 /\ raw.expirationTime # "past" /\ ~refused
          /\ \/ orZero(tier) > PolicyMinTier
             \/ orZero(tier) = PolicyMinTier /\ subTier >= PolicyMinSubTier
          /\ \/ raw.expirationTime = "zero"
             \/ tier = Missing
             \/ tier < PoolMinTier
    BY <1>1, <1>2, <1>3 DEF isTierEligible
  <1>8. QED
    BY <1>6, <1>7 DEF tier, subTier, refused, keeps, clears
=============================================================================
