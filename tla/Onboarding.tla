------------------------------ MODULE Onboarding ------------------------------
(***************************************************************************)
(* The three public endpoints (provision, fund, fund-gas) and the calls    *)
(* each makes: an A-Pass at the issuer, an attestation, gas and rtUSD from *)
(* a key they share.  A request is a sequence of awaits with no undo; it   *)
(* may be cut off at any of them, and another may run beside it, here or   *)
(* on another instance.                                                    *)
(*                                                                         *)
(* Nonces are kept relative to what the chain takes next, so that requests *)
(* may go on for ever: 0 is the next transaction of a sender, and an       *)
(* attestation's 1 is the registry's last nonce plus one, its 0 a nonce    *)
(* the registry has passed.                                                *)
(***************************************************************************)
EXTENDS Integers, FiniteSets

CONSTANTS
  Users,
  Slots,       \* requests under way at once
  NoSlot,
  MaxPending,  \* bound: transactions of one sender a request may queue behind
  MaxOrphans   \* bound: transactions of requests cut off still pending

ASSUME OnboardingConstants == NoSlot \notin Slots /\ MaxPending \in Nat \ {0} /\ MaxOrphans \in Nat

VARIABLES
  apass,      \* users the issuer holds an A-Pass for
  attested,   \* user -> the registry has had an attestation
  gas,        \* user -> holds GAS_TOP_UP_THRESHOLD
  minted,     \* user -> has been funded with rtUSD
  mempool,    \* transactions sent and not mined
  requests,   \* slot -> the request it serves
  calm        \* from here on nothing goes wrong and requests come one by one

onboardingVars == <<apass, attested, gas, minted, mempool, requests, calm>>

Idle == [at |-> "idle"]
Serving(q) == requests[q].at # "idle"

-----------------------------------------------------------------------------
(* The chain and its node *)

Sender(route, kind) ==
  CASE kind = "attest" -> "attestor"
    [] route = "fund-gas" -> "faucet"
    [] OTHER -> "deployer"

PendingNonce(from) ==
  CHOOSE n \in 0..MaxPending + 1 :
    /\ \A t \in mempool : t.from = from => t.nonce # n
    /\ \A m \in 0..(n - 1) : \E t \in mempool : t.from = from /\ t.nonce = m

Down(n, floor) == IF n > floor THEN n - 1 ELSE floor

\* What a request knows of its own, once transaction t is mined: it has the
\* receipt of whatever took its nonce, its own transaction or another's.
Sees(q, r, t, lands) ==
  IF r.at = "idle" THEN r
  ELSE LET mine == {k \in DOMAIN r.sent : Sender(r.route, k) = t.from}
       IN [r EXCEPT
            !.attestation = IF lands /\ t.kind = "attest" /\ r.user = t.user THEN Down(@, 0) ELSE @,
            !.nonce = IF r.at = "send" /\ Sender(r.route, r.kind) = t.from THEN Down(@, -1) ELSE @,
            !.sent = [k \in DOMAIN @ |-> IF k \in mine THEN Down(@[k], -1) ELSE @[k]],
            !.done = IF t.slot = q /\ lands THEN @ \union {t.kind} ELSE @,
            !.contested = @ \/ (t.slot # q /\ \E k \in mine : r.sent[k] = 0)]

Lands(t) ==
  LET lands == t.kind = "attest" => t.attestation = 1
  IN /\ t.nonce = 0
     /\ attested' = [attested EXCEPT ![t.user] = @ \/ (t.kind = "attest" /\ lands)]
     /\ gas' = [gas EXCEPT ![t.user] = @ \/ t.kind = "gas"]
     /\ minted' = [minted EXCEPT ![t.user] = @ \/ t.kind = "mint"]
     /\ mempool' =
          {[o EXCEPT
              !.nonce = IF o.from = t.from THEN @ - 1 ELSE @,
              !.attestation = IF lands /\ t.kind = "attest" /\ o.user = t.user
                              THEN Down(@, 0) ELSE @] : o \in mempool \ {t}}
     /\ requests' = [q \in Slots |-> Sees(q, requests[q], t, lands)]
     /\ UNCHANGED apass

-----------------------------------------------------------------------------
(* The steps of a request, each up to its next await *)

Turns(q, r) == requests' = [requests EXCEPT ![q] = r]
Goes(q, at) == Turns(q, [requests[q] EXCEPT !.at = at])
Forget(q) == {IF t.slot = q THEN [t EXCEPT !.slot = NoSlot] ELSE t : t \in mempool}
Fails(q) == Turns(q, Idle) /\ mempool' = Forget(q) /\ UNCHANGED <<attested, gas, minted>>

\* Mutant: an error of the issuer ends the request, a duplicate among them
GenerateApassStrict(q) ==
  /\ requests[q].at = "generate"
  /\ IF requests[q].user \in apass
     THEN Fails(q) /\ UNCHANGED apass
     ELSE /\ apass' = apass \union {requests[q].user}
          /\ Goes(q, "query")
          /\ UNCHANGED <<attested, gas, minted, mempool>>
\* The issuer makes an A-Pass, or says there is one: either goes on
GenerateApass(q) ==
  /\ requests[q].at = "generate"
  /\ apass' = apass \union {requests[q].user}
  /\ Goes(q, "query")
  /\ UNCHANGED <<attested, gas, minted, mempool>>

\* The mutation is not retried: it may be done and its answer lost.  Another
\* error of the issuer's goes on like a duplicate.
GenerateApassLost(q) ==
  /\ requests[q].at = "generate"
  /\ \/ apass' = apass \union {requests[q].user} /\ Fails(q)
     \/ Goes(q, "query") /\ UNCHANGED <<apass, attested, gas, minted, mempool>>

\* An A-Pass that is there but not active ends the request: see CutOff
QueryApass(q) ==
  /\ requests[q].at = "query"
  /\ IF requests[q].user \in apass
     THEN Goes(q, "nextNonce") /\ UNCHANGED <<attested, gas, minted, mempool>>
     ELSE Fails(q)
  /\ UNCHANGED apass

\* getNextNonce, and the facts signed with it
NextNonce(q) ==
  /\ requests[q].at = "nextNonce"
  /\ Turns(q, [requests[q] EXCEPT !.attestation = 1, !.kind = "attest", !.at = "prepare"])
  /\ UNCHANGED <<apass, attested, gas, minted, mempool>>

\* The sender's pending nonce; the relay also estimates, which a message the
\* registry has passed does not survive.
Prepare(q) ==
  LET r == requests[q]
      from == Sender(r.route, r.kind)
  IN /\ r.at = "prepare"
     /\ IF r.kind = "attest" /\ r.attestation = 0
        THEN Fails(q)
        ELSE /\ PendingNonce(from) < MaxPending
             /\ Turns(q, [r EXCEPT !.nonce = PendingNonce(from), !.at = "send"])
             /\ UNCHANGED <<attested, gas, minted, mempool>>
     /\ UNCHANGED apass

\* Provision sends gas and mint back to back; the others wait in between.
AfterSend(r) ==
  LET s == [r EXCEPT !.sent = [k \in DOMAIN @ \union {r.kind} |-> IF k = r.kind THEN r.nonce ELSE @[k]]]
  IN IF r.route = "provision" /\ r.kind = "gas"
     THEN [s EXCEPT !.kind = "mint", !.nonce = @ + 1]
     ELSE [s EXCEPT !.at = "wait", !.nonce = 0]

\* A nonce passed is refused; one taken is refused as well, or replaces
Send(q) ==
  LET r == requests[q]
      from == Sender(r.route, r.kind)
      rivals == {t \in mempool : t.from = from /\ t.nonce = r.nonce}
      tx == [from |-> from, nonce |-> r.nonce, kind |-> r.kind, user |-> r.user,
             attestation |-> IF r.kind = "attest" THEN r.attestation ELSE 0, slot |-> q]
  IN /\ r.at = "send"
     /\ \/ /\ r.nonce >= 0
           /\ mempool' = (mempool \ rivals) \union {tx}
           /\ Turns(q, AfterSend(r))
           /\ UNCHANGED <<attested, gas, minted>>
        \/ (r.nonce < 0 \/ rivals # {}) /\ Fails(q)
     /\ UNCHANGED apass

\* Mutant: one receipt is enough
ReceiptsOfOne(r) == \E k \in DOMAIN r.sent : r.sent[k] = -1
Receipts(r) == \A k \in DOMAIN r.sent : r.sent[k] = -1

\* waitForTransactionReceipt; what the receipts say is not looked at.
Wait(q) ==
  LET r == requests[q]
  IN /\ r.at = "wait" /\ Receipts(r)
     /\ Turns(q,
          IF r.kind = "attest" THEN [r EXCEPT !.at = "balance", !.sent = <<>>]
          ELSE IF r.kind = "gas" /\ r.route = "fund" THEN [r EXCEPT !.at = "prepare", !.kind = "mint", !.sent = <<>>]
          ELSE [r EXCEPT !.at = "200"])
     /\ UNCHANGED <<apass, attested, gas, minted, mempool>>

\* Is a top-up needed
Balance(q) ==
  LET r == requests[q]
  IN /\ r.at = "balance"
     /\ Turns(q,
          IF ~gas[r.user] THEN [r EXCEPT !.at = "prepare", !.kind = "gas"]
          ELSE IF r.route = "fund-gas" THEN [r EXCEPT !.at = "200"]
          ELSE [r EXCEPT !.at = "prepare", !.kind = "mint"])
     /\ UNCHANGED <<apass, attested, gas, minted, mempool>>

Answer(q) == requests[q].at = "200" /\ Fails(q) /\ UNCHANGED apass

Step(q) ==
  \/ GenerateApass(q) \/ QueryApass(q) \/ NextNonce(q) \/ Prepare(q)
  \/ Send(q) \/ Wait(q) \/ Balance(q) \/ Answer(q)

-----------------------------------------------------------------------------
(* The handlers *)

\* The rate limiter counts per address and per caller, in one instance's memory:
\* it may refuse any request, and let through any that finds another instance.
Admitted(route, user, first) ==
  /\ calm => \A q \in Slots : ~Serving(q)
  /\ \E q \in Slots :
       /\ ~Serving(q)
       /\ Turns(q, [route |-> route, user |-> user, at |-> first, kind |-> "none",
                    attestation |-> 0, nonce |-> 0, sent |-> <<>>, done |-> {},
                    contested |-> FALSE])
  /\ UNCHANGED <<apass, attested, gas, minted, mempool>>

Provision(user) == Admitted("provision", user, "generate")
Fund(user) == Admitted("fund", user, "balance")
FundGas(user) == Admitted("fund-gas", user, "balance")

-----------------------------------------------------------------------------
(* What goes wrong *)

\* An await rejects, the A-Pass is frozen, a funder is too poor, or maxDuration is up
CutOff(q) ==
  /\ Serving(q) /\ Cardinality({t \in mempool : t.slot = NoSlot}) < MaxOrphans
  /\ Fails(q)
  /\ UNCHANGED apass

\* The node forgets a transaction
Dropped(t) ==
  /\ mempool' = mempool \ {t}
  /\ UNCHANGED <<apass, attested, gas, minted, requests>>

Trouble ==
  \/ \E q \in Slots : CutOff(q) \/ GenerateApassLost(q)
  \/ \E t \in mempool : Dropped(t)
Calms ==
  /\ ~calm /\ \A q \in Slots : ~Serving(q)
  /\ calm' = TRUE
  /\ UNCHANGED <<apass, attested, gas, minted, mempool, requests>>

OnboardingInit ==
  /\ apass = {}
  /\ attested = [u \in Users |-> FALSE]
  /\ gas = [u \in Users |-> FALSE]
  /\ minted = [u \in Users |-> FALSE]
  /\ mempool = {}
  /\ requests = [q \in Slots |-> Idle]
  /\ calm = FALSE

Serve ==
  \/ \E u \in Users : Provision(u) \/ Fund(u) \/ FundGas(u)
  \/ \E q \in Slots : Step(q)
  \/ \E t \in mempool : Lands(t)
OnboardingNext ==
  \/ Serve /\ UNCHANGED calm
  \/ ~calm /\ Trouble /\ UNCHANGED calm
  \/ Calms

(***************************************************************************)
(* A user asks again, and is admitted again; a request that is not cut off *)
(* goes on; the chain mines what it can.                                   *)
(***************************************************************************)
OnboardingFairness ==
  /\ \A u \in Users : SF_onboardingVars(Provision(u) /\ UNCHANGED calm)
  /\ \A q \in Slots : WF_onboardingVars(Step(q) /\ UNCHANGED calm)
  /\ WF_onboardingVars(\E t \in mempool : Lands(t) /\ UNCHANGED calm)

-----------------------------------------------------------------------------

(***************************************************************************)
(* A 200 tells of what is on chain: the registry has the attestation or a  *)
(* newer one, and the rtUSD was minted for this very request - unless one  *)
(* of its transactions lost its nonce to another request's, whose receipt  *)
(* it was then given.                                                      *)
(***************************************************************************)
SuccessIsReal ==
  \A q \in Slots :
    LET r == requests[q]
    IN r.at = "200" /\ ~r.contested =>
         /\ r.route = "provision" => "attest" \in r.done \/ (attested[r.user] /\ r.attestation = 0)
         /\ r.route # "fund-gas" => "mint" \in r.done
         /\ r.route = "fund-gas" => "gas" \in r.done \/ r.kind = "none"

(***************************************************************************)
(* Nothing a failed attempt leaves behind stands in the way of the next:   *)
(* wherever earlier requests were cut off, whatever the issuer or the node *)
(* lost, once nothing more goes wrong and one request runs at a time, a    *)
(* user who asks again is attested and funded.                             *)
(***************************************************************************)
RetryGetsThrough ==
  OnboardingFairness =>
    \A u \in Users : []<>calm => []<>(attested[u] /\ minted[u])
=============================================================================
