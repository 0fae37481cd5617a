------------------------------ MODULE DappProofs ------------------------------
(***************************************************************************)
(* What the clients never do, for any number of blocks, wallets, users,    *)
(* requests and deployments: theorems of the behaviours of Dapp.           *)
(***************************************************************************)
EXTENDS Dapp, TLAPS, SequenceTheorems, NaturalsInduction, FiniteSetTheorems

-----------------------------------------------------------------------------
(* The positions page *)

Events == [borrower : Borrowers, event : {"CollateralPosted", "CollateralWithdrawn"}]

\* A checkpoint that has every address up to its block but for the posts the
\* nodes did not have, which are none of the seed's.
Complete(cp) ==
  \E n \in 0..HeadBlock : \E missed \in SUBSET ((SeedTo + 1)..n) : cp = CheckpointOf(n, missed)
Resumed(cp) == Complete(cp) /\ cp.scannedTo >= SeedTo

\* A chunk that is being read starts at a complete checkpoint and ends in blocks
\* mined; a page that was left reads nothing.
ScanInv ==
  /\ log \in Seq(Events) /\ SeedTo \in 0..HeadBlock
  /\ ScanMounted => Resumed(checkpoint)
  /\ storage # Nothing => Complete(storage)
  /\ leftBehind # Nothing =>
       Resumed(leftBehind.from) /\ leftBehind.to \in leftBehind.from.scannedTo..HeadBlock
  /\ scan.at = "logs" => scan.to \in checkpoint.scannedTo..HeadBlock
  /\ ~ScanMounted => reads = [loop |-> Nothing, interval |-> Nothing]

LEMMA CompleteIsNoGap ==
  ASSUME NEW cp, Complete(cp)
  PROVE  cp.scannedTo \in 0..HeadBlock /\ cp.addresses = Discovered(ScannedOf(cp))
  BY DEF Complete, CheckpointOf, ScannedOf

\* One block more changes nothing about those before it.
LEMMA DiscoveredStays ==
  ASSUME log \in Seq(Events), NEW e \in Events, log' = Append(log, e),
         NEW blocks \in SUBSET (1..HeadBlock)
  PROVE  Discovered(blocks)' = Discovered(blocks)
  <1>1. HeadBlock \in Nat /\ HeadBlock' = HeadBlock + 1
    BY DEF HeadBlock
  <1>2. \A i \in 1..HeadBlock : log'[i] = log[i]
    BY DEF HeadBlock
  <1>3. \A i \in blocks : log'[i] = log[i] /\ i \in DOMAIN log /\ i \in DOMAIN log'
    BY <1>1, <1>2 DEF HeadBlock
  <1>4. Posts(blocks)' = {i \in blocks \intersect DOMAIN log' : log'[i].event = "CollateralPosted"}
    BY DEF Posts
  <1>5. Posts(blocks)' = Posts(blocks)
    BY <1>3, <1>4 DEF Posts
  <1>6. Discovered(blocks)' = {log'[n].borrower : n \in Posts(blocks)}
    BY <1>5 DEF Discovered
  <1>7. \A n \in Posts(blocks) : log'[n] = log[n]
    BY <1>3 DEF Posts
  <1>8. QED
    BY <1>6, <1>7 DEF Discovered

LEMMA CompleteStays ==
  ASSUME log \in Seq(Events), NEW e \in Events, log' = Append(log, e),
         NEW cp, Complete(cp)
  PROVE  Complete(cp)' /\ HeadBlock' = HeadBlock + 1 /\ HeadBlock \in Nat
  <1>1. PICK n, missed :
       /\ n \in 0..HeadBlock /\ missed \in SUBSET ((SeedTo + 1)..n)
       /\ cp = CheckpointOf(n, missed)
    BY DEF Complete
  <1>2. HeadBlock \in Nat /\ HeadBlock' = HeadBlock + 1
    BY DEF HeadBlock
  <1>3. Discovered((1..n) \ missed)' = Discovered((1..n) \ missed)
    <2>1. (1..n) \ missed \in SUBSET (1..HeadBlock)
      BY <1>1, <1>2
    <2>2. QED
      BY <2>1, DiscoveredStays
  <1>4. cp' = cp => cp' = CheckpointOf(n, missed)'
    BY <1>1, <1>3 DEF CheckpointOf
  <1>5. n \in 0..HeadBlock'
    BY <1>1, <1>2
  <1>6. QED
    BY <1>1, <1>2, <1>3, <1>5 DEF Complete, CheckpointOf, SeedTo

\* What is stored after a chunk has every address up to the chunk's end but for
\* what was missed: the blocks that the node has are those up to `served'.
LEMMA AdvancedComplete ==
  ASSUME log \in Seq(Events), SeedTo \in Nat, NEW cp, Resumed(cp),
         NEW to \in cp.scannedTo..HeadBlock, NEW served \in ServedUpTo(to)
  PROVE  Resumed(Advanced(cp, to, served))
  <1>1. PICK n, missed :
       /\ n \in 0..HeadBlock /\ missed \in SUBSET ((SeedTo + 1)..n)
       /\ cp = CheckpointOf(n, missed)
    BY DEF Resumed, Complete
  <1>2. /\ HeadBlock \in Nat /\ to \in n..HeadBlock /\ n >= SeedTo
        /\ cp.scannedTo = n /\ cp.addresses = Discovered((1..n) \ missed) /\ cp.missed = missed
    BY <1>1 DEF CheckpointOf, HeadBlock, Resumed
  <1>3. served \in 0..to
    BY DEF ServedUpTo
  <1> DEFINE more == missed \union {i \in Posts((n + 1)..to) : i > served}
  <1>4. more \in SUBSET ((SeedTo + 1)..to)
    BY <1>1, <1>2 DEF Posts
  <1>5. Posts((1..n) \ missed) \union Posts((n + 1)..served) = Posts((1..to) \ more)
    <2>1. ASSUME NEW i \in DOMAIN log, log[i].event = "CollateralPosted"
          PROVE  i \in (1..to) \ more <=> i \in (1..n) \ missed \/ i \in (n + 1)..served
      <3>1. i \in Posts((n + 1)..to) <=> i \in (n + 1)..to
        BY <2>1 DEF Posts
      <3>2. i \in more <=> i \in missed \/ (i \in (n + 1)..to /\ i > served)
        BY <3>1
      <3>3. i \in missed => i \in (SeedTo + 1)..n
        BY <1>1
      <3>4. i \in Int /\ n \in Nat /\ to \in Nat /\ n <= to /\ served \in Nat /\ served <= to /\ SeedTo \in Nat
        BY <1>1, <1>2, <1>3, <2>1
      <3>5. i >= 1
        BY <2>1
      <3> HIDE DEF more
      <3>6. QED
        BY <3>2, <3>3, <3>4, <3>5
    <2> HIDE DEF more
    <2>2. QED
      BY <2>1 DEF Posts
  <1>6. Discovered((1..n) \ missed) \union Discovered((n + 1)..served) = Discovered((1..to) \ more)
    <2> HIDE DEF more
    <2>1. QED
      BY <1>5 DEF Discovered
  <1>7. Advanced(cp, to, served) = CheckpointOf(to, more)
    BY <1>2, <1>6 DEF Advanced, CheckpointOf
  <1>8. CheckpointOf(to, more).scannedTo = to
    BY DEF CheckpointOf
  <1> HIDE DEF more
  <1>9. to \in 0..HeadBlock /\ to >= SeedTo
    BY <1>1, <1>2
  <1>10. QED
    BY <1>4, <1>7, <1>8, <1>9 DEF Resumed, Complete

LEMMA LoadedComplete ==
  ASSUME ScanInv
  PROVE  Resumed(loadCheckpoint)
  <1>1. Resumed(Seed) /\ Seed.scannedTo = SeedTo
    <2>1. Seed = CheckpointOf(SeedTo, {})
      BY DEF Seed, CheckpointOf
    <2>2. {} \in SUBSET ((SeedTo + 1)..SeedTo) /\ SeedTo \in 0..HeadBlock /\ SeedTo >= SeedTo
      BY DEF ScanInv, HeadBlock
    <2>3. Seed.scannedTo = SeedTo
      BY DEF Seed
    <2>4. QED
      BY <2>1, <2>2, <2>3 DEF Resumed, Complete
  <1>2. CASE storage = Nothing \/ storage.scannedTo < Seed.scannedTo
    BY <1>1, <1>2 DEF loadCheckpoint
  <1>3. CASE ~(storage = Nothing \/ storage.scannedTo < Seed.scannedTo)
    <2>1. PICK n, missed :
         /\ n \in 0..HeadBlock /\ missed \in SUBSET ((SeedTo + 1)..n)
         /\ storage = CheckpointOf(n, missed)
      BY <1>3 DEF ScanInv, Complete
    <2>2. storage.scannedTo = n /\ storage.addresses = Discovered((1..n) \ missed)
      BY <2>1 DEF CheckpointOf
    <2>3. HeadBlock \in Nat /\ SeedTo \in 0..n
      BY <1>1, <1>3, <2>1, <2>2 DEF ScanInv, HeadBlock
    <2>4. 1..SeedTo \subseteq (1..n) \ missed
      BY <2>1, <2>3
    <2>5. Seed.addresses \subseteq storage.addresses
      BY <2>2, <2>4 DEF Seed, Discovered, Posts
    <2>6. loadCheckpoint = [storage EXCEPT !.addresses = @ \union Seed.addresses]
      BY <1>3 DEF loadCheckpoint
    <2>7. storage.addresses \union Seed.addresses = storage.addresses
      BY <2>5
    <2>8. [storage EXCEPT !.addresses = @ \union Seed.addresses] = storage
      BY <2>1, <2>7 DEF CheckpointOf
    <2>9. n >= SeedTo
      BY <2>1, <2>3
    <2>10. QED
      BY <2>1, <2>2, <2>6, <2>8, <2>9 DEF Resumed, Complete
  <1>4. QED
    BY <1>2, <1>3

LEMMA MineKeepsScan ==
  ASSUME ScanInv, Mine, UNCHANGED scanVars
  PROVE  ScanInv'
  <1>1. PICK e \in Events : log' = Append(log, e)
    BY DEF Mine, CollateralPosted, CollateralWithdrawn, Events
  <1>2. log \in Seq(Events) /\ log' \in Seq(Events) /\ HeadBlock \in Nat /\ HeadBlock' = HeadBlock + 1
    BY <1>1 DEF ScanInv, HeadBlock
  <1>3. \A cp : Complete(cp) => Complete(cp)'
    BY <1>1, <1>2, CompleteStays
  <1>4. UNCHANGED <<storage, checkpoint, scan, leftBehind, reads>>
    BY DEF scanVars
  <1>5. \A cp : Resumed(cp) => Resumed(cp)'
    BY <1>3 DEF Resumed, SeedTo
  <1>6. QED
    BY <1>2, <1>3, <1>4, <1>5 DEF ScanInv, ScanMounted, SeedTo

LEMMA ScanStep ==
  ASSUME ScanInv, ScanNext, UNCHANGED chainVars
  PROVE  ScanInv'
  <1>1. /\ log' = log /\ HeadBlock' = HeadBlock /\ HeadBlock \in Nat
        /\ \A cp : Complete(cp) <=> Complete(cp)'
        /\ \A cp : Resumed(cp) <=> Resumed(cp)'
    BY DEF chainVars, ScanInv, HeadBlock, Resumed, Complete, CheckpointOf, Discovered, Posts, SeedTo
  <1>0. \A cp : Resumed(cp) => Complete(cp)
    BY DEF Resumed
  <1>2. CASE Visit
    BY <1>1, <1>2, LoadedComplete DEF Visit, ScanInv, ScanMounted
  <1>3. CASE Leave
    BY <1>1, <1>3 DEF Leave, ScanInv, ScanMounted, Unmounted
  <1>4. ASSUME NEW head \in HeadsSeen, HeadRead(head)
        PROVE  ScanInv'
    <2>1. UNCHANGED <<storage, checkpoint, leftBehind>> /\ scan.at = "head" /\ scan'.at # "unmounted"
      BY <1>4 DEF HeadRead, ChunkAsked
    <2>2. Resumed(checkpoint) /\ checkpoint.scannedTo \in 0..HeadBlock
      BY <1>0, <2>1, CompleteIsNoGap DEF ScanInv, ScanMounted
    <2>3. head \in 0..HeadBlock
      BY <1>1 DEF HeadsSeen, ServedUpTo
    <2>4. scan'.at = "logs" => scan'.to \in checkpoint.scannedTo..HeadBlock
      BY <1>1, <1>4, <2>2, <2>3, ScanConstants DEF HeadRead, ChunkAsked, ChunkEnd, Earlier
    <2>5. QED
      BY <1>1, <2>1, <2>2, <2>4 DEF ScanInv, ScanMounted
  <1>5. ASSUME NEW served \in ServedUpTo(scan.to), ChunkRead(served)
        PROVE  ScanInv'
    <2>1. scan.at = "logs" /\ Resumed(checkpoint) /\ scan.to \in checkpoint.scannedTo..HeadBlock
      BY <1>5 DEF ChunkRead, ScanInv, ScanMounted
    <2>2. SeedTo \in Nat /\ log \in Seq(Events)
      BY <1>1 DEF ScanInv
    <2>3. Resumed(Advanced(checkpoint, scan.to, served))
      BY <2>1, <2>2, AdvancedComplete
    <2>4. QED
      BY <1>0, <1>1, <1>5, <2>3 DEF ChunkRead, ScanInv, ScanMounted, saveCheckpoint
  <1>6. CASE LeftBehindLands
    <2>1. PICK served \in ServedUpTo(leftBehind.to) :
            storage' \in {storage, Advanced(leftBehind.from, leftBehind.to, served)}
      BY <1>6 DEF LeftBehindLands, saveCheckpoint
    <2>2. SeedTo \in Nat /\ log \in Seq(Events)
      BY <1>1 DEF ScanInv
    <2>3. Resumed(leftBehind.from) /\ leftBehind.to \in leftBehind.from.scannedTo..HeadBlock
      BY <1>6 DEF LeftBehindLands, ScanInv
    <2>4. Complete(Advanced(leftBehind.from, leftBehind.to, served))
      BY <1>0, <2>2, <2>3, AdvancedComplete
    <2>5. QED
      BY <1>1, <1>6, <2>1, <2>4 DEF LeftBehindLands, ScanInv, ScanMounted
  <1>7. CASE OtherTab
    <2>1. storage' # Nothing =>
            \E n \in 0..HeadBlock : \E missed \in SUBSET Posts((SeedTo + 1)..n) : storage' = CheckpointOf(n, missed)
      BY <1>7 DEF OtherTab
    <2>2. \A n : Posts((SeedTo + 1)..n) \subseteq (SeedTo + 1)..n
      BY DEF Posts
    <2>3. storage' # Nothing => Complete(storage')
      BY <2>1, <2>2 DEF Complete
    <2>4. UNCHANGED <<checkpoint, scan, reads, leftBehind>>
      BY <1>7 DEF OtherTab
    <2>5. QED
      BY <1>1, <2>3, <2>4 DEF ScanInv, ScanMounted
  <1>8. CASE HeadUnread \/ ChunkFailed \/ Interval \/ Wake
    BY <1>1, <1>8 DEF HeadUnread, ChunkFailed, Interval, Wake, ScanInv, ScanMounted
  <1>9. ASSUME NEW kind \in {"loop", "interval"}, Refreshed(kind) \/ NotRefreshed(kind)
        PROVE  ScanInv'
    <2>1. /\ UNCHANGED <<storage, checkpoint, leftBehind>>
          /\ ScanMounted
          /\ scan' = scan \/ scan' = [at |-> "pause", to |-> 0]
      BY <1>9 DEF Refreshed, NotRefreshed, ReadEnds, ScanInv
    <2>2. QED
      BY <1>1, <2>1 DEF ScanInv, ScanMounted
  <1>10. QED
    BY <1>2, <1>3, <1>4, <1>5, <1>6, <1>7, <1>8, <1>9 DEF ScanNext, ScanPage

\* Only its own view moves a client.
LEMMA ScanInvStep ==
  ASSUME ScanInv, [DappNext]_dappVars
  PROVE  ScanInv'
  <1>1. CASE UNCHANGED <<chainVars, scanVars>>
    <2>1. /\ log' = log /\ HeadBlock' = HeadBlock
          /\ \A cp : Complete(cp) <=> Complete(cp)'
          /\ \A cp : Resumed(cp) <=> Resumed(cp)'
      BY <1>1 DEF chainVars, HeadBlock, Resumed, Complete, CheckpointOf, Discovered, Posts
    <2>2. UNCHANGED <<storage, checkpoint, scan, leftBehind, reads>>
      BY <1>1 DEF scanVars
    <2>3. QED
      BY <2>1, <2>2 DEF ScanInv, ScanMounted
  <1>2. CASE PositionsNext
    BY <1>2, MineKeepsScan, ScanStep DEF PositionsNext
  <1>3. CASE RecordNext
    <2>1. UNCHANGED scanVars /\ (Mine \/ UNCHANGED chainVars)
      BY <1>3 DEF RecordNext
    <2>2. QED
      BY <1>1, <2>1, MineKeepsScan
  <1>4. QED
    BY <1>1, <1>2, <1>3 DEF DappNext, StandingNext, LendViewNext, BackendNext, ScriptsNext,
                            DeployNext, dappVars, visitorVars

LEMMA ScanInvInit == DappInit => ScanInv
  <1>1. SUFFICES ASSUME DappInit
                 PROVE  ScanInv
    OBVIOUS
  <1>2. {CollateralPosted(b) : b \in Borrowers} \subseteq Events
    BY DEF Events, CollateralPosted
  <1>3. FirstBlocks \in Seq(Events) /\ Len(FirstBlocks) \in Nat
    BY <1>2, PageChainConstants, SeqMonotonic DEF PageChainConstants
  <1>4. log = FirstBlocks
    BY <1>1 DEF DappInit, ChainInit
  <1>5. /\ storage = Nothing /\ leftBehind = Nothing
        /\ scan.at = "unmounted" /\ reads = [loop |-> Nothing, interval |-> Nothing]
    BY <1>1 DEF DappInit, ScanInit, Unmounted
  <1>6. QED
    BY <1>3, <1>4, <1>5 DEF ScanInv, ScanMounted, SeedTo, HeadBlock

(***************************************************************************)
(* The positions page skips no block of its own doing: checkpoint and      *)
(* storage hold the addresses of every block up to the one they name, but  *)
(* for the posts that the node asked for their logs did not have, for any  *)
(* log, any size of chunk, whatever fails or lands late, and nodes any     *)
(* number of blocks behind.                                                *)
(***************************************************************************)
THEOREM DappScanLeavesNoGap == DappSpec => []ScanLeavesNoGap
  <1>1. DappInit => ScanInv
    BY ScanInvInit
  <1>2. ScanInv /\ [DappNext]_dappVars => ScanInv'
    BY ScanInvStep
  <1>3. ScanInv => ScanLeavesNoGap
    BY CompleteIsNoGap DEF ScanInv, ScanLeavesNoGap, Resumed
  <1>4. QED
    BY <1>1, <1>2, <1>3, PTL DEF DappSpec

-----------------------------------------------------------------------------
(* The lend page *)

\* A poll that may still speak was begun for the wallet and mode on display.
LendInv ==
  /\ ShownIsTheirs
  /\ \A p \in polls : p.effect = "running" => p.key = Key

LEMMA LendStep ==
  ASSUME LendInv, LendNext
  PROVE  LendInv'
  <1>1. ASSUME NEW w \in Wallets \union {NoWallet}, NEW m \in {"borrow", "lend"}, Turn(w, m)
        PROVE  LendInv'
    <2>1. shown' = Loading /\ wallet' = w /\ mode' = m
      BY <1>1 DEF Turn, Shows
    <2>2. \A p \in PollsCancelled : p.effect # "running"
      <3>1. SUFFICES ASSUME NEW p \in polls, [p EXCEPT !.effect = "cancelled"].effect = "running"
                     PROVE  FALSE
        BY DEF PollsCancelled
      <3>2. QED
        BY <3>1
    <2>3. \A p \in polls' : p \in PollsCancelled \/ (w # NoWallet /\ p.key = <<m, w>>)
      BY <1>1 DEF Turn
    <2>4. QED
      BY <2>1, <2>2, <2>3 DEF LendInv, ShownIsTheirs, Key, Loading
  <1>2. CASE Poll
    BY <1>2 DEF Poll, LendInv, ShownIsTheirs, Key
  <1>3. ASSUME NEW p \in polls, PollAnswered(p) \/ PollFailed(p)
        PROVE  LendInv'
    <2>1. UNCHANGED <<wallet, mode>> /\ polls' \subseteq polls
      BY <1>3 DEF PollAnswered, PollFailed, PollEnds
    <2>2. shown' = shown \/ shown' = Failed \/ (p.effect = "running" /\ shown' = Ready(p.key))
      BY <1>3 DEF PollAnswered, PollFailed, PollEnds, Accepted, Shows
    <2>3. Ready(p.key).key = p.key /\ Failed.status # "ready"
      BY DEF Ready, Failed
    <2>4. QED
      BY <2>1, <2>2, <2>3 DEF LendInv, ShownIsTheirs, Key
  <1>4. CASE UNCHANGED <<wallet, mode, shown, polls>>
    BY <1>4 DEF LendInv, ShownIsTheirs, Key
  <1>5. CASE PressOut \/ PressWhim \/ Others
    BY <1>4, <1>5 DEF PressOut, PressWhim, Others, Press
  <1>6. ASSUME NEW t \in txs, Signed(t) \/ Declined(t) \/ Mined(t) \/ TimedOut(t)
        PROVE  LendInv'
    BY <1>4, <1>6 DEF Signed, Declined, Mined, TimedOut, Ends
  <1>7. QED
    BY <1>1, <1>2, <1>3, <1>5, <1>6 DEF LendNext

(***************************************************************************)
(* No answer of a poll that was begun for another wallet, or for the other *)
(* side of the pool, is ever on display, however many polls overlap.       *)
(***************************************************************************)
THEOREM DappShownIsTheirs == DappSpec => []ShownIsTheirs
  <1>1. DappInit => LendInv
    BY DEF DappInit, LendInit, LendInv, ShownIsTheirs, Loading
  <1>2. LendInv /\ [DappNext]_dappVars => LendInv'
    <2>1. LendInv /\ UNCHANGED <<wallet, mode, shown, polls>> => LendInv'
      BY DEF LendInv, ShownIsTheirs, Key
    <2>2. LendInv /\ LendViewNext => LendInv'
      BY LendStep DEF LendViewNext
    <2>3. DappNext => LendViewNext \/ UNCHANGED lendVars
      BY DEF DappNext, PositionsNext, RecordNext, StandingNext, BackendNext, ScriptsNext,
             DeployNext, visitorVars
    <2>4. QED
      BY <2>1, <2>2, <2>3 DEF dappVars, visitorVars, lendVars, pageVars
  <1>3. LendInv => ShownIsTheirs
    BY DEF LendInv
  <1>4. QED
    BY <1>1, <1>2, <1>3, PTL DEF DappSpec

-----------------------------------------------------------------------------
(* The endpoints that let a wallet in *)

Kinds == {"attest", "gas", "mint"}
Routes == {"provision", "fund", "fund-gas"}
Unsent == {"generate", "query", "nextNonce", "prepare", "balance"}
Sents == UNION {[K -> Int] : K \in SUBSET Kinds}
Request ==
  [route : Routes, user : Users, at : Unsent \union {"send", "wait", "200"},
   kind : {"none"} \union Kinds, attestation : {0, 1}, nonce : Int,
   sent : Sents, done : SUBSET Kinds, contested : BOOLEAN]
Transaction ==
  [from : {"attestor", "faucet", "deployer"}, nonce : 0..MaxPending, kind : Kinds, user : Users,
   attestation : {0, 1}, slot : Slots \union {NoSlot}]

\* A transaction of request r had its effect; an attestation may find a newer one.
Took(r, kind, a) == kind \in r.done \/ (kind = "attest" /\ a[r.user] /\ r.attestation = 0)

\* Where a request is and what it has sent
RequestShape(r) ==
  /\ r \in Request
  /\ r.at \in Unsent => DOMAIN r.sent = {}
  /\ r.at \in {"generate", "query", "nextNonce"} => r.route = "provision"
  /\ r.at = "balance" => r.kind = IF r.route = "provision" THEN "attest" ELSE "none"
  /\ r.at \in {"prepare", "send", "wait"} => r.kind # "none"
  /\ r.kind = "attest" => r.route = "provision"
  /\ "attest" \in DOMAIN r.sent => r.kind = "attest"
  /\ r.kind = "mint" => r.route # "fund-gas"
  /\ r.at = "wait" => r.kind \in DOMAIN r.sent /\ (r.kind = "gas" => r.route # "provision")

\* The nonces of what it has sent and is about to send
RequestNonces(r) ==
  /\ \A k \in DOMAIN r.sent : r.sent[k] \in -1..MaxPending
  /\ {"gas", "mint"} \subseteq DOMAIN r.sent =>
       r.sent["gas"] # r.sent["mint"] \/ r.sent["gas"] = -1
  /\ r.at = "send" =>
       /\ r.nonce \in -1..MaxPending
       /\ r.kind # "mint" => r.nonce < MaxPending /\ DOMAIN r.sent = {}
       /\ DOMAIN r.sent \subseteq {"gas"}
       /\ "gas" \in DOMAIN r.sent => r.sent["gas"] < r.nonce \/ r.nonce = -1

\* What an uncontested request may conclude from its receipts
RequestTold(r, a) ==
  /\ r.route = "provision" /\ r.kind # "none" /\ r.attestation = 0 => a[r.user]
  /\ r.contested \/
       /\ \A k \in DOMAIN r.sent : r.sent[k] = -1 => Took(r, k, a)
       /\ r.route = "provision" /\ (r.at \in {"balance", "200"} \/ r.kind \in {"gas", "mint"}) =>
            Took(r, "attest", a)
       /\ r.at = "200" =>
            /\ r.route # "fund-gas" => "mint" \in r.done
            /\ r.route = "fund-gas" => "gas" \in r.done \/ r.kind = "none"

RequestOK(r, a) == RequestShape(r) /\ RequestNonces(r) /\ RequestTold(r, a)

\* One transaction to a nonce of a sender
PoolOK(pool) ==
  /\ pool \subseteq Transaction
  /\ \A s, t \in pool : s.from = t.from /\ s.nonce = t.nonce => s = t

\* Transaction t is what request r knows it sent.
SentBy(t, r) ==
  /\ r \in Request /\ t.kind \in DOMAIN r.sent /\ r.sent[t.kind] = t.nonce
  /\ t.from = Sender(r.route, t.kind) /\ t.user = r.user
  /\ t.kind = "attest" => t.attestation = r.attestation

OnboardingInv ==
  /\ attested \in [Users -> BOOLEAN]
  /\ PoolOK(mempool)
  /\ DOMAIN requests = Slots
  /\ \A q \in Slots : requests[q] = Idle \/ RequestOK(requests[q], attested)
  /\ \A t \in mempool : t.slot \in Slots => SentBy(t, requests[t.slot])

\* Induction over a set of naturals: a non-empty one has a least element.
LEMMA LeastOf ==
  ASSUME NEW T \in SUBSET Nat, T # {}
  PROVE  \E x \in T : \A y \in T : x <= y
  <1> DEFINE R == {ss \in Nat \X Nat : ss[1] < ss[2]}
  <1>1. IsWellFoundedOn(R, Nat)
    BY NatLessThanWellFounded DEF OpToRel
  <1>2. PICK x \in T : \A y \in T : ~(<<y, x>> \in R)
    BY <1>1, WFMin, Zenon
  <1>3. \A y \in T : ~(y < x)
    BY <1>2
  <1>4. QED
    BY <1>2, <1>3

\* The node always has a next nonce to name.
LEMMA PendingNonceExists ==
  ASSUME PoolOK(mempool), NEW from
  PROVE  PendingNonce(from) \in Nat
  <1> DEFINE Free == {n \in 0..MaxPending + 1 : \A t \in mempool : t.from = from => t.nonce # n}
  <1>1. MaxPending \in Nat
    BY OnboardingConstants DEF OnboardingConstants
  <1>2. \A t \in mempool : t.nonce \in 0..MaxPending
    BY DEF PoolOK, Transaction
  <1>3. MaxPending + 1 \in Free /\ Free \subseteq Nat
    BY <1>1, <1>2
  <1>4. PICK n \in Free : \A m \in Free : n <= m
    BY <1>3, LeastOf
  <1>5. \A m \in 0..(n - 1) : \E t \in mempool : t.from = from /\ t.nonce = m
    BY <1>1, <1>4
  <1>6. \E k \in 0..MaxPending + 1 :
          /\ \A t \in mempool : t.from = from => t.nonce # k
          /\ \A m \in 0..(k - 1) : \E t \in mempool : t.from = from /\ t.nonce = m
    BY <1>4, <1>5
  <1>7. PendingNonce(from) \in 0..MaxPending + 1
    BY <1>6 DEF PendingNonce
  <1>8. QED
    BY <1>1, <1>7

\* A request moves on and sends nothing.
LEMMA TurnKeeps ==
  ASSUME OnboardingInv, NEW q \in Slots, NEW r, RequestOK(r, attested), Turns(q, r),
         UNCHANGED <<attested, mempool>>,
         \A t \in mempool : t.slot = q => SentBy(t, r)
  PROVE  OnboardingInv'
  <1>1. /\ DOMAIN requests' = Slots
        /\ requests'[q] = r
        /\ \A p \in Slots : p # q => requests'[p] = requests[p]
    BY DEF Turns, OnboardingInv
  <1>2. \A p \in Slots : requests'[p] = Idle \/ RequestOK(requests'[p], attested)
    BY <1>1 DEF OnboardingInv
  <1>3. \A t \in mempool : t.slot \in Slots => SentBy(t, requests'[t.slot])
    BY <1>1 DEF OnboardingInv
  <1>4. QED
    BY <1>1, <1>2, <1>3 DEF OnboardingInv

\* A request that ends leaves its transactions to nobody.
LEMMA FailKeeps ==
  ASSUME OnboardingInv, NEW q \in Slots, Fails(q)
  PROVE  OnboardingInv'
  <1>1. /\ DOMAIN requests' = Slots /\ attested' = attested
        /\ requests'[q] = Idle
        /\ \A p \in Slots : p # q => requests'[p] = requests[p]
    BY DEF Fails, Turns, OnboardingInv
  <1>2. \A o \in mempool' : \E t \in mempool :
          /\ o = IF t.slot = q THEN [t EXCEPT !.slot = NoSlot] ELSE t
          /\ t \in Transaction
    BY DEF Fails, Forget, OnboardingInv, PoolOK
  <1>3. \A t \in Transaction :
          /\ [t EXCEPT !.slot = NoSlot] \in Transaction
          /\ [t EXCEPT !.slot = NoSlot].from = t.from
          /\ [t EXCEPT !.slot = NoSlot].nonce = t.nonce
          /\ [t EXCEPT !.slot = NoSlot].slot = NoSlot
    BY DEF Transaction
  <1>4. NoSlot \notin Slots
    BY OnboardingConstants DEF OnboardingConstants
  <1>5. mempool' \subseteq Transaction
    BY <1>2, <1>3
  <1>6. ASSUME NEW o \in mempool', NEW p \in mempool', o.from = p.from, o.nonce = p.nonce
        PROVE  o = p
    <2>1. PICK s \in mempool : s \in Transaction /\ o = IF s.slot = q THEN [s EXCEPT !.slot = NoSlot] ELSE s
      BY <1>2
    <2>2. PICK t \in mempool : t \in Transaction /\ p = IF t.slot = q THEN [t EXCEPT !.slot = NoSlot] ELSE t
      BY <1>2
    <2>3. s.from = t.from /\ s.nonce = t.nonce
      BY <1>3, <1>6, <2>1, <2>2
    <2>4. QED
      BY <2>1, <2>2, <2>3 DEF OnboardingInv, PoolOK
  <1>7. \A o \in mempool' : o.slot \in Slots => o \in mempool /\ o.slot # q
    BY <1>2, <1>3, <1>4
  <1>8. \A p \in Slots : requests'[p] = Idle \/ RequestOK(requests'[p], attested)
    BY <1>1 DEF OnboardingInv
  <1>9. \A o \in mempool' : o.slot \in Slots => SentBy(o, requests'[o.slot])
    BY <1>1, <1>7 DEF OnboardingInv
  <1>10. QED
    BY <1>1, <1>5, <1>6, <1>8, <1>9 DEF OnboardingInv, PoolOK

\* At each await before a transaction is sent, and once its receipts are in
LEMMA StepKeeps ==
  ASSUME OnboardingInv, NEW q \in Slots,
         \/ GenerateApass(q) \/ GenerateApassLost(q) \/ QueryApass(q) \/ NextNonce(q) \/ Prepare(q)
         \/ Wait(q) \/ Balance(q)
  PROVE  OnboardingInv'
  <1> DEFINE r == requests[q]
  <1>1. r.at # "idle" => RequestOK(r, attested) /\ r \in Request
    BY DEF OnboardingInv, RequestOK, RequestShape, Idle
  <1>2. MaxPending \in Nat /\ attested \in [Users -> BOOLEAN]
    BY OnboardingConstants DEF OnboardingInv, OnboardingConstants
  <1>3. \A t \in mempool : t.slot = q => SentBy(t, r)
    BY DEF OnboardingInv
  <1>4. r.at # "idle" /\ DOMAIN r.sent = {} => \A t \in mempool : t.slot # q
    BY <1>3 DEF SentBy
  <1>5. CASE Fails(q)
    BY <1>5, FailKeeps
  <1>6. ASSUME r.at = "generate", Goes(q, "query"), UNCHANGED <<attested, mempool>>
        PROVE  OnboardingInv'
    <2> DEFINE s == [r EXCEPT !.at = "query"]
    <2>1. RequestOK(s, attested)
      BY <1>1, <1>6 DEF RequestOK, RequestShape, RequestNonces, RequestTold, Took, Request, Unsent
    <2>2. \A t \in mempool : t.slot # q
      BY <1>1, <1>4, <1>6 DEF RequestOK, RequestShape, Unsent
    <2>3. QED
      BY <1>6, <2>1, <2>2, TurnKeeps DEF Goes
  <1>7. CASE GenerateApass(q) \/ GenerateApassLost(q)
    BY <1>5, <1>6, <1>7 DEF GenerateApass, GenerateApassLost
  <1>8. CASE QueryApass(q)
    <2> DEFINE s == [r EXCEPT !.at = "nextNonce"]
    <2>1. SUFFICES ASSUME r.at = "query", Goes(q, "nextNonce"), UNCHANGED <<attested, mempool>>
                   PROVE  OnboardingInv'
      BY <1>5, <1>8 DEF QueryApass
    <2>2. RequestOK(s, attested)
      BY <1>1, <2>1 DEF RequestOK, RequestShape, RequestNonces, RequestTold, Took, Request, Unsent
    <2>3. \A t \in mempool : t.slot # q
      BY <1>1, <1>4, <2>1 DEF RequestOK, RequestShape, Unsent
    <2>4. QED
      BY <2>1, <2>2, <2>3, TurnKeeps DEF Goes
  <1>9. CASE NextNonce(q)
    <2> DEFINE s == [r EXCEPT !.attestation = 1, !.kind = "attest", !.at = "prepare"]
    <2>1. r.at = "nextNonce" /\ Turns(q, s) /\ UNCHANGED <<attested, mempool>>
      BY <1>9 DEF NextNonce
    <2>2. RequestOK(s, attested)
      <3>1. /\ s \in Request
            /\ s.route = r.route /\ s.user = r.user /\ s.at = "prepare"
            /\ s.kind = "attest" /\ s.attestation = 1 /\ s.nonce = r.nonce
            /\ s.sent = r.sent /\ s.done = r.done /\ s.contested = r.contested
        BY <1>1, <2>1 DEF Request, Kinds, Unsent, Sents
      <3> HIDE DEF s
      <3>2. RequestShape(s)
        BY <3>1, <1>1, <2>1 DEF RequestOK, RequestShape, Unsent, Kinds
      <3>3. RequestNonces(s)
        BY <3>1, <1>1, <2>1 DEF RequestOK, RequestShape, RequestNonces, Unsent
      <3>4. RequestTold(s, attested)
        BY <3>1, <1>1, <2>1 DEF RequestOK, RequestShape, RequestTold, Took, Unsent, Kinds
      <3>5. QED
        BY <3>2, <3>3, <3>4 DEF RequestOK
    <2>3. \A t \in mempool : t.slot # q
      BY <1>1, <1>4, <2>1 DEF RequestOK, RequestShape, Unsent
    <2>4. QED
      BY <2>1, <2>2, <2>3, TurnKeeps
  <1>10. CASE Prepare(q)
    <2> DEFINE nonce == PendingNonce(Sender(r.route, r.kind))
               s == [r EXCEPT !.nonce = nonce, !.at = "send"]
    <2>1. nonce \in Nat
      BY PendingNonceExists DEF OnboardingInv
    <2> HIDE DEF nonce
    <2>2. SUFFICES ASSUME r.at = "prepare", nonce < MaxPending, Turns(q, s), UNCHANGED <<attested, mempool>>
                   PROVE  OnboardingInv'
      BY <1>5, <1>10 DEF Prepare, nonce
    <2>3. RequestOK(s, attested)
      <3>1. /\ s \in Request
            /\ s.route = r.route /\ s.user = r.user /\ s.at = "send"
            /\ s.kind = r.kind /\ s.attestation = r.attestation /\ s.nonce = nonce
            /\ s.sent = r.sent /\ s.done = r.done /\ s.contested = r.contested
        <4>1. nonce \in Int /\ r \in Request
          BY <1>1, <2>1, <2>2
        <4>2. QED
          BY <4>1 DEF Request, Unsent
      <3> HIDE DEF s
      <3>2. RequestShape(s)
        BY <3>1, <1>1, <1>2, <2>1, <2>2 DEF RequestOK, RequestShape, Unsent, Kinds
      <3>3. RequestNonces(s)
        BY <3>1, <1>1, <1>2, <2>1, <2>2 DEF RequestOK, RequestShape, RequestNonces, Unsent
      <3>4. RequestTold(s, attested)
        BY <3>1, <1>1, <1>2, <2>1, <2>2 DEF RequestOK, RequestShape, RequestTold, Took, Unsent, Kinds
      <3>5. QED
        BY <3>2, <3>3, <3>4 DEF RequestOK
    <2>4. \A t \in mempool : t.slot # q
      BY <1>1, <1>4, <2>2 DEF RequestOK, RequestShape, Unsent
    <2>5. QED
      BY <2>2, <2>3, <2>4, TurnKeeps
  <1>11. CASE Balance(q)
    <2> DEFINE t == IF ~gas[r.user] THEN [r EXCEPT !.at = "prepare", !.kind = "gas"]
                    ELSE IF r.route = "fund-gas" THEN [r EXCEPT !.at = "200"]
                    ELSE [r EXCEPT !.at = "prepare", !.kind = "mint"]
    <2>1. r.at = "balance" /\ Turns(q, t) /\ UNCHANGED <<attested, mempool>>
      BY <1>11 DEF Balance
    <2>2. RequestOK([r EXCEPT !.at = "prepare", !.kind = "gas"], attested)
      <3> DEFINE s == [r EXCEPT !.at = "prepare", !.kind = "gas"]
      <3>1. /\ s \in Request
            /\ s.route = r.route /\ s.user = r.user /\ s.at = "prepare"
            /\ s.kind = "gas" /\ s.attestation = r.attestation /\ s.nonce = r.nonce
            /\ s.sent = r.sent /\ s.done = r.done /\ s.contested = r.contested
        BY <1>1, <2>1 DEF Request, Kinds, Unsent
      <3> HIDE DEF s
      <3>2. RequestShape(s)
        BY <3>1, <1>1, <2>1 DEF RequestOK, RequestShape, Unsent, Kinds
      <3>3. RequestNonces(s)
        BY <3>1, <1>1, <2>1 DEF RequestOK, RequestShape, RequestNonces, Unsent
      <3>4. RequestTold(s, attested)
        BY <3>1, <1>1, <2>1 DEF RequestOK, RequestShape, RequestTold, Took, Unsent, Kinds
      <3>5. QED
        BY <3>2, <3>3, <3>4 DEF RequestOK, s
    <2>3. ASSUME r.route = "fund-gas"
          PROVE  RequestOK([r EXCEPT !.at = "200"], attested)
      <3> DEFINE s == [r EXCEPT !.at = "200"]
      <3>1. /\ s \in Request
            /\ s.route = r.route /\ s.user = r.user /\ s.at = "200"
            /\ s.kind = r.kind /\ s.attestation = r.attestation /\ s.nonce = r.nonce
            /\ s.sent = r.sent /\ s.done = r.done /\ s.contested = r.contested
        BY <1>1, <2>1 DEF Request, Kinds, Unsent
      <3> HIDE DEF s
      <3>2. RequestShape(s)
        BY <3>1, <1>1, <2>1, <2>3 DEF RequestOK, RequestShape, Unsent, Kinds
      <3>3. RequestNonces(s)
        BY <3>1, <1>1, <2>1, <2>3 DEF RequestOK, RequestShape, RequestNonces, Unsent
      <3>4. RequestTold(s, attested)
        BY <3>1, <1>1, <2>1, <2>3 DEF RequestOK, RequestShape, RequestTold, Took, Unsent, Kinds
      <3>5. QED
        BY <3>2, <3>3, <3>4 DEF RequestOK, s
    <2>4. ASSUME r.route # "fund-gas"
          PROVE  RequestOK([r EXCEPT !.at = "prepare", !.kind = "mint"], attested)
      <3> DEFINE s == [r EXCEPT !.at = "prepare", !.kind = "mint"]
      <3>1. /\ s \in Request
            /\ s.route = r.route /\ s.user = r.user /\ s.at = "prepare"
            /\ s.kind = "mint" /\ s.attestation = r.attestation /\ s.nonce = r.nonce
            /\ s.sent = r.sent /\ s.done = r.done /\ s.contested = r.contested
        BY <1>1, <2>1 DEF Request, Kinds, Unsent
      <3> HIDE DEF s
      <3>2. RequestShape(s)
        BY <3>1, <1>1, <2>1, <2>4 DEF RequestOK, RequestShape, Unsent, Kinds
      <3>3. RequestNonces(s)
        BY <3>1, <1>1, <2>1, <2>4 DEF RequestOK, RequestShape, RequestNonces, Unsent
      <3>4. RequestTold(s, attested)
        BY <3>1, <1>1, <2>1, <2>4 DEF RequestOK, RequestShape, RequestTold, Took, Unsent, Kinds
      <3>5. QED
        BY <3>2, <3>3, <3>4 DEF RequestOK, s
    <2>5. RequestOK(t, attested)
      BY <2>2, <2>3, <2>4
    <2>6. \A o \in mempool : o.slot # q
      BY <1>1, <1>4, <2>1 DEF RequestOK, RequestShape, Unsent
    <2> HIDE DEF t
    <2>7. QED
      BY <2>1, <2>5, <2>6, TurnKeeps
  <1>12. CASE Wait(q)
    <2> DEFINE t == IF r.kind = "attest" THEN [r EXCEPT !.at = "balance", !.sent = <<>>]
                    ELSE IF r.kind = "gas" /\ r.route = "fund"
                    THEN [r EXCEPT !.at = "prepare", !.kind = "mint", !.sent = <<>>]
                    ELSE [r EXCEPT !.at = "200"]
    <2>1. r.at = "wait" /\ (\A k \in DOMAIN r.sent : r.sent[k] = -1) /\ Turns(q, t) /\ UNCHANGED <<attested, mempool>>
      BY <1>12 DEF Wait, Receipts
    <2>2. <<>> \in Sents /\ DOMAIN <<>> = {}
      <3>1. <<>> \in [{} -> Int] /\ {} \in SUBSET Kinds /\ DOMAIN <<>> = {}
        OBVIOUS
      <3>2. QED
        BY <3>1 DEF Sents
    <2>3. ASSUME r.kind = "attest"
          PROVE  RequestOK([r EXCEPT !.at = "balance", !.sent = <<>>], attested)
      <3> DEFINE s == [r EXCEPT !.at = "balance", !.sent = <<>>]
      <3>1. /\ s \in Request
            /\ s.route = r.route /\ s.user = r.user /\ s.at = "balance"
            /\ s.kind = r.kind /\ s.attestation = r.attestation /\ s.nonce = r.nonce
            /\ s.sent = <<>> /\ s.done = r.done /\ s.contested = r.contested
        BY <1>1, <2>1, <2>2 DEF Request, Kinds, Unsent
      <3> HIDE DEF s
      <3>2. RequestShape(s)
        BY <3>1, <1>1, <2>1, <2>2, <2>3 DEF RequestOK, RequestShape, Unsent, Kinds
      <3>3. RequestNonces(s)
        BY <3>1, <1>1, <2>1, <2>2, <2>3 DEF RequestOK, RequestShape, RequestNonces, Unsent
      <3>4. RequestTold(s, attested)
        BY <3>1, <1>1, <2>1, <2>2, <2>3 DEF RequestOK, RequestShape, RequestTold, Took, Unsent, Kinds
      <3>5. QED
        BY <3>2, <3>3, <3>4 DEF RequestOK, s
    <2>4. ASSUME r.kind = "gas", r.route = "fund"
          PROVE  RequestOK([r EXCEPT !.at = "prepare", !.kind = "mint", !.sent = <<>>], attested)
      <3> DEFINE s == [r EXCEPT !.at = "prepare", !.kind = "mint", !.sent = <<>>]
      <3>1. /\ s \in Request
            /\ s.route = r.route /\ s.user = r.user /\ s.at = "prepare"
            /\ s.kind = "mint" /\ s.attestation = r.attestation /\ s.nonce = r.nonce
            /\ s.sent = <<>> /\ s.done = r.done /\ s.contested = r.contested
        BY <1>1, <2>1, <2>2 DEF Request, Kinds, Unsent
      <3> HIDE DEF s
      <3>2. RequestShape(s)
        BY <3>1, <1>1, <2>1, <2>2, <2>4 DEF RequestOK, RequestShape, Unsent, Kinds
      <3>3. RequestNonces(s)
        BY <3>1, <1>1, <2>1, <2>2, <2>4 DEF RequestOK, RequestShape, RequestNonces, Unsent
      <3>4. RequestTold(s, attested)
        BY <3>1, <1>1, <2>1, <2>2, <2>4 DEF RequestOK, RequestShape, RequestTold, Took, Unsent, Kinds
      <3>5. QED
        BY <3>2, <3>3, <3>4 DEF RequestOK, s
    <2>5. ASSUME r.kind # "attest", ~(r.kind = "gas" /\ r.route = "fund")
          PROVE  RequestOK([r EXCEPT !.at = "200"], attested)
      <3> DEFINE s == [r EXCEPT !.at = "200"]
      <3>1. /\ s \in Request
            /\ s.route = r.route /\ s.user = r.user /\ s.at = "200"
            /\ s.kind = r.kind /\ s.attestation = r.attestation /\ s.nonce = r.nonce
            /\ s.sent = r.sent /\ s.done = r.done /\ s.contested = r.contested
        BY <1>1, <2>1 DEF Request, Kinds, Unsent
      <3> HIDE DEF s
      <3>2. RequestShape(s)
        BY <3>1, <1>1, <2>1, <2>5 DEF RequestOK, RequestShape, Unsent, Kinds
      <3>3. RequestNonces(s)
        BY <3>1, <1>1, <2>1, <2>5 DEF RequestOK, RequestShape, RequestNonces, Unsent
      <3>4. RequestTold(s, attested)
        BY <3>1, <1>1, <2>1, <2>5 DEF RequestOK, RequestShape, RequestTold, Took, Unsent, Kinds, Request, Routes
      <3>5. QED
        BY <3>2, <3>3, <3>4 DEF RequestOK, s
    <2>6. RequestOK(t, attested)
      BY <2>3, <2>4, <2>5
    <2>7. \A o \in mempool : o.slot # q
      BY <1>1, <1>3, <2>1 DEF SentBy, OnboardingInv, PoolOK, Transaction
    <2> HIDE DEF t
    <2>8. QED
      BY <2>1, <2>6, <2>7, TurnKeeps
  <1>13. QED
    BY <1>7, <1>8, <1>9, <1>10, <1>11, <1>12

LEMMA SenderType ==
  ASSUME NEW route \in Routes, NEW kind \in Kinds, kind = "attest" => route = "provision"
  PROVE  /\ Sender(route, kind) \in {"attestor", "faucet", "deployer"}
         /\ Sender(route, kind) = "attestor" <=> kind = "attest"
  BY DEF Sender, Routes, Kinds

\* What is sent takes a nonce of its own, or the place of a transaction that had it.
LEMMA SendKeeps ==
  ASSUME OnboardingInv, NEW q \in Slots, Send(q)
  PROVE  OnboardingInv'
  <1> DEFINE r == requests[q]
             from == Sender(r.route, r.kind)
             rivals == {t \in mempool : t.from = from /\ t.nonce = r.nonce}
             tx == [from |-> from, nonce |-> r.nonce, kind |-> r.kind, user |-> r.user,
                    attestation |-> IF r.kind = "attest" THEN r.attestation ELSE 0, slot |-> q]
             newSent == [k \in DOMAIN r.sent \union {r.kind} |-> IF k = r.kind THEN r.nonce ELSE r.sent[k]]
             s == AfterSend(r)
  <1>1. SUFFICES ASSUME r.at = "send", r.nonce >= 0,
                        mempool' = (mempool \ rivals) \union {tx},
                        Turns(q, s), attested' = attested
                 PROVE  OnboardingInv'
    BY FailKeeps DEF Send
  <1>2. RequestOK(r, attested) /\ r \in Request /\ MaxPending \in Nat
    BY <1>1, OnboardingConstants DEF OnboardingInv, RequestOK, RequestShape, Idle, OnboardingConstants
  <1>3. /\ r.kind \in Kinds /\ r.route \in Routes /\ r.nonce \in 0..MaxPending
        /\ r.user \in Users /\ r.attestation \in {0, 1}
        /\ DOMAIN r.sent \subseteq {"gas"} /\ r.kind \notin DOMAIN r.sent
        /\ r.kind = "attest" => r.route = "provision"
    BY <1>1, <1>2 DEF RequestOK, RequestShape, RequestNonces, Request, Kinds
  <1>4. from \in {"attestor", "faucet", "deployer"}
    BY <1>3, SenderType
  <1> HIDE DEF from
  <1>5. /\ tx \in Transaction /\ tx.slot = q /\ tx.from = from /\ tx.nonce = r.nonce
        /\ tx.kind = r.kind /\ tx.user = r.user
        /\ r.kind = "attest" => tx.attestation = r.attestation
    BY <1>3, <1>4 DEF Transaction
  <1> HIDE DEF tx
  <1>6. newSent \in Sents /\ DOMAIN newSent = DOMAIN r.sent \union {r.kind}
    <2>1. r.sent \in [DOMAIN r.sent -> Int]
      BY <1>2 DEF Request, Sents
    <2>2. newSent \in [DOMAIN r.sent \union {r.kind} -> Int]
      BY <1>3, <2>1
    <2>3. DOMAIN r.sent \union {r.kind} \in SUBSET Kinds
      BY <1>3 DEF Kinds
    <2>4. QED
      BY <2>2, <2>3 DEF Sents
  <1>7. /\ newSent[r.kind] = r.nonce
        /\ \A k \in DOMAIN r.sent : newSent[k] = r.sent[k]
    BY <1>3
  <1> HIDE DEF newSent
  <1>8. /\ s \in Request
        /\ s.route = r.route /\ s.user = r.user /\ s.attestation = r.attestation
        /\ s.sent = newSent /\ s.done = r.done /\ s.contested = r.contested
        /\ IF r.route = "provision" /\ r.kind = "gas"
           THEN s.at = "send" /\ s.kind = "mint" /\ s.nonce = r.nonce + 1
           ELSE s.at = "wait" /\ s.kind = r.kind /\ s.nonce = 0
    <2> DEFINE w == [r EXCEPT !.sent = newSent]
    <2>1. /\ w \in Request
          /\ w.route = r.route /\ w.user = r.user /\ w.attestation = r.attestation
          /\ w.sent = newSent /\ w.done = r.done /\ w.contested = r.contested
          /\ w.kind = r.kind /\ w.at = "send" /\ w.nonce = r.nonce
      BY <1>1, <1>2, <1>6 DEF Request
    <2>2. s = IF w.route = "provision" /\ w.kind = "gas"
              THEN [w EXCEPT !.kind = "mint", !.nonce = w.nonce + 1]
              ELSE [w EXCEPT !.at = "wait", !.nonce = 0]
      BY <1>2, <2>1 DEF AfterSend, newSent
    <2> HIDE DEF w, s
    <2>3. CASE r.route = "provision" /\ r.kind = "gas"
      <3>1. s = [w EXCEPT !.kind = "mint", !.nonce = w.nonce + 1] /\ w.nonce + 1 \in Int
        BY <1>3, <2>1, <2>2, <2>3
      <3>2. /\ s \in Request /\ s.at = w.at /\ s.kind = "mint" /\ s.nonce = w.nonce + 1
            /\ s.route = w.route /\ s.user = w.user /\ s.attestation = w.attestation
            /\ s.sent = w.sent /\ s.done = w.done /\ s.contested = w.contested
        BY <2>1, <3>1 DEF Request, Kinds
      <3>3. QED
        BY <2>1, <2>3, <3>2
    <2>4. CASE ~(r.route = "provision" /\ r.kind = "gas")
      <3>1. s = [w EXCEPT !.at = "wait", !.nonce = 0] /\ w \in Request
        BY <2>1, <2>2, <2>4
      <3>2. s \in Request
        <4>1. \A n \in Int : [w EXCEPT !.at = "wait", !.nonce = n] \in Request
          BY <3>1 DEF Request
        <4>2. 0 \in Int
          OBVIOUS
        <4>3. QED
          BY <3>1, <4>1, <4>2, Zenon
      <3>3. /\ s.at = "wait" /\ s.kind = w.kind /\ s.nonce = 0
            /\ s.route = w.route /\ s.user = w.user /\ s.attestation = w.attestation
            /\ s.sent = w.sent /\ s.done = w.done /\ s.contested = w.contested
        BY <3>1 DEF Request
      <3>4. QED
        BY <2>1, <2>4, <3>2, <3>3
    <2>5. QED
      BY <2>3, <2>4
  <1> HIDE DEF s
  <1>9. RequestShape(s)
    BY <1>1, <1>2, <1>3, <1>6, <1>8 DEF RequestOK, RequestShape, Unsent, Kinds
  <1>10. RequestNonces(s)
    <2>1. \A k \in DOMAIN s.sent : s.sent[k] \in -1..MaxPending
      BY <1>2, <1>3, <1>6, <1>7, <1>8 DEF RequestOK, RequestNonces
    <2>2. {"gas", "mint"} \subseteq DOMAIN s.sent => s.sent["gas"] # s.sent["mint"]
      <3>1. SUFFICES ASSUME {"gas", "mint"} \subseteq DOMAIN s.sent
                     PROVE  s.sent["gas"] # s.sent["mint"]
        OBVIOUS
      <3>2. r.kind = "mint" /\ "gas" \in DOMAIN r.sent
        BY <1>3, <1>6, <1>8, <3>1
      <3>3. r.sent["gas"] \in -1..MaxPending /\ r.sent["gas"] < r.nonce
        BY <1>1, <1>2, <1>3, <3>2 DEF RequestOK, RequestNonces
      <3>4. QED
        BY <1>3, <1>7, <1>8, <3>2, <3>3
    <2>3. s.at = "send" =>
            /\ s.nonce \in -1..MaxPending /\ s.kind = "mint"
            /\ DOMAIN s.sent \subseteq {"gas"} /\ s.sent["gas"] < s.nonce
      BY <1>1, <1>2, <1>3, <1>6, <1>7, <1>8 DEF RequestOK, RequestNonces
    <2>4. QED
      BY <2>1, <2>2, <2>3 DEF RequestNonces
  <1>11. RequestTold(s, attested)
    <2>1. RequestTold(r, attested)
      BY <1>2 DEF RequestOK
    <2>2. \A k : Took(r, k, attested) => Took(s, k, attested)
      BY <1>8 DEF Took
    <2>3. \A k \in DOMAIN s.sent : s.sent[k] = -1 => k \in DOMAIN r.sent /\ r.sent[k] = -1
      BY <1>3, <1>6, <1>7, <1>8
    <2>4. s.route = "provision" /\ s.kind # "none" /\ s.attestation = 0 => attested[s.user]
      BY <1>3, <1>8, <2>1 DEF RequestTold, Kinds
    <2>5. s.at # "200" /\ s.at # "balance"
      BY <1>8
    <2>6. s.kind \in {"gas", "mint"} /\ s.route = "provision" => r.kind \in {"gas", "mint"} /\ r.route = "provision"
      BY <1>8
    <2>7. QED
      BY <1>8, <2>1, <2>2, <2>3, <2>4, <2>5, <2>6 DEF RequestTold
  <1>12. PoolOK(mempool')
    BY <1>1, <1>5 DEF OnboardingInv, PoolOK
  <1>13. /\ DOMAIN requests' = Slots
         /\ requests'[q] = s
         /\ \A p \in Slots : p # q => requests'[p] = requests[p]
    BY <1>1 DEF Turns, OnboardingInv
  <1>14. \A p \in Slots : requests'[p] = Idle \/ RequestOK(requests'[p], attested)
    BY <1>9, <1>10, <1>11, <1>13 DEF OnboardingInv, RequestOK
  <1>15. ASSUME NEW t \in mempool', t.slot \in Slots
         PROVE  SentBy(t, requests'[t.slot])
    <2>1. CASE t = tx
      BY <1>3, <1>5, <1>6, <1>7, <1>8, <1>13, <2>1 DEF SentBy, from
    <2>2. CASE t \in mempool /\ t.slot # q
      BY <1>13, <1>15, <2>2 DEF OnboardingInv
    <2>3. CASE t \in mempool /\ t.slot = q
      <3>1. SentBy(t, r)
        BY <2>3 DEF OnboardingInv
      <3>2. QED
        BY <1>3, <1>6, <1>7, <1>8, <1>13, <2>3, <3>1 DEF SentBy
    <2>4. QED
      BY <1>1, <2>1, <2>2, <2>3
  <1>16. QED
    BY <1>1, <1>12, <1>13, <1>14, <1>15 DEF OnboardingInv

\* The fields of a request that a block may change
Updated(r, x, n, f, d, c) ==
  [r EXCEPT !.attestation = x, !.nonce = n, !.sent = f, !.done = d, !.contested = c]

LEMMA RequestUpdated ==
  ASSUME NEW r \in Request, NEW x \in {0, 1}, NEW n \in Int, NEW f \in Sents,
         NEW d \in SUBSET Kinds, NEW c \in BOOLEAN, NEW w, w = Updated(r, x, n, f, d, c)
  PROVE  /\ w \in Request
         /\ w.route = r.route /\ w.user = r.user /\ w.at = r.at /\ w.kind = r.kind
         /\ w.attestation = x /\ w.nonce = n /\ w.sent = f /\ w.done = d /\ w.contested = c
  <1> DEFINE v == [r EXCEPT !.attestation = x, !.nonce = n]
             u == [v EXCEPT !.sent = f, !.done = d]
  <1>1. /\ v \in Request
        /\ v.route = r.route /\ v.user = r.user /\ v.at = r.at /\ v.kind = r.kind
        /\ v.attestation = x /\ v.nonce = n
    BY DEF Request
  <1>2. w = [u EXCEPT !.contested = c]
    BY DEF Request, Updated
  <1> HIDE DEF v
  <1>3. /\ u \in Request
        /\ u.route = r.route /\ u.user = r.user /\ u.at = r.at /\ u.kind = r.kind
        /\ u.attestation = x /\ u.nonce = n /\ u.sent = f /\ u.done = d
    BY <1>1 DEF Request
  <1> HIDE DEF u
  <1>4. QED
    BY <1>2, <1>3 DEF Request

\* What becomes of request r, now s, when transaction t is mined
Follows(s, r, t, lands, b) ==
  /\ RequestOK(s, b)
  /\ s.route = r.route /\ s.user = r.user
  /\ s.attestation = IF lands /\ t.kind = "attest" /\ r.user = t.user THEN 0 ELSE r.attestation
  /\ DOMAIN s.sent = DOMAIN r.sent
  /\ \A k \in DOMAIN r.sent :
       s.sent[k] = IF Sender(r.route, k) = t.from THEN Down(r.sent[k], -1) ELSE r.sent[k]

\* A block: what a request knows of its own transactions stays true.
LEMMA SeesOK ==
  ASSUME NEW q \in Slots, NEW r, NEW t \in Transaction, t.nonce = 0,
         NEW a \in [Users -> BOOLEAN], NEW b \in [Users -> BOOLEAN], NEW lands \in BOOLEAN,
         lands <=> (t.kind = "attest" => t.attestation = 1),
         \A u \in Users : a[u] => b[u],
         t.kind = "attest" /\ lands => b[t.user],
         RequestOK(r, a), t.slot = q => SentBy(t, r)
  PROVE  Follows(Sees(q, r, t, lands), r, t, lands, b)
  <1> DEFINE own(k) == Sender(r.route, k) = t.from
             mine == {k \in DOMAIN r.sent : own(k)}
             lost == t.slot # q /\ \E k \in mine : r.sent[k] = 0
             attestation == IF lands /\ t.kind = "attest" /\ r.user = t.user
                            THEN Down(r.attestation, 0) ELSE r.attestation
             nonce == IF r.at = "send" /\ own(r.kind) THEN Down(r.nonce, -1) ELSE r.nonce
             sent == [k \in DOMAIN r.sent |-> IF k \in mine THEN Down(r.sent[k], -1) ELSE r.sent[k]]
             done == IF t.slot = q /\ lands THEN r.done \union {t.kind} ELSE r.done
             contested == r.contested \/ lost
             s == Sees(q, r, t, lands)
  <1>1. /\ r \in Request /\ r.at # "idle" /\ r.attestation \in {0, 1} /\ r.nonce \in Int
        /\ DOMAIN r.sent \subseteq Kinds /\ r.sent \in [DOMAIN r.sent -> Int]
        /\ r.done \subseteq Kinds /\ t.kind \in Kinds /\ r.user \in Users /\ r.route \in Routes
    BY DEF RequestOK, RequestShape, Request, Unsent, Sents, Transaction
  <1>2. attestation \in {0, 1} /\ (r.attestation = 0 => attestation = 0)
        /\ (lands /\ t.kind = "attest" /\ r.user = t.user => attestation = 0)
        /\ (attestation = 0 => r.attestation = 0 \/ (lands /\ t.kind = "attest" /\ r.user = t.user))
        /\ attestation = IF lands /\ t.kind = "attest" /\ r.user = t.user THEN 0 ELSE r.attestation
    BY <1>1 DEF Down
  <1>3. /\ nonce \in Int
        /\ r.nonce >= -1 => nonce >= -1 /\ nonce <= r.nonce
    BY <1>1 DEF Down
  <1>4. sent \in Sents /\ DOMAIN sent = DOMAIN r.sent
    <2>1. sent \in [DOMAIN r.sent -> Int]
      BY <1>1 DEF Down
    <2>2. DOMAIN r.sent \in SUBSET Kinds
      BY <1>1
    <2>3. QED
      BY <2>1, <2>2 DEF Sents
  <1>5. \A k \in DOMAIN r.sent : sent[k] = IF own(k) THEN Down(r.sent[k], -1) ELSE r.sent[k]
    OBVIOUS
  <1>6. done \subseteq Kinds /\ r.done \subseteq done /\ (t.slot = q /\ lands => t.kind \in done)
    BY <1>1
  <1>7. s = Updated(r, attestation, nonce, sent, done, contested)
    BY <1>1 DEF Sees, Request, Updated
  <1>8. contested \in BOOLEAN /\ (contested <=> r.contested \/ lost)
    OBVIOUS
  <1>9. /\ r \in Request /\ attestation \in {0, 1} /\ nonce \in Int /\ sent \in Sents
        /\ done \in SUBSET Kinds /\ contested \in BOOLEAN
    BY <1>1, <1>2, <1>3, <1>4, <1>6, <1>8
  <1> HIDE DEF attestation, nonce, sent, done, lost, contested, s
  <1>10. /\ s \in Request
         /\ s.route = r.route /\ s.user = r.user /\ s.at = r.at /\ s.kind = r.kind
         /\ s.attestation = attestation /\ s.nonce = nonce /\ s.sent = sent /\ s.done = done
         /\ s.contested = contested
    BY <1>7, <1>9, RequestUpdated
  <1>11. s.contested <=> r.contested \/ lost
    BY <1>8, <1>10, Zenon
  <1>12. RequestShape(s)
    BY <1>4, <1>10 DEF RequestOK, RequestShape
  <1>13. RequestNonces(s)
    <2>1. RequestNonces(r)
      BY DEF RequestOK
    <2>2. \A k \in DOMAIN s.sent : s.sent[k] \in -1..MaxPending
      BY <1>4, <1>5, <1>10, <2>1, OnboardingConstants DEF RequestNonces, Down, OnboardingConstants
    <2>3. {"gas", "mint"} \subseteq DOMAIN s.sent =>
            s.sent["gas"] # s.sent["mint"] \/ s.sent["gas"] = -1
      <3>1. SUFFICES ASSUME {"gas", "mint"} \subseteq DOMAIN r.sent
                     PROVE  sent["gas"] # sent["mint"] \/ sent["gas"] = -1
        BY <1>4, <1>10
      <3>2. own("gas") <=> own("mint")
        BY DEF Sender
      <3>3. r.sent["gas"] >= -1 /\ r.sent["mint"] >= -1 /\ r.sent["gas"] \in Int /\ r.sent["mint"] \in Int
            /\ (r.sent["gas"] # r.sent["mint"] \/ r.sent["gas"] = -1)
        BY <2>1, <3>1, <1>1 DEF RequestNonces
      <3> HIDE DEF own
      <3>4. sent["gas"] = (IF own("gas") THEN Down(r.sent["gas"], -1) ELSE r.sent["gas"])
            /\ sent["mint"] = (IF own("gas") THEN Down(r.sent["mint"], -1) ELSE r.sent["mint"])
        BY <1>5, <3>1, <3>2
      <3>5. QED
        BY <3>3, <3>4 DEF Down
    <2>4. ASSUME s.at = "send"
          PROVE  /\ s.nonce \in -1..MaxPending
                 /\ s.kind # "mint" => s.nonce < MaxPending /\ DOMAIN s.sent = {}
                 /\ DOMAIN s.sent \subseteq {"gas"}
                 /\ "gas" \in DOMAIN s.sent => s.sent["gas"] < s.nonce \/ s.nonce = -1
      <3>1. /\ r.nonce \in -1..MaxPending
            /\ r.kind # "mint" => r.nonce < MaxPending /\ DOMAIN r.sent = {}
            /\ DOMAIN r.sent \subseteq {"gas"}
            /\ "gas" \in DOMAIN r.sent => r.sent["gas"] < r.nonce \/ r.nonce = -1
        BY <1>10, <2>1, <2>4 DEF RequestNonces
      <3>2. MaxPending \in Nat
        BY OnboardingConstants DEF OnboardingConstants
      <3>3. /\ nonce \in -1..MaxPending
            /\ r.nonce < MaxPending => nonce < MaxPending
        BY <1>1, <1>3, <3>1, <3>2
      <3>4. ASSUME "gas" \in DOMAIN r.sent
            PROVE  sent["gas"] < nonce \/ nonce = -1
        <4>1. r.kind = "mint" /\ r.sent["gas"] \in Int /\ r.sent["gas"] >= -1
          BY <1>1, <2>1, <3>1, <3>4 DEF RequestNonces
        <4>2. own("gas") <=> own(r.kind)
          BY <4>1 DEF Sender
        <4> HIDE DEF own
        <4>3. /\ sent["gas"] = (IF own(r.kind) THEN Down(r.sent["gas"], -1) ELSE r.sent["gas"])
              /\ nonce = (IF own(r.kind) THEN Down(r.nonce, -1) ELSE r.nonce)
          BY <1>5, <1>10, <2>4, <3>4, <4>2 DEF nonce
        <4>4. QED
          BY <1>1, <3>1, <3>4, <4>1, <4>3 DEF Down
      <3>5. QED
        BY <1>4, <1>10, <3>1, <3>3, <3>4
    <2>5. QED
      BY <2>2, <2>3, <2>4 DEF RequestNonces
  <1>14. RequestTold(s, b)
    <2>1. RequestTold(r, a) /\ RequestNonces(r) /\ RequestShape(r)
      BY DEF RequestOK
    <2>2. \A k : Took(r, k, a) => Took(s, k, b)
      BY <1>1, <1>2, <1>6, <1>10 DEF Took
    <2>3. s.route = "provision" /\ s.kind # "none" /\ s.attestation = 0 => b[s.user]
      BY <1>1, <1>2, <1>10, <2>1 DEF RequestTold
    <2>4. ASSUME ~s.contested, NEW k \in DOMAIN s.sent, s.sent[k] = -1
          PROVE  Took(s, k, b)
      <3>1. k \in DOMAIN r.sent /\ sent[k] = -1 /\ ~r.contested /\ ~lost
        BY <1>4, <1>10, <1>11, <2>4
      <3>2. CASE r.sent[k] = -1
        BY <2>1, <2>2, <3>1, <3>2 DEF RequestTold
      <3>3. CASE r.sent[k] # -1
        <4>1. own(k) /\ r.sent[k] = 0
          BY <1>1, <1>5, <2>1, <3>1, <3>3 DEF RequestNonces, Down
        <4>2. t.slot = q
          BY <3>1, <4>1 DEF lost
        <4>3. /\ t.kind \in DOMAIN r.sent /\ r.sent[t.kind] = 0
              /\ Sender(r.route, t.kind) = Sender(r.route, k)
              /\ t.kind = "attest" => t.attestation = r.attestation
          BY <4>1, <4>2 DEF SentBy
        <4>4. "attest" \in DOMAIN r.sent => r.route = "provision"
          BY <2>1 DEF RequestShape
        <4>5. t.kind = "attest" <=> k = "attest"
          BY <1>1, <3>1, <4>3, <4>4, SenderType
        <4>6. t.kind = k
          BY <1>1, <2>1, <3>1, <4>1, <4>3, <4>5 DEF RequestNonces, Kinds
        <4>7. CASE lands
          BY <1>6, <1>10, <4>2, <4>6, <4>7 DEF Took
        <4>8. CASE ~lands
          <5>1. k = "attest" /\ r.attestation = 0
            BY <1>1, <4>3, <4>6, <4>8
          <5>2. a[r.user] /\ s.attestation = 0
            BY <1>2, <1>10, <2>1, <3>1, <4>4, <5>1 DEF RequestTold, RequestShape
          <5>3. QED
            BY <1>1, <1>10, <5>1, <5>2 DEF Took
        <4>9. QED
          BY <4>7, <4>8
      <3>4. QED
        BY <3>2, <3>3
    <2>5. ASSUME ~s.contested
          PROVE  /\ s.route = "provision" /\ (s.at \in {"balance", "200"} \/ s.kind \in {"gas", "mint"}) =>
                      Took(s, "attest", b)
                 /\ s.at = "200" =>
                      /\ s.route # "fund-gas" => "mint" \in s.done
                      /\ s.route = "fund-gas" => "gas" \in s.done \/ s.kind = "none"
      <3>1. ~r.contested
        BY <1>11, <2>5
      <3>2. QED
        BY <1>6, <1>10, <2>1, <2>2, <3>1 DEF RequestTold
    <2>6. QED
      BY <2>3, <2>4, <2>5 DEF RequestTold
  <1>15. QED
    BY <1>2, <1>4, <1>5, <1>10, <1>12, <1>13, <1>14 DEF RequestOK, Follows, s

\* The chain takes a transaction: those behind it in its sender's queue move up.
LEMMA LandsKeeps ==
  ASSUME OnboardingInv, NEW t \in mempool, Lands(t)
  PROVE  OnboardingInv'
  <1> DEFINE lands == t.kind = "attest" => t.attestation = 1
             up(o) == [o EXCEPT
                         !.nonce = IF o.from = t.from THEN o.nonce - 1 ELSE o.nonce,
                         !.attestation = IF lands /\ t.kind = "attest" /\ o.user = t.user
                                         THEN Down(o.attestation, 0) ELSE o.attestation]
  <1>1. /\ t.nonce = 0
        /\ attested' = [attested EXCEPT ![t.user] = attested[t.user] \/ (t.kind = "attest" /\ lands)]
        /\ mempool' = {up(o) : o \in mempool \ {t}}
        /\ requests' = [q \in Slots |-> Sees(q, requests[q], t, lands)]
    BY DEF Lands
  <1>2. t \in Transaction /\ mempool \subseteq Transaction
    BY DEF OnboardingInv, PoolOK
  <1>3. attested \in [Users -> BOOLEAN] /\ t.user \in Users /\ lands \in BOOLEAN
    BY <1>2 DEF OnboardingInv, Transaction
  <1>4. /\ attested' \in [Users -> BOOLEAN]
        /\ \A u \in Users : attested[u] => attested'[u]
        /\ t.kind = "attest" /\ lands => attested'[t.user]
    <2>1. /\ DOMAIN attested' = Users
          /\ attested'[t.user] = (attested[t.user] \/ (t.kind = "attest" /\ lands))
          /\ \A u \in Users : u # t.user => attested'[u] = attested[u]
          /\ attested' = [u \in Users |-> attested'[u]]
      BY <1>1, <1>3, Zenon
    <2>2. attested'[t.user] \in BOOLEAN /\ (\A u \in Users : attested[u] \in BOOLEAN)
      BY <1>3, <2>1, Zenon
    <2>3. attested' \in [Users -> BOOLEAN]
      BY <2>1, <2>2, Zenon
    <2>4. QED
      BY <1>3, <2>1, <2>3, Zenon
  <1>5. \A o \in Transaction : o.nonce >= 1 \/ o.from # t.from =>
          /\ up(o) \in Transaction
          /\ up(o).from = o.from /\ up(o).kind = o.kind /\ up(o).user = o.user /\ up(o).slot = o.slot
          /\ up(o).nonce = IF o.from = t.from THEN o.nonce - 1 ELSE o.nonce
          /\ up(o).attestation = IF lands /\ t.kind = "attest" /\ o.user = t.user THEN 0 ELSE o.attestation
    <2>1. SUFFICES ASSUME NEW o \in Transaction, o.nonce >= 1 \/ o.from # t.from
                   PROVE  /\ up(o) \in Transaction
                          /\ up(o).from = o.from /\ up(o).kind = o.kind /\ up(o).user = o.user
                          /\ up(o).slot = o.slot
                          /\ up(o).nonce = IF o.from = t.from THEN o.nonce - 1 ELSE o.nonce
                          /\ up(o).attestation = IF lands /\ t.kind = "attest" /\ o.user = t.user
                                                 THEN 0 ELSE o.attestation
      OBVIOUS
    <2> DEFINE n == IF o.from = t.from THEN o.nonce - 1 ELSE o.nonce
               x == IF lands /\ t.kind = "attest" /\ o.user = t.user
                    THEN Down(o.attestation, 0) ELSE o.attestation
    <2>2. o.nonce \in 0..MaxPending /\ o.attestation \in {0, 1} /\ MaxPending \in Nat
      BY OnboardingConstants DEF Transaction, OnboardingConstants
    <2>3. n \in 0..MaxPending
      BY <2>1, <2>2
    <2>4. x \in {0, 1} /\ x = IF lands /\ t.kind = "attest" /\ o.user = t.user THEN 0 ELSE o.attestation
      BY <2>2 DEF Down
    <2>5. up(o) = [o EXCEPT !.nonce = n, !.attestation = x]
      OBVIOUS
    <2> HIDE DEF n, x, up
    <2>6. /\ up(o) \in Transaction
          /\ up(o).from = o.from /\ up(o).kind = o.kind /\ up(o).user = o.user
          /\ up(o).slot = o.slot /\ up(o).nonce = n /\ up(o).attestation = x
      BY <2>3, <2>4, <2>5 DEF Transaction
    <2>7. QED
      BY <2>4, <2>6 DEF n
  <1>6. ASSUME NEW o \in mempool \ {t}
        PROVE  o \in Transaction /\ (o.nonce >= 1 \/ o.from # t.from) /\ o.nonce \in Nat
    <2>1. o \in Transaction /\ o.nonce \in Nat
      BY <1>2, OnboardingConstants DEF Transaction, OnboardingConstants
    <2>2. o.from = t.from => o.nonce # 0
      BY <1>1 DEF OnboardingInv, PoolOK
    <2>3. QED
      BY <2>1, <2>2
  <1> HIDE DEF up
  <1>7. PoolOK(mempool')
    <2>1. mempool' \subseteq Transaction
      BY <1>1, <1>5, <1>6
    <2>2. ASSUME NEW o \in mempool \ {t}, NEW p \in mempool \ {t},
                 up(o).from = up(p).from, up(o).nonce = up(p).nonce
          PROVE  o = p
      <3>1. o.from = p.from /\ o.nonce = p.nonce
        BY <1>5, <1>6, <2>2
      <3>2. QED
        BY <3>1 DEF OnboardingInv, PoolOK
    <2>3. QED
      BY <1>1, <2>1, <2>2 DEF PoolOK
  <1>8. ASSUME NEW q \in Slots, RequestOK(requests[q], attested)
        PROVE  Follows(requests'[q], requests[q], t, lands, attested')
    <2>1. t.slot = q => SentBy(t, requests[q])
      BY DEF OnboardingInv
    <2>2. requests'[q] = Sees(q, requests[q], t, lands)
      BY <1>1, <1>8
    <2>3. lands <=> (t.kind = "attest" => t.attestation = 1)
      OBVIOUS
    <2> HIDE DEF lands
    <2>4. Follows(Sees(q, requests[q], t, lands), requests[q], t, lands, attested')
      BY <1>1, <1>2, <1>3, <1>4, <1>8, <2>1, <2>3, SeesOK
    <2>5. QED
      BY <2>2, <2>4
  <1>9. \A q \in Slots : requests[q] = Idle => requests'[q] = Idle
    BY <1>1 DEF Sees, Idle
  <1>10. \A q \in Slots : requests'[q] = Idle \/ RequestOK(requests'[q], attested')
    BY <1>8, <1>9 DEF OnboardingInv, Follows
  <1>11. ASSUME NEW o \in mempool \ {t}, up(o).slot \in Slots
         PROVE  SentBy(up(o), requests'[up(o).slot])
    <2> DEFINE q == o.slot
               r == requests[q]
               s == requests'[q]
    <2>1. up(o).slot = q /\ q \in Slots
      BY <1>5, <1>6, <1>11
    <2>2. SentBy(o, r)
      BY <2>1 DEF OnboardingInv
    <2>3. r # Idle
      BY <2>2 DEF SentBy, Request, Idle, Unsent
    <2>4. Follows(s, r, t, lands, attested')
      BY <1>8, <2>1, <2>3 DEF OnboardingInv
    <2>5. s \in Request
      BY <2>4 DEF Follows, RequestOK, RequestShape
    <2>6. up(o).kind \in DOMAIN s.sent /\ s.sent[up(o).kind] = up(o).nonce
      BY <1>5, <1>6, <2>2, <2>4 DEF SentBy, Follows, Down
    <2>7. up(o).from = Sender(s.route, up(o).kind) /\ up(o).user = s.user
      BY <1>5, <1>6, <2>2, <2>4 DEF SentBy, Follows
    <2>8. up(o).kind = "attest" => up(o).attestation = s.attestation
      BY <1>5, <1>6, <2>2, <2>4 DEF SentBy, Follows
    <2>9. QED
      BY <2>1, <2>5, <2>6, <2>7, <2>8 DEF SentBy
  <1>12. \A o \in mempool' : o.slot \in Slots => SentBy(o, requests'[o.slot])
    BY <1>1, <1>11
  <1>13. DOMAIN requests' = Slots
    BY <1>1
  <1>14. QED
    BY <1>4, <1>7, <1>10, <1>12, <1>13 DEF OnboardingInv

LEMMA AdmittedKeeps ==
  ASSUME OnboardingInv, NEW user \in Users, Provision(user) \/ Fund(user) \/ FundGas(user)
  PROVE  OnboardingInv'
  <1> DEFINE new(route, first) ==
        [route |-> route, user |-> user, at |-> first, kind |-> "none", attestation |-> 0,
         nonce |-> 0, sent |-> <<>>, done |-> {}, contested |-> FALSE]
  <1>1. PICK route \in Routes, first \in {"generate", "balance"}, q \in Slots :
          /\ route = "provision" <=> first = "generate"
          /\ ~Serving(q) /\ Turns(q, new(route, first))
          /\ UNCHANGED <<attested, mempool>>
    BY DEF Provision, Fund, FundGas, Admitted, Routes
  <1>2. <<>> \in Sents /\ DOMAIN <<>> = {}
    <2>1. <<>> \in [{} -> Int] /\ {} \in SUBSET Kinds /\ DOMAIN <<>> = {}
      OBVIOUS
    <2>2. QED
      BY <2>1 DEF Sents
  <1>3. new(route, first) \in Request
    BY <1>1, <1>2 DEF Request, Unsent
  <1>4. RequestOK(new(route, first), attested)
    BY <1>1, <1>2, <1>3 DEF RequestOK, RequestShape, RequestNonces, RequestTold, Unsent
  <1>5. requests[q] = Idle
    BY <1>1 DEF Serving, OnboardingInv, RequestOK, RequestShape, Request, Unsent
  <1>6. \A t \in mempool : t.slot # q
    BY <1>5 DEF OnboardingInv, SentBy, Request, Idle, Unsent
  <1>7. QED
    BY <1>1, <1>4, <1>6, TurnKeeps

LEMMA OnboardingStep ==
  ASSUME OnboardingInv, OnboardingNext
  PROVE  OnboardingInv'
  <1>1. ASSUME NEW q \in Slots, Answer(q) \/ CutOff(q)
        PROVE  OnboardingInv'
    BY <1>1, FailKeeps DEF Answer, CutOff
  <1>2. ASSUME NEW q \in Slots, Step(q)
        PROVE  OnboardingInv'
    BY <1>1, <1>2, StepKeeps, SendKeeps DEF Step
  <1>3. ASSUME NEW t \in mempool, Dropped(t)
        PROVE  OnboardingInv'
    BY <1>3 DEF Dropped, OnboardingInv, PoolOK
  <1>4. CASE Calms
    BY <1>4 DEF Calms, OnboardingInv
  <1>5. CASE Serve
    BY <1>2, <1>5, AdmittedKeeps, LandsKeeps DEF Serve
  <1>6. CASE Trouble
    BY <1>1, <1>3, <1>6, StepKeeps DEF Trouble
  <1>7. QED
    BY <1>4, <1>5, <1>6 DEF OnboardingNext

(***************************************************************************)
(* A 200 tells of what is on chain, unless its request lost a nonce: for   *)
(* any number of users, of requests at once and of transactions a sender   *)
(* has pending, though requests are cut off, transactions are dropped and  *)
(* one replaces another.                                                   *)
(***************************************************************************)
THEOREM DappSuccessIsReal == DappSpec => []SuccessIsReal
  <1>1. DappInit => OnboardingInv
    <2>1. SUFFICES ASSUME DappInit
                   PROVE  OnboardingInv
      OBVIOUS
    <2>2. attested \in [Users -> BOOLEAN] /\ mempool = {} /\ requests = [q \in Slots |-> Idle]
      BY <2>1 DEF DappInit, OnboardingInit
    <2>3. QED
      BY <2>2 DEF OnboardingInv, PoolOK
  <1>2. OnboardingInv /\ [DappNext]_dappVars => OnboardingInv'
    <2>1. OnboardingInv /\ UNCHANGED onboardingVars => OnboardingInv'
      BY DEF OnboardingInv, onboardingVars
    <2>2. DappNext => BackendNext \/ UNCHANGED onboardingVars
      BY DEF DappNext, PositionsNext, RecordNext, StandingNext, LendViewNext, ScriptsNext, DeployNext
    <2>3. QED
      BY <2>1, <2>2, OnboardingStep DEF BackendNext, dappVars
  <1>3. OnboardingInv => SuccessIsReal
    <2>1. SUFFICES ASSUME OnboardingInv, NEW q \in Slots, requests[q].at = "200", ~requests[q].contested
                   PROVE  LET r == requests[q]
                          IN /\ r.route = "provision" => "attest" \in r.done \/ (attested[r.user] /\ r.attestation = 0)
                             /\ r.route # "fund-gas" => "mint" \in r.done
                             /\ r.route = "fund-gas" => "gas" \in r.done \/ r.kind = "none"
      BY DEF SuccessIsReal
    <2>2. RequestTold(requests[q], attested)
      BY <2>1 DEF OnboardingInv, RequestOK, Idle
    <2>3. QED
      BY <2>1, <2>2 DEF RequestTold, Took
  <1>4. QED
    BY <1>1, <1>2, <1>3, PTL DEF DappSpec

-----------------------------------------------------------------------------
(* The deployment *)

Registries == [kind : {"registry"}, attestors : SUBSET Nat, policy : Nat]
Gates == [kind : {"gate"}, validatorPool : Nat, registry : Nat]
Pools == [kind : {"pool"}, gate : Nat, policy : Nat, guardian : Nat]
Strategies == [kind : {"strategy"}, pool : Nat]
Guardians == [kind : {"guardian"}, registry : Nat, pool : Nat, strategy : Nat]
Contracts ==
  [kind : {"asset", "policy", "none", "foreign"}]
    \union Registries \union Gates \union Pools \union Strategies \union Guardians

\* The labels of the first n contracts of a deployment
Placed(n) == {DeployOrder[i] : i \in 1..n}

\* The contracts at these addresses are of one deployment, as far as it got.
Together(at, on) ==
  /\ \A label \in DOMAIN at : at[label] \in 1..Len(on) /\ on[at[label]].kind = label
  /\ "registry" \in DOMAIN at => on[at["registry"]].policy = at["policy"]
  /\ "gate" \in DOMAIN at => on[at["gate"]].registry = at["registry"]
  /\ "pool" \in DOMAIN at =>
       /\ on[at["pool"]].gate = at["gate"] /\ on[at["pool"]].policy = at["policy"]
       /\ on[at["gate"]].validatorPool = at["pool"]
  /\ "strategy" \in DOMAIN at => on[at["strategy"]].pool = at["pool"]
  /\ "guardian" \in DOMAIN at =>
       /\ on[at["guardian"]].registry = at["registry"] /\ on[at["guardian"]].pool = at["pool"]
       /\ on[at["guardian"]].strategy = at["strategy"]

Guarded(at, on) == on[at["pool"]].guardian = at["guardian"]
Authorized(at, key, on) == key \in on[at["registry"]].attestors

\* What deployments/testnet.json says is so.
RecordOK(d, on) ==
  /\ d \in [at : [Placed(7) -> Nat], attestor : Nat, displaced : BOOLEAN]
  /\ Together(d.at, on)
  /\ d.displaced \/ (Guarded(d.at, on) /\ Authorized(d.at, d.attestor, on))

\* A validator was told of a pool that asks about itself.
PoolKnown(pool, on) ==
  /\ pool \in 1..Len(on) /\ on[pool].kind = "pool"
  /\ on[pool].gate \in 1..Len(on) /\ on[on[pool].gate].kind = "gate"
  /\ on[on[pool].gate].validatorPool = pool

\* A deployment under way: the gate was told where the pool will be.
DeployOK(j, on) ==
  /\ j \in [name : {"deploy"}, attestor : Nat, predicted : Nat, at : {j.at}, wired : 0..2,
            displaced : BOOLEAN]
  /\ \E n \in 0..7 : j.at \in [Placed(n) -> Nat]
  /\ Together(j.at, on)
  /\ "gate" \in DOMAIN j.at => j.predicted # 0 /\ on[j.at["gate"]].validatorPool = j.predicted
  /\ j.wired > 0 => DOMAIN j.at = Placed(7) /\ (j.displaced \/ Guarded(j.at, on))
  /\ j.wired = 2 => j.displaced \/ Authorized(j.at, j.attestor, on)

\* A key is being authorized for a deployment on record.
FixOK(j, d, on) ==
  /\ j \in [name : {"fixAttestor"}, attestor : Nat, wired : 0..1, displaced : BOOLEAN]
  /\ RecordOK(d, on)
  /\ j.wired = 1 => j.displaced \/ Authorized(d.at, j.attestor, on)

\* The operator holds this key, or it was generated over one that was held.
Kept(name, key) == key \in Nat /\ (name \in unkept \/ key = env[name])

DeploymentInv ==
  /\ created \in Seq(Contracts)
  /\ keys \in Nat /\ env \in [Variables -> Nat \union {NoKey}]
  /\ deployments # NoDeployment =>
       RecordOK(deployments, created) /\ Kept("ATTESTOR_PRIVATE_KEY", deployments.attestor)
  /\ \A pool \in registered : PoolKnown(pool, created)
  /\ \A pass \in passes : pass[1] \in Variables /\ Kept(pass[1], pass[2])
  /\ \/ job = NoJob
     \/ /\ Deploying /\ DeployOK(job, created) /\ Kept("ATTESTOR_PRIVATE_KEY", job.attestor)
        /\ deployments # NoDeployment /\ "pool" \in DOMAIN job.at =>
             deployments.at["pool"] # job.at["pool"]
     \/ /\ FixOK(job, deployments, created) /\ Kept("ATTESTOR_PRIVATE_KEY", job.attestor)
        /\ deployments # NoDeployment

\* What may become of contracts while a script runs: this pool gets a guardian
Since(old, new, pool) ==
  /\ Len(old) <= Len(new)
  /\ \A i \in 1..Len(old) :
       /\ new[i].kind = old[i].kind
       /\ old[i].kind = "registry" =>
            new[i].policy = old[i].policy /\ old[i].attestors \subseteq new[i].attestors
       /\ old[i].kind = "gate" =>
            new[i].registry = old[i].registry /\ new[i].validatorPool = old[i].validatorPool
       /\ old[i].kind = "pool" =>
            /\ new[i].gate = old[i].gate /\ new[i].policy = old[i].policy
            /\ i # pool => new[i].guardian = old[i].guardian
       /\ old[i].kind = "strategy" => new[i].pool = old[i].pool
       /\ old[i].kind = "guardian" =>
            /\ new[i].registry = old[i].registry /\ new[i].pool = old[i].pool
            /\ new[i].strategy = old[i].strategy

\* A contract of a kind has that kind's fields.
LEMMA KindsDiffer ==
  ASSUME NEW c \in Contracts
  PROVE  /\ c.kind = "registry" => c \in Registries
         /\ c.kind = "gate" => c \in Gates
         /\ c.kind = "pool" => c \in Pools
         /\ c.kind = "strategy" => c \in Strategies
         /\ c.kind = "guardian" => c \in Guardians
  BY DEF Contracts, Registries, Gates, Pools, Strategies, Guardians

\* A new contract changes none of the others.
LEMMA SinceAppended ==
  ASSUME NEW on \in Seq(Contracts), NEW c \in Contracts
  PROVE  /\ Append(on, c) \in Seq(Contracts)
         /\ Since(on, Append(on, c), 0)
  <1>1. Append(on, c) \in Seq(Contracts) /\ Len(Append(on, c)) = Len(on) + 1
        /\ \A i \in 1..Len(on) : Append(on, c)[i] = on[i]
    BY AppendProperties
  <1>2. Len(on) \in Nat
    BY LenProperties
  <1>3. QED
    BY <1>1, <1>2 DEF Since

LEMMA SinceThen ==
  ASSUME NEW a, NEW b, NEW c, NEW pool,
         Len(a) \in Nat, Len(b) \in Nat, Len(c) \in Nat,
         Since(a, b, pool), Since(b, c, 0)
  PROVE  Since(a, c, pool)
  <1>1. \A i \in 1..Len(a) : i \in 1..Len(b) /\ i # 0
    BY DEF Since
  <1>2. Len(a) <= Len(c)
    BY DEF Since
  <1>3. QED
    BY <1>1, <1>2 DEF Since

\* pool.setGuardian(guardian)
LEMMA GuardianSet ==
  ASSUME NEW on \in Seq(Contracts), NEW pool \in 1..Len(on), on[pool].kind = "pool", NEW g \in Nat
  PROVE  LET new == [on EXCEPT ![pool].guardian = g]
         IN  /\ new \in Seq(Contracts) /\ Len(new) = Len(on)
             /\ Since(on, new, pool) /\ new[pool].guardian = g
  <1> DEFINE c == [on[pool] EXCEPT !.guardian = g]
             new == [on EXCEPT ![pool] = c]
  <1>1. on \in [1..Len(on) -> Contracts] /\ Len(on) \in Nat
    BY LenProperties
  <1>2. on[pool] \in Pools
    BY <1>1, KindsDiffer
  <1>3. /\ c \in Pools /\ c.gate = on[pool].gate /\ c.policy = on[pool].policy
        /\ c.kind = "pool" /\ c.guardian = g
    BY <1>2 DEF Pools
  <1>4. c \in Contracts
    BY <1>3 DEF Contracts
  <1> HIDE DEF c
  <1>5. new \in Seq(Contracts) /\ Len(new) = Len(on)
        /\ \A i \in 1..Len(on) : new[i] = IF i = pool THEN c ELSE on[i]
    BY <1>1, <1>4, ExceptSeq
  <1> HIDE DEF new
  <1>6. Since(on, new, pool) /\ new[pool].guardian = g
    BY <1>1, <1>3, <1>5 DEF Since
  <1>7. QED
    BY <1>5, <1>6 DEF new, c

\* registry.setAttestor(key, true)
LEMMA AttestorSet ==
  ASSUME NEW on \in Seq(Contracts), NEW registry \in 1..Len(on), on[registry].kind = "registry",
         NEW key \in Nat
  PROVE  LET new == [on EXCEPT ![registry].attestors = @ \cup {key}]
         IN  /\ new \in Seq(Contracts) /\ Len(new) = Len(on)
             /\ Since(on, new, 0) /\ key \in new[registry].attestors
  <1> DEFINE c == [on[registry] EXCEPT !.attestors = @ \cup {key}]
             new == [on EXCEPT ![registry] = c]
  <1>1. on \in [1..Len(on) -> Contracts] /\ Len(on) \in Nat
    BY LenProperties
  <1>2. on[registry] \in Registries
    BY <1>1, KindsDiffer
  <1>3. /\ c \in Registries /\ c.policy = on[registry].policy
        /\ c.kind = "registry" /\ c.attestors = on[registry].attestors \cup {key}
    BY <1>2 DEF Registries
  <1>4. c \in Contracts
    BY <1>3 DEF Contracts
  <1> HIDE DEF c
  <1>5. new \in Seq(Contracts) /\ Len(new) = Len(on)
        /\ \A i \in 1..Len(on) : new[i] = IF i = registry THEN c ELSE on[i]
    BY <1>1, <1>4, ExceptSeq
  <1> HIDE DEF new
  <1>6. Since(on, new, 0) /\ key \in new[registry].attestors
    BY <1>1, <1>3, <1>5 DEF Since
  <1>7. QED
    BY <1>5, <1>6 DEF new, c

LEMMA PlacedAre ==
  /\ Placed(0) = {} /\ Placed(1) = {"asset"} /\ Placed(2) = {"asset", "policy"}
  /\ Placed(3) = {"asset", "policy", "registry"}
  /\ Placed(4) = {"asset", "policy", "registry", "gate"}
  /\ Placed(5) = {"asset", "policy", "registry", "gate", "pool"}
  /\ Placed(6) = {"asset", "policy", "registry", "gate", "pool", "strategy"}
  /\ Placed(7) = {"asset", "policy", "registry", "gate", "pool", "strategy", "guardian"}
  <1>1. /\ 1..0 = {} /\ 1..1 = {1} /\ 1..2 = {1, 2} /\ 1..3 = {1, 2, 3} /\ 1..4 = {1, 2, 3, 4}
        /\ 1..5 = {1, 2, 3, 4, 5} /\ 1..6 = {1, 2, 3, 4, 5, 6} /\ 1..7 = {1, 2, 3, 4, 5, 6, 7}
    OBVIOUS
  <1>2. /\ DeployOrder[1] = "asset" /\ DeployOrder[2] = "policy" /\ DeployOrder[3] = "registry"
        /\ DeployOrder[4] = "gate" /\ DeployOrder[5] = "pool" /\ DeployOrder[6] = "strategy"
        /\ DeployOrder[7] = "guardian"
    BY DEF DeployOrder
  <1>3. QED
    BY <1>1, <1>2 DEF Placed

\* How many contracts there are is how far the deployment got.
LEMMA PlacedCount ==
  ASSUME NEW n \in 0..7
  PROVE  Cardinality(Placed(n)) = n
  <1> USE PlacedAre
  <1>0. Cardinality(Placed(0)) = 0 /\ IsFiniteSet(Placed(0))
    BY FS_EmptySet
  <1>1. Cardinality(Placed(1)) = 1 /\ IsFiniteSet(Placed(1))
    BY <1>0, FS_AddElement, Placed(1) = Placed(0) \cup {"asset"}
  <1>2. Cardinality(Placed(2)) = 2 /\ IsFiniteSet(Placed(2))
    BY <1>1, FS_AddElement, Placed(2) = Placed(1) \cup {"policy"}
  <1>3. Cardinality(Placed(3)) = 3 /\ IsFiniteSet(Placed(3))
    BY <1>2, FS_AddElement, Placed(3) = Placed(2) \cup {"registry"}
  <1>4. Cardinality(Placed(4)) = 4 /\ IsFiniteSet(Placed(4))
    BY <1>3, FS_AddElement, Placed(4) = Placed(3) \cup {"gate"}
  <1>5. Cardinality(Placed(5)) = 5 /\ IsFiniteSet(Placed(5))
    BY <1>4, FS_AddElement, Placed(5) = Placed(4) \cup {"pool"}
  <1>6. Cardinality(Placed(6)) = 6 /\ IsFiniteSet(Placed(6))
    BY <1>5, FS_AddElement, Placed(6) = Placed(5) \cup {"strategy"}
  <1>7. Cardinality(Placed(7)) = 7
    BY <1>6, FS_AddElement, Placed(7) = Placed(6) \cup {"guardian"}
  <1>8. QED
    BY <1>0, <1>1, <1>2, <1>3, <1>4, <1>5, <1>6, <1>7

\* Contracts of one deployment remain so.
LEMMA TogetherSince ==
  ASSUME NEW at, NEW old, NEW new, NEW pool, Len(old) \in Nat, Len(new) \in Nat,
         Since(old, new, pool), Together(at, old),
         NEW n \in 0..7, DOMAIN at = Placed(n)
  PROVE  Together(at, new)
  <1>1. \A label \in DOMAIN at : at[label] \in 1..Len(old) /\ at[label] \in 1..Len(new)
    BY DEF Together, Since
  <1>2. \A label \in DOMAIN at : old[at[label]].kind = label /\ new[at[label]].kind = label
    BY <1>1 DEF Together, Since
  <1>3. /\ "registry" \in DOMAIN at => new[at["registry"]].policy = at["policy"]
        /\ "gate" \in DOMAIN at => new[at["gate"]].registry = at["registry"]
        /\ "strategy" \in DOMAIN at => new[at["strategy"]].pool = at["pool"]
    BY <1>1, <1>2 DEF Together, Since
  <1>4. ASSUME "guardian" \in DOMAIN at
        PROVE  /\ new[at["guardian"]].registry = at["registry"] /\ new[at["guardian"]].pool = at["pool"]
               /\ new[at["guardian"]].strategy = at["strategy"]
    BY <1>1, <1>2, <1>4 DEF Together, Since
  <1>5. ASSUME "pool" \in DOMAIN at
        PROVE  /\ new[at["pool"]].gate = at["gate"] /\ new[at["pool"]].policy = at["policy"]
               /\ new[at["gate"]].validatorPool = at["pool"]
    <2>1. "gate" \in DOMAIN at
      BY <1>5, PlacedAre
    <2>2. QED
      BY <1>1, <1>2, <1>5, <2>1 DEF Together, Since
  <1>6. QED
    BY <1>1, <1>2, <1>3, <1>4, <1>5 DEF Together

\* What is on record remains so.
LEMMA RecordSince ==
  ASSUME NEW d, NEW old, NEW new, NEW pool, Len(old) \in Nat, Len(new) \in Nat,
         Since(old, new, pool), RecordOK(d, old), d.at["pool"] # pool
  PROVE  RecordOK(d, new)
  <1>1. d \in [at : [Placed(7) -> Nat], attestor : Nat, displaced : BOOLEAN] /\ Together(d.at, old)
    BY DEF RecordOK
  <1>2. DOMAIN d.at = Placed(7)
    BY <1>1
  <1>3. Together(d.at, new)
    BY <1>1, <1>2, TogetherSince
  <1>4. /\ d.at["pool"] \in 1..Len(old) /\ old[d.at["pool"]].kind = "pool"
        /\ d.at["registry"] \in 1..Len(old) /\ old[d.at["registry"]].kind = "registry"
    BY <1>1, <1>2, PlacedAre DEF Together
  <1>5. (Guarded(d.at, old) => Guarded(d.at, new))
        /\ (Authorized(d.at, d.attestor, old) => Authorized(d.at, d.attestor, new))
    BY <1>4 DEF Guarded, Authorized, Since
  <1>6. QED
    BY <1>1, <1>3, <1>5 DEF RecordOK

LEMMA PoolKnownSince ==
  ASSUME NEW old, NEW new, NEW pool, Len(old) \in Nat, Len(new) \in Nat,
         Since(old, new, pool), NEW p, PoolKnown(p, old)
  PROVE  PoolKnown(p, new)
  BY DEF PoolKnown, Since

\* The contracts come in their order, each at the next address.
LEMMA AtGrows ==
  ASSUME NEW n \in 0..6, NEW at \in [Placed(n) -> Nat], NEW a \in Nat
  PROVE  LET label == DeployOrder[n + 1]
             new == Placing(at, label, a)
         IN  /\ new \in [Placed(n + 1) -> Nat]
             /\ new[label] = a /\ \A l \in Placed(n) : new[l] = at[l]
             /\ Placed(n + 1) = Placed(n) \cup {label} /\ label \notin Placed(n)
  <1> DEFINE label == DeployOrder[n + 1]
             new == Placing(at, label, a)
  <1>1. Placed(n + 1) = Placed(n) \cup {label} /\ label \notin Placed(n)
    <2>1. n = 0 \/ n = 1 \/ n = 2 \/ n = 3 \/ n = 4 \/ n = 5 \/ n = 6
      OBVIOUS
    <2>2. QED
      BY <2>1, PlacedAre DEF DeployOrder
  <1> HIDE DEF label
  <1>2. new = [l \in Placed(n + 1) |-> IF l = label THEN a ELSE at[l]]
    BY <1>1 DEF Placing
  <1>3. QED
    BY <1>1, <1>2 DEF label

LEMMA DeployShape ==
  ASSUME NEW j, NEW on, DeployOK(j, on)
  PROVE  \E n \in 0..7 : /\ j.at \in [Placed(n) -> Nat] /\ DOMAIN j.at = Placed(n)
                         /\ Cardinality(DOMAIN j.at) = n
  BY PlacedCount DEF DeployOK

\* A deployment under way is not disturbed by what others add.
LEMMA DeploySince ==
  ASSUME NEW j, NEW old, NEW new, NEW pool, Len(old) \in Nat, Len(new) \in Nat,
         Since(old, new, pool), DeployOK(j, old), j.wired = 0 \/ j.at["pool"] # pool
  PROVE  DeployOK(j, new)
  <1>1. PICK n \in 0..7 : j.at \in [Placed(n) -> Nat] /\ DOMAIN j.at = Placed(n)
    BY DeployShape
  <1>2. Together(j.at, old)
    BY DEF DeployOK
  <1>3. Together(j.at, new)
    BY <1>1, <1>2, TogetherSince
  <1>4. "gate" \in DOMAIN j.at => j.predicted # 0 /\ new[j.at["gate"]].validatorPool = j.predicted
    BY <1>2 DEF DeployOK, Together, Since
  <1>5. DOMAIN j.at = Placed(7) =>
          /\ j.at["pool"] \in 1..Len(old) /\ old[j.at["pool"]].kind = "pool"
          /\ j.at["registry"] \in 1..Len(old) /\ old[j.at["registry"]].kind = "registry"
    BY <1>2, PlacedAre DEF Together
  <1>6. j.wired > 0 => j.wired # 0
    OBVIOUS
  <1>7. j.wired > 0 => DOMAIN j.at = Placed(7) /\ (j.displaced \/ Guarded(j.at, new))
    BY <1>5, <1>6 DEF DeployOK, Guarded, Since
  <1>8. j.wired = 2 => DOMAIN j.at = Placed(7) /\ (j.displaced \/ Authorized(j.at, j.attestor, new))
    BY <1>5 DEF DeployOK, Authorized, Since
  <1>9. QED
    BY <1>3, <1>4, <1>7, <1>8 DEF DeployOK

\* Nor is the authorization of a new key.
LEMMA FixSince ==
  ASSUME NEW j, NEW d, NEW old, NEW new, Len(old) \in Nat, Len(new) \in Nat,
         Since(old, new, 0), FixOK(j, d, old)
  PROVE  FixOK(j, d, new)
  <1>1. d \in [at : [Placed(7) -> Nat], attestor : Nat, displaced : BOOLEAN] /\ Together(d.at, old)
    BY DEF FixOK, RecordOK
  <1>2. /\ d.at["pool"] \in 1..Len(old)
        /\ d.at["registry"] \in 1..Len(old) /\ old[d.at["registry"]].kind = "registry"
    BY <1>1, PlacedAre DEF Together
  <1>3. RecordOK(d, new)
    BY <1>2, RecordSince DEF FixOK
  <1>4. QED
    BY <1>2, <1>3 DEF FixOK, Authorized, Since

LEMMA PoolsOnRecord ==
  ASSUME DeploymentInv, deployments # NoDeployment
  PROVE  /\ deployments.at["pool"] \in 1..Len(created)
         /\ PoolKnown(deployments.at["pool"], created)
  <1>1. RecordOK(deployments, created)
    BY DEF DeploymentInv
  <1>2. deployments.at \in [Placed(7) -> Nat] /\ Together(deployments.at, created)
    BY <1>1 DEF RecordOK
  <1>3. QED
    BY <1>2, PlacedAre DEF Together, PoolKnown

\* What was deployed, and what the validator was told, outlives what is done to other contracts.
LEMMA WorldSince ==
  ASSUME DeploymentInv, NEW new \in Seq(Contracts), NEW pool, Since(created, new, pool),
         deployments # NoDeployment => deployments.at["pool"] # pool
  PROVE  /\ deployments # NoDeployment => RecordOK(deployments, new)
         /\ \A p \in registered : PoolKnown(p, new)
  <1>1. Len(created) \in Nat /\ Len(new) \in Nat
    BY LenProperties DEF DeploymentInv
  <1>2. QED
    BY <1>1, RecordSince, PoolKnownSince DEF DeploymentInv

\* A generated key is kept, and none that was held is lost.
LEMMA KeyKept ==
  ASSUME DeploymentInv, NEW name \in Variables, generatePrivateKey(name)
  PROVE  /\ keys' \in Nat /\ env' \in [Variables -> Nat \union {NoKey}]
         /\ name \in unkept' \/ keys' = env'[name]
         /\ \A v \in Variables, k \in Nat : (v \in unkept \/ k = env[v]) => (v \in unkept' \/ k = env'[v])
  BY DeploymentConstants DEF DeploymentConstants, DeploymentInv, generatePrivateKey, persistSecretToEnv

\* What a step does not reach when it spends a nonce only
LEMMA Elsewhere ==
  ASSUME DeploymentInv, UNCHANGED <<env, keys, unkept, passes, registered, deployments>>,
         created' \in Seq(Contracts), NEW pool, Since(created, created', pool),
         deployments # NoDeployment => deployments.at["pool"] # pool,
         \/ job' = NoJob
         \/ /\ Deploying' /\ DeployOK(job', created') /\ Kept("ATTESTOR_PRIVATE_KEY", job'.attestor)
            /\ deployments # NoDeployment /\ "pool" \in DOMAIN job'.at =>
                 deployments.at["pool"] # job'.at["pool"]
         \/ /\ FixOK(job', deployments, created') /\ Kept("ATTESTOR_PRIVATE_KEY", job'.attestor)
            /\ deployments # NoDeployment
  PROVE  DeploymentInv'
  <1>1. (deployments # NoDeployment => RecordOK(deployments, created'))
        /\ \A p \in registered : PoolKnown(p, created')
    BY WorldSince
  <1>2. QED
    BY <1>1 DEF DeploymentInv, Kept

-----------------------------------------------------------------------------

LEMMA SpentKeeps ==
  ASSUME DeploymentInv, othersSpend
  PROVE  DeploymentInv'
  <1>1. created \in Seq(Contracts) /\ created' = Append(created, Foreign)
    BY DEF DeploymentInv, othersSpend, SpentByOthers, Spends
  <1>2. Foreign \in Contracts
    BY DEF Foreign, Contracts
  <1>3. created' \in Seq(Contracts) /\ Since(created, created', 0)
    BY <1>1, <1>2, SinceAppended
  <1>4. Len(created) \in Nat /\ Len(created') \in Nat
    BY <1>1, <1>3, LenProperties
  <1>5. UNCHANGED <<env, keys, unkept, passes, registered, deployments, job>>
    BY DEF othersSpend
  <1>6. deployments # NoDeployment => deployments.at["pool"] # 0
    BY PoolsOnRecord
  <1>7. DeployOK(job, created) => DeployOK(job, created')
    <2>1. SUFFICES ASSUME DeployOK(job, created)
                   PROVE  DeployOK(job, created')
      OBVIOUS
    <2>2. DOMAIN job.at = Placed(7) => job.at["pool"] # 0
      BY <2>1, PlacedAre DEF DeployOK, Together
    <2>3. job.wired = 0 \/ job.at["pool"] # 0
      BY <2>1, <2>2 DEF DeployOK
    <2>4. QED
      BY <1>3, <1>4, <2>1, <2>3, DeploySince
  <1>8. FixOK(job, deployments, created) => FixOK(job, deployments, created')
    BY <1>3, <1>4, FixSince
  <1>9. QED
    <2>1. CASE job = NoJob
      BY <1>3, <1>5, <1>6, <2>1, Elsewhere
    <2>2. CASE /\ Deploying /\ DeployOK(job, created) /\ Kept("ATTESTOR_PRIVATE_KEY", job.attestor)
               /\ deployments # NoDeployment /\ "pool" \in DOMAIN job.at =>
                    deployments.at["pool"] # job.at["pool"]
      <3>1. /\ Deploying' /\ DeployOK(job', created') /\ Kept("ATTESTOR_PRIVATE_KEY", job'.attestor)
            /\ deployments # NoDeployment /\ "pool" \in DOMAIN job'.at =>
                 deployments.at["pool"] # job'.at["pool"]
        BY <1>5, <1>7, <2>2 DEF Deploying
      <3>2. QED
        BY <1>3, <1>5, <1>6, <3>1, Elsewhere
    <2>3. CASE /\ FixOK(job, deployments, created) /\ Kept("ATTESTOR_PRIVATE_KEY", job.attestor)
               /\ deployments # NoDeployment
      BY <1>3, <1>5, <1>6, <1>8, <2>3, Elsewhere
    <2>4. QED
      BY <2>1, <2>2, <2>3 DEF DeploymentInv

LEMMA DeployStarts ==
  ASSUME DeploymentInv, startDeploy
  PROVE  DeploymentInv'
  <1> DEFINE key == job'.attestor
  <1>1. /\ \/ env["ATTESTOR_PRIVATE_KEY"] # NoKey /\ UNCHANGED <<env, keys, unkept>>
             /\ key = env["ATTESTOR_PRIVATE_KEY"]
           \/ generatePrivateKey("ATTESTOR_PRIVATE_KEY") /\ key = keys'
        /\ job' = [name |-> "deploy", attestor |-> key, predicted |-> 0, at |-> <<>>, wired |-> 0,
                   displaced |-> FALSE]
        /\ UNCHANGED <<created, passes, registered, deployments>>
    BY DEF startDeploy
  <1>2. "ATTESTOR_PRIVATE_KEY" \in Variables
    BY DEF Variables
  <1>3. /\ keys' \in Nat /\ env' \in [Variables -> Nat \union {NoKey}]
        /\ key \in Nat /\ ("ATTESTOR_PRIVATE_KEY" \in unkept' \/ key = env'["ATTESTOR_PRIVATE_KEY"])
        /\ \A v \in Variables, k \in Nat : (v \in unkept \/ k = env[v]) => (v \in unkept' \/ k = env'[v])
    <2>1. keys \in Nat /\ env \in [Variables -> Nat \union {NoKey}]
      BY DEF DeploymentInv
    <2>2. CASE UNCHANGED <<env, keys, unkept>> /\ env["ATTESTOR_PRIVATE_KEY"] # NoKey
               /\ key = env["ATTESTOR_PRIVATE_KEY"]
      BY <1>2, <2>1, <2>2
    <2>3. CASE generatePrivateKey("ATTESTOR_PRIVATE_KEY") /\ key = keys'
      BY <1>2, <2>3, KeyKept
    <2>4. QED
      BY <1>1, <2>2, <2>3
  <1>4. DeployOK(job, created)'
    <2>1. DOMAIN <<>> = {} /\ <<>> \in [{} -> Nat]
      OBVIOUS
    <2>2. Together(<<>>, created')
      BY <2>1 DEF Together
    <2>3. \E n \in 0..7 : <<>> \in [Placed(n) -> Nat]
      BY <2>1, PlacedAre, 0 \in 0..7
    <2> HIDE DEF key
    <2>4. QED
      BY <1>1, <1>3, <2>1, <2>2, <2>3 DEF DeployOK
  <1>5. Deploying' /\ "pool" \notin DOMAIN job'.at
    BY <1>1 DEF Deploying
  <1> HIDE DEF key
  <1>6. \A v, k : v \in Variables /\ Kept(v, k) => Kept(v, k)'
    BY <1>3 DEF Kept
  <1>7. DeploymentInv'
    <2>1. /\ deployments' # NoDeployment =>
               RecordOK(deployments, created)' /\ Kept("ATTESTOR_PRIVATE_KEY", deployments.attestor)'
      BY <1>1, <1>2, <1>6 DEF DeploymentInv
    <2>2. \A pass \in passes' : pass[1] \in Variables /\ Kept(pass[1], pass[2])'
      BY <1>1, <1>6 DEF DeploymentInv
    <2>3. \A pool \in registered' : PoolKnown(pool, created')
      BY <1>1 DEF DeploymentInv
    <2>4. created' \in Seq(Contracts)
      BY <1>1 DEF DeploymentInv
    <2>5. Kept("ATTESTOR_PRIVATE_KEY", job.attestor)'
      BY <1>3 DEF Kept, key
    <2>6. keys' \in Nat /\ env' \in [Variables -> Nat \union {NoKey}]
      BY <1>3
    <2>7. QED
      BY <1>4, <1>5, <2>1, <2>2, <2>3, <2>4, <2>5, <2>6 DEF DeploymentInv
  <1>8. QED
    BY <1>7

LEMMA PredictKeeps ==
  ASSUME DeploymentInv, predictPool
  PROVE  DeploymentInv'
  <1>1. /\ Deploying /\ job.predicted = 0 /\ job' = [job EXCEPT !.predicted = Nonce + PoolsPlace]
        /\ UNCHANGED <<created, env, keys, unkept, passes, registered, deployments>>
    BY DEF predictPool
  <1>2. /\ DeployOK(job, created) /\ Kept("ATTESTOR_PRIVATE_KEY", job.attestor)
        /\ deployments # NoDeployment /\ "pool" \in DOMAIN job.at =>
             deployments.at["pool"] # job.at["pool"]
    BY <1>1 DEF DeploymentInv, Deploying, FixOK, NoJob
  <1>3. Nonce + PoolsPlace \in Nat \ {0}
    BY LenProperties DEF DeploymentInv, Nonce, PoolsPlace
  <1>4. /\ job' \in [name : {"deploy"}, attestor : Nat, predicted : Nat \ {0}, at : {job.at},
                     wired : 0..2, displaced : BOOLEAN]
        /\ job'.at = job.at /\ job'.attestor = job.attestor /\ job'.wired = job.wired
        /\ job'.displaced = job.displaced
    BY <1>1, <1>2, <1>3 DEF DeployOK
  <1>5. "gate" \notin DOMAIN job.at
    BY <1>1, <1>2 DEF DeployOK
  <1>6. DeployOK(job', created')
    BY <1>1, <1>2, <1>4, <1>5 DEF DeployOK
  <1>7. Deploying'
    BY <1>4 DEF Deploying
  <1>8. QED
    BY <1>1, <1>2, <1>4, <1>6, <1>7 DEF DeploymentInv, Kept

LEMMA Landed ==
  ASSUME NEW n \in 0..6, NEW at \in [Placed(n) -> Nat], NEW on \in Seq(Contracts), Together(at, on),
         NEW j, j.at = at, NEW c \in Contracts,
         LET label == DeployOrder[n + 1]
         IN  /\ c.kind = label
             /\ label = "registry" => c.policy = at["policy"]
             /\ label = "gate" => c.registry = at["registry"]
             /\ label = "pool" => c.gate = at["gate"] /\ c.policy = at["policy"]
                                  /\ on[at["gate"]].validatorPool = Len(on) + 1
             /\ label = "strategy" => c.pool = at["pool"]
             /\ label = "guardian" => c.registry = at["registry"] /\ c.pool = at["pool"]
                                      /\ c.strategy = at["strategy"]
  PROVE  Together(Placing(at, DeployOrder[n + 1], Len(on) + 1), Append(on, c))
  <1> DEFINE label == DeployOrder[n + 1]
             a == Len(on) + 1
             new == Placing(at, label, a)
             on2 == Append(on, c)
  <1>1. /\ Len(on2) = a /\ on2[a] = c /\ on2 \in Seq(Contracts) /\ Len(on) \in Nat
        /\ \A i \in 1..Len(on) : on2[i] = on[i]
    BY AppendProperties, LenProperties
  <1>2. /\ DOMAIN new = Placed(n) \cup {label} /\ label \notin Placed(n) /\ DOMAIN new = Placed(n + 1)
        /\ new[label] = a /\ \A l \in Placed(n) : new[l] = at[l]
    <2>1. a \in Nat
      BY <1>1
    <2> HIDE DEF a
    <2>2. /\ new \in [Placed(n + 1) -> Nat]
          /\ new[label] = a /\ \A l \in Placed(n) : new[l] = at[l]
          /\ Placed(n + 1) = Placed(n) \cup {label} /\ label \notin Placed(n)
      BY <2>1, AtGrows, Zenon
    <2> HIDE DEF new, label
    <2>3. DOMAIN new = Placed(n + 1)
      BY <2>2
    <2>4. QED
      BY <2>2, <2>3, Zenon
  <1>3. Together(at, on2)
    BY <1>1, SinceAppended, TogetherSince, DOMAIN at = Placed(n)
  <1>4. label = DeployOrder[n + 1] /\ DOMAIN at = Placed(n)
    OBVIOUS
  <1> HIDE DEF new, on2, label, a
  <1>5. \A l \in DOMAIN new : new[l] \in 1..Len(on2) /\ on2[new[l]].kind = l
    <2>1. \A l \in Placed(n) : new[l] \in 1..Len(on2) /\ on2[new[l]].kind = l
      BY <1>2, <1>3, <1>4 DEF Together
    <2>2. a \in 1..Len(on2) /\ c.kind = label
      BY <1>1 DEF a, label
    <2>3. QED
      BY <1>1, <1>2, <2>1, <2>2
  <1>6. n = 0 \/ n = 1 \/ n = 2 \/ n = 3 \/ n = 4 \/ n = 5 \/ n = 6
    OBVIOUS
  <1>7. /\ n = 0 => label = "asset"
        /\ n = 1 => label = "policy"
        /\ n = 2 => label = "registry"
        /\ n = 3 => label = "gate"
        /\ n = 4 => label = "pool"
        /\ n = 5 => label = "strategy"
        /\ n = 6 => label = "guardian"
    BY DEF label, DeployOrder
  <1>8. ASSUME "registry" \in DOMAIN new
        PROVE  on2[new["registry"]].policy = new["policy"]
    <2>1. "policy" \in Placed(n)
      BY <1>2, <1>6, <1>8, PlacedAre
    <2>2. CASE label = "registry"
      BY <1>1, <1>2, <2>1, <2>2 DEF label
    <2>3. CASE "registry" \in Placed(n)
      BY <1>2, <1>3, <1>4, <2>1, <2>3 DEF Together
    <2>4. QED
      BY <1>2, <1>8, <2>2, <2>3
  <1>9. ASSUME "gate" \in DOMAIN new
        PROVE  on2[new["gate"]].registry = new["registry"]
    <2>1. "registry" \in Placed(n)
      BY <1>2, <1>6, <1>9, PlacedAre
    <2>2. CASE label = "gate"
      BY <1>1, <1>2, <2>1, <2>2 DEF label
    <2>3. CASE "gate" \in Placed(n)
      BY <1>2, <1>3, <1>4, <2>1, <2>3 DEF Together
    <2>4. QED
      BY <1>2, <1>9, <2>2, <2>3
  <1>10. ASSUME "pool" \in DOMAIN new
         PROVE  /\ on2[new["pool"]].gate = new["gate"] /\ on2[new["pool"]].policy = new["policy"]
                /\ on2[new["gate"]].validatorPool = new["pool"]
    <2>1. {"gate", "policy"} \subseteq Placed(n)
      BY <1>2, <1>6, <1>10, PlacedAre
    <2>2. CASE label = "pool"
      BY <1>1, <1>2, <1>3, <1>4, <2>1, <2>2 DEF Together, label, a
    <2>3. CASE "pool" \in Placed(n)
      BY <1>2, <1>3, <1>4, <2>1, <2>3 DEF Together
    <2>4. QED
      BY <1>2, <1>10, <2>2, <2>3
  <1>11. ASSUME "strategy" \in DOMAIN new
         PROVE  on2[new["strategy"]].pool = new["pool"]
    <2>1. "pool" \in Placed(n)
      BY <1>2, <1>6, <1>11, PlacedAre
    <2>2. CASE label = "strategy"
      BY <1>1, <1>2, <2>1, <2>2 DEF label
    <2>3. CASE "strategy" \in Placed(n)
      BY <1>2, <1>3, <1>4, <2>1, <2>3 DEF Together
    <2>4. QED
      BY <1>2, <1>11, <2>2, <2>3
  <1>12. ASSUME "guardian" \in DOMAIN new
         PROVE  /\ on2[new["guardian"]].registry = new["registry"]
                /\ on2[new["guardian"]].pool = new["pool"]
                /\ on2[new["guardian"]].strategy = new["strategy"]
    <2>1. {"registry", "pool", "strategy"} \subseteq Placed(n)
      BY <1>2, <1>6, <1>12, PlacedAre
    <2>2. CASE label = "guardian"
      BY <1>1, <1>2, <2>1, <2>2 DEF label
    <2>3. CASE "guardian" \in Placed(n)
      BY <1>2, <1>3, <1>4, <2>1, <2>3 DEF Together
    <2>4. QED
      BY <1>2, <1>12, <2>2, <2>3
  <1>13. Together(new, on2)
    BY <1>5, <1>8, <1>9, <1>10, <1>11, <1>12 DEF Together
  <1>14. QED
    BY <1>13 DEF new, on2, label, a

LEMMA DeployKeeps ==
  ASSUME DeploymentInv, deploy
  PROVE  DeploymentInv'
  <1> DEFINE label == DeployOrder[Deployed + 1]
             c == Contract(label)
             a == Len(created) + 1
  <1>1. /\ Deploying /\ job.predicted # 0 /\ Deployed < 7
        /\ created' = Append(created, c)
        /\ job' = IF label = "pool" => a = job.predicted
                  THEN [job EXCEPT !.at = Placing(@, label, a)] ELSE NoJob
        /\ UNCHANGED <<env, keys, unkept, passes, registered, deployments>>
    <2>1. Len(DeployOrder) = 7
      BY DEF DeployOrder
    <2>2. QED
      BY <2>1 DEF deploy, Spends, LandedAsPredicted, Nonce
  <1>2. /\ DeployOK(job, created) /\ Kept("ATTESTOR_PRIVATE_KEY", job.attestor)
        /\ deployments # NoDeployment /\ "pool" \in DOMAIN job.at =>
             deployments.at["pool"] # job.at["pool"]
    BY <1>1 DEF DeploymentInv, Deploying, FixOK, NoJob
  <1>3. PICK n \in 0..6 : job.at \in [Placed(n) -> Nat] /\ DOMAIN job.at = Placed(n) /\ Deployed = n
    BY <1>1, <1>2, DeployShape DEF Deployed
  <1>4. created \in Seq(Contracts) /\ Len(created) \in Nat
    BY LenProperties DEF DeploymentInv
  <1>5. label \in {"asset", "policy", "registry", "gate", "pool", "strategy", "guardian"}
        /\ label = DeployOrder[n + 1]
        /\ (label = "policy" => n = 1) /\ (label = "registry" => n = 2) /\ (label = "gate" => n = 3)
        /\ (label = "pool" => n = 4) /\ (label = "strategy" => n = 5) /\ (label = "guardian" => n = 6)
    <2>1. n = 0 \/ n = 1 \/ n = 2 \/ n = 3 \/ n = 4 \/ n = 5 \/ n = 6
      OBVIOUS
    <2>2. QED
      BY <1>3, <2>1 DEF DeployOrder
  <1> HIDE DEF label
  <1>6. /\ label \in {"gate", "guardian"} => job.at["registry"] \in Nat
        /\ label \in {"registry", "pool"} => job.at["policy"] \in Nat
        /\ label = "pool" => job.at["gate"] \in Nat
        /\ label = "strategy" => job.at["pool"] \in Nat
        /\ label = "guardian" => job.at["pool"] \in Nat /\ job.at["strategy"] \in Nat
        /\ job.predicted \in Nat
    BY <1>2, <1>3, <1>5, PlacedAre DEF DeployOK
  <1>7. /\ c \in Contracts /\ c.kind = label
        /\ label = "registry" => c.policy = job.at["policy"]
        /\ label = "gate" => c.registry = job.at["registry"] /\ c.validatorPool = job.predicted
        /\ label = "pool" => c.gate = job.at["gate"] /\ c.policy = job.at["policy"]
        /\ label = "strategy" => c.pool = job.at["pool"]
        /\ label = "guardian" => c.registry = job.at["registry"] /\ c.pool = job.at["pool"]
                                 /\ c.strategy = job.at["strategy"]
    <2>1. CASE label = "registry"
      BY <1>6, <2>1 DEF Contract, Contracts, Registries
    <2>2. CASE label = "gate"
      BY <1>6, <2>2 DEF Contract, Contracts, Gates
    <2>3. CASE label = "pool"
      BY <1>6, <2>3 DEF Contract, Contracts, Pools
    <2>4. CASE label = "strategy"
      BY <1>6, <2>4 DEF Contract, Contracts, Strategies
    <2>5. CASE label = "guardian"
      BY <1>6, <2>5 DEF Contract, Contracts, Guardians
    <2>6. CASE label \in {"asset", "policy"}
      BY <2>6 DEF Contract, Contracts
    <2>7. QED
      BY <1>5, <2>1, <2>2, <2>3, <2>4, <2>5, <2>6
  <1> HIDE DEF c
  <1>8. created' \in Seq(Contracts) /\ Since(created, created', 0) /\ Len(created') = a
        /\ created'[a] = c /\ \A i \in 1..Len(created) : created'[i] = created[i]
    BY <1>1, <1>4, <1>7, SinceAppended, AppendProperties
  <1>9. deployments # NoDeployment => deployments.at["pool"] \in 1..Len(created)
    BY PoolsOnRecord
  <1>10. CASE ~(label = "pool" => a = job.predicted)
    <2>1. deployments # NoDeployment => deployments.at["pool"] # 0
      BY <1>9
    <2>2. job' = NoJob
      BY <1>1, <1>10
    <2>3. QED
      BY <1>1, <1>8, <2>1, <2>2, Elsewhere
  <1>11. CASE label = "pool" => a = job.predicted
    <2> DEFINE at2 == Placing(job.at, label, a)
    <2>1. /\ at2 \in [Placed(n + 1) -> Nat] /\ at2[label] = a
          /\ DOMAIN at2 = Placed(n) \cup {label}
          /\ \A l \in Placed(n) : at2[l] = job.at[l]
      <3>1. a \in Nat
        BY <1>4
      <3>2. ASSUME NEW at \in [Placed(n) -> Nat], NEW x \in Nat
            PROVE  LET new == Placing(at, DeployOrder[n + 1], x)
                   IN  /\ new \in [Placed(n + 1) -> Nat]
                       /\ new[DeployOrder[n + 1]] = x /\ \A l \in Placed(n) : new[l] = at[l]
        BY <1>3, AtGrows
      <3>3. DOMAIN at2 = Placed(n) \cup {label}
        BY <1>3 DEF Placing
      <3>4. QED
        BY <1>3, <1>5, <3>1, <3>2, <3>3, Zenon
    <2>2. Together(job.at, created) /\ ("gate" \in DOMAIN job.at =>
             created[job.at["gate"]].validatorPool = job.predicted)
      BY <1>2 DEF DeployOK
    <2>3. label = "pool" => created[job.at["gate"]].validatorPool = a
      BY <1>3, <1>5, <1>11, <2>2, PlacedAre
    <2>4. Together(at2, created')
      BY <1>1, <1>3, <1>4, <1>5, <1>7, <2>2, <2>3, Landed
    <2> HIDE DEF at2
    <2>5. "gate" \in DOMAIN at2 => created'[at2["gate"]].validatorPool = job.predicted
      <3>1. CASE "gate" \in Placed(n)
        BY <1>3, <1>8, <2>1, <2>2, <3>1 DEF Together
      <3>2. CASE label = "gate"
        BY <1>7, <1>8, <2>1, <3>2
      <3>3. "gate" \in DOMAIN at2 => "gate" \in Placed(n) \/ label = "gate"
        BY <2>1, Zenon
      <3>4. QED
        BY <3>1, <3>2, <3>3
    <2>6. job' = [job EXCEPT !.at = at2]
      BY <1>1, <1>11 DEF at2
    <2>7. /\ job' \in [name : {"deploy"}, attestor : Nat, predicted : Nat, at : {at2},
                       wired : 0..2, displaced : BOOLEAN]
          /\ job'.at = at2 /\ job'.attestor = job.attestor /\ job'.wired = job.wired
          /\ job'.predicted = job.predicted
      BY <1>2, <2>6 DEF DeployOK
    <2>8. job.wired = 0
      <3>1. Cardinality(Placed(7)) = 7
        BY PlacedCount
      <3>2. n # 7 /\ Cardinality(Placed(n)) = n
        BY PlacedCount
      <3>3. QED
        BY <1>2, <1>3, <3>1, <3>2 DEF DeployOK
    <2>9. n + 1 \in 0..7
      OBVIOUS
    <2>10. DeployOK(job', created')
      <3>1. \E m \in 0..7 : job'.at \in [Placed(m) -> Nat]
        BY <2>1, <2>7, <2>9
      <3>2. job' \in [name : {"deploy"}, attestor : Nat, predicted : Nat, at : {job'.at},
                      wired : 0..2, displaced : BOOLEAN]
        BY <2>7
      <3>3. "gate" \in DOMAIN job'.at =>
              job'.predicted # 0 /\ created'[job'.at["gate"]].validatorPool = job'.predicted
        BY <1>1, <2>5, <2>7
      <3>4. Together(job'.at, created') /\ ~(job'.wired > 0) /\ job'.wired # 2
        BY <2>4, <2>7, <2>8
      <3>5. QED
        BY <3>1, <3>2, <3>3, <3>4 DEF DeployOK
    <2>11. Deploying' /\ Kept("ATTESTOR_PRIVATE_KEY", job'.attestor)
      BY <1>2, <2>7 DEF Deploying
    <2>12. deployments # NoDeployment /\ "pool" \in DOMAIN job'.at =>
             deployments.at["pool"] # job'.at["pool"]
      <3>1. CASE "pool" \in Placed(n)
        BY <1>2, <1>3, <2>1, <2>7, <3>1
      <3>2. CASE label = "pool"
        BY <1>4, <1>9, <2>1, <2>7, <3>2
      <3>3. DOMAIN job'.at = Placed(n) \cup {label}
        BY <2>1, <2>7, Zenon
      <3>4. QED
        BY <3>1, <3>2, <3>3
    <2>13. deployments # NoDeployment => deployments.at["pool"] # 0
      BY <1>9
    <2>14. QED
      BY <1>1, <1>8, <2>10, <2>11, <2>12, <2>13, Elsewhere
  <1>12. QED
    BY <1>10, <1>11

\* An owner call was sent, or the nonce went to another transaction.
LEMMA WiringSends ==
  ASSUME DeploymentInv, NEW on \in Seq(Contracts), NEW pool, Since(created, on, pool), SendsWiring(on)
  PROVE  /\ created' \in Seq(Contracts) /\ Since(created, created', pool)
         /\ \/ job' = [job EXCEPT !.wired = @ + 1] /\ Since(on, created', 0)
            \/ job' = [job EXCEPT !.wired = @ + 1, !.displaced = TRUE]
  <1>1. created \in Seq(Contracts) /\ Len(created) \in Nat /\ Len(on) \in Nat
    BY LenProperties DEF DeploymentInv
  <1>2. Foreign \in Contracts /\ NoContract \in Contracts
    BY DEF Foreign, NoContract, Contracts
  <1>3. CASE created' = Append(on, NoContract) /\ job' = [job EXCEPT !.wired = @ + 1]
    <2>1. created' \in Seq(Contracts) /\ Since(on, created', 0)
      BY <1>2, <1>3, SinceAppended
    <2>2. Len(created') \in Nat
      BY <2>1, LenProperties
    <2>3. Since(created, created', pool)
      BY <1>1, <2>1, <2>2, SinceThen
    <2>4. QED
      BY <1>3, <2>1, <2>3
  <1>4. CASE created' = Append(created, Foreign) /\ job' = [job EXCEPT !.wired = @ + 1, !.displaced = TRUE]
    <2>1. created' \in Seq(Contracts) /\ Since(created, created', 0)
      BY <1>1, <1>2, <1>4, SinceAppended
    <2>2. Since(created, created', pool)
      BY <1>1, <2>1 DEF Since
    <2>3. QED
      BY <1>4, <2>1, <2>2
  <1>5. QED
    BY <1>3, <1>4 DEF SendsWiring, Spends, SpentByOthers

LEMMA DeployWired ==
  ASSUME NEW j, NEW on, DeployOK(j, on), j.wired \in 0..1, NEW k,
         \/ k = [j EXCEPT !.wired = @ + 1]
         \/ k = [j EXCEPT !.wired = @ + 1, !.displaced = TRUE]
  PROVE  /\ k \in [name : {"deploy"}, attestor : Nat, predicted : Nat, at : {j.at},
                   wired : {j.wired + 1}, displaced : BOOLEAN]
         /\ k.at = j.at /\ k.attestor = j.attestor /\ k.predicted = j.predicted
         /\ k.wired = j.wired + 1
         /\ k = [j EXCEPT !.wired = @ + 1] => k.displaced = j.displaced
         /\ k = [j EXCEPT !.wired = @ + 1, !.displaced = TRUE] => k.displaced
  <1>1. j \in [name : {"deploy"}, attestor : Nat, predicted : Nat, at : {j.at}, wired : 0..2,
               displaced : BOOLEAN]
    BY DEF DeployOK
  <1>2. QED
    BY <1>1

\* The deployment is whole when it is wired.
LEMMA WholeDeployment ==
  ASSUME NEW j, NEW on, DeployOK(j, on), Cardinality(DOMAIN j.at) = 7 \/ j.wired > 0
  PROVE  /\ j.at \in [Placed(7) -> Nat] /\ DOMAIN j.at = Placed(7) /\ Together(j.at, on)
         /\ j.at["pool"] \in 1..Len(on) /\ on[j.at["pool"]].kind = "pool"
         /\ j.at["registry"] \in 1..Len(on) /\ on[j.at["registry"]].kind = "registry"
         /\ j.at["guardian"] \in Nat
  <1>1. PICK n \in 0..7 : /\ j.at \in [Placed(n) -> Nat] /\ DOMAIN j.at = Placed(n)
                          /\ Cardinality(DOMAIN j.at) = n
    BY DeployShape
  <1>2. j.wired > 0 => Cardinality(DOMAIN j.at) = 7
    BY PlacedCount DEF DeployOK
  <1>3. j.at \in [Placed(7) -> Nat] /\ DOMAIN j.at = Placed(7) /\ Together(j.at, on)
    BY <1>1, <1>2 DEF DeployOK
  <1>4. QED
    BY <1>3, PlacedAre DEF Together

LEMMA GuardianKeeps ==
  ASSUME DeploymentInv, setGuardian
  PROVE  DeploymentInv'
  <1> DEFINE pool == job.at["pool"]
             guardian == job.at["guardian"]
             on == [created EXCEPT ![pool].guardian = guardian]
  <1>1. /\ Deploying /\ Cardinality(DOMAIN job.at) = 7 /\ job.wired = 0 /\ SendsWiring(on)
        /\ UNCHANGED <<env, keys, unkept, passes, registered, deployments>>
    BY DEF setGuardian, Deployed, DeployOrder
  <1>2. /\ DeployOK(job, created) /\ Kept("ATTESTOR_PRIVATE_KEY", job.attestor)
        /\ deployments # NoDeployment /\ "pool" \in DOMAIN job.at => deployments.at["pool"] # pool
    BY <1>1 DEF DeploymentInv, Deploying, FixOK, NoJob
  <1>3. /\ job.at \in [Placed(7) -> Nat] /\ DOMAIN job.at = Placed(7)
        /\ pool \in 1..Len(created) /\ created[pool].kind = "pool" /\ guardian \in Nat
    BY <1>1, <1>2, WholeDeployment
  <1>4. created \in Seq(Contracts) /\ Len(created) \in Nat
    BY LenProperties DEF DeploymentInv
  <1>5. on \in Seq(Contracts) /\ Len(on) = Len(created) /\ Since(created, on, pool)
        /\ on[pool].guardian = guardian
    <2>1. ASSUME NEW p \in 1..Len(created), created[p].kind = "pool", NEW g \in Nat
          PROVE  LET new == [created EXCEPT ![p].guardian = g]
                 IN  /\ new \in Seq(Contracts) /\ Len(new) = Len(created)
                     /\ Since(created, new, p) /\ new[p].guardian = g
      BY <1>4, <2>1, GuardianSet
    <2> HIDE DEF pool, guardian
    <2>2. QED
      BY <1>3, <2>1, Zenon
  <1> HIDE DEF on
  <1>6. /\ created' \in Seq(Contracts) /\ Since(created, created', pool)
        /\ \/ job' = [job EXCEPT !.wired = @ + 1] /\ Since(on, created', 0)
           \/ job' = [job EXCEPT !.wired = @ + 1, !.displaced = TRUE]
    BY <1>1, <1>5, WiringSends
  <1>7. Len(created') \in Nat
    BY <1>6, LenProperties
  <1>8. DeployOK(job, created')
    BY <1>1, <1>2, <1>4, <1>6, <1>7, DeploySince
  <1>9. /\ job' \in [name : {"deploy"}, attestor : Nat, predicted : Nat, at : {job.at},
                     wired : {1}, displaced : BOOLEAN]
        /\ job'.at = job.at /\ job'.attestor = job.attestor /\ job'.predicted = job.predicted
        /\ job'.wired = 1
        /\ job' = [job EXCEPT !.wired = @ + 1, !.displaced = TRUE] => job'.displaced
    <2>1. job.wired \in 0..1 /\ job.wired + 1 = 1
      BY <1>1
    <2>2. /\ job' \in [name : {"deploy"}, attestor : Nat, predicted : Nat, at : {job.at},
                       wired : {job.wired + 1}, displaced : BOOLEAN]
          /\ job'.at = job.at /\ job'.attestor = job.attestor
          /\ job'.predicted = job.predicted /\ job'.wired = job.wired + 1
          /\ job' = [job EXCEPT !.wired = @ + 1] => job'.displaced = job.displaced
          /\ job' = [job EXCEPT !.wired = @ + 1, !.displaced = TRUE] => job'.displaced
      BY <1>2, <1>6, <2>1, DeployWired, Zenon
    <2>3. QED
      BY <2>1, <2>2, Zenon
  <1>10. job'.displaced \/ Guarded(job'.at, created')
    <2>1. CASE Since(on, created', 0)
      <3>1. created[pool].kind = "pool" => on[pool].kind = "pool"
        BY <1>3, <1>5 DEF Since
      <3>2. created'[pool].guardian = guardian
        BY <1>3, <1>5, <2>1, <3>1 DEF Since
      <3>3. QED
        BY <1>9, <3>2 DEF Guarded
    <2>2. QED
      BY <1>6, <1>9, <2>1
  <1>11. DeployOK(job', created')
    <2>1. \E n \in 0..7 : job'.at \in [Placed(n) -> Nat]
      BY <1>3, <1>9, 7 \in 0..7
    <2>2. Together(job'.at, created') /\ ("gate" \in DOMAIN job'.at =>
            job'.predicted # 0 /\ created'[job'.at["gate"]].validatorPool = job'.predicted)
      BY <1>8, <1>9 DEF DeployOK
    <2>3. job' \in [name : {"deploy"}, attestor : Nat, predicted : Nat, at : {job'.at},
                    wired : 0..2, displaced : BOOLEAN]
      BY <1>9
    <2>4. DOMAIN job'.at = Placed(7) /\ job'.wired # 2
      BY <1>3, <1>9
    <2>5. QED
      BY <1>10, <2>1, <2>2, <2>3, <2>4 DEF DeployOK
  <1>12. Deploying' /\ Kept("ATTESTOR_PRIVATE_KEY", job'.attestor)
         /\ (deployments # NoDeployment /\ "pool" \in DOMAIN job'.at =>
               deployments.at["pool"] # job'.at["pool"])
    BY <1>2, <1>9 DEF Deploying
  <1>13. deployments # NoDeployment => deployments.at["pool"] # pool
    BY <1>2, <1>3, PlacedAre
  <1>14. QED
    BY <1>1, <1>6, <1>11, <1>12, <1>13, Elsewhere

LEMMA AuthorizeKeeps ==
  ASSUME DeploymentInv, authorizeAttestor
  PROVE  DeploymentInv'
  <1> DEFINE registry == job.at["registry"]
             key == job.attestor
             on == setAttestor(registry, key)
  <1>1. /\ Deploying /\ job.wired = 1 /\ SendsWiring(on)
        /\ UNCHANGED <<env, keys, unkept, passes, registered, deployments>>
    BY DEF authorizeAttestor
  <1>2. /\ DeployOK(job, created) /\ Kept("ATTESTOR_PRIVATE_KEY", key)
        /\ deployments # NoDeployment /\ "pool" \in DOMAIN job.at => deployments.at["pool"] # job.at["pool"]
    BY <1>1 DEF DeploymentInv, Deploying, FixOK, NoJob
  <1>3. /\ job.at \in [Placed(7) -> Nat] /\ DOMAIN job.at = Placed(7)
        /\ registry \in 1..Len(created) /\ created[registry].kind = "registry" /\ key \in Nat
        /\ job.at["pool"] # 0
    <2>1. job.wired > 0
      BY <1>1
    <2>2. QED
      BY <1>2, <2>1, WholeDeployment DEF Kept
  <1>4. created \in Seq(Contracts) /\ Len(created) \in Nat
    BY LenProperties DEF DeploymentInv
  <1>5. /\ on \in Seq(Contracts) /\ Len(on) = Len(created) /\ Since(created, on, 0)
        /\ key \in on[registry].attestors
    <2>1. ASSUME NEW r \in 1..Len(created), created[r].kind = "registry", NEW k \in Nat
          PROVE  /\ setAttestor(r, k) \in Seq(Contracts) /\ Len(setAttestor(r, k)) = Len(created)
                 /\ Since(created, setAttestor(r, k), 0) /\ k \in setAttestor(r, k)[r].attestors
      BY <1>4, <2>1, AttestorSet DEF setAttestor
    <2> HIDE DEF registry, key
    <2>2. QED
      BY <1>3, <2>1, Zenon
  <1> HIDE DEF on
  <1>6. /\ created' \in Seq(Contracts) /\ Since(created, created', 0)
        /\ \/ job' = [job EXCEPT !.wired = @ + 1] /\ Since(on, created', 0)
           \/ job' = [job EXCEPT !.wired = @ + 1, !.displaced = TRUE]
    BY <1>1, <1>5, WiringSends
  <1>7. Len(created') \in Nat
    BY <1>6, LenProperties
  <1>8. DeployOK(job, created')
    BY <1>2, <1>3, <1>4, <1>6, <1>7, DeploySince
  <1>9. /\ job' \in [name : {"deploy"}, attestor : Nat, predicted : Nat, at : {job.at},
                     wired : {2}, displaced : BOOLEAN]
        /\ job'.at = job.at /\ job'.attestor = key /\ job'.predicted = job.predicted
        /\ job'.wired = 2
        /\ job' = [job EXCEPT !.wired = @ + 1] => job'.displaced = job.displaced
        /\ job' = [job EXCEPT !.wired = @ + 1, !.displaced = TRUE] => job'.displaced
    <2>1. job.wired \in 0..1 /\ job.wired + 1 = 2
      BY <1>1
    <2>2. /\ job' \in [name : {"deploy"}, attestor : Nat, predicted : Nat, at : {job.at},
                       wired : {job.wired + 1}, displaced : BOOLEAN]
          /\ job'.at = job.at /\ job'.attestor = job.attestor
          /\ job'.predicted = job.predicted /\ job'.wired = job.wired + 1
          /\ job' = [job EXCEPT !.wired = @ + 1] => job'.displaced = job.displaced
          /\ job' = [job EXCEPT !.wired = @ + 1, !.displaced = TRUE] => job'.displaced
      BY <1>2, <1>6, <2>1, DeployWired, Zenon
    <2>3. QED
      BY <2>1, <2>2, Zenon
  <1>10. (job'.displaced \/ Guarded(job'.at, created'))
         /\ (job'.displaced \/ Authorized(job'.at, key, created'))
    <2>1. CASE job' = [job EXCEPT !.wired = @ + 1] /\ Since(on, created', 0)
      <3>1. on[registry].kind = "registry"
        BY <1>3, <1>5 DEF Since
      <3>2. key \in created'[registry].attestors
        BY <1>3, <1>5, <2>1, <3>1 DEF Since
      <3>3. job.displaced \/ Guarded(job.at, created')
        BY <1>1, <1>8 DEF DeployOK
      <3>4. job'.displaced = job.displaced
        BY <1>9, <2>1
      <3>5. QED
        BY <1>9, <3>2, <3>3, <3>4 DEF Authorized
    <2>2. QED
      BY <1>6, <1>9, <2>1
  <1>11. DeployOK(job', created')
    <2>1. \E n \in 0..7 : job'.at \in [Placed(n) -> Nat]
      BY <1>3, <1>9, 7 \in 0..7
    <2>2. Together(job'.at, created') /\ ("gate" \in DOMAIN job'.at =>
            job'.predicted # 0 /\ created'[job'.at["gate"]].validatorPool = job'.predicted)
      BY <1>8, <1>9 DEF DeployOK
    <2>3. job' \in [name : {"deploy"}, attestor : Nat, predicted : Nat, at : {job'.at},
                    wired : 0..2, displaced : BOOLEAN]
      BY <1>9
    <2>4. DOMAIN job'.at = Placed(7)
      BY <1>3, <1>9
    <2>5. QED
      BY <1>9, <1>10, <2>1, <2>2, <2>3, <2>4 DEF DeployOK
  <1>12. Deploying' /\ Kept("ATTESTOR_PRIVATE_KEY", job'.attestor)
         /\ (deployments # NoDeployment /\ "pool" \in DOMAIN job'.at =>
               deployments.at["pool"] # job'.at["pool"])
    BY <1>2, <1>9 DEF Deploying
  <1>13. deployments # NoDeployment => deployments.at["pool"] # 0
    BY PoolsOnRecord
  <1>14. QED
    BY <1>1, <1>6, <1>11, <1>12, <1>13, Elsewhere

LEMMA WriteKeeps ==
  ASSUME DeploymentInv, writeDeployments
  PROVE  DeploymentInv'
  <1>1. /\ Deploying /\ job.wired = 2 /\ job' = NoJob
        /\ deployments' = [at |-> job.at, attestor |-> job.attestor, displaced |-> job.displaced]
        /\ UNCHANGED <<created, env, keys, unkept, passes, registered>>
    BY DEF writeDeployments, Wired
  <1>2. DeployOK(job, created) /\ Kept("ATTESTOR_PRIVATE_KEY", job.attestor)
    BY <1>1 DEF DeploymentInv, Deploying, FixOK, NoJob
  <1>3. job.wired > 0
    BY <1>1
  <1>4. job.at \in [Placed(7) -> Nat] /\ Together(job.at, created)
    BY <1>2, <1>3, WholeDeployment
  <1>5. /\ job.attestor \in Nat /\ job.displaced \in BOOLEAN
        /\ job.displaced \/ (Guarded(job.at, created) /\ Authorized(job.at, job.attestor, created))
    BY <1>1, <1>2, <1>3 DEF DeployOK
  <1>6. RecordOK(deployments, created)' /\ Kept("ATTESTOR_PRIVATE_KEY", deployments.attestor)'
    BY <1>1, <1>2, <1>4, <1>5 DEF RecordOK, Kept
  <1>7. QED
    BY <1>1, <1>6 DEF DeploymentInv, Kept

-----------------------------------------------------------------------------

LEMMA FixStarts ==
  ASSUME DeploymentInv, startFixAttestor
  PROVE  DeploymentInv'
  <1>1. /\ deployments # NoDeployment /\ generatePrivateKey("ATTESTOR_PRIVATE_KEY")
        /\ job' = [name |-> "fixAttestor", attestor |-> keys', wired |-> 0, displaced |-> FALSE]
        /\ UNCHANGED <<created, passes, registered, deployments>>
    BY DEF startFixAttestor
  <1>2. "ATTESTOR_PRIVATE_KEY" \in Variables
    BY DEF Variables
  <1>3. /\ keys' \in Nat /\ env' \in [Variables -> Nat \union {NoKey}]
        /\ "ATTESTOR_PRIVATE_KEY" \in unkept' \/ keys' = env'["ATTESTOR_PRIVATE_KEY"]
        /\ \A v \in Variables, k \in Nat : (v \in unkept \/ k = env[v]) => (v \in unkept' \/ k = env'[v])
    BY <1>1, <1>2, KeyKept
  <1>4. \A v, k : v \in Variables /\ Kept(v, k) => Kept(v, k)'
    BY <1>3 DEF Kept
  <1>5. RecordOK(deployments, created)
    BY <1>1 DEF DeploymentInv
  <1>6. FixOK(job', deployments, created)
    BY <1>1, <1>3, <1>5 DEF FixOK
  <1>7. Kept("ATTESTOR_PRIVATE_KEY", job.attestor)'
    BY <1>1, <1>3 DEF Kept
  <1>8. /\ Kept("ATTESTOR_PRIVATE_KEY", deployments.attestor)'
        /\ \A pass \in passes' : pass[1] \in Variables /\ Kept(pass[1], pass[2])'
    BY <1>1, <1>2, <1>4 DEF DeploymentInv
  <1>9. QED
    BY <1>1, <1>3, <1>5, <1>6, <1>7, <1>8 DEF DeploymentInv

LEMMA FixWired ==
  ASSUME NEW j \in [name : {"fixAttestor"}, attestor : Nat, wired : {0}, displaced : BOOLEAN], NEW k,
         \/ k = [j EXCEPT !.wired = @ + 1]
         \/ k = [j EXCEPT !.wired = @ + 1, !.displaced = TRUE]
  PROVE  /\ k \in [name : {"fixAttestor"}, attestor : Nat, wired : 0..1, displaced : BOOLEAN]
         /\ k.attestor = j.attestor
         /\ k = [j EXCEPT !.wired = @ + 1, !.displaced = TRUE] => k.displaced
  <1>1. /\ [j EXCEPT !.wired = @ + 1] \in [name : {"fixAttestor"}, attestor : Nat, wired : {j.wired + 1},
                                           displaced : BOOLEAN]
        /\ [j EXCEPT !.wired = @ + 1].attestor = j.attestor
    OBVIOUS
  <1>2. /\ [j EXCEPT !.wired = @ + 1, !.displaced = TRUE] \in
             [name : {"fixAttestor"}, attestor : Nat, wired : {j.wired + 1}, displaced : BOOLEAN]
        /\ [j EXCEPT !.wired = @ + 1, !.displaced = TRUE].attestor = j.attestor
        /\ [j EXCEPT !.wired = @ + 1, !.displaced = TRUE].displaced
    OBVIOUS
  <1>3. j.wired + 1 \in 0..1
    OBVIOUS
  <1>4. QED
    BY <1>1, <1>2, <1>3

LEMMA FixAuthorizeKeeps ==
  ASSUME DeploymentInv, fixAuthorize
  PROVE  DeploymentInv'
  <1> DEFINE registry == deployments.at["registry"]
             key == job.attestor
             on == setAttestor(registry, key)
  <1>1. /\ job.name = "fixAttestor" /\ job.wired = 0 /\ SendsWiring(on)
        /\ UNCHANGED <<env, keys, unkept, passes, registered, deployments>>
    BY DEF fixAuthorize
  <1>2. /\ FixOK(job, deployments, created) /\ Kept("ATTESTOR_PRIVATE_KEY", key)
        /\ deployments # NoDeployment
    BY <1>1 DEF DeploymentInv, Deploying, NoJob
  <1>3. /\ deployments \in [at : [Placed(7) -> Nat], attestor : Nat, displaced : BOOLEAN]
        /\ Together(deployments.at, created)
    BY <1>2 DEF FixOK, RecordOK
  <1>4. registry \in 1..Len(created) /\ created[registry].kind = "registry" /\ key \in Nat
        /\ deployments.at["pool"] # 0
    BY <1>2, <1>3, PlacedAre DEF Together, Kept
  <1>5. created \in Seq(Contracts) /\ Len(created) \in Nat
    BY LenProperties DEF DeploymentInv
  <1>6. /\ on \in Seq(Contracts) /\ Len(on) = Len(created) /\ Since(created, on, 0)
        /\ key \in on[registry].attestors
    <2>1. ASSUME NEW r \in 1..Len(created), created[r].kind = "registry", NEW k \in Nat
          PROVE  /\ setAttestor(r, k) \in Seq(Contracts) /\ Len(setAttestor(r, k)) = Len(created)
                 /\ Since(created, setAttestor(r, k), 0) /\ k \in setAttestor(r, k)[r].attestors
      BY <1>5, <2>1, AttestorSet DEF setAttestor
    <2> HIDE DEF registry, key
    <2>2. QED
      BY <1>4, <2>1, Zenon
  <1> HIDE DEF on
  <1>7. /\ created' \in Seq(Contracts) /\ Since(created, created', 0)
        /\ \/ job' = [job EXCEPT !.wired = @ + 1] /\ Since(on, created', 0)
           \/ job' = [job EXCEPT !.wired = @ + 1, !.displaced = TRUE]
    BY <1>1, <1>6, WiringSends
  <1>8. RecordOK(deployments, created')
    <2>1. Len(created') \in Nat
      BY <1>7, LenProperties
    <2>2. QED
      BY <1>2, <1>4, <1>5, <1>7, <2>1, RecordSince DEF FixOK
  <1>9. /\ job' \in [name : {"fixAttestor"}, attestor : Nat, wired : 0..1, displaced : BOOLEAN]
        /\ job'.attestor = key
        /\ job' = [job EXCEPT !.wired = @ + 1, !.displaced = TRUE] => job'.displaced
    <2>1. job \in [name : {"fixAttestor"}, attestor : Nat, wired : {0}, displaced : BOOLEAN]
      BY <1>1, <1>2 DEF FixOK
    <2>2. QED
      BY <1>7, <2>1, FixWired
  <1>10. job'.displaced \/ Authorized(deployments.at, key, created')
    <2>1. CASE Since(on, created', 0)
      <3>1. on[registry].kind = "registry"
        BY <1>4, <1>6 DEF Since
      <3>2. key \in created'[registry].attestors
        BY <1>4, <1>6, <2>1, <3>1 DEF Since
      <3>3. QED
        BY <3>2 DEF Authorized
    <2>2. QED
      BY <1>7, <1>9, <2>1
  <1>11. FixOK(job', deployments, created') /\ Kept("ATTESTOR_PRIVATE_KEY", job'.attestor)
    BY <1>2, <1>8, <1>9, <1>10 DEF FixOK
  <1>12. QED
    BY <1>1, <1>2, <1>4, <1>7, <1>11, Elsewhere

LEMMA FixWriteKeeps ==
  ASSUME DeploymentInv, fixWrite
  PROVE  DeploymentInv'
  <1>1. /\ job.name = "fixAttestor" /\ job.wired = 1 /\ job' = NoJob
        /\ deployments' = [deployments EXCEPT !.attestor = job.attestor, !.displaced = @ \/ job.displaced]
        /\ UNCHANGED <<created, env, keys, unkept, passes, registered>>
    BY DEF fixWrite
  <1>2. FixOK(job, deployments, created) /\ Kept("ATTESTOR_PRIVATE_KEY", job.attestor)
    BY <1>1 DEF DeploymentInv, Deploying, NoJob
  <1>3. /\ deployments \in [at : [Placed(7) -> Nat], attestor : Nat, displaced : BOOLEAN]
        /\ Together(deployments.at, created)
        /\ deployments.displaced \/ Guarded(deployments.at, created)
        /\ job.attestor \in Nat /\ job.displaced \in BOOLEAN
        /\ job.displaced \/ Authorized(deployments.at, job.attestor, created)
    BY <1>1, <1>2 DEF FixOK, RecordOK
  <1>4. /\ deployments' \in [at : [Placed(7) -> Nat], attestor : Nat, displaced : BOOLEAN]
        /\ deployments'.at = deployments.at /\ deployments'.attestor = job.attestor
        /\ deployments'.displaced <=> (deployments.displaced \/ job.displaced)
    BY <1>1, <1>3
  <1>5. RecordOK(deployments, created)' /\ Kept("ATTESTOR_PRIVATE_KEY", deployments.attestor)'
    BY <1>1, <1>2, <1>3, <1>4 DEF RecordOK, Kept
  <1>6. QED
    BY <1>1, <1>5 DEF DeploymentInv, Kept

LEMMA GenerateKeeps ==
  ASSUME DeploymentInv, NEW role \in Variables, generateFor(role)
  PROVE  DeploymentInv'
  <1>1. /\ NoJobRuns /\ generatePrivateKey(role)
        /\ passes' \in {passes, passes \cup {<<role, keys'>>}}
        /\ UNCHANGED <<created, registered, deployments, job>>
    BY DEF generateFor
  <1>2. job = NoJob
    BY <1>1 DEF DeploymentInv, NoJobRuns, NoJob, Deploying, FixOK
  <1>3. /\ keys' \in Nat /\ env' \in [Variables -> Nat \union {NoKey}]
        /\ role \in unkept' \/ keys' = env'[role]
        /\ \A v \in Variables, k \in Nat : (v \in unkept \/ k = env[v]) => (v \in unkept' \/ k = env'[v])
    BY <1>1, KeyKept
  <1>4. \A v, k : v \in Variables /\ Kept(v, k) => Kept(v, k)'
    BY <1>3 DEF Kept
  <1>5. \A pass \in passes' : pass[1] \in Variables /\ Kept(pass[1], pass[2])'
    BY <1>1, <1>3, <1>4 DEF DeploymentInv, Kept
  <1>6. deployments # NoDeployment => Kept("ATTESTOR_PRIVATE_KEY", deployments.attestor)'
    BY <1>1, <1>4, "ATTESTOR_PRIVATE_KEY" \in Variables DEF DeploymentInv, Variables
  <1>7. QED
    BY <1>1, <1>2, <1>3, <1>5, <1>6 DEF DeploymentInv

LEMMA DeploymentStep ==
  ASSUME DeploymentInv, DeploymentNext
  PROVE  DeploymentInv'
  <1>1. CASE generateApasses \/ generateRemainingApasses
    BY <1>1, GenerateKeeps DEF generateApasses, generateRemainingApasses, Variables
  <1>2. CASE registerPool
    BY <1>2, PoolsOnRecord DEF registerPool, DeploymentInv, Kept, Deploying
  <1>3. CASE retryOnce
    <2>1. /\ deployments # NoDeployment
          /\ LET role == "TESTNET_BORROWER_HIGH_PRIVATE_KEY"
             IN  env[role] # NoKey /\ passes' \in {passes, passes \cup {<<role, env[role]>>}}
          /\ registered' \in {registered, registered \cup {deployments.at["pool"]}}
          /\ UNCHANGED <<created, env, keys, unkept, deployments, job>>
      BY <1>3 DEF retryOnce
    <2>2. \A pool \in registered' : PoolKnown(pool, created)
      BY <2>1, PoolsOnRecord DEF DeploymentInv
    <2>3. "TESTNET_BORROWER_HIGH_PRIVATE_KEY" \in Variables
      BY DEF Variables
    <2>4. Kept("TESTNET_BORROWER_HIGH_PRIVATE_KEY", env["TESTNET_BORROWER_HIGH_PRIVATE_KEY"])
      BY <2>1, <2>3 DEF DeploymentInv, Kept
    <2>5. \A pass \in passes' : pass[1] \in Variables /\ Kept(pass[1], pass[2])
      BY <2>1, <2>3, <2>4 DEF DeploymentInv
    <2>6. QED
      BY <2>1, <2>2, <2>5 DEF DeploymentInv, Kept, Deploying
  <1>4. CASE jobDies
    BY <1>4 DEF jobDies, DeploymentInv, Kept
  <1>5. QED
    BY <1>1, <1>2, <1>3, <1>4, DeployStarts, PredictKeeps, DeployKeeps, GuardianKeeps, AuthorizeKeeps,
       WriteKeeps, FixStarts, FixAuthorizeKeeps, FixWriteKeeps, SpentKeeps DEF DeploymentNext

(***************************************************************************)
(* deployments/testnet.json names contracts that belong together and keys  *)
(* the operator holds, for any number of deployments, dead scripts, keys   *)
(* and transactions of others that take the deployer's nonces.             *)
(***************************************************************************)
THEOREM DappRecordedDeploymentWorks == DappSpec => []RecordedDeploymentWorks
  <1>1. DappInit => DeploymentInv
    <2>1. SUFFICES ASSUME DappInit
                   PROVE  DeploymentInv
      OBVIOUS
    <2>2. /\ created = <<>> /\ env = [v \in Variables |-> NoKey] /\ keys = 0 /\ passes = {}
          /\ registered = {} /\ deployments = NoDeployment /\ job = NoJob
      BY <2>1 DEF DappInit, DeploymentInit
    <2>3. QED
      BY <2>2 DEF DeploymentInv
  <1>2. DeploymentInv /\ [DappNext]_dappVars => DeploymentInv'
    <2>1. DeploymentInv /\ UNCHANGED deploymentVars => DeploymentInv'
      BY DEF DeploymentInv, deploymentVars, Kept, Deploying
    <2>2. DappNext => DeployNext \/ UNCHANGED deploymentVars
      BY DEF DappNext, PositionsNext, RecordNext, StandingNext, LendViewNext, ScriptsNext, BackendNext,
             operatorVars
    <2>3. QED
      BY <2>1, <2>2, DeploymentStep DEF DeployNext, dappVars, operatorVars
  <1>3. DeploymentInv => RecordedDeploymentWorks
    <2>1. SUFFICES ASSUME DeploymentInv
                   PROVE  RecordedDeploymentWorks
      OBVIOUS
    <2>2. ASSUME deployments # NoDeployment
          PROVE  /\ RecordOK(deployments, created) /\ Together(deployments.at, created)
                 /\ DOMAIN deployments.at = Placed(7)
                 /\ \/ "ATTESTOR_PRIVATE_KEY" \in unkept
                    \/ deployments.attestor = env["ATTESTOR_PRIVATE_KEY"]
      BY <2>1, <2>2 DEF DeploymentInv, RecordOK, Kept
    <2>3. \A pool \in registered : created[created[pool].gate].validatorPool = pool
      BY <2>1 DEF DeploymentInv, PoolKnown
    <2>4. \A pass \in passes : pass[1] \in unkept \/ pass[2] = env[pass[1]]
      BY <2>1 DEF DeploymentInv, Kept
    <2>5. QED
      BY <2>2, <2>3, <2>4, PlacedAre DEF RecordedDeploymentWorks, Together, RecordOK, Guarded, Authorized
  <1>4. QED
    BY <1>1, <1>2, <1>3, PTL DEF DappSpec


-----------------------------------------------------------------------------
(* Log pagination *)

LEMMA Division ==
  ASSUME NEW a \in Nat, NEW c \in Nat \ {0}
  PROVE  /\ a \div c \in Nat
         /\ (a \div c) * c <= a
         /\ a < (a \div c) * c + c
  OBVIOUS

LEMMA Times ==
  ASSUME NEW i \in Int, NEW j \in Int, NEW c \in Nat \ {0}, i < j
  PROVE  i * c + c <= j * c
  <1>1. j - i - 1 \in Nat
    OBVIOUS
  <1>2. (j - i - 1) * c \in Nat
    BY <1>1
  <1>3. (j - i - 1) * c = j * c - i * c - c
    OBVIOUS
  <1>4. QED
    BY <1>2, <1>3

(***************************************************************************)
(* computeBlockChunks leaves no block of a range out, asks for none twice, *)
(* and no request is wider than a node allows: for every range and width.  *)
(***************************************************************************)
THEOREM ChunksCoverTheRange ==
  ASSUME NEW fromBlock \in Nat, NEW toBlock \in Nat, NEW chunkBlocks \in Nat \ {0}
  PROVE  LET chunks == computeBlockChunks(fromBlock, toBlock, chunkBlocks)
             In(n, i) == chunks[i].fromBlock <= n /\ n <= chunks[i].toBlock
         IN  /\ \A i \in DOMAIN chunks :
                  /\ fromBlock <= chunks[i].fromBlock /\ chunks[i].fromBlock <= chunks[i].toBlock
                  /\ chunks[i].toBlock <= toBlock
                  /\ chunks[i].toBlock - chunks[i].fromBlock < chunkBlocks
             /\ \A n \in fromBlock..toBlock :
                  \E i \in DOMAIN chunks : In(n, i) /\ \A j \in DOMAIN chunks : In(n, j) => j = i
  <1> DEFINE chunks == computeBlockChunks(fromBlock, toBlock, chunkBlocks)
             count == IF fromBlock > toBlock THEN 0 ELSE (toBlock - fromBlock) \div chunkBlocks + 1
             start(i) == fromBlock + (i - 1) * chunkBlocks
             In(n, i) == chunks[i].fromBlock <= n /\ n <= chunks[i].toBlock
  <1>1. count \in Nat
    <2>1. CASE fromBlock > toBlock
      BY <2>1
    <2>2. CASE fromBlock <= toBlock
      <3>1. toBlock - fromBlock \in Nat
        BY <2>2
      <3>2. (toBlock - fromBlock) \div chunkBlocks \in Nat
        BY <3>1, Division
      <3>3. QED
        BY <3>2
    <2>3. QED
      BY <2>1, <2>2
  <1>2. /\ DOMAIN chunks = 1..count
        /\ \A i \in 1..count : /\ chunks[i].fromBlock = start(i)
                               /\ chunks[i].toBlock = Earlier(start(i) + chunkBlocks - 1, toBlock)
    BY DEF computeBlockChunks
  <1>3. \A i \in Int : start(i) \in Int
    OBVIOUS
  <1>4. \A i, j \in Int : i < j => start(i) + chunkBlocks <= start(j)
    <2>1. SUFFICES ASSUME NEW i \in Int, NEW j \in Int, i < j
                   PROVE  (i - 1) * chunkBlocks + chunkBlocks <= (j - 1) * chunkBlocks
      OBVIOUS
    <2>2. QED
      BY <2>1, Times
  <1>5. \A i \in 1..count : fromBlock <= start(i) /\ start(i) <= toBlock
    <2>1. SUFFICES ASSUME NEW i \in 1..count
                   PROVE  fromBlock <= start(i) /\ start(i) <= toBlock
      OBVIOUS
    <2>2. fromBlock <= toBlock /\ toBlock - fromBlock \in Nat
      BY <1>1
    <2> DEFINE q == (toBlock - fromBlock) \div chunkBlocks
    <2>3. q \in Nat /\ q * chunkBlocks <= toBlock - fromBlock /\ count = q + 1
      BY <2>2, Division
    <2> HIDE DEF q
    <2>4. i - 1 \in Nat /\ i - 1 <= q
      BY <2>3
    <2>5. (i - 1) * chunkBlocks \in Nat
      BY <2>4
    <2>6. (i - 1) * chunkBlocks <= q * chunkBlocks
      <3>1. CASE i - 1 = q
        BY <2>3, <3>1
      <3>2. CASE i - 1 < q
        <4>1. (i - 1) * chunkBlocks + chunkBlocks <= q * chunkBlocks
          BY <2>3, <2>4, <3>2, Times
        <4>2. q * chunkBlocks \in Nat
          BY <2>3
        <4>3. QED
          BY <2>5, <4>1, <4>2
      <3>3. QED
        BY <2>3, <2>4, <3>1, <3>2
    <2>7. q * chunkBlocks \in Nat
      BY <2>3
    <2>8. QED
      BY <2>2, <2>3, <2>5, <2>6, <2>7
  <1>6. \A n \in fromBlock..toBlock :
          \E i \in 1..count : start(i) <= n /\ n < start(i) + chunkBlocks
    <2>1. SUFFICES ASSUME NEW n \in fromBlock..toBlock
                   PROVE  \E i \in 1..count : start(i) <= n /\ n < start(i) + chunkBlocks
      OBVIOUS
    <2> DEFINE q == (toBlock - fromBlock) \div chunkBlocks
               p == (n - fromBlock) \div chunkBlocks
    <2>2. n - fromBlock \in Nat /\ toBlock - fromBlock \in Nat /\ fromBlock <= toBlock
      OBVIOUS
    <2>3. /\ q \in Nat /\ toBlock - fromBlock < q * chunkBlocks + chunkBlocks /\ count = q + 1
          /\ p \in Nat /\ p * chunkBlocks <= n - fromBlock /\ n - fromBlock < p * chunkBlocks + chunkBlocks
      BY <2>2, Division
    <2> HIDE DEF q, p
    <2>4. p <= q
      <3>1. SUFFICES ASSUME q < p
                     PROVE  FALSE
        BY <2>3
      <3>2. q * chunkBlocks + chunkBlocks <= p * chunkBlocks
        BY <2>3, <3>1, Times
      <3>3. q * chunkBlocks \in Nat /\ p * chunkBlocks \in Nat
        BY <2>3
      <3>4. QED
        BY <2>2, <2>3, <3>2, <3>3
    <2>5. p + 1 \in 1..count /\ start(p + 1) = fromBlock + p * chunkBlocks
      BY <2>3, <2>4
    <2>6. p * chunkBlocks \in Nat
      BY <2>3
    <2>7. start(p + 1) <= n /\ n < start(p + 1) + chunkBlocks
      BY <2>3, <2>5, <2>6
    <2>8. QED
      BY <2>5, <2>7
  <1> HIDE DEF chunks, count, start
  <1>7. ASSUME NEW i \in 1..count
        PROVE  /\ start(i) \in Int /\ start(i) <= toBlock
               /\ chunks[i].fromBlock = start(i)
               /\ chunks[i].toBlock \in Int /\ chunks[i].toBlock <= toBlock
               /\ chunks[i].toBlock < start(i) + chunkBlocks /\ start(i) <= chunks[i].toBlock
               /\ \A n \in fromBlock..toBlock :
                    In(n, i) <=> start(i) <= n /\ n < start(i) + chunkBlocks
    <2>1. i \in Int /\ start(i) \in Int /\ start(i) <= toBlock
      BY <1>1, <1>3, <1>5
    <2>2. chunks[i].fromBlock = start(i)
          /\ chunks[i].toBlock = Earlier(start(i) + chunkBlocks - 1, toBlock)
      BY <1>2
    <2>3. \/ /\ chunks[i].toBlock = start(i) + chunkBlocks - 1 /\ start(i) + chunkBlocks - 1 < toBlock
          \/ /\ chunks[i].toBlock = toBlock /\ toBlock <= start(i) + chunkBlocks - 1
      BY <2>1, <2>2 DEF Earlier
    <2>4. QED
      BY <2>1, <2>2, <2>3
  <1>8. \A i \in DOMAIN chunks :
          /\ fromBlock <= chunks[i].fromBlock /\ chunks[i].fromBlock <= chunks[i].toBlock
          /\ chunks[i].toBlock <= toBlock
          /\ chunks[i].toBlock - chunks[i].fromBlock < chunkBlocks
    BY <1>2, <1>5, <1>7
  <1>9. \A n \in fromBlock..toBlock :
          \E i \in DOMAIN chunks : In(n, i) /\ \A j \in DOMAIN chunks : In(n, j) => j = i
    <2>1. SUFFICES ASSUME NEW n \in fromBlock..toBlock
                   PROVE  \E i \in DOMAIN chunks : In(n, i) /\ \A j \in DOMAIN chunks : In(n, j) => j = i
      OBVIOUS
    <2>2. PICK i \in 1..count : start(i) <= n /\ n < start(i) + chunkBlocks
      BY <1>6
    <2>3. In(n, i)
      BY <2>2, <1>7
    <2>4. ASSUME NEW j \in 1..count, In(n, j)
          PROVE  j = i
      <3>1. start(j) <= n /\ n < start(j) + chunkBlocks
        BY <2>4, <1>7
      <3>2. QED
        BY <1>1, <1>4, <1>7, <2>2, <3>1
    <2>5. QED
      BY <1>2, <2>3, <2>4
  <1>10. QED
    BY <1>8, <1>9 DEF chunks
-----------------------------------------------------------------------------
(* What a range of blocks has for a borrower *)

\* f holds what FlattenSeq has of s after each of the first n.
Flattens(f, s, n) == f = [i \in 1..n |-> IF i = 1 THEN s[i] ELSE f[i - 1] \o s[i]]

LEMMA FlattensOne ==
  ASSUME NEW f, NEW s, NEW n \in Nat
  PROVE  Flattens(f, s, n) <=>
           /\ f = [i \in 1..n |-> f[i]]
           /\ \A i \in 1..n : f[i] = IF i = 1 THEN s[i] ELSE f[i - 1] \o s[i]
  BY DEF Flattens

LEMMA FlattenExists ==
  ASSUME NEW s, NEW n \in Nat
  PROVE  \E f : Flattens(f, s, n)
  <1> DEFINE T == {m \in Nat : ~\E f : Flattens(f, s, m)}
  <1>1. SUFFICES ASSUME T # {}
                 PROVE  FALSE
    OBVIOUS
  <1>2. T \in SUBSET Nat
    OBVIOUS
  <1>3. PICK m \in T : \A k \in T : m <= k
    BY <1>1, <1>2, LeastOf
  <1>4. m \in Nat /\ ~\E f : Flattens(f, s, m)
    OBVIOUS
  <1>5. m # 0
    <2>1. Flattens([i \in 1..0 |-> 0], s, 0)
      BY DEF Flattens
    <2>2. QED
      BY <1>4, <2>1
  <1>6. m - 1 \in Nat /\ m - 1 \notin T
    BY <1>3, <1>4, <1>5
  <1>7. PICK f : Flattens(f, s, m - 1)
    BY <1>6
  <1> DEFINE last == IF m = 1 THEN s[m] ELSE f[m - 1] \o s[m]
             g == [i \in 1..m |-> IF i < m THEN f[i] ELSE last]
  <1>8. \A i \in 1..(m - 1) : f[i] = IF i = 1 THEN s[i] ELSE f[i - 1] \o s[i]
    BY <1>6, <1>7, FlattensOne
  <1>9. \A i \in 1..m : g[i] = IF i = 1 THEN s[i] ELSE g[i - 1] \o s[i]
    <2>1. SUFFICES ASSUME NEW i \in 1..m
                   PROVE  g[i] = IF i = 1 THEN s[i] ELSE g[i - 1] \o s[i]
      OBVIOUS
    <2>2. CASE i = m
      <3>1. g[i] = last
        BY <2>2
      <3>2. CASE m = 1
        BY <2>2, <3>1, <3>2
      <3>3. CASE m # 1
        <4>1. m - 1 \in 1..m /\ m - 1 < m
          BY <1>4, <1>5, <3>3
        <4>2. g[m - 1] = f[m - 1]
          BY <4>1
        <4>3. QED
          BY <2>2, <3>1, <3>3, <4>2
      <3>4. QED
        BY <3>2, <3>3
    <2>3. CASE i < m
      <3>1. g[i] = f[i] /\ i \in 1..(m - 1)
        BY <1>4, <2>3
      <3>2. CASE i = 1
        BY <1>8, <3>1, <3>2
      <3>3. CASE i # 1
        <4>1. i - 1 \in 1..m /\ i - 1 < m
          BY <1>4, <3>3
        <4>2. g[i - 1] = f[i - 1]
          BY <4>1
        <4>3. QED
          BY <1>8, <3>1, <3>3, <4>2
      <3>4. QED
        BY <3>2, <3>3
    <2>4. QED
      BY <1>4, <2>2, <2>3
  <1>10. g = [i \in 1..m |-> g[i]]
    OBVIOUS
  <1> HIDE DEF g
  <1>11. Flattens(g, s, m)
    BY <1>4, <1>9, <1>10, FlattensOne
  <1>12. QED
    BY <1>4, <1>11

LEMMA FlattenIs ==
  ASSUME NEW S, NEW s \in Seq(S), s # <<>>
  PROVE  \E f : Flattens(f, s, Len(s)) /\ FlattenSeq(s) = f[Len(s)]
  <1>1. Len(s) \in Nat /\ Len(s) # 0
    OBVIOUS
  <1> DEFINE f == CHOOSE f : Flattens(f, s, Len(s))
  <1>2. Flattens(f, s, Len(s))
    BY <1>1, FlattenExists
  <1>3. FlattenSeq(s) = f[Len(s)]
    BY <1>1 DEF FlattenSeq, Flattens
  <1>4. QED
    BY <1>2, <1>3

\* s and t begin with the same n sequences over S.
BeginAlike(s, t, n, S) == \A i \in 1..n : s[i] \in Seq(S) /\ t[i] = s[i]

\* What was flattened before a sequence grows stays so.
LEMMA FlattenStays ==
  ASSUME NEW S, NEW s, NEW t, NEW n \in Nat, NEW m \in Nat, n <= m,
         BeginAlike(s, t, n, S),
         NEW f, NEW g, Flattens(f, s, n), Flattens(g, t, m)
  PROVE  \A i \in 1..n : f[i] \in Seq(S) /\ g[i] = f[i]
  <1> DEFINE T == {i \in 1..n : ~(f[i] \in Seq(S) /\ g[i] = f[i])}
  <1>1. SUFFICES ASSUME T # {}
                 PROVE  FALSE
    OBVIOUS
  <1>2. T \in SUBSET Nat
    OBVIOUS
  <1>3. PICK i \in T : \A k \in T : i <= k
    BY <1>1, <1>2, LeastOf
  <1>4. i \in 1..n /\ i \in 1..m /\ ~(f[i] \in Seq(S) /\ g[i] = f[i])
    OBVIOUS
  <1>5. /\ f[i] = IF i = 1 THEN s[i] ELSE f[i - 1] \o s[i]
        /\ g[i] = IF i = 1 THEN t[i] ELSE g[i - 1] \o t[i]
    BY <1>4, FlattensOne
  <1>6. CASE i = 1
    BY <1>4, <1>5, <1>6 DEF BeginAlike
  <1>7. CASE i # 1
    <2>1. i - 1 \in 1..n /\ i - 1 \notin T
      BY <1>3, <1>4, <1>7
    <2>2. f[i - 1] \in Seq(S) /\ g[i - 1] = f[i - 1]
      BY <2>1
    <2>3. f[i - 1] \o s[i] \in Seq(S)
      BY <1>4, <2>2, ConcatProperties DEF BeginAlike
    <2>4. QED
      BY <1>4, <1>5, <1>7, <2>2, <2>3 DEF BeginAlike
  <1>8. QED
    BY <1>6, <1>7

LEMMA FlattenEmpty == FlattenSeq(<<>>) = <<>>
  BY DEF FlattenSeq

LEMMA FlattenType ==
  ASSUME NEW S, NEW s \in Seq(Seq(S))
  PROVE  FlattenSeq(s) \in Seq(S)
  <1>1. CASE s = <<>>
    BY <1>1, FlattenEmpty, EmptySeq
  <1>2. CASE s # <<>>
    <2>1. Len(s) \in Nat /\ Len(s) \in 1..Len(s) /\ \A i \in 1..Len(s) : s[i] \in Seq(S)
      BY <1>2, ElementOfSeq
    <2>2. PICK f : Flattens(f, s, Len(s)) /\ FlattenSeq(s) = f[Len(s)]
      BY <1>2, FlattenIs
    <2>3. Len(s) <= Len(s) /\ BeginAlike(s, s, Len(s), S)
      BY <2>1 DEF BeginAlike
    <2>4. \A i \in 1..Len(s) : f[i] \in Seq(S)
      BY <2>1, <2>2, <2>3, FlattenStays, Zenon
    <2>5. QED
      BY <2>1, <2>2, <2>4
  <1>3. QED
    BY <1>1, <1>2

LEMMA FlattenAppend ==
  ASSUME NEW S, NEW s \in Seq(Seq(S)), NEW x \in Seq(S)
  PROVE  FlattenSeq(Append(s, x)) = FlattenSeq(s) \o x
  <1> DEFINE t == Append(s, x)
             n == Len(s)
  <1>1. /\ n \in Nat /\ t \in Seq(Seq(S)) /\ t # <<>> /\ Len(t) = n + 1
        /\ t[n + 1] = x /\ \A i \in 1..n : s[i] \in Seq(S) /\ t[i] = s[i]
    BY ElementOfSeq
  <1> HIDE DEF t
  <1>2. PICK g : Flattens(g, t, n + 1) /\ FlattenSeq(t) = g[n + 1]
    BY <1>1, FlattenIs
  <1>3. g[n + 1] = IF n + 1 = 1 THEN x ELSE g[n + 1 - 1] \o x
    BY <1>1, <1>2, FlattensOne
  <1>4. CASE s = <<>>
    <2>1. FlattenSeq(t) = x
      BY <1>2, <1>3, <1>4
    <2>2. QED
      BY <1>4, <2>1, FlattenEmpty, ConcatEmptySeq DEF t
  <1>5. CASE s # <<>>
    <2>1. PICK f : Flattens(f, s, n) /\ FlattenSeq(s) = f[n]
      BY <1>5, FlattenIs
    <2>2. n \in 1..n /\ n + 1 # 1 /\ n + 1 - 1 = n /\ n <= n + 1 /\ n + 1 \in Nat
      BY <1>1, <1>5
    <2> HIDE DEF n
    <2>3. \A i \in 1..n : f[i] \in Seq(S) /\ g[i] = f[i]
      <3>1. n \in Nat /\ n + 1 \in Nat /\ n <= n + 1
        BY <1>1, <2>2
      <3>2. BeginAlike(s, t, n, S)
        BY <1>1 DEF BeginAlike
      <3>3. Flattens(f, s, n) /\ Flattens(g, t, n + 1)
        BY <1>2, <2>1
      <3>4. QED
        BY <3>1, <3>2, <3>3, FlattenStays
    <2>4. QED
      BY <1>2, <1>3, <2>1, <2>2, <2>3 DEF t
  <1>6. QED
    BY <1>4, <1>5

\* The rows of blocks a to b but for those lacking, and these blocks themselves
RowsFrom(address, a, b, lacking) ==
  FlattenSeq([i \in 1..(b - a + 1) |-> forBorrower(address, a + i - 1, lacking)])
BlocksFrom(a, b) == [i \in 1..(b - a + 1) |-> a + i - 1]

LEMMA RowsOfOne ==
  ASSUME NEW address, NEW lacking, NEW n \in Int
  PROVE  forBorrower(address, n, lacking) \in Seq(Int)
  BY DEF forBorrower

LEMMA RowsNone ==
  ASSUME NEW address, NEW lacking, NEW a \in Int, NEW b \in Int, b < a
  PROVE  RowsFrom(address, a, b, lacking) = <<>>
  <1> DEFINE s == [i \in 1..(b - a + 1) |-> forBorrower(address, a + i - 1, lacking)]
  <1>1. 1..(b - a + 1) = {} /\ 1..0 = {}
    OBVIOUS
  <1>2. s = <<>>
    BY <1>1
  <1>3. QED
    BY <1>2, FlattenEmpty DEF RowsFrom

LEMMA RowsType ==
  ASSUME NEW address, NEW lacking, NEW a \in Int, NEW b \in Int
  PROVE  RowsFrom(address, a, b, lacking) \in Seq(Int)
  <1> DEFINE s == [i \in 1..(b - a + 1) |-> forBorrower(address, a + i - 1, lacking)]
  <1>1. CASE b < a
    BY <1>1, RowsNone, EmptySeq
  <1>2. CASE b >= a
    <2>1. b - a + 1 \in Nat
      BY <1>2
    <2>2. \A i \in 1..(b - a + 1) : forBorrower(address, a + i - 1, lacking) \in Seq(Int)
      BY <2>1, RowsOfOne
    <2>3. s \in Seq(Seq(Int))
      BY <2>1, <2>2
    <2>4. QED
      BY <2>3, FlattenType DEF RowsFrom
  <1>3. QED
    BY <1>1, <1>2

\* One block more adds its own rows at the end.
LEMMA RowsNextBlock ==
  ASSUME NEW address, NEW lacking, NEW a \in Int, NEW b \in Int, b >= a - 1
  PROVE  RowsFrom(address, a, b + 1, lacking) = RowsFrom(address, a, b, lacking) \o forBorrower(address, b + 1, lacking)
  <1> DEFINE e(i) == forBorrower(address, a + i - 1, lacking)
             s == [i \in 1..(b - a + 1) |-> e(i)]
             t == [i \in 1..(b + 1 - a + 1) |-> e(i)]
             k == b - a + 1
  <1>1. k \in Nat /\ b + 1 - a + 1 = k + 1 /\ a + (k + 1) - 1 = b + 1
    OBVIOUS
  <1>2. \A i \in 1..(k + 1) : e(i) \in Seq(Int)
    BY <1>1, RowsOfOne
  <1>3. e(k + 1) = forBorrower(address, b + 1, lacking)
    BY <1>1
  <1> HIDE DEF e
  <1>4. s \in Seq(Seq(Int)) /\ Len(s) = k
    BY <1>1, <1>2
  <1>5. t \in Seq(Seq(Int)) /\ Len(t) = k + 1
    BY <1>1, <1>2
  <1>6. t = Append(s, e(k + 1))
    BY <1>1, <1>2, <1>4, <1>5
  <1>7. e(k + 1) \in Seq(Int)
    BY <1>1, <1>2
  <1>8. FlattenSeq(t) = FlattenSeq(s) \o e(k + 1)
    BY <1>4, <1>6, <1>7, FlattenAppend
  <1>9. RowsFrom(address, a, b, lacking) = FlattenSeq(s)
    BY DEF RowsFrom, e
  <1>10. RowsFrom(address, a, b + 1, lacking) = FlattenSeq(t)
    BY DEF RowsFrom, e
  <1>11. QED
    BY <1>3, <1>8, <1>9, <1>10

\* What a property of b must have to hold from a - 1 on
LEMMA BlockByBlock ==
  ASSUME NEW a \in Int, NEW T \in SUBSET Int, a - 1 \in T,
         \A b \in Int : b >= a - 1 /\ b \in T => b + 1 \in T
  PROVE  \A b \in Int : b >= a - 1 => b \in T
  <1> DEFINE U == {n \in Nat : a - 1 + n \notin T}
  <1>1. SUFFICES ASSUME NEW b \in Int, b >= a - 1, b \notin T
                 PROVE  FALSE
    OBVIOUS
  <1>2. b - (a - 1) \in U
    BY <1>1
  <1>3. PICK n \in U : \A m \in U : n <= m
    BY <1>2, LeastOf
  <1>4. n \in Nat /\ a - 1 + n \notin T
    OBVIOUS
  <1>5. CASE n = 0
    BY <1>4, <1>5
  <1>6. CASE n # 0
    <2>1. n - 1 \in Nat /\ n - 1 \notin U
      BY <1>3, <1>4, <1>6
    <2>2. a - 1 + (n - 1) \in T
      BY <2>1
    <2>3. a - 1 + (n - 1) + 1 = a - 1 + n /\ a - 1 + (n - 1) \in Int /\ a - 1 + (n - 1) >= a - 1
      BY <1>4, <2>1
    <2>4. QED
      BY <1>4, <2>2, <2>3
  <1>7. QED
    BY <1>5, <1>6

LEMMA RowsAssociate ==
  ASSUME NEW p \in Seq(Int), NEW q \in Seq(Int), NEW r \in Seq(Int)
  PROVE  (p \o q) \o r = p \o (q \o r)
  OBVIOUS

LEMMA RowsJoin ==
  ASSUME NEW address, NEW lacking, NEW a \in Int, NEW b \in Int, NEW c \in Int, a - 1 <= b, b <= c
  PROVE  RowsFrom(address, a, b, lacking) \o RowsFrom(address, b + 1, c, lacking) = RowsFrom(address, a, c, lacking)
  <1> DEFINE Joined(d) == RowsFrom(address, a, b, lacking) \o RowsFrom(address, b + 1, d, lacking)
                          = RowsFrom(address, a, d, lacking)
             T == {d \in Int : Joined(d)}
  <1>1. b \in T
    <2>1. RowsFrom(address, b + 1, b, lacking) = <<>>
      BY RowsNone
    <2>2. QED
      BY <2>1, RowsType, ConcatEmptySeq
  <1>2. \A d \in Int : d >= b /\ d \in T => d + 1 \in T
    <2> HIDE DEF Joined
    <2>1. SUFFICES ASSUME NEW d \in Int, d >= b, Joined(d)
                   PROVE  Joined(d + 1)
      OBVIOUS
    <2> USE DEF Joined
    <2> b + 1 \in Int /\ d >= a - 1 /\ d >= (b + 1) - 1
      BY <2>1
    <2>2. RowsFrom(address, a, d + 1, lacking) = RowsFrom(address, a, d, lacking) \o forBorrower(address, d + 1, lacking)
      BY RowsNextBlock, Zenon
    <2>3. RowsFrom(address, b + 1, d + 1, lacking) = RowsFrom(address, b + 1, d, lacking) \o forBorrower(address, d + 1, lacking)
      BY RowsNextBlock, Zenon
    <2>4. /\ RowsFrom(address, a, b, lacking) \in Seq(Int) /\ RowsFrom(address, b + 1, d, lacking) \in Seq(Int)
          /\ forBorrower(address, d + 1, lacking) \in Seq(Int)
      BY RowsType, RowsOfOne
    <2>5. (RowsFrom(address, a, b, lacking) \o RowsFrom(address, b + 1, d, lacking)) \o forBorrower(address, d + 1, lacking)
          = RowsFrom(address, a, b, lacking) \o (RowsFrom(address, b + 1, d, lacking) \o forBorrower(address, d + 1, lacking))
      BY <2>4, RowsAssociate, Zenon
    <2>6. QED
      BY <2>1, <2>2, <2>3, <2>5
  <1> HIDE DEF T
  <1>3. \A d \in Int : d >= b => d \in T
    <2>1. b + 1 \in Int /\ b + 1 - 1 = b /\ T \in SUBSET Int
      BY DEF T
    <2>2. QED
      BY <1>1, <1>2, <2>1, BlockByBlock
  <1>4. QED
    BY <1>3 DEF T

\* Whether a block without an event of this borrower is lacking makes no difference.
LEMMA RowsAlike ==
  ASSUME NEW address, NEW a \in Int, NEW b \in Int, NEW lacking, NEW missing,
         \A n \in a..b : log[n].borrower = address => (n \in lacking <=> n \in missing)
  PROVE  RowsFrom(address, a, b, lacking) = RowsFrom(address, a, b, missing)
  <1>1. \A i \in 1..(b - a + 1) :
          forBorrower(address, a + i - 1, lacking) = forBorrower(address, a + i - 1, missing)
    <2>1. \A i \in 1..(b - a + 1) : a + i - 1 \in a..b
      OBVIOUS
    <2>2. QED
      BY <2>1, Zenon DEF forBorrower
  <1>2. QED
    BY <1>1 DEF RowsFrom

LEMMA JoinedSet ==
  ASSUME NEW S, NEW s \in Seq(S), NEW t \in Seq(S)
  PROVE  ToSet(s \o t) = ToSet(s) \union ToSet(t)
  <1>1. /\ Len(s) \in Nat /\ Len(t) \in Nat
        /\ DOMAIN s = 1..Len(s) /\ DOMAIN t = 1..Len(t) /\ DOMAIN (s \o t) = 1..(Len(s) + Len(t))
        /\ \A i \in 1..Len(s) : (s \o t)[i] = s[i]
        /\ \A i \in (Len(s) + 1)..(Len(s) + Len(t)) : (s \o t)[i] = t[i - Len(s)]
    BY ConcatProperties, LenProperties
  <1>2. \A i \in 1..Len(t) : t[i] = (s \o t)[Len(s) + i] /\ Len(s) + i \in 1..(Len(s) + Len(t))
    BY <1>1
  <1>3. ToSet(s) \subseteq ToSet(s \o t) /\ ToSet(t) \subseteq ToSet(s \o t)
    <2>1. \A i \in 1..Len(s) : s[i] = (s \o t)[i] /\ i \in 1..(Len(s) + Len(t))
      BY <1>1
    <2>2. \A j \in 1..(Len(s) + Len(t)) : (s \o t)[j] \in ToSet(s \o t)
      BY <1>1 DEF ToSet
    <2>3. \A i \in 1..Len(s) : s[i] \in ToSet(s \o t)
      BY <2>1, <2>2, Zenon
    <2>4. \A i \in 1..Len(t) : t[i] \in ToSet(s \o t)
      BY <1>2, <2>2, Zenon
    <2>5. QED
      BY <1>1, <2>3, <2>4 DEF ToSet
  <1>4. ASSUME NEW i \in 1..(Len(s) + Len(t))
        PROVE  (s \o t)[i] \in ToSet(s) \union ToSet(t)
    <2>1. CASE i <= Len(s)
      BY <1>1, <2>1 DEF ToSet
    <2>2. CASE i > Len(s)
      <3>1. i \in (Len(s) + 1)..(Len(s) + Len(t)) /\ i - Len(s) \in 1..Len(t)
        BY <1>1, <2>2
      <3>2. QED
        BY <1>1, <3>1 DEF ToSet
    <2>3. QED
      BY <1>1, <2>1, <2>2
  <1>5. ToSet(s \o t) \subseteq ToSet(s) \union ToSet(t)
    BY <1>1, <1>4 DEF ToSet
  <1>6. QED
    BY <1>3, <1>5

\* A block that is not lacking has its row, and only these have.
LEMMA RowsAre ==
  ASSUME NEW address, NEW lacking, NEW a \in Int, NEW b \in Int
  PROVE  ToSet(RowsFrom(address, a, b, lacking)) = {n \in a..b : log[n].borrower = address /\ n \notin lacking}
  <1> DEFINE Of(d) == {n \in a..d : log[n].borrower = address /\ n \notin lacking}
             T == {d \in Int : ToSet(RowsFrom(address, a, d, lacking)) = Of(d)}
  <1>1. \A d \in Int : d < a => d \in T
    <2>1. SUFFICES ASSUME NEW d \in Int, d < a
                   PROVE  ToSet(<<>>) = Of(d)
      BY RowsNone
    <2>2. QED
      BY <2>1 DEF ToSet
  <1>2. \A d \in Int : d >= a - 1 /\ d \in T => d + 1 \in T
    <2>1. SUFFICES ASSUME NEW d \in Int, d >= a - 1, ToSet(RowsFrom(address, a, d, lacking)) = Of(d)
                   PROVE  ToSet(RowsFrom(address, a, d + 1, lacking)) = Of(d + 1)
      OBVIOUS
    <2> DEFINE s == RowsFrom(address, a, d, lacking)
               x == forBorrower(address, d + 1, lacking)
    <2>2. /\ RowsFrom(address, a, d + 1, lacking) = s \o x
          /\ s \in Seq(Int) /\ x \in Seq(Int)
      <3>1. d + 1 \in Int
        OBVIOUS
      <3>2. QED
        BY <2>1, <3>1, RowsNextBlock, RowsType, RowsOfOne, Zenon
    <2> HIDE DEF s
    <2>3. ToSet(s \o x) = ToSet(s) \union ToSet(x)
      BY <2>2, JoinedSet
    <2>4. ToSet(x) = IF log[d + 1].borrower = address /\ d + 1 \notin lacking THEN {d + 1} ELSE {}
      BY DEF ToSet, forBorrower
    <2>5. Of(d + 1) = Of(d) \union (IF log[d + 1].borrower = address /\ d + 1 \notin lacking
                                     THEN {d + 1} ELSE {})
      BY <2>1
    <2>6. QED
      BY <2>1, <2>2, <2>3, <2>4, <2>5 DEF s
  <1> HIDE DEF T
  <1>3. \A d \in Int : d >= a - 1 => d \in T
    <2>1. a - 1 \in T /\ T \in SUBSET Int
      BY <1>1 DEF T
    <2>2. QED
      BY <1>2, <2>1, BlockByBlock
  <1>4. b \in T
    BY <1>1, <1>3
  <1>5. QED
    BY <1>4 DEF T

LEMMA BlocksType ==
  ASSUME NEW a \in Int, NEW b \in Int, b >= a - 1
  PROVE  /\ BlocksFrom(a, b) \in Seq(Int) /\ Len(BlocksFrom(a, b)) = b - a + 1
         /\ \A i \in 1..(b - a + 1) : BlocksFrom(a, b)[i] = a + i - 1
  BY DEF BlocksFrom

LEMMA BlocksJoin ==
  ASSUME NEW a \in Int, NEW b \in Int, NEW c \in Int, a - 1 <= b, b <= c
  PROVE  BlocksFrom(a, b) \o BlocksFrom(b + 1, c) = BlocksFrom(a, c)
  <1> DEFINE s == BlocksFrom(a, b)
             t == BlocksFrom(b + 1, c)
             u == BlocksFrom(a, c)
  <1>1. /\ s \in Seq(Int) /\ Len(s) = b - a + 1 /\ Len(s) \in Nat
        /\ \A i \in 1..(b - a + 1) : s[i] = a + i - 1
    BY BlocksType
  <1>2. /\ t \in Seq(Int) /\ Len(t) = c - b /\ Len(t) \in Nat
        /\ \A i \in 1..(c - b) : t[i] = b + i
    <2>1. b + 1 \in Int /\ c >= (b + 1) - 1 /\ c - (b + 1) + 1 = c - b /\ c - b \in Nat
      OBVIOUS
    <2>2. /\ t \in Seq(Int) /\ Len(t) = c - (b + 1) + 1
          /\ \A i \in 1..(c - (b + 1) + 1) : t[i] = (b + 1) + i - 1
      BY <2>1, BlocksType, Zenon
    <2> HIDE DEF t
    <2>3. \A i \in 1..(c - b) : t[i] = b + i
      BY <2>1, <2>2
    <2>4. QED
      BY <2>1, <2>2, <2>3
  <1>3. /\ u \in Seq(Int) /\ Len(u) = c - a + 1
        /\ \A i \in 1..(c - a + 1) : u[i] = a + i - 1
    <2>1. c >= a - 1
      OBVIOUS
    <2>2. QED
      BY <2>1, BlocksType
  <1> HIDE DEF s, t, u
  <1>4. /\ s \o t \in Seq(Int) /\ Len(s \o t) = c - a + 1
        /\ \A i \in 1..(c - a + 1) : (s \o t)[i] = IF i <= b - a + 1 THEN s[i] ELSE t[i - (b - a + 1)]
    <2>1. Len(s) + Len(t) = c - a + 1
      BY <1>1, <1>2
    <2>2. /\ s \o t \in Seq(Int) /\ Len(s \o t) = Len(s) + Len(t)
          /\ \A i \in 1..(Len(s) + Len(t)) : (s \o t)[i] = IF i <= Len(s) THEN s[i] ELSE t[i - Len(s)]
      BY <1>1, <1>2, ConcatProperties, Zenon
    <2>3. QED
      BY <1>1, <2>1, <2>2
  <1>5. ASSUME NEW i \in 1..(c - a + 1)
        PROVE  (s \o t)[i] = u[i]
    <2>1. CASE i <= b - a + 1
      BY <1>1, <1>3, <1>4, <2>1
    <2>2. CASE i > b - a + 1
      <3>1. i - (b - a + 1) \in 1..(c - b)
        BY <2>2
      <3>2. t[i - (b - a + 1)] = b + (i - (b - a + 1))
        BY <1>2, <3>1
      <3>3. QED
        BY <1>3, <1>4, <2>2, <3>2
    <2>3. i <= b - a + 1 \/ i > b - a + 1
      OBVIOUS
    <2>4. QED
      BY <2>1, <2>2, <2>3, Zenon
  <1>6. s \o t = u
    BY <1>3, <1>4, <1>5, SeqEqual
  <1>7. QED
    BY <1>6 DEF s, t, u

\* Each chunk begins where the last one ended; together they span a to b.
InOrder(chunks, count, a, b) ==
  /\ DOMAIN chunks = 1..count
  /\ chunks[1].fromBlock = a /\ chunks[count].toBlock = b
  /\ \A i \in 1..count :
       /\ chunks[i].fromBlock \in Int /\ chunks[i].toBlock \in Int
       /\ chunks[i].fromBlock <= chunks[i].toBlock
       /\ i < count => chunks[i + 1].fromBlock = chunks[i].toBlock + 1

LEMMA ChunksInOrder ==
  ASSUME NEW a \in Nat, NEW b \in Nat, NEW c \in Nat \ {0}, a <= b
  PROVE  \E count \in Nat \ {0} : InOrder(computeBlockChunks(a, b, c), count, a, b)
  <1> DEFINE q == (b - a) \div c
             chunks == computeBlockChunks(a, b, c)
             start(i) == a + (i - 1) * c
  <1>1. b - a \in Nat
    OBVIOUS
  <1>2. q \in Nat /\ q * c <= b - a /\ b - a < q * c + c
    BY <1>1, Division
  <1>3. /\ DOMAIN chunks = 1..(q + 1)
        /\ \A i \in 1..(q + 1) : /\ chunks[i].fromBlock = start(i)
                                 /\ chunks[i].toBlock = Earlier(start(i) + c - 1, b)
    <2> DEFINE count == IF a > b THEN 0 ELSE (b - a) \div c + 1
    <2>1. /\ DOMAIN chunks = 1..count
          /\ \A i \in 1..count : /\ chunks[i].fromBlock = start(i)
                                 /\ chunks[i].toBlock = Earlier(start(i) + c - 1, b)
      BY DEF computeBlockChunks
    <2>2. count = q + 1
      OBVIOUS
    <2> HIDE DEF count, q, chunks, start
    <2>3. QED
      BY <2>1, <2>2
  <1> HIDE DEF q, chunks
  <1>4. q * c \in Nat
    BY <1>2
  <1>5. \A i \in 1..(q + 1) : start(i) \in Int /\ (i < q + 1 => start(i) + c <= b)
                              /\ start(i + 1) = start(i) + c
    <2>1. SUFFICES ASSUME NEW i \in 1..(q + 1)
                   PROVE  start(i) \in Int /\ (i < q + 1 => start(i) + c <= b)
                          /\ start(i + 1) = start(i) + c
      OBVIOUS
    <2>2. i - 1 \in Nat /\ i \in Int
      BY <1>2
    <2>3. (i - 1) * c \in Nat
      BY <2>2
    <2>4. i < q + 1 => (i - 1) * c + c <= q * c
      <3>1. SUFFICES ASSUME i < q + 1
                     PROVE  (i - 1) * c + c <= q * c
        OBVIOUS
      <3>2. i - 1 < q /\ q \in Int /\ i - 1 \in Int
        BY <1>2, <2>2, <3>1
      <3>3. QED
        BY <3>2, Times
    <2>5. (i + 1 - 1) * c = (i - 1) * c + c
      BY <2>2
    <2>6. QED
      BY <1>2, <1>4, <2>3, <2>4, <2>5
  <1>6. start(1) = a /\ start(q + 1) = a + q * c
    BY <1>2
  <1> HIDE DEF start
  <1>7. chunks[1].fromBlock = a
    BY <1>2, <1>3, <1>6
  <1>8. chunks[q + 1].toBlock = b
    <2>1. q + 1 \in 1..(q + 1)
      BY <1>2
    <2>2. start(q + 1) + c - 1 >= b /\ start(q + 1) + c - 1 \in Int
      BY <1>2, <1>4, <1>6
    <2>3. QED
      BY <1>3, <2>1, <2>2 DEF Earlier
  <1>9. ASSUME NEW i \in 1..(q + 1)
        PROVE  /\ chunks[i].fromBlock \in Int /\ chunks[i].toBlock \in Int
               /\ chunks[i].fromBlock <= chunks[i].toBlock
               /\ i < q + 1 => chunks[i + 1].fromBlock = chunks[i].toBlock + 1
    <2>1. chunks[i].fromBlock = start(i) /\ chunks[i].toBlock = Earlier(start(i) + c - 1, b)
      BY <1>3
    <2>2. CASE i < q + 1
      <3>1. i + 1 \in 1..(q + 1) /\ start(i) \in Int /\ start(i) + c <= b
        BY <1>2, <1>5, <2>2
      <3>2. chunks[i + 1].fromBlock = start(i) + c
        BY <1>3, <1>5, <3>1
      <3>3. chunks[i].toBlock = start(i) + c - 1
        BY <2>1, <3>1 DEF Earlier
      <3>4. QED
        BY <2>1, <3>1, <3>2, <3>3
    <2>3. CASE i = q + 1
      <3>1. start(i) \in Int /\ start(i) <= b
        BY <1>2, <1>4, <1>6, <2>3
      <3>2. QED
        BY <1>2, <1>8, <2>1, <2>3, <3>1
    <2>4. QED
      BY <1>2, <2>2, <2>3
  <1>10. q + 1 \in Nat \ {0}
    BY <1>2
  <1>11. InOrder(chunks, q + 1, a, b)
    BY <1>3, <1>7, <1>8, <1>9 DEF InOrder
  <1>12. QED
    BY <1>10, <1>11 DEF chunks

LEMMA FetchedAre ==
  ASSUME NEW a \in Nat, NEW b \in Nat, a <= b
  PROVE  fetchLogsChunked(a, b) = BlocksFrom(a, b)
  <1> DEFINE chunks == computeBlockChunks(a, b, LOG_CHUNK_BLOCKS)
             logs(i) == BlocksFrom(chunks[i].fromBlock, chunks[i].toBlock)
             upTo(k) == [i \in 1..k |-> logs(i)]
             end(k) == IF k = 0 THEN a - 1 ELSE chunks[k].toBlock
  <1>1. PICK count \in Nat \ {0} : InOrder(chunks, count, a, b)
    <2>1. LOG_CHUNK_BLOCKS \in Nat \ {0}
      BY LedgerConstants DEF LedgerConstants
    <2>2. QED
      BY <2>1, ChunksInOrder
  <1>2. fetchLogsChunked(a, b) = FlattenSeq(upTo(count))
    BY <1>1 DEF fetchLogsChunked, BlocksFrom, InOrder
  <1> HIDE DEF chunks
  <1>3. \A i \in 1..count : logs(i) \in Seq(Int)
    <2>1. SUFFICES ASSUME NEW i \in 1..count
                   PROVE  logs(i) \in Seq(Int)
      OBVIOUS
    <2>2. /\ chunks[i].fromBlock \in Int /\ chunks[i].toBlock \in Int
          /\ chunks[i].toBlock >= chunks[i].fromBlock - 1
      BY <1>1 DEF InOrder
    <2>3. QED
      BY <2>2, BlocksType
  <1> HIDE DEF logs
  <1> DEFINE T == {k \in Int : k \in 0..count => /\ FlattenSeq(upTo(k)) = BlocksFrom(a, end(k))
                                                 /\ end(k) \in Int /\ end(k) >= a - 1}
  <1>4. 0 \in T
    <2>1. upTo(0) = <<>> /\ BlocksFrom(a, a - 1) = <<>>
      BY DEF BlocksFrom
    <2>2. FlattenSeq(upTo(0)) = BlocksFrom(a, end(0))
      BY <2>1, FlattenEmpty
    <2>3. QED
      BY <2>2
  <1>5. ASSUME NEW k \in Int, k >= 0, k \in T
        PROVE  k + 1 \in T
    <2>1. SUFFICES ASSUME k + 1 \in 0..count
                   PROVE  /\ FlattenSeq(upTo(k + 1)) = BlocksFrom(a, end(k + 1))
                          /\ end(k + 1) \in Int /\ end(k + 1) >= a - 1
      OBVIOUS
    <2>2. /\ k \in Nat /\ k \in 0..count /\ k + 1 \in 1..count /\ k < count
          /\ FlattenSeq(upTo(k)) = BlocksFrom(a, end(k)) /\ end(k) \in Int /\ end(k) >= a - 1
      BY <1>1, <1>5, <2>1
    <2>3. /\ chunks[k + 1].fromBlock = end(k) + 1 /\ end(k + 1) = chunks[k + 1].toBlock
          /\ end(k + 1) \in Int /\ end(k) + 1 <= end(k + 1)
      <3>1. CASE k = 0
        <4>1. end(k) = a - 1 /\ end(k + 1) = chunks[1].toBlock /\ k + 1 = 1
          BY <3>1
        <4>2. 1 \in 1..count
          BY <1>1
        <4>3. QED
          BY <1>1, <4>1, <4>2 DEF InOrder
      <3>2. CASE k # 0
        <4>1. k \in 1..count
          BY <2>2, <3>2
        <4>2. QED
          BY <1>1, <2>2, <3>2, <4>1 DEF InOrder
      <3>3. QED
        BY <3>1, <3>2
    <2>4. /\ upTo(k) \in Seq(Seq(Int)) /\ logs(k + 1) \in Seq(Int)
          /\ upTo(k + 1) = Append(upTo(k), logs(k + 1))
      <3>1. \A i \in 1..k : logs(i) \in Seq(Int)
        BY <1>1, <1>3, <2>2
      <3>2. \A i \in 1..(k + 1) : logs(i) \in Seq(Int)
        BY <1>1, <1>3, <2>2
      <3>3. upTo(k) \in Seq(Seq(Int)) /\ Len(upTo(k)) = k
        <4>1. k \in Nat
          BY <2>2
        <4>2. QED
          BY <3>1, <4>1
      <3>4. upTo(k + 1) \in Seq(Seq(Int)) /\ Len(upTo(k + 1)) = k + 1
        BY <2>2, <3>2
      <3>5. upTo(k + 1) = Append(upTo(k), logs(k + 1))
        BY <2>2, <3>2, <3>3, <3>4
      <3>6. QED
        BY <2>2, <3>2, <3>3, <3>5
    <2>5. FlattenSeq(upTo(k + 1)) = FlattenSeq(upTo(k)) \o logs(k + 1)
      BY <2>4, FlattenAppend
    <2>6. logs(k + 1) = BlocksFrom(end(k) + 1, end(k + 1))
      BY <2>3 DEF logs
    <2> HIDE DEF end, upTo
    <2>7. a - 1 <= end(k) /\ end(k) <= end(k + 1)
      BY <2>2, <2>3
    <2>8. BlocksFrom(a, end(k)) \o BlocksFrom(end(k) + 1, end(k + 1)) = BlocksFrom(a, end(k + 1))
      <3>1. a \in Int /\ end(k) \in Int /\ end(k + 1) \in Int
        BY <2>2, <2>3
      <3>2. QED
        BY <2>7, <3>1, BlocksJoin, Zenon
    <2>9. end(k + 1) >= a - 1
      BY <2>2, <2>3, <2>7
    <2>10. QED
      BY <2>2, <2>3, <2>5, <2>6, <2>8, <2>9
  <1> HIDE DEF T
  <1>6. \A k \in Int : k >= 0 => k \in T
    <2>1. T \in SUBSET Int /\ 1 - 1 \in T /\ 1 \in Int
      BY <1>4 DEF T
    <2>2. \A k \in Int : k >= 1 - 1 /\ k \in T => k + 1 \in T
      BY <1>5
    <2>3. \A k \in Int : k >= 1 - 1 => k \in T
      BY <2>1, <2>2, BlockByBlock
    <2>4. QED
      BY <2>3
  <1>7. count \in T /\ count \in 0..count
    BY <1>1, <1>6
  <1>8. FlattenSeq(upTo(count)) = BlocksFrom(a, end(count))
    BY <1>7 DEF T
  <1>9. end(count) = b
    BY <1>1 DEF InOrder
  <1>10. QED
    BY <1>2, <1>8, <1>9

\* However its range is cut, a poll brings the rows of that range.
LEMMA RangeFetched ==
  ASSUME NEW address, NEW lacking, NEW a \in Nat, NEW b \in Nat
  PROVE  fetchLedgerRange(address, a, b, lacking) = RowsFrom(address, a, b, lacking)
  <1>1. CASE a <= b
    <2>1. fetchLogsChunked(a, b) = BlocksFrom(a, b)
      BY <1>1, FetchedAre
    <2>2. DOMAIN BlocksFrom(a, b) = 1..(b - a + 1)
      BY DEF BlocksFrom
    <2>3. [i \in DOMAIN BlocksFrom(a, b) |-> forBorrower(address, BlocksFrom(a, b)[i], lacking)]
          = [i \in 1..(b - a + 1) |-> forBorrower(address, a + i - 1, lacking)]
      BY <2>2 DEF BlocksFrom
    <2>4. QED
      BY <2>1, <2>3 DEF fetchLedgerRange, RowsFrom
  <1>2. CASE b < a
    <2> DEFINE chunks == computeBlockChunks(a, b, LOG_CHUNK_BLOCKS)
               logs == fetchLogsChunked(a, b)
    <2>1. chunks = <<>>
      <3>1. DOMAIN chunks = {} /\ chunks = [i \in DOMAIN chunks |-> chunks[i]]
        BY <1>2 DEF computeBlockChunks
      <3>2. QED
        BY <3>1
    <2>2. logs = <<>>
      BY <2>1, FlattenEmpty DEF fetchLogsChunked
    <2>3. [i \in DOMAIN logs |-> forBorrower(address, logs[i], lacking)] = <<>>
      BY <2>2
    <2>4. QED
      BY <1>2, <2>3, FlattenEmpty, RowsNone DEF fetchLedgerRange
  <1>3. QED
    BY <1>1, <1>2

\* What the nodes lack of a range is within that range.
LEMMA LackingsWithin ==
  ASSUME NEW a \in Nat, NEW b \in Nat, NEW lacking \in Lackings(a, b)
  PROVE  lacking \subseteq a..b
  <1> DEFINE chunks == computeBlockChunks(a, b, LOG_CHUNK_BLOCKS)
  <1>1. LOG_CHUNK_BLOCKS \in Nat
    BY LedgerConstants DEF LedgerConstants
  <1>2. ASSUME NEW i \in DOMAIN chunks
        PROVE  chunks[i].fromBlock..chunks[i].toBlock \subseteq a..b
    <2> DEFINE count == IF a > b THEN 0 ELSE (b - a) \div LOG_CHUNK_BLOCKS + 1
    <2>1. /\ i \in 1..count
          /\ chunks[i].fromBlock = a + (i - 1) * LOG_CHUNK_BLOCKS
          /\ chunks[i].toBlock = Earlier(a + (i - 1) * LOG_CHUNK_BLOCKS + LOG_CHUNK_BLOCKS - 1, b)
      BY <1>2 DEF computeBlockChunks
    <2> HIDE DEF chunks, count
    <2>2. i - 1 \in Nat
      BY <2>1
    <2>3. (i - 1) * LOG_CHUNK_BLOCKS \in Nat
      BY <1>1, <2>2
    <2>4. QED
      BY <1>1, <2>1, <2>3 DEF Earlier
  <1>3. PICK nodes \in [DOMAIN chunks -> 0..b] :
          lacking = UNION {{n \in chunks[i].fromBlock..chunks[i].toBlock : n > nodes[i]} : i \in DOMAIN chunks}
    BY DEF Lackings
  <1> HIDE DEF chunks
  <1>4. QED
    BY <1>2, <1>3

-----------------------------------------------------------------------------
(* The record page *)

PollOfRecord ==
  [address : Records, effect : {"running", "cancelled"}, at : {"head", "logs"},
   fromBlock : Nat, toBlock : Nat]

\* Only one poll may still speak; it asks on from where the scan is, and for
\* blocks that are mined.
LedgerInv ==
  /\ record \in Records \union {NoRecord}
  /\ scannedThrough \in Nat /\ rows \in Seq(Int) /\ headWentBack \in BOOLEAN
  /\ ticks \subseteq PollOfRecord
  /\ \A t \in ticks :
       /\ t.at = "logs" => t.toBlock <= HeadBlock
       /\ t.effect = "running" =>
            /\ t.address = record
            /\ t.at = "logs" => t.fromBlock = scannedThrough + 1
            /\ \A u \in ticks : u.effect = "running" => u = t
  /\ record # NoRecord =>
       /\ scannedThrough <= HeadBlock \/ scannedThrough < ORIGIN_BLOCK
       /\ ToSet(EventsOf(record, scannedThrough, unserved)) \subseteq ToSet(rows)
       /\ headWentBack \/ (scannedThrough >= ORIGIN_BLOCK - 1
                           /\ rows = EventsOf(record, scannedThrough, unserved))

LEMMA EventsAreRows ==
  ASSUME NEW address, NEW n, NEW lacking
  PROVE  EventsOf(address, n, lacking) = RowsFrom(address, ORIGIN_BLOCK, n, lacking)
  BY DEF EventsOf, RowsFrom

\* Polls are changed or begun; what is on display stays.
LEMMA TicksChange ==
  ASSUME LedgerInv, UNCHANGED <<log, record, scannedThrough, rows, headWentBack, unserved>>,
         ticks' \subseteq PollOfRecord,
         \A t \in ticks' :
           /\ t.at = "logs" => t.toBlock <= HeadBlock
           /\ t.effect = "running" =>
                /\ t.address = record
                /\ t.at = "logs" => t.fromBlock = scannedThrough + 1
                /\ \A u \in ticks' : u.effect = "running" => u = t
  PROVE  LedgerInv'
  <1>1. HeadBlock' = HeadBlock
    BY DEF HeadBlock
  <1>2. EventsOf(record, scannedThrough, unserved)' = EventsOf(record, scannedThrough, unserved)
    BY DEF EventsOf, forBorrower
  <1>3. QED
    BY <1>1, <1>2 DEF LedgerInv

LEMMA CancelledAre ==
  ASSUME LedgerInv
  PROVE  /\ TicksCancelled \subseteq PollOfRecord
         /\ \A t \in TicksCancelled : /\ t.effect = "cancelled"
                                      /\ t.at = "logs" => t.toBlock <= HeadBlock
  <1>1. ASSUME NEW t \in ticks
        PROVE  LET u == [t EXCEPT !.effect = "cancelled"]
               IN  /\ u \in PollOfRecord /\ u.effect = "cancelled"
                   /\ u.at = "logs" => u.toBlock <= HeadBlock
    <2>1. t \in PollOfRecord /\ (t.at = "logs" => t.toBlock <= HeadBlock)
      BY DEF LedgerInv
    <2>2. QED
      BY <2>1 DEF PollOfRecord
  <1>2. QED
    BY <1>1 DEF TicksCancelled

LEMMA LedgerStep ==
  ASSUME HeadBlock \in Nat, LedgerInv, LedgerNext, UNCHANGED chainVars
  PROVE  LedgerInv'
  <1>1. UNCHANGED log /\ HeadBlock' = HeadBlock
    BY DEF chainVars, HeadBlock
  <1>2. ASSUME NEW address \in Records, ShowRecord(address)
        PROVE  LedgerInv'
    <2>1. /\ record' = address /\ scannedThrough' = ORIGIN_BLOCK - 1 /\ rows' = <<>>
          /\ ticks' = TicksCancelled \union {AskHead(address)} /\ headWentBack' = FALSE
          /\ unserved' = {}
      BY <1>2 DEF ShowRecord
    <2>2. AskHead(address) \in PollOfRecord /\ AskHead(address).at = "head"
          /\ AskHead(address).address = address
      BY DEF AskHead, PollOfRecord
    <2>3. ORIGIN_BLOCK \in Nat \ {0} /\ ORIGIN_BLOCK - 1 \in Nat
      BY LedgerConstants DEF LedgerConstants
    <2>4. EventsOf(record, scannedThrough, unserved)' = <<>>
      <3>1. EventsOf(record, scannedThrough, unserved)' = EventsOf(address, ORIGIN_BLOCK - 1, {})
        BY <1>1, <2>1 DEF EventsOf, forBorrower
      <3>2. QED
        BY <2>3, <3>1, EventsAreRows, RowsNone
    <2>5. rows' \in Seq(Int) /\ ticks' \subseteq PollOfRecord
      BY <2>1, <2>2, CancelledAre, EmptySeq
    <2>6. \A t \in ticks' : t = AskHead(address) \/ (t.effect = "cancelled" /\ (t.at = "logs" => t.toBlock <= HeadBlock))
      BY <2>1, CancelledAre
    <2>7. \A t \in ticks' :
            /\ t.at = "logs" => t.toBlock <= HeadBlock
            /\ t.effect = "running" => t = AskHead(address)
      BY <2>2, <2>6
    <2>8. /\ record' \in Records \union {NoRecord}
          /\ scannedThrough' \in Nat /\ headWentBack' \in BOOLEAN
          /\ scannedThrough' < ORIGIN_BLOCK /\ scannedThrough' >= ORIGIN_BLOCK - 1
      <3>1. headWentBack' \in BOOLEAN
        BY <2>1, Zenon
      <3>2. record' \in Records \union {NoRecord} /\ scannedThrough' = ORIGIN_BLOCK - 1
        BY <2>1, Zenon
      <3>3. QED
        BY <2>3, <3>1, <3>2
    <2>9. ToSet(EventsOf(record, scannedThrough, unserved)') \subseteq ToSet(rows')
          /\ rows' = EventsOf(record, scannedThrough, unserved)'
      BY <2>1, <2>4
    <2>10. \A t \in ticks' :
             /\ t.at = "logs" => t.toBlock <= HeadBlock
             /\ t.effect = "running" =>
                  /\ t.address = record'
                  /\ t.at = "logs" => t.fromBlock = scannedThrough' + 1
                  /\ \A u \in ticks' : u.effect = "running" => u = t
      BY <2>1, <2>2, <2>7
    <2>11. QED
      BY <1>1, <2>5, <2>8, <2>9, <2>10 DEF LedgerInv
  <1>3. CASE LeaveRecord
    <2>1. /\ record' = NoRecord /\ scannedThrough' = 0 /\ rows' = <<>> /\ headWentBack' = FALSE
          /\ ticks' = TicksCancelled
      BY <1>3 DEF LeaveRecord
    <2>2. rows' \in Seq(Int)
      BY <2>1, EmptySeq
    <2>3. QED
      BY <1>1, <2>1, <2>2, CancelledAre DEF LedgerInv
  <1>4. CASE Tick
    <2>1. /\ record \in Records
          /\ UNCHANGED <<record, scannedThrough, rows, headWentBack, unserved>>
          /\ ticks' = ticks \union {AskHead(record)} /\ ~\E t \in ticks : t.effect = "running"
      BY <1>4 DEF Tick, InFlight, LedgerInv
    <2>2. AskHead(record) \in PollOfRecord /\ AskHead(record).at = "head"
          /\ AskHead(record).address = record
      BY <2>1 DEF AskHead, PollOfRecord
    <2>3. ticks' \subseteq PollOfRecord /\ \A t \in ticks : t.at = "logs" => t.toBlock <= HeadBlock
      BY <2>1, <2>2 DEF LedgerInv
    <2>4. QED
      BY <1>1, <2>1, <2>2, <2>3, TicksChange
  <1>5. ASSUME NEW t \in ticks, NEW head \in HeadsSeen, HeadAnswered(t, head)
        PROVE  LedgerInv'
    <2> DEFINE u == [t EXCEPT !.at = "logs", !.fromBlock = scannedThrough + 1,
                              !.toBlock = Earlier(head, MaxBlockOf[t.address])]
    <2>1. /\ ticks' = (ticks \ {t}) \union {u}
          /\ UNCHANGED <<record, scannedThrough, rows, headWentBack, unserved>>
      BY <1>5 DEF HeadAnswered
    <2>2. t \in PollOfRecord /\ scannedThrough \in Nat
      BY DEF LedgerInv
    <2>3. Earlier(head, MaxBlockOf[t.address]) \in Nat /\ Earlier(head, MaxBlockOf[t.address]) <= HeadBlock
      <3>1. head \in Nat /\ head <= HeadBlock
        BY DEF HeadsSeen, ServedUpTo
      <3>2. MaxBlockOf[t.address] \in Nat
        BY <2>2, LedgerConstants, PageChainConstants
           DEF LedgerConstants, PageChainConstants, PollOfRecord, Uncapped
      <3>3. QED
        BY <3>1, <3>2 DEF Earlier
    <2>4. u \in PollOfRecord /\ u.effect = t.effect /\ u.address = t.address
          /\ u.fromBlock = scannedThrough + 1 /\ u.toBlock <= HeadBlock
      <3>1. ASSUME NEW from \in Nat, NEW to \in Nat
            PROVE  LET v == [t EXCEPT !.at = "logs", !.fromBlock = from, !.toBlock = to]
                   IN  /\ v \in PollOfRecord /\ v.effect = t.effect /\ v.address = t.address
                       /\ v.fromBlock = from /\ v.toBlock = to
        BY <2>2 DEF PollOfRecord
      <3>2. scannedThrough + 1 \in Nat
        BY <2>2
      <3>3. QED
        BY <2>3, <3>1, <3>2
    <2> HIDE DEF u
    <2>5. ticks' \subseteq PollOfRecord
      BY <2>1, <2>4 DEF LedgerInv
    <2>6. \A p \in ticks' :
           /\ p.at = "logs" => p.toBlock <= HeadBlock
           /\ p.effect = "running" =>
                /\ p.address = record
                /\ p.at = "logs" => p.fromBlock = scannedThrough + 1
                /\ \A q \in ticks' : q.effect = "running" => q = p
      BY <2>1, <2>4 DEF LedgerInv
    <2>7. QED
      BY <1>1, <2>1, <2>5, <2>6, TicksChange
  <1>6. ASSUME NEW t \in ticks, LogsAnswered(t)
        PROVE  LedgerInv'
    <2>1. CASE t.effect = "cancelled"
      <3>1. /\ ticks' = ticks \ {t}
            /\ UNCHANGED <<record, scannedThrough, rows, headWentBack, unserved>>
        BY <1>6, <2>1 DEF LogsAnswered
      <3>2. QED
        BY <1>1, <3>1, TicksChange DEF LedgerInv
    <2>2. CASE t.effect = "running"
      <3>0. PICK lacking \in Lackings(t.fromBlock, t.toBlock) :
              /\ scannedThrough' = t.toBlock
              /\ rows' = rows \o fetchLedgerRange(t.address, t.fromBlock, t.toBlock, lacking)
              /\ headWentBack' = (headWentBack \/ t.toBlock < scannedThrough)
              /\ unserved' = (unserved \ (t.fromBlock..t.toBlock))
                              \union {n \in lacking : log[n].borrower = t.address}
        BY <1>6, <2>2 DEF LogsAnswered
      <3>1. /\ ticks' = ticks \ {t} /\ scannedThrough' = t.toBlock /\ t.at = "logs"
            /\ rows' = rows \o fetchLedgerRange(t.address, t.fromBlock, t.toBlock, lacking)
            /\ headWentBack' = (headWentBack \/ t.toBlock < scannedThrough)
            /\ record' = record
        BY <1>6, <2>2, <3>0 DEF LogsAnswered
      <3>2. /\ t \in PollOfRecord /\ t.address = record /\ record \in Records /\ record # NoRecord
            /\ t.fromBlock = scannedThrough + 1 /\ t.toBlock <= HeadBlock
        BY <2>2, <3>1, LedgerConstants DEF LedgerInv, PollOfRecord, LedgerConstants
      <3> DEFINE s == scannedThrough
                 n == t.toBlock
                 new == RowsFrom(record, s + 1, n, lacking)
                 gone == (unserved \ ((s + 1)..n)) \union {m \in lacking : log[m].borrower = record}
      <3>3. s \in Nat /\ n \in Nat /\ s + 1 \in Nat /\ ORIGIN_BLOCK \in Nat /\ rows \in Seq(Int)
        BY <3>2, LedgerConstants DEF LedgerInv, PollOfRecord, LedgerConstants
      <3>4. rows' = rows \o new /\ new \in Seq(Int)
        <4>1. fetchLedgerRange(record, s + 1, n, lacking) = new
          BY <3>3, RangeFetched
        <4>2. s + 1 \in Int /\ n \in Int
          BY <3>3
        <4>3. new \in Seq(Int)
          BY <4>2, RowsType
        <4>4. QED
          BY <3>1, <3>2, <4>1, <4>3
      <3>5. ToSet(rows') = ToSet(rows) \union {m \in (s + 1)..n : log[m].borrower = record /\ m \notin lacking}
        BY <3>3, <3>4, JoinedSet, RowsAre
      <3>6. /\ EventsOf(record, scannedThrough, unserved) = RowsFrom(record, ORIGIN_BLOCK, s, unserved)
            /\ EventsOf(record, scannedThrough, unserved)' = RowsFrom(record, ORIGIN_BLOCK, n, gone)
        <4>1. unserved' = gone
          BY <3>0, <3>2
        <4> HIDE DEF gone
        <4>2. EventsOf(record, scannedThrough, unserved)' = EventsOf(record, n, gone)
          BY <1>1, <3>1, <4>1 DEF EventsOf, forBorrower
        <4>3. QED
          BY <4>2, EventsAreRows
      <3>13. lacking \subseteq (s + 1)..n
        BY <3>2, <3>3, LackingsWithin
      <3>14. \A m \in ORIGIN_BLOCK..s : m \in unserved <=> m \in gone
        <4>1. \A m \in ORIGIN_BLOCK..s : m \notin (s + 1)..n
          BY <3>3
        <4>2. QED
          BY <3>13, <4>1
      <3>15. \A m \in (s + 1)..n : log[m].borrower = record => (m \in lacking <=> m \in gone)
        OBVIOUS
      <3>7. ToSet(EventsOf(record, scannedThrough, unserved)') \subseteq ToSet(rows')
        <4>1. ToSet(RowsFrom(record, ORIGIN_BLOCK, s, unserved)) \subseteq ToSet(rows)
          BY <3>2, <3>6 DEF LedgerInv
        <4>2. {m \in ORIGIN_BLOCK..s : log[m].borrower = record /\ m \notin unserved} \subseteq ToSet(rows)
          BY <3>3, <4>1, RowsAre
        <4>3. ToSet(RowsFrom(record, ORIGIN_BLOCK, n, gone))
              = {m \in ORIGIN_BLOCK..n : log[m].borrower = record /\ m \notin gone}
          BY <3>3, RowsAre
        <4>4. \A m \in ORIGIN_BLOCK..n : m \in ORIGIN_BLOCK..s \/ m \in (s + 1)..n
          BY <3>3
        <4> HIDE DEF gone
        <4>5. QED
          BY <3>5, <3>6, <3>14, <3>15, <4>2, <4>3, <4>4
      <3>8. ASSUME ~headWentBack'
            PROVE  n >= ORIGIN_BLOCK - 1 /\ rows' = EventsOf(record, scannedThrough, unserved)'
        <4>0. ~headWentBack /\ ~(n < s)
          BY <3>1, <3>8, Zenon
        <4>1. n >= s
          BY <3>3, <4>0
        <4>2. s >= ORIGIN_BLOCK - 1 /\ rows = RowsFrom(record, ORIGIN_BLOCK, s, unserved)
          BY <3>2, <3>6, <4>0 DEF LedgerInv
        <4>3. RowsFrom(record, ORIGIN_BLOCK, s, unserved) \o new = RowsFrom(record, ORIGIN_BLOCK, n, gone)
          <5>1. /\ ORIGIN_BLOCK \in Int /\ s \in Int /\ n \in Int /\ s + 1 \in Int
                /\ ORIGIN_BLOCK - 1 <= s /\ s <= n
            BY <3>3, <4>1, <4>2
          <5>2. new = RowsFrom(record, s + 1, n, lacking)
            OBVIOUS
          <5> HIDE DEF gone, new, s, n
          <5>3. RowsFrom(record, ORIGIN_BLOCK, s, unserved) \o RowsFrom(record, s + 1, n, lacking)
                = RowsFrom(record, ORIGIN_BLOCK, n, gone)
            <6>1. \A m \in ORIGIN_BLOCK..s : log[m].borrower = record => (m \in unserved <=> m \in gone)
              BY <3>14
            <6>2. RowsFrom(record, ORIGIN_BLOCK, s, unserved) = RowsFrom(record, ORIGIN_BLOCK, s, gone)
              BY <5>1, <6>1, RowsAlike
            <6>3. RowsFrom(record, s + 1, n, lacking) = RowsFrom(record, s + 1, n, gone)
              BY <3>15, <5>1, RowsAlike
            <6>4. RowsFrom(record, ORIGIN_BLOCK, s, gone) \o RowsFrom(record, s + 1, n, gone)
                  = RowsFrom(record, ORIGIN_BLOCK, n, gone)
              BY <5>1, RowsJoin, Zenon
            <6>5. QED
              BY <6>2, <6>3, <6>4
          <5>4. QED
            BY <5>2, <5>3
        <4>4. n >= ORIGIN_BLOCK - 1
          BY <3>3, <4>1, <4>2
        <4>5. rows' = EventsOf(record, scannedThrough, unserved)'
          BY <3>4, <3>6, <4>2, <4>3
        <4>6. QED
          BY <4>4, <4>5
      <3>9. rows' \in Seq(Int) /\ headWentBack' \in BOOLEAN
        BY <3>1, <3>3, <3>4, ConcatProperties DEF LedgerInv
      <3>10. \A p \in ticks' : p.effect # "running"
        BY <2>2, <3>1 DEF LedgerInv
      <3>11. ticks' \subseteq PollOfRecord /\ \A p \in ticks' : p.at = "logs" => p.toBlock <= HeadBlock
        BY <3>1 DEF LedgerInv
      <3> HIDE DEF s, new
      <3>12. QED
        BY <1>1, <3>1, <3>2, <3>3, <3>7, <3>8, <3>9, <3>10, <3>11 DEF LedgerInv
    <2>3. QED
      BY <2>1, <2>2 DEF LedgerInv, PollOfRecord
  <1>7. ASSUME NEW t \in ticks, TickFailed(t)
        PROVE  LedgerInv'
    <2>1. ticks' = ticks \ {t} /\ UNCHANGED <<record, scannedThrough, rows, headWentBack, unserved>>
      BY <1>7 DEF TickFailed
    <2>2. QED
      BY <1>1, <2>1, TicksChange DEF LedgerInv
  <1>8. QED
    BY <1>2, <1>3, <1>4, <1>5, <1>6, <1>7 DEF LedgerNext

\* A block more changes no row of those before it.
LEMMA MineKeepsLedger ==
  ASSUME NEW E, log \in Seq(E), NEW e \in E, log' = Append(log, e), LedgerInv, UNCHANGED ledgerVars
  PROVE  LedgerInv'
  <1>1. HeadBlock \in Nat /\ HeadBlock' = HeadBlock + 1 /\ \A i \in 1..HeadBlock : log'[i] = log[i]
    BY DEF HeadBlock
  <1>2. UNCHANGED <<record, scannedThrough, rows, ticks, headWentBack, unserved>>
    BY DEF ledgerVars
  <1>3. ASSUME record # NoRecord
        PROVE  EventsOf(record, scannedThrough, unserved)' = EventsOf(record, scannedThrough, unserved)
    <2>1. scannedThrough \in Nat /\ ORIGIN_BLOCK \in Nat \ {0}
          /\ (scannedThrough <= HeadBlock \/ scannedThrough < ORIGIN_BLOCK)
      BY <1>3, LedgerConstants DEF LedgerInv, LedgerConstants
    <2>2. \A i \in 1..(scannedThrough - ORIGIN_BLOCK + 1) : ORIGIN_BLOCK + i - 1 \in 1..HeadBlock
      BY <1>1, <2>1
    <2>3. \A i \in 1..(scannedThrough - ORIGIN_BLOCK + 1) :
            log'[ORIGIN_BLOCK + i - 1] = log[ORIGIN_BLOCK + i - 1]
      BY <1>1, <2>2
    <2>4. QED
      BY <1>2, <2>3 DEF EventsOf, forBorrower
  <1>4. \A t \in ticks : t.at = "logs" => t.toBlock <= HeadBlock'
    BY <1>1 DEF LedgerInv, PollOfRecord
  <1>5. record # NoRecord => scannedThrough <= HeadBlock' \/ scannedThrough < ORIGIN_BLOCK
    BY <1>1 DEF LedgerInv
  <1>6. QED
    BY <1>2, <1>3, <1>4, <1>5 DEF LedgerInv

LEMMA LedgerInvStep ==
  ASSUME ScanInv, LedgerInv, [DappNext]_dappVars
  PROVE  LedgerInv'
  <1>1. HeadBlock \in Nat
    BY DEF ScanInv, HeadBlock
  <1>2. CASE UNCHANGED <<chainVars, ledgerVars>>
    <2>1. /\ log' = log /\ ticks' = ticks
          /\ UNCHANGED <<record, scannedThrough, rows, headWentBack, unserved>>
      BY <1>2 DEF chainVars, ledgerVars
    <2>2. QED
      BY <2>1, TicksChange DEF LedgerInv
  <1>3. CASE Mine /\ UNCHANGED ledgerVars
    <2>1. PICK e \in Events : log' = Append(log, e)
      BY <1>3 DEF Mine, Events, CollateralPosted, CollateralWithdrawn
    <2>2. log \in Seq(Events)
      BY DEF ScanInv
    <2>3. QED
      BY <1>3, <2>1, <2>2, MineKeepsLedger
  <1>4. CASE LedgerNext /\ UNCHANGED chainVars
    BY <1>1, <1>4, LedgerStep
  <1>5. CASE PositionsNext
    BY <1>2, <1>3, <1>5 DEF PositionsNext
  <1>6. CASE RecordNext
    BY <1>3, <1>4, <1>6 DEF RecordNext
  <1>7. QED
    BY <1>2, <1>5, <1>6 DEF DappNext, StandingNext, LendViewNext, BackendNext, ScriptsNext,
                            DeployNext, dappVars, visitorVars

(***************************************************************************)
(* The ledger is its borrower's history, a row per event in the order of   *)
(* the chain, for any log, any origin and cap, any size of chunk, any      *)
(* number of polls of records left that are still under way, and nodes any *)
(* number of blocks behind: the rows that lack are exactly those of blocks *)
(* that the node asked for their logs did not have.                        *)
(***************************************************************************)
THEOREM DappLedgerIsHistory == DappSpec => []LedgerIsHistory
  <1>1. DappInit => LedgerInv
    <2>1. SUFFICES ASSUME DappInit
                   PROVE  LedgerInv
      OBVIOUS
    <2>2. /\ record = NoRecord /\ scannedThrough = 0 /\ rows = <<>>
          /\ ticks = {} /\ headWentBack = FALSE
      BY <2>1 DEF DappInit, LedgerInit
    <2>3. rows \in Seq(Int) /\ headWentBack \in BOOLEAN
      BY <2>2, EmptySeq
    <2>4. QED
      BY <2>2, <2>3 DEF LedgerInv
  <1>2. DappInit => ScanInv
    BY ScanInvInit
  <1>3. ScanInv /\ [DappNext]_dappVars => ScanInv'
    BY ScanInvStep
  <1>4. ScanInv /\ LedgerInv /\ [DappNext]_dappVars => LedgerInv'
    BY LedgerInvStep
  <1>5. LedgerInv => LedgerIsHistory
    BY DEF LedgerInv, LedgerIsHistory
  <1>6. QED
    BY <1>1, <1>2, <1>3, <1>4, <1>5, PTL DEF DappSpec

-----------------------------------------------------------------------------
(* full-clear, among the other scripts *)

\* Who sends what: the borrower's calls are nobody else's.
BorrowerCalls == {"postCollateral", "borrow", "repay", "repayAll", "withdrawCollateral"}
ServiceCalls == {"deposit", "flag", "startUnwind", "completeUnwind", "liquidate"}
FactsSeen == {"ACTIVE", "FROZEN"}

ScriptSteps ==
  [do : {"send"}, from : {"borrower"}, call : BorrowerCalls, what : Nat]
    \cup [do : {"send"}, from : {"deployer"}, call : ServiceCalls, what : Nat]
    \cup [do : {"send"}, from : {"deployer"}, call : {"setMode"}, what : {"ValidatorGated", "AttestorGated"}]
    \cup [do : {"sendIf"}, when : {"insufficient"}, from : {"deployer"}, call : {"liquidate"}, what : {0}]
    \cup [do : {"sendIf"}, when : {"residual"}, from : {"borrower"}, call : {"withdrawCollateral"}, what : {0}]
    \cup [do : {"read"}, field : {"state", "debt", "collateral", "facts"}]
    \cup [do : {"expect"}, what : {"active", "clean", "standing", "indebted", "debtFree"}]
    \cup [do : {"updateStatus"}, to : FactsSeen]
    \cup [do : {"attest"}, status : {"as read", "FROZEN"}]

Transactions ==
  [from : {"borrower"}, call : BorrowerCalls, what : Nat]
    \cup [from : {"deployer"}, call : ServiceCalls, what : Nat]
    \cup [from : {"deployer"}, call : {"setMode"}, what : {"ValidatorGated", "AttestorGated"}]
    \cup [from : {"attestor"}, call : {"attest"}, what : FactsSeen]

TestnetStates ==
  [borrower : {"demo", "e2e"}, collateral : Nat, debt : Nat,
   mode : {"ValidatorGated", "AttestorGated"}, facts : FactsSeen,
   attested : {"nothing", "ACTIVE", "FROZEN", "stale"}, state : GuardianState,
   graceOver : BOOLEAN]
Readings == [state : GuardianState, debt : Nat, collateral : Nat, facts : FactsSeen]
Runs == [script : DOMAIN Scripts \cup {"none"}, pc : Nat, how : {"running", "done", "failed"},
         seen : Readings]

Clearing == Running /\ run.script = "fullClear"

\* From its first transaction on nothing of the borrower's is late; once it saw
\* the position empty, it alone puts anything into it.
FullClearInv ==
  /\ testnet \in TestnetStates /\ run \in Runs
  /\ late # NoTx => late \in Transactions
  /\ Running => run.script \in DOMAIN Scripts /\ run.pc \in 1..Len(Scripts[run.script])
  /\ Clearing /\ run.pc >= 3 => ~Blocked("borrower")
  /\ Clearing /\ run.pc = 6 => testnet.collateral = 0 /\ testnet.debt = 0
  /\ Clearing /\ run.pc = 7 => testnet.collateral = COLLATERAL_AMOUNT /\ testnet.debt = 0

LEMMA StepKinds ==
  /\ \A call \in BorrowerCalls, n \in Nat : Sends("borrower", call, n) \in ScriptSteps
  /\ \A call \in ServiceCalls, n \in Nat : Sends("deployer", call, n) \in ScriptSteps
  /\ \A gate \in {"ValidatorGated", "AttestorGated"} :
       Sends("deployer", "setMode", gate) \in ScriptSteps
  /\ SendIf("insufficient", "deployer", "liquidate") \in ScriptSteps
  /\ SendIf("residual", "borrower", "withdrawCollateral") \in ScriptSteps
  /\ \A field \in {"state", "debt", "collateral", "facts"} : Read(field) \in ScriptSteps
  /\ \A what \in {"active", "clean", "standing", "indebted", "debtFree"} :
       Expect(what) \in ScriptSteps
  /\ \A to \in FactsSeen : UpdateStatus(to) \in ScriptSteps
  /\ \A status \in {"as read", "FROZEN"} : Attest(status) \in ScriptSteps
  BY DEF ScriptSteps, Sends, SendIf, Read, Expect, UpdateStatus, Attest

LEMMA ScriptAmounts ==
  /\ COLLATERAL_AMOUNT \in Nat /\ BORROW_AMOUNT \in Nat /\ BORROW_ATTEMPT_AMOUNT \in Nat
  /\ Headroom \in Nat /\ MaxPosition \in Nat /\ 0 \in Nat
  BY ScriptConstants

\* The texts a script can have: it is never empty.
Texts(S) == {s \in Seq(S) : Len(s) > 0}

LEMMA TuplesOf ==
  ASSUME NEW S
  PROVE  /\ \A a \in S : <<a>> \in Texts(S)
         /\ \A a, b \in S : <<a, b>> \in Texts(S)
         /\ \A a, b, c, d \in S : <<a, b, c, d>> \in Texts(S)
         /\ \A a, b, c, d, e \in S : <<a, b, c, d, e>> \in Texts(S)
         /\ \A a, b, c, d, e, f, g \in S : <<a, b, c, d, e, f, g>> \in Texts(S)
         /\ \A s, t \in Texts(S) : s \o t \in Texts(S)
  <1>1. \A a \in S : <<a>> \in Texts(S)
    BY DEF Texts
  <1>2. \A a, b \in S : <<a, b>> \in Texts(S)
    BY DEF Texts
  <1>3. \A a, b, c, d \in S : <<a, b, c, d>> \in Texts(S)
    BY DEF Texts
  <1>4. \A a, b, c, d, e \in S : <<a, b, c, d, e>> \in Texts(S)
    BY DEF Texts
  <1>5. \A a, b, c, d, e, f, g \in S : <<a, b, c, d, e, f, g>> \in Texts(S)
    BY DEF Texts
  <1>6. \A s, t \in Texts(S) : s \o t \in Texts(S)
    BY DEF Texts
  <1>7. QED
    BY <1>1, <1>2, <1>3, <1>4, <1>5, <1>6

LEMMA PhasesAreSteps ==
  /\ phaseBorrow \in Texts(ScriptSteps) /\ phaseFreeze \in Texts(ScriptSteps)
  /\ phaseFlag \in Texts(ScriptSteps) /\ phaseUnwind \in Texts(ScriptSteps)
  /\ hedgeSwitchMode \in Texts(ScriptSteps) /\ hedgeRestoreMode \in Texts(ScriptSteps)
  /\ hedgeFreezeAttest \in Texts(ScriptSteps) /\ hedgeUnwind \in Texts(ScriptSteps)
  /\ resetDemoPositionContinue \in Texts(ScriptSteps) /\ resetDemoPosition \in Texts(ScriptSteps)
  /\ fullClear \in Texts(ScriptSteps) /\ freezeAndAttest \in Texts(ScriptSteps)
  /\ lifecycleLite \in Texts(ScriptSteps) /\ onboardingE2E \in Texts(ScriptSteps)
  <1>1. /\ \A a \in ScriptSteps : <<a>> \in Texts(ScriptSteps)
        /\ \A a, b \in ScriptSteps : <<a, b>> \in Texts(ScriptSteps)
        /\ \A a, b, c, d \in ScriptSteps : <<a, b, c, d>> \in Texts(ScriptSteps)
        /\ \A a, b, c, d, e \in ScriptSteps : <<a, b, c, d, e>> \in Texts(ScriptSteps)
        /\ \A a, b, c, d, e, f, g \in ScriptSteps :
             <<a, b, c, d, e, f, g>> \in Texts(ScriptSteps)
        /\ \A s, t \in Texts(ScriptSteps) : s \o t \in Texts(ScriptSteps)
    BY TuplesOf
  <1>2. /\ Read("facts") \in ScriptSteps /\ Read("state") \in ScriptSteps
        /\ Read("debt") \in ScriptSteps /\ Read("collateral") \in ScriptSteps
        /\ Attest("as read") \in ScriptSteps /\ Attest("FROZEN") \in ScriptSteps
        /\ UpdateStatus("ACTIVE") \in ScriptSteps /\ UpdateStatus("FROZEN") \in ScriptSteps
        /\ Expect("active") \in ScriptSteps /\ Expect("clean") \in ScriptSteps
        /\ Expect("standing") \in ScriptSteps /\ Expect("indebted") \in ScriptSteps
        /\ Expect("debtFree") \in ScriptSteps
        /\ SendIf("insufficient", "deployer", "liquidate") \in ScriptSteps
        /\ SendIf("residual", "borrower", "withdrawCollateral") \in ScriptSteps
    BY StepKinds DEF FactsSeen
  <1>3. /\ Sends("deployer", "deposit", 0) \in ScriptSteps
        /\ Sends("deployer", "flag", 0) \in ScriptSteps
        /\ Sends("deployer", "startUnwind", 0) \in ScriptSteps
        /\ Sends("deployer", "completeUnwind", 0) \in ScriptSteps
        /\ Sends("deployer", "setMode", "AttestorGated") \in ScriptSteps
        /\ Sends("deployer", "setMode", "ValidatorGated") \in ScriptSteps
    BY StepKinds DEF ServiceCalls
  <1>4. /\ \A n \in Nat : /\ Sends("borrower", "postCollateral", n) \in ScriptSteps
                          /\ Sends("borrower", "borrow", n) \in ScriptSteps
        /\ Sends("borrower", "repay", 0) \in ScriptSteps
        /\ Sends("borrower", "repayAll", 0) \in ScriptSteps
        /\ Sends("borrower", "withdrawCollateral", 0) \in ScriptSteps
        /\ Sends("borrower", "withdrawCollateral", COLLATERAL_AMOUNT) \in ScriptSteps
    BY StepKinds, ScriptAmounts DEF BorrowerCalls
  <1>5. lenderDeposit \in Texts(ScriptSteps) /\ submitRealAttestation \in Texts(ScriptSteps)
    BY <1>1, <1>2, <1>3, Zenon DEF lenderDeposit, submitRealAttestation
  <1>6. \A amount \in Nat : postAndBorrow(amount) \in Texts(ScriptSteps)
    BY <1>1, <1>4, ScriptAmounts, Zenon DEF postAndBorrow
  <1>7. /\ phaseFlag \in Texts(ScriptSteps) /\ phaseUnwind \in Texts(ScriptSteps)
        /\ hedgeSwitchMode \in Texts(ScriptSteps) /\ hedgeRestoreMode \in Texts(ScriptSteps)
        /\ hedgeFreezeAttest \in Texts(ScriptSteps) /\ hedgeUnwind \in Texts(ScriptSteps)
    BY <1>1, <1>2, <1>3, Zenon
       DEF phaseFlag, phaseUnwind, hedgeSwitchMode, hedgeRestoreMode, hedgeFreezeAttest,
           hedgeUnwind
  <1>8. /\ phaseBorrow \in Texts(ScriptSteps) /\ lifecycleLite \in Texts(ScriptSteps)
        /\ phaseFreeze \in Texts(ScriptSteps) /\ freezeAndAttest \in Texts(ScriptSteps)
        /\ resetDemoPositionContinue \in Texts(ScriptSteps)
    BY <1>1, <1>2, <1>5, <1>6, ScriptAmounts, Zenon
       DEF phaseBorrow, lifecycleLite, phaseFreeze, freezeAndAttest, resetDemoPositionContinue
  <1>9. resetDemoPosition \in Texts(ScriptSteps)
    BY <1>1, <1>2, <1>8, Zenon DEF resetDemoPosition
  <1>10. fullClear \in Texts(ScriptSteps)
    <2>1. <<Read("debt"), Sends("borrower", "repay", 0), Read("collateral"),
            Sends("borrower", "withdrawCollateral", 0), Expect("clean")>> \in Texts(ScriptSteps)
      BY <1>1, <1>2, <1>4, Zenon
    <2>2. QED
      BY <1>1, <1>6, <2>1, ScriptAmounts, Zenon DEF fullClear
  <1>11. onboardingE2E \in Texts(ScriptSteps)
    <2>1. <<Expect("indebted"), Sends("borrower", "repayAll", 0), Expect("debtFree"),
            Sends("borrower", "withdrawCollateral", COLLATERAL_AMOUNT)>> \in Texts(ScriptSteps)
      BY <1>1, <1>2, <1>4, Zenon
    <2>2. /\ <<UpdateStatus("ACTIVE")>> \in Texts(ScriptSteps)
          /\ <<Expect("standing")>> \in Texts(ScriptSteps)
      BY <1>1, <1>2, Zenon
    <2>3. QED
      BY <1>1, <1>5, <1>6, <2>1, <2>2, ScriptAmounts, Zenon DEF onboardingE2E
  <1>12. QED
    BY <1>7, <1>8, <1>9, <1>10, <1>11

LEMMA ScriptsAreSteps ==
  \A s \in DOMAIN Scripts : Scripts[s] \in Seq(ScriptSteps) /\ 1 \in 1..Len(Scripts[s])
  <1>1. \A s \in DOMAIN Scripts : Scripts[s] \in Texts(ScriptSteps)
    BY PhasesAreSteps DEF Scripts
  <1>2. QED
    BY <1>1 DEF Texts

LEMMA FullClearIs ==
  /\ "fullClear" \in DOMAIN Scripts /\ Scripts["fullClear"] = fullClear /\ Len(fullClear) = 7
  /\ fullClear[1] = Read("debt") /\ fullClear[2] = Sends("borrower", "repay", 0)
  /\ fullClear[3] = Read("collateral")
  /\ fullClear[4] = Sends("borrower", "withdrawCollateral", 0)
  /\ fullClear[5] = Expect("clean")
  /\ fullClear[6] = Sends("borrower", "postCollateral", COLLATERAL_AMOUNT)
  /\ fullClear[7] = Sends("borrower", "borrow", BORROW_AMOUNT)
  <1>1. "fullClear" \in DOMAIN Scripts /\ Scripts["fullClear"] = fullClear
    BY DEF Scripts
  <1>2. QED
    BY <1>1 DEF fullClear, postAndBorrow

LEMMA StepFields ==
  ASSUME NEW s \in ScriptSteps
  PROVE  /\ s.do \in {"send", "sendIf", "read", "expect", "updateStatus", "attest"}
         /\ s.do \in {"send", "sendIf"} =>
              \/ s.from = "borrower" /\ s.call \in BorrowerCalls /\ s.what \in Nat
              \/ s.from = "deployer" /\ s.call \in ServiceCalls /\ s.what \in Nat
              \/ /\ s.from = "deployer" /\ s.call = "setMode"
                 /\ s.what \in {"ValidatorGated", "AttestorGated"}
         /\ s.do = "read" => s.field \in {"state", "debt", "collateral", "facts"}
         /\ s.do = "updateStatus" => s.to \in FactsSeen
         /\ s.do = "attest" => s.status \in {"as read", "FROZEN"}
  <1>1. CASE s \in [do : {"send"}, from : {"borrower"}, call : BorrowerCalls, what : Nat]
    BY <1>1
  <1>2. CASE s \in [do : {"send"}, from : {"deployer"}, call : ServiceCalls, what : Nat]
    BY <1>2
  <1>3. CASE s \in [do : {"send"}, from : {"deployer"}, call : {"setMode"},
                    what : {"ValidatorGated", "AttestorGated"}]
    BY <1>3
  <1>4. CASE s \in [do : {"sendIf"}, when : {"insufficient"}, from : {"deployer"},
                    call : {"liquidate"}, what : {0}]
    <2>1. s.do = "sendIf" /\ s.from = "deployer" /\ s.call = "liquidate" /\ s.what = 0
      BY <1>4
    <2>2. QED
      BY <2>1 DEF ServiceCalls
  <1>5. CASE s \in [do : {"sendIf"}, when : {"residual"}, from : {"borrower"},
                    call : {"withdrawCollateral"}, what : {0}]
    <2>1. /\ s.do = "sendIf" /\ s.from = "borrower" /\ s.call = "withdrawCollateral"
          /\ s.what = 0
      BY <1>5
    <2>2. QED
      BY <2>1 DEF BorrowerCalls
  <1>6. CASE s.do \notin {"send", "sendIf"}
    BY <1>6 DEF ScriptSteps
  <1>7. QED
    BY <1>1, <1>2, <1>3, <1>4, <1>5, <1>6 DEF ScriptSteps

LEMMA CurrentStep ==
  ASSUME FullClearInv, Running
  PROVE  step \in ScriptSteps
  BY ScriptsAreSteps DEF FullClearInv, step

LEMMA TheTxType ==
  ASSUME FullClearInv, Running, Wanted
  PROVE  TheTx \in Transactions
  <1>1. step \in ScriptSteps /\ step.do \in {"send", "sendIf", "attest"}
    BY CurrentStep, StepFields DEF Wanted
  <1>2. run.seen.debt \in Nat /\ run.seen.collateral \in Nat /\ run.seen.facts \in FactsSeen
    BY DEF FullClearInv, Runs, Readings
  <1>3. CASE step.do = "attest"
    <2>1. step.status \in {"as read", "FROZEN"}
      BY <1>1, <1>3, StepFields
    <2>2. (IF step.status = "as read" THEN run.seen.facts ELSE step.status) \in FactsSeen
      BY <1>2, <2>1 DEF FactsSeen
    <2>3. QED
      BY <1>3, <2>2 DEF TheTx, Transactions
  <1>4. CASE step.do \in {"send", "sendIf"}
    <2>1. TheTx = [from |-> step.from, call |-> step.call, what |-> ReadAmount]
      BY <1>4 DEF TheTx
    <2>2. CASE step.call = "setMode"
      <3>1. ReadAmount = step.what
        BY <2>2 DEF ReadAmount
      <3>2. step.from = "deployer" /\ step.what \in {"ValidatorGated", "AttestorGated"}
        BY <1>1, <1>4, <2>2, StepFields DEF BorrowerCalls, ServiceCalls
      <3>3. QED
        BY <2>1, <2>2, <3>1, <3>2 DEF Transactions
    <2>3. CASE step.call # "setMode"
      <3>1. /\ step.what \in Nat
            /\ \/ step.from = "borrower" /\ step.call \in BorrowerCalls
               \/ step.from = "deployer" /\ step.call \in ServiceCalls
        BY <1>1, <1>4, <2>3, StepFields
      <3>2. ReadAmount \in Nat
        BY <1>2, <3>1, ScriptAmounts DEF ReadAmount
      <3>3. QED
        BY <2>1, <3>1, <3>2 DEF Transactions
    <2>4. QED
      BY <2>2, <2>3
  <1>5. QED
    BY <1>1, <1>3, <1>4

LEMMA TransactionFields ==
  ASSUME NEW t \in Transactions
  PROVE  /\ t.from = "borrower" => t.call \in BorrowerCalls /\ t.what \in Nat
         /\ t.from # "borrower" => t.call \in ServiceCalls \cup {"setMode", "attest"}
         /\ t.call \in BorrowerCalls \cup ServiceCalls => t.what \in Nat
         /\ t.call \in BorrowerCalls \cup ServiceCalls \cup {"setMode", "attest"}
         /\ t.call = "setMode" => t.what \in {"ValidatorGated", "AttestorGated"}
         /\ t.call = "attest" => t.what \in FactsSeen
  BY DEF Transactions, BorrowerCalls, ServiceCalls

\* One field of the testnet set anew
LEMMA TestnetWith ==
  ASSUME NEW s \in TestnetStates, NEW n \in Nat
  PROVE  /\ [s EXCEPT !.debt = n] \in TestnetStates
         /\ [s EXCEPT !.debt = n].debt = n
         /\ [s EXCEPT !.debt = n].collateral = s.collateral
         /\ [s EXCEPT !.collateral = n] \in TestnetStates
         /\ [s EXCEPT !.collateral = n].collateral = n
         /\ [s EXCEPT !.collateral = n].debt = s.debt
  BY DEF TestnetStates

LEMMA TestnetStanding ==
  ASSUME NEW s \in TestnetStates
  PROVE  /\ \A state \in GuardianState, over \in BOOLEAN :
              LET moved == [s EXCEPT !.state = state, !.graceOver = over]
              IN moved \in TestnetStates /\ moved.debt = s.debt /\ moved.collateral = s.collateral
         /\ \A state \in GuardianState :
              LET moved == [s EXCEPT !.state = state]
              IN moved \in TestnetStates /\ moved.debt = s.debt /\ moved.collateral = s.collateral
         /\ LET moved == [s EXCEPT !.graceOver = TRUE]
            IN moved \in TestnetStates /\ moved.debt = s.debt /\ moved.collateral = s.collateral
         /\ \A said \in {"ACTIVE", "FROZEN", "stale"} :
              LET moved == [s EXCEPT !.attested = said]
              IN moved \in TestnetStates /\ moved.debt = s.debt /\ moved.collateral = s.collateral
         /\ \A said \in FactsSeen :
              LET moved == [s EXCEPT !.facts = said]
              IN moved \in TestnetStates /\ moved.debt = s.debt /\ moved.collateral = s.collateral
         /\ \A gate \in {"ValidatorGated", "AttestorGated"} :
              LET moved == [s EXCEPT !.mode = gate]
              IN moved \in TestnetStates /\ moved.debt = s.debt /\ moved.collateral = s.collateral
  BY DEF TestnetStates

LEMMA TestnetAttested ==
  ASSUME NEW s \in TestnetStates, NEW said \in {"ACTIVE", "FROZEN", "stale"}
  PROVE  /\ [s EXCEPT !.attested = said] \in TestnetStates
         /\ [s EXCEPT !.attested = said].debt = s.debt
         /\ [s EXCEPT !.attested = said].collateral = s.collateral
  BY DEF TestnetStates

LEMMA TestnetUnwound ==
  ASSUME NEW s \in TestnetStates, NEW state \in GuardianState
  PROVE  /\ [s EXCEPT !.state = state, !.graceOver = FALSE] \in TestnetStates
         /\ [s EXCEPT !.state = state, !.graceOver = FALSE].debt = s.debt
         /\ [s EXCEPT !.state = state, !.graceOver = FALSE].collateral = s.collateral
  BY DEF TestnetStates

LEMMA AfterBorrower ==
  ASSUME testnet \in TestnetStates, NEW t, t.call \in BorrowerCalls, t.what \in Nat, Succeeds(t)
  PROVE  /\ After(t) \in TestnetStates
         /\ t.call = "postCollateral" =>
              After(t).collateral = testnet.collateral + t.what /\ After(t).debt = testnet.debt
         /\ t.call = "borrow" =>
              After(t).debt = testnet.debt + t.what /\ After(t).collateral = testnet.collateral
  <1>1. testnet.debt \in Nat /\ testnet.collateral \in Nat
    BY DEF TestnetStates
  <1>2. CASE t.call = "postCollateral"
    <2> DEFINE n == testnet.collateral + t.what
    <2>1. n \in Nat /\ After(t) = [testnet EXCEPT !.collateral = n]
      BY <1>1, <1>2 DEF After
    <2> HIDE DEF n
    <2>2. /\ [testnet EXCEPT !.collateral = n] \in TestnetStates
          /\ [testnet EXCEPT !.collateral = n].collateral = n
          /\ [testnet EXCEPT !.collateral = n].debt = testnet.debt
      BY <2>1, TestnetWith, Zenon
    <2>3. /\ After(t) \in TestnetStates /\ After(t).collateral = n
          /\ After(t).debt = testnet.debt
      BY <2>1, <2>2, Zenon
    <2>4. QED
      BY <1>2, <2>3 DEF n
  <1>3. CASE t.call = "borrow"
    <2> DEFINE n == testnet.debt + t.what
    <2>1. n \in Nat /\ After(t) = [testnet EXCEPT !.debt = n]
      BY <1>1, <1>3 DEF After
    <2> HIDE DEF n
    <2>2. /\ [testnet EXCEPT !.debt = n] \in TestnetStates
          /\ [testnet EXCEPT !.debt = n].debt = n
          /\ [testnet EXCEPT !.debt = n].collateral = testnet.collateral
      BY <2>1, TestnetWith, Zenon
    <2>3. /\ After(t) \in TestnetStates /\ After(t).debt = n
          /\ After(t).collateral = testnet.collateral
      BY <2>1, <2>2, Zenon
    <2>4. QED
      BY <1>3, <2>3 DEF n
  <1>4. CASE t.call \in {"repay", "repayAll"}
    <2> DEFINE n == testnet.debt - LesserOf(testnet.debt, t.what)
    <2>1. n \in Nat /\ After(t) = [testnet EXCEPT !.debt = n]
      BY <1>1, <1>4 DEF After, LesserOf
    <2> HIDE DEF n
    <2>2. QED
      BY <1>4, <2>1, TestnetWith
  <1>5. CASE t.call = "withdrawCollateral"
    <2> DEFINE n == testnet.collateral - t.what
    <2>1. n \in Nat /\ After(t) = [testnet EXCEPT !.collateral = n]
      BY <1>1, <1>5 DEF After, Succeeds
    <2> HIDE DEF n
    <2>2. QED
      BY <1>5, <2>1, TestnetWith
  <1>6. QED
    BY <1>2, <1>3, <1>4, <1>5 DEF BorrowerCalls

\* Nobody but the borrower touches a position without debt.
LEMMA AfterOthers ==
  ASSUME testnet \in TestnetStates, NEW t, Succeeds(t),
         t.call \in ServiceCalls \cup {"setMode", "attest", "reinstate"},
         t.call = "setMode" => t.what \in {"ValidatorGated", "AttestorGated"},
         t.call = "attest" => t.what \in FactsSeen
  PROVE  /\ After(t) \in TestnetStates
         /\ testnet.debt = 0 =>
              After(t).debt = 0 /\ After(t).collateral = testnet.collateral
  <1>1. testnet.debt \in Nat /\ testnet.collateral \in Nat /\ TRUE \in BOOLEAN /\ FALSE \in BOOLEAN
    BY DEF TestnetStates
  <1>2. {"FLAGGED", "HEALTHY", "RESOLVED", "UNWINDING"} \subseteq GuardianState
    BY DEF GuardianState
  <1>3. CASE t.call = "deposit"
    BY <1>3 DEF After
  <1>4. CASE t.call = "attest"
    <2>1. t.what \in {"ACTIVE", "FROZEN", "stale"} /\ After(t) = [testnet EXCEPT !.attested = t.what]
      BY <1>4 DEF After, FactsSeen
    <2>2. QED
      BY <2>1, TestnetAttested, Zenon
  <1>5. CASE t.call = "setMode"
    BY <1>5, TestnetStanding DEF After
  <1>6. CASE t.call = "flag"
    BY <1>1, <1>2, <1>6, TestnetStanding DEF After
  <1>7. CASE t.call = "reinstate"
    BY <1>1, <1>2, <1>7, TestnetStanding DEF After
  <1>8. CASE t.call = "completeUnwind"
    BY <1>1, <1>2, <1>8, TestnetStanding DEF After
  <1>9. CASE t.call = "liquidate"
    <2> DEFINE seized == LesserOf((testnet.debt * 21) \div 20, testnet.collateral)
               left == testnet.collateral - seized
               cleared == [testnet EXCEPT !.debt = 0]
    <2>1. (testnet.debt * 21) \div 20 \in Nat
      BY <1>1
    <2>2. left \in Nat
      BY <1>1, <2>1 DEF LesserOf
    <2>3. testnet.debt # 0
      BY <1>9 DEF Succeeds, Healthy
    <2>4. After(t) = [testnet EXCEPT !.debt = 0, !.collateral = left]
      BY <1>9 DEF After
    <2> HIDE DEF seized, left
    <2>5. cleared \in TestnetStates
      BY TestnetWith
    <2>6. After(t) = [cleared EXCEPT !.collateral = left]
      BY <2>4
    <2> HIDE DEF cleared
    <2>7. [cleared EXCEPT !.collateral = left] \in TestnetStates
      BY <2>2, <2>5, TestnetWith
    <2>8. QED
      BY <2>3, <2>6, <2>7
  <1>10. CASE t.call = "startUnwind"
    <2> DEFINE cured == LesserOf(testnet.debt, testnet.collateral)
               debt == testnet.debt - cured
               left == testnet.collateral - cured
               to == IF testnet.debt = cured THEN "RESOLVED" ELSE "UNWINDING"
               paid == [testnet EXCEPT !.debt = debt]
               taken == [paid EXCEPT !.collateral = left]
    <2>1. debt \in Nat /\ left \in Nat
          /\ (testnet.debt = 0 => debt = 0 /\ left = testnet.collateral)
      BY <1>1 DEF LesserOf
    <2>2. to \in GuardianState
      BY DEF GuardianState
    <2>3. After(t) = [testnet EXCEPT !.debt = debt, !.collateral = left, !.graceOver = FALSE,
                                     !.state = to]
      BY <1>10 DEF After
    <2> HIDE DEF cured, debt, left, to
    <2>4. paid \in TestnetStates /\ paid.debt = debt
      BY <2>1, TestnetWith
    <2>5. After(t) = [taken EXCEPT !.state = to, !.graceOver = FALSE]
      BY <2>3 DEF TestnetStates
    <2> HIDE DEF paid
    <2>6. taken \in TestnetStates /\ taken.debt = debt /\ taken.collateral = left
      BY <2>1, <2>4, TestnetWith
    <2> HIDE DEF taken
    <2>7. After(t) \in TestnetStates /\ After(t).debt = debt /\ After(t).collateral = left
      BY <2>2, <2>5, <2>6, TestnetUnwound, Zenon
    <2>8. QED
      BY <2>1, <2>7
  <1>11. QED
    BY <1>3, <1>4, <1>5, <1>6, <1>7, <1>8, <1>9, <1>10 DEF ServiceCalls

\* A script goes on to its next step, or has ended.
LEMMA ContinuesType ==
  ASSUME FullClearInv, Running, NEW seen \in Readings, Continues(seen)
  PROVE  /\ run' \in Runs /\ run'.how # "failed"
         /\ Running' => /\ run'.script = run.script /\ run'.pc = run.pc + 1
                        /\ run'.script \in DOMAIN Scripts
                        /\ run'.pc \in 1..Len(Scripts[run'.script])
         /\ run'.how = "done" => run.pc = Len(Scripts[run.script])
  <1> DEFINE pc == run.pc + 1
             next == [run EXCEPT !.pc = pc, !.seen = seen]
             last == run.pc = Len(Scripts[run.script])
  <1>1. /\ run \in Runs /\ run.pc \in Nat /\ run.how = "running"
        /\ run.script \in DOMAIN Scripts /\ run.pc \in 1..Len(Scripts[run.script])
        /\ Len(Scripts[run.script]) \in Nat
    BY ScriptsAreSteps DEF FullClearInv, Runs, Running
  <1>2. CASE last
    <2>1. run' = Ended("done")
      BY <1>2 DEF Continues, Stops
    <2>2. Ended("done") \in Runs /\ Ended("done").how = "done"
      BY DEF Ended, Runs, Unread, Readings, GuardianState, FactsSeen
    <2>3. QED
      BY <1>2, <2>1, <2>2 DEF Running
  <1>3. CASE ~last
    <2>1. run' = next /\ pc \in Nat /\ pc \in 1..Len(Scripts[run.script])
      BY <1>1, <1>3 DEF Continues
    <2> HIDE DEF pc
    <2>2. next \in Runs /\ next.how = "running" /\ next.script = run.script /\ next.pc = pc
      BY <1>1, <2>1 DEF Runs
    <2> HIDE DEF next
    <2>3. QED
      BY <1>1, <2>1, <2>2 DEF Running, pc
  <1>4. QED
    BY <1>2, <1>3

LEMMA StopsType ==
  ASSUME NEW how \in {"done", "failed"}, Stops(how)
  PROVE  run' \in Runs /\ run'.how = how /\ ~Running'
  BY DEF Stops, Ended, Runs, Unread, Readings, GuardianState, FactsSeen, Running

\* What a step of a script does, whichever it is
LEMMA ScriptStepType ==
  ASSUME FullClearInv, ScriptStep
  PROVE  /\ testnet' \in TestnetStates /\ run' \in Runs
         /\ Running' => /\ run'.script = run.script /\ run'.pc = run.pc + 1
                        /\ run'.script \in DOMAIN Scripts
                        /\ run'.pc \in 1..Len(Scripts[run'.script])
         /\ run'.how = "done" => run.pc = Len(Scripts[run.script])
  <1>1. /\ Running /\ step \in ScriptSteps /\ run.seen \in Readings
        /\ testnet \in TestnetStates
    BY CurrentStep DEF ScriptStep, FullClearInv, Runs
  <1>2. ASSUME Stops("failed")
        PROVE  run' \in Runs /\ ~Running' /\ run'.how # "done"
    BY <1>2, StopsType
  <1>3. ASSUME GoesOn
        PROVE  /\ run' \in Runs
               /\ Running' => /\ run'.script = run.script /\ run'.pc = run.pc + 1
                              /\ run'.script \in DOMAIN Scripts
                              /\ run'.pc \in 1..Len(Scripts[run'.script])
               /\ run'.how = "done" => run.pc = Len(Scripts[run.script])
    BY <1>1, <1>3, ContinuesType DEF GoesOn
  <1>4. CASE SendsTx
    <2>1. TheTx \in Transactions
      BY <1>1, <1>4, TheTxType DEF SendsTx
    <2>2. testnet' = testnet \/ (Succeeds(TheTx) /\ testnet' = After(TheTx))
      BY <1>4 DEF SendsTx
    <2>3. ASSUME Succeeds(TheTx)
          PROVE  After(TheTx) \in TestnetStates
      <3>1. CASE TheTx.call \in BorrowerCalls
        BY <1>1, <2>1, <2>3, <3>1, TransactionFields, AfterBorrower
      <3>2. CASE TheTx.call \notin BorrowerCalls
        BY <1>1, <2>1, <2>3, <3>2, TransactionFields, AfterOthers
      <3>3. QED
        BY <3>1, <3>2
    <2>4. Stops("failed") \/ GoesOn
      BY <1>4 DEF SendsTx
    <2>5. QED
      BY <1>1, <1>2, <1>3, <2>2, <2>3, <2>4
  <1>5. CASE SkipsTx
    BY <1>1, <1>3, <1>5 DEF SkipsTx
  <1>6. CASE ReadsField
    <2> DEFINE seen == [run.seen EXCEPT ![step.field] = testnet[step.field]]
    <2>1. step.field \in {"state", "debt", "collateral", "facts"}
      BY <1>1, <1>6, StepFields DEF ReadsField
    <2>2. seen \in Readings
      BY <1>1, <2>1 DEF Readings, TestnetStates
    <2>3. Continues(seen) /\ testnet' = testnet
      BY <1>6 DEF ReadsField
    <2> HIDE DEF seen
    <2>4. QED
      BY <1>1, <2>2, <2>3, ContinuesType
  <1>7. CASE ExpectsIt
    <2>1. testnet' = testnet /\ (GoesOn \/ Stops("failed"))
      BY <1>7 DEF ExpectsIt
    <2>2. QED
      BY <1>1, <1>2, <1>3, <2>1
  <1>8. CASE UpdatesStatus
    <2>1. step.to \in FactsSeen
      BY <1>1, <1>8, StepFields DEF UpdatesStatus
    <2>2. testnet' \in TestnetStates /\ GoesOn
      BY <1>1, <1>8, <2>1, TestnetStanding DEF UpdatesStatus
    <2>3. QED
      BY <1>3, <2>2
  <1>9. QED
    BY <1>4, <1>5, <1>6, <1>7, <1>8 DEF ScriptStep

\* The steps of full-clear that matter: its first transaction waits for what is
\* late, then it looks, posts and borrows.
LEMMA FullClearStep ==
  ASSUME FullClearInv, ScriptStep, Clearing
  PROVE  /\ run.pc = 2 => ~Blocked("borrower")
         /\ run.pc = 5 /\ Running' => testnet'.collateral = 0 /\ testnet'.debt = 0
         /\ run.pc = 6 /\ Running' =>
              testnet'.collateral = COLLATERAL_AMOUNT /\ testnet'.debt = 0
         /\ run.pc = 7 /\ run'.how = "done" =>
              testnet'.collateral = COLLATERAL_AMOUNT /\ testnet'.debt = BORROW_AMOUNT
  <1>1. step = fullClear[run.pc] /\ testnet \in TestnetStates
    BY FullClearIs DEF step, Clearing, FullClearInv
  <1>2. Strict(run.script)
    BY DEF Clearing, Strict
  <1>3. ASSUME Stops("failed")
        PROVE  ~Running' /\ run'.how = "failed"
    BY <1>3, StopsType
  <1>4. ASSUME NEW call \in BorrowerCalls, NEW n \in Nat, step = Sends("borrower", call, n)
        PROVE  /\ SendsTx /\ ~Blocked("borrower")
               /\ TheTx = [from |-> "borrower", call |-> call, what |-> ReadAmount]
               /\ call \in {"postCollateral", "borrow"} => ReadAmount = n
    <2>1. /\ step.do = "send" /\ step.from = "borrower"
          /\ step.call = call /\ step.what = n
      BY <1>4 DEF Sends
    <2>2. SendsTx
      BY <2>1 DEF ScriptStep, SkipsTx, ReadsField, ExpectsIt, UpdatesStatus
    <2>3. /\ TheTx = [from |-> "borrower", call |-> call, what |-> ReadAmount]
          /\ call \in {"postCollateral", "borrow"} => ReadAmount = n
      BY <2>1 DEF TheTx, ReadAmount
    <2>4. TheTx.from = "borrower"
      BY <2>3
    <2>5. QED
      BY <2>2, <2>3, <2>4 DEF SendsTx
  <1>5. CASE run.pc = 2
    <2>1. step = Sends("borrower", "repay", 0) /\ "repay" \in BorrowerCalls
      BY <1>1, <1>5, FullClearIs DEF BorrowerCalls
    <2>2. ~Blocked("borrower")
      BY <1>4, <2>1, ScriptAmounts
    <2>3. QED
      BY <1>5, <2>2
  <1>6. CASE run.pc = 5
    <2>1. step.do = "expect" /\ step.what = "clean"
      BY <1>1, <1>6, FullClearIs DEF Expect
    <2>2. ExpectsIt
      BY <2>1 DEF ScriptStep, SendsTx, Wanted, SkipsTx, ReadsField, UpdatesStatus
    <2>3. /\ testnet' = testnet
          /\ (testnet.collateral = 0 /\ testnet.debt = 0) \/ Stops("failed")
      BY <2>1, <2>2 DEF ExpectsIt
    <2>4. QED
      BY <1>3, <1>6, <2>3
  <1>7. CASE run.pc \in {6, 7}
    <2> DEFINE call == IF run.pc = 6 THEN "postCollateral" ELSE "borrow"
               amount == IF run.pc = 6 THEN COLLATERAL_AMOUNT ELSE BORROW_AMOUNT
               t == [from |-> "borrower", call |-> call, what |-> amount]
    <2>1. /\ step = Sends("borrower", call, amount) /\ amount \in Nat
          /\ call \in BorrowerCalls /\ call \in {"postCollateral", "borrow"}
      BY <1>1, <1>7, FullClearIs, ScriptAmounts DEF BorrowerCalls
    <2>2. t.call = call /\ t.what = amount
      OBVIOUS
    <2> HIDE DEF call, amount
    <2>3. SendsTx /\ TheTx = t
      BY <1>4, <2>1
    <2> HIDE DEF t
    <2>4. (Succeeds(t) /\ testnet' = After(t)) \/ Stops("failed")
      BY <1>2, <2>3 DEF SendsTx
    <2>5. ASSUME Succeeds(t), testnet' = After(t)
          PROVE  /\ call = "postCollateral" =>
                      (testnet'.collateral = testnet.collateral + amount
                         /\ testnet'.debt = testnet.debt)
                 /\ call = "borrow" =>
                      (testnet'.debt = testnet.debt + amount
                         /\ testnet'.collateral = testnet.collateral)
      BY <1>1, <2>1, <2>2, <2>5, AfterBorrower
    <2>6. CASE Stops("failed")
      BY <1>3, <1>7, <2>6
    <2>7. CASE Succeeds(t) /\ testnet' = After(t) /\ run.pc = 6
      <3>1. testnet.collateral = 0 /\ testnet.debt = 0
        BY <2>7 DEF FullClearInv
      <3>2. call = "postCollateral" /\ amount = COLLATERAL_AMOUNT
        BY <2>7 DEF call, amount
      <3>3. QED
        BY <2>5, <2>7, <3>1, <3>2, ScriptAmounts
    <2>8. CASE Succeeds(t) /\ testnet' = After(t) /\ run.pc = 7
      <3>1. testnet.collateral = COLLATERAL_AMOUNT /\ testnet.debt = 0
        BY <2>8 DEF FullClearInv
      <3>2. call = "borrow" /\ amount = BORROW_AMOUNT
        BY <2>8 DEF call, amount
      <3>3. QED
        BY <2>5, <2>8, <3>1, <3>2, ScriptAmounts
    <2>9. QED
      BY <1>7, <2>4, <2>6, <2>7, <2>8
  <1>8. QED
    BY <1>5, <1>6, <1>7

\* While nobody takes a step of the script, an empty position stays as it is.
LEMMA MeanwhileKeeps ==
  ASSUME FullClearInv, UNCHANGED run, testnet' \in TestnetStates,
         late' # NoTx => late' \in Transactions,
         late' = late \/ late' = NoTx,
         testnet.debt = 0 /\ ~Blocked("borrower") =>
           testnet'.debt = 0 /\ testnet'.collateral = testnet.collateral
  PROVE  FullClearInv'
  <1>1. ~Blocked("borrower") => ~Blocked("borrower")'
    BY DEF Blocked
  <1>2. (Running' => Running) /\ (Clearing' => Clearing)
    BY DEF Running, Clearing
  <1>3. Clearing /\ run.pc \in {6, 7} => ~Blocked("borrower")
    BY DEF FullClearInv
  <1>4. QED
    BY <1>1, <1>2, <1>3 DEF FullClearInv

LEMMA ScriptNextKeeps ==
  ASSUME FullClearInv, ScriptNext
  PROVE  FullClearInv'
  <1>1. /\ testnet \in TestnetStates /\ run \in Runs /\ testnet.debt \in Nat
        /\ testnet.facts \in FactsSeen
        /\ late # NoTx => late \in Transactions
    BY DEF FullClearInv, TestnetStates
  <1>2. ASSUME NEW script \in ScriptsOf(testnet.borrower), Start(script)
        PROVE  FullClearInv'
    <2>1. run' = [script |-> script, pc |-> 1, how |-> "running", seen |-> Unread]
          /\ UNCHANGED <<testnet, late>>
      BY <1>2 DEF Start
    <2>2. script \in DOMAIN Scripts
      BY <1>2 DEF ScriptsOf, Scripts
    <2>3. Unread \in Readings
      BY DEF Unread, Readings, GuardianState, FactsSeen
    <2>4. 1 \in 1..Len(Scripts[script])
      BY <2>2, ScriptsAreSteps
    <2>5. run' \in Runs /\ run'.script = script /\ run'.pc = 1
      BY <2>1, <2>2, <2>3 DEF Runs
    <2>6. QED
      BY <1>1, <2>1, <2>2, <2>4, <2>5 DEF FullClearInv, Clearing
  <1>3. CASE ScriptStep
    <2>1. /\ testnet' \in TestnetStates /\ run' \in Runs /\ late' = late
          /\ Running' => /\ run'.script = run.script /\ run'.pc = run.pc + 1
                         /\ run'.script \in DOMAIN Scripts
                         /\ run'.pc \in 1..Len(Scripts[run'.script])
      BY <1>3, ScriptStepType DEF ScriptStep
    <2>2. ASSUME Clearing'
          PROVE  Clearing /\ Running' /\ run'.pc = run.pc + 1 /\ run.pc \in Nat
      BY <1>1, <1>3, <2>1, <2>2 DEF Clearing, Running, ScriptStep, Runs
    <2>3. ASSUME Clearing', run'.pc >= 3
          PROVE  ~Blocked("borrower")'
      <3>1. Clearing /\ run.pc >= 2
        BY <2>2, <2>3
      <3>2. ~Blocked("borrower")
        <4>1. CASE run.pc = 2
          BY <1>3, <3>1, <4>1, FullClearStep
        <4>2. CASE run.pc >= 3
          BY <3>1, <4>2 DEF FullClearInv
        <4>3. QED
          BY <2>2, <2>3, <3>1, <4>1, <4>2
      <3>3. QED
        BY <2>1, <3>2 DEF Blocked
    <2>4. ASSUME Clearing', run'.pc = 6
          PROVE  testnet'.collateral = 0 /\ testnet'.debt = 0
      <3>1. run.pc = 5 /\ Clearing /\ Running'
        BY <2>2, <2>4
      <3>2. QED
        BY <1>3, <3>1, FullClearStep
    <2>5. ASSUME Clearing', run'.pc = 7
          PROVE  testnet'.collateral = COLLATERAL_AMOUNT /\ testnet'.debt = 0
      <3>1. run.pc = 6 /\ Clearing /\ Running'
        BY <2>2, <2>5
      <3>2. QED
        BY <1>3, <3>1, FullClearStep
    <2>6. QED
      BY <1>1, <2>1, <2>3, <2>4, <2>5 DEF FullClearInv
  <1>4. CASE ScriptCutOff
    <2>1. /\ Stops("failed") /\ testnet' = testnet /\ Running
          /\ late' = late \/ (Wanted /\ late' = TheTx)
      BY <1>4 DEF ScriptCutOff
    <2>2. late' # NoTx => late' \in Transactions
      BY <1>1, <2>1, TheTxType
    <2>3. run' \in Runs /\ ~Running'
      BY <2>1, StopsType
    <2>4. QED
      BY <1>1, <2>1, <2>2, <2>3 DEF FullClearInv, Clearing
  <1>5. CASE LateLands
    <2>1. /\ late # NoTx /\ late' = NoTx /\ UNCHANGED run
          /\ testnet' = testnet \/ (Succeeds(late) /\ testnet' = After(late))
      BY <1>5 DEF LateLands
    <2>2. ASSUME Succeeds(late)
          PROVE  /\ After(late) \in TestnetStates
                 /\ testnet.debt = 0 /\ ~Blocked("borrower") =>
                      After(late).debt = 0 /\ After(late).collateral = testnet.collateral
      <3>1. CASE late.from = "borrower"
        <4>1. late.call \in BorrowerCalls /\ late.what \in Nat /\ Blocked("borrower")
          BY <1>1, <2>1, <3>1, TransactionFields DEF Blocked
        <4>2. QED
          BY <1>1, <2>2, <4>1, AfterBorrower
      <3>2. CASE late.from # "borrower"
        BY <1>1, <2>1, <2>2, <3>2, TransactionFields, AfterOthers
      <3>3. QED
        BY <3>1, <3>2
    <2>3. QED
      BY <1>1, <2>1, <2>2, MeanwhileKeeps
  <1>6. CASE LateDropped
    BY <1>1, <1>6, MeanwhileKeeps DEF LateDropped
  <1>7. CASE GraceElapses
    <2>1. /\ testnet' \in TestnetStates /\ testnet'.debt = testnet.debt
          /\ testnet'.collateral = testnet.collateral
      BY <1>1, <1>7, TestnetStanding DEF GraceElapses
    <2>2. QED
      BY <1>1, <1>7, <2>1, MeanwhileKeeps DEF GraceElapses
  <1>8. CASE Meanwhile
    <2>1. UNCHANGED <<late, run>> /\ (Interest \/ AttestationAges \/ KeeperAttests \/ OthersCall)
      BY <1>8 DEF Meanwhile
    <2>2. CASE Interest
      <3>1. testnet.debt + 1 \in Nat /\ testnet.debt # 0
            /\ testnet' = [testnet EXCEPT !.debt = testnet.debt + 1]
        BY <1>1, <2>2 DEF Interest
      <3>2. testnet' \in TestnetStates
        BY <1>1, <3>1, TestnetWith, Zenon
      <3>3. QED
        BY <1>1, <2>1, <3>1, <3>2, MeanwhileKeeps
    <2>3. CASE AttestationAges
      <3>1. /\ testnet' \in TestnetStates /\ testnet'.debt = testnet.debt
            /\ testnet'.collateral = testnet.collateral
        BY <1>1, <2>3, TestnetStanding DEF AttestationAges
      <3>2. QED
        BY <1>1, <2>1, <3>1, MeanwhileKeeps
    <2>4. CASE KeeperAttests
      <3> DEFINE t == [call |-> "attest", what |-> testnet.facts]
      <3>1. testnet' = After(t) /\ Succeeds(t) /\ t.call = "attest" /\ t.what \in FactsSeen
        BY <1>1, <2>4 DEF KeeperAttests, Succeeds
      <3> HIDE DEF t
      <3>2. /\ testnet' \in TestnetStates
            /\ testnet.debt = 0 =>
                 testnet'.debt = 0 /\ testnet'.collateral = testnet.collateral
        BY <1>1, <3>1, AfterOthers
      <3>3. QED
        BY <1>1, <2>1, <3>2, MeanwhileKeeps
    <2>5. CASE OthersCall
      <3>1. PICK call \in {"flag", "reinstate", "startUnwind", "liquidate", "completeUnwind"} :
              LET t == [from |-> "other", call |-> call, what |-> testnet.debt]
              IN Succeeds(t) /\ testnet' = After(t)
        BY <2>5 DEF OthersCall
      <3> DEFINE t == [from |-> "other", call |-> call, what |-> testnet.debt]
      <3>2. t.call = call /\ Succeeds(t) /\ testnet' = After(t)
        BY <3>1
      <3>3. /\ call \in ServiceCalls \cup {"setMode", "attest", "reinstate"}
            /\ call # "setMode" /\ call # "attest"
        BY <3>1 DEF ServiceCalls
      <3> HIDE DEF t
      <3>4. /\ testnet' \in TestnetStates
            /\ testnet.debt = 0 =>
                 testnet'.debt = 0 /\ testnet'.collateral = testnet.collateral
        BY <1>1, <3>2, <3>3, AfterOthers
      <3>5. QED
        BY <1>1, <2>1, <3>4, MeanwhileKeeps
    <2>6. QED
      BY <2>1, <2>2, <2>3, <2>4, <2>5
  <1>9. QED
    BY <1>2, <1>3, <1>4, <1>5, <1>6, <1>7, <1>8 DEF ScriptNext

LEMMA FullClearInvStep ==
  ASSUME FullClearInv, [DappNext]_dappVars
  PROVE  FullClearInv'
  <1>1. CASE UNCHANGED scriptVars
    BY <1>1 DEF scriptVars, FullClearInv, Clearing, Running, Blocked
  <1>2. CASE ScriptNext
    BY <1>2, ScriptNextKeeps
  <1>3. UNCHANGED scriptVars \/ ScriptNext
    BY DEF DappNext, PositionsNext, RecordNext, StandingNext, LendViewNext, BackendNext,
       ScriptsNext, DeployNext, dappVars, operatorVars
  <1>4. QED
    BY <1>1, <1>2, <1>3

(***************************************************************************)
(* full-clear reports success only over the position it built, for any     *)
(* amounts, ratios and bounds and however many scripts were cut off before *)
(* it: a transaction of the borrower's that is late lands before the       *)
(* script's first one, and nobody else can touch a position without debt.  *)
(***************************************************************************)
THEOREM DappFullClearRebuilds == DappSpec => FullClearRebuilds
  <1>1. DappInit => FullClearInv
    <2>1. SUFFICES ASSUME DappInit
                   PROVE  FullClearInv
      OBVIOUS
    <2>2. late = NoTx /\ run = Ended("done")
      BY <2>1 DEF DappInit, ScriptInit
    <2>3. testnet \in TestnetStates
      BY <2>1 DEF DappInit, ScriptInit, TestnetStates, FactsSeen, GuardianState
    <2>4. run \in Runs /\ ~Running
      BY <2>2 DEF Ended, Runs, Unread, Readings, GuardianState, FactsSeen, Running
    <2>5. QED
      BY <2>2, <2>3, <2>4 DEF FullClearInv, Clearing
  <1>2. FullClearInv /\ [DappNext]_dappVars => FullClearInv'
    BY FullClearInvStep
  <1>3. FullClearInv /\ [DappNext]_dappVars =>
          [run.script = "fullClear" /\ Running /\ run'.how = "done" =>
             testnet'.collateral = COLLATERAL_AMOUNT /\ testnet'.debt = BORROW_AMOUNT]_scriptVars
    <2>1. SUFFICES ASSUME FullClearInv, [DappNext]_dappVars, Clearing, run'.how = "done",
                          ~UNCHANGED scriptVars
                   PROVE  testnet'.collateral = COLLATERAL_AMOUNT /\ testnet'.debt = BORROW_AMOUNT
      BY DEF Clearing
    <2>2. ScriptNext
      BY <2>1 DEF DappNext, PositionsNext, RecordNext, StandingNext, LendViewNext, BackendNext,
         ScriptsNext, DeployNext, dappVars, operatorVars
    <2>3. run' # run
      BY <2>1 DEF Clearing, Running
    <2>4. ~(Stops("failed"))
      BY <2>1, StopsType
    <2>5. ScriptStep
      BY <2>1, <2>2, <2>3, <2>4 DEF ScriptNext, Start, ScriptCutOff, LateLands, LateDropped,
         GraceElapses, Meanwhile, Clearing
    <2>6. run.pc = 7
      BY <2>1, <2>5, ScriptStepType, FullClearIs DEF Clearing
    <2>7. QED
      BY <2>1, <2>5, <2>6, FullClearStep
  <1>4. QED
    BY <1>1, <1>2, <1>3, PTL DEF DappSpec, FullClearRebuilds
=============================================================================
