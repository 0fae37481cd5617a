---------------------------- MODULE PositionsScan ----------------------------
(***************************************************************************)
(* usePositionsRegistry.ts: the page that finds every borrower by scanning *)
(* the pool's log forward from a checkpoint, and keeps their positions     *)
(* fresh.  The checkpoint lives in memory while the page is mounted and in *)
(* localStorage between visits.  Other tabs write the same key; a chunk    *)
(* asked for by a page that has been left lands all the same.  `missed' of *)
(* a checkpoint is history, which the code does not keep: the posts in the *)
(* blocks that the node asked for their logs did not have.                 *)
(***************************************************************************)
EXTENDS PageChain

CONSTANTS
  CHUNK_BLOCKS,
  Nothing      \* no checkpoint stored, no chunk left behind, no read under way

SeedTo == Len(FirstBlocks) \* seed.scannedTo of positions-seed.json

ASSUME ScanConstants == CHUNK_BLOCKS \in Nat \ {0}

VARIABLES
  storage,    \* what localStorage holds under STORAGE_KEY
  checkpoint, \* checkpointRef of the mounted page
  entries,    \* the positions on display
  scan,       \* where scanLoop is, and the block it has asked up to
  reads,      \* reads of the positions under way: the loop's and the interval's
  leftBehind  \* a chunk still under way for a page that was left

scanVars == <<storage, checkpoint, entries, scan, reads, leftBehind>>

Posts(blocks) == {n \in blocks \intersect DOMAIN log : log[n].event = "CollateralPosted"}
Discovered(blocks) == {log[n].borrower : n \in Posts(blocks)}

Seed == [scannedTo |-> SeedTo, addresses |-> Discovered(1..SeedTo), missed |-> {}]
Unmounted == [at |-> "unmounted", to |-> 0]
ScanMounted == scan.at # "unmounted"

\* The further of the seed and what is stored
loadCheckpoint ==
  IF storage = Nothing \/ storage.scannedTo < Seed.scannedTo
  THEN Seed
  ELSE [storage EXCEPT !.addresses = @ \union Seed.addresses]

\* Storage may be full or disabled: then nothing is kept.
saveCheckpoint(saved) == storage' \in {storage, saved}

\* One multicall over the addresses: those with nothing in the pool are dropped
fetchEntries(addresses) == addresses \intersect open

ScanInit ==
  /\ storage = Nothing /\ leftBehind = Nothing
  /\ checkpoint = Nothing /\ entries = {}
  /\ scan = Unmounted
  /\ reads = [loop |-> Nothing, interval |-> Nothing]

Visit ==
  /\ ~ScanMounted
  /\ checkpoint' = loadCheckpoint
  /\ entries' = {}
  /\ scan' = [at |-> "head", to |-> 0]
  /\ reads' = [loop |-> Nothing, interval |-> fetchEntries(loadCheckpoint.addresses)]
  /\ UNCHANGED <<storage, leftBehind>>

Leave ==
  /\ ScanMounted
  /\ leftBehind' = IF scan.at = "logs" THEN [from |-> checkpoint, to |-> scan.to] ELSE leftBehind
  /\ checkpoint' = Nothing /\ entries' = {}
  /\ scan' = Unmounted
  /\ reads' = [loop |-> Nothing, interval |-> Nothing]
  /\ UNCHANGED storage

ChunkEnd(from, head) == Earlier(from + CHUNK_BLOCKS - 1, head)

\* scannedTo moves to the end of the chunk, whatever the node had of it.
Advanced(from, to, served) ==
  [scannedTo |-> to,
   addresses |-> from.addresses \union Discovered((from.scannedTo + 1)..served),
   missed |-> from.missed \union {n \in Posts((from.scannedTo + 1)..to) : n > served}]

\* Mutant: the loop ends once it has caught up
ChunkAskedOnce(head) ==
  LET from == checkpoint.scannedTo + 1
  IN scan' = IF from > head THEN [at |-> "done", to |-> 0]
             ELSE [at |-> "logs", to |-> ChunkEnd(from, head)]
\* scanOneChunk up to its first await: at the head, the loop sleeps
ChunkAsked(head) ==
  LET from == checkpoint.scannedTo + 1
  IN scan' = IF from > head THEN [at |-> "pause", to |-> 0]
             ELSE [at |-> "logs", to |-> ChunkEnd(from, head)]

HeadRead(head) ==
  /\ scan.at = "head"
  /\ ChunkAsked(head)
  /\ UNCHANGED <<storage, checkpoint, entries, reads, leftBehind>>

\* getBlockNumber is outside the try: when it rejects, so does scanLoop.
HeadUnread ==
  /\ scan.at = "head"
  /\ scan' = [at |-> "ended", to |-> 0]
  /\ UNCHANGED <<storage, checkpoint, entries, reads, leftBehind>>

\* Either way the loop goes on to refresh what it has
ChunkRead(served) ==
  /\ scan.at = "logs"
  /\ checkpoint' = Advanced(checkpoint, scan.to, served)
  /\ saveCheckpoint(checkpoint')
  /\ scan' = [at |-> "refresh", to |-> 0]
  /\ reads' = [reads EXCEPT !.loop = fetchEntries(checkpoint'.addresses)]
  /\ UNCHANGED <<entries, leftBehind>>

\* Mutant: a failed chunk counts as scanned
ChunkFailedSkipping ==
  /\ scan.at = "logs"
  /\ checkpoint' = [checkpoint EXCEPT !.scannedTo = scan.to]
  /\ scan' = [at |-> "refresh", to |-> 0]
  /\ reads' = [reads EXCEPT !.loop = fetchEntries(checkpoint.addresses)]
  /\ UNCHANGED <<storage, entries, leftBehind>>
ChunkFailed ==
  /\ scan.at = "logs"
  /\ scan' = [at |-> "refresh", to |-> 0]
  /\ reads' = [reads EXCEPT !.loop = fetchEntries(checkpoint.addresses)]
  /\ UNCHANGED <<storage, checkpoint, entries, leftBehind>>

\* A read of the positions ends, in an answer or in an error that keeps them
ReadEnds(kind, shown) ==
  /\ reads[kind] # Nothing
  /\ entries' = shown
  /\ reads' = [reads EXCEPT ![kind] = Nothing]
  /\ scan' = IF kind = "loop" THEN [at |-> "pause", to |-> 0] ELSE scan
  /\ UNCHANGED <<storage, checkpoint, leftBehind>>

Refreshed(kind) == ReadEnds(kind, reads[kind])
NotRefreshed(kind) == ReadEnds(kind, entries)

\* setInterval; a read under way does not stop the next, of which one is kept
Interval ==
  /\ ScanMounted /\ reads.interval = Nothing
  /\ reads' = [reads EXCEPT !.interval = fetchEntries(checkpoint.addresses)]
  /\ UNCHANGED <<storage, checkpoint, entries, scan, leftBehind>>

Wake ==
  /\ scan.at = "pause"
  /\ scan' = [at |-> "head", to |-> 0]
  /\ UNCHANGED <<storage, checkpoint, entries, reads, leftBehind>>

\* What a page that was left had asked for is still added and saved.
LeftBehindLands ==
  /\ leftBehind # Nothing
  /\ leftBehind' = Nothing
  /\ \E served \in ServedUpTo(leftBehind.to) :
       saveCheckpoint(Advanced(leftBehind.from, leftBehind.to, served))
  /\ UNCHANGED <<checkpoint, entries, scan, reads>>

\* Another tab saves its own checkpoint, or the user clears the storage
CheckpointOf(n, missed) ==
  [scannedTo |-> n, addresses |-> Discovered((1..n) \ missed), missed |-> missed]
OtherTab ==
  /\ storage' \in {Nothing} \union
       UNION {{CheckpointOf(n, missed) : missed \in SUBSET Posts((SeedTo + 1)..n)} :
                n \in 0..HeadBlock}
  /\ UNCHANGED <<checkpoint, entries, scan, reads, leftBehind>>

ScanPage ==
  \/ \E head \in HeadsSeen : HeadRead(head)
  \/ HeadUnread
  \/ \E served \in ServedUpTo(scan.to) : ChunkRead(served)
  \/ ChunkFailed
  \/ \E kind \in {"loop", "interval"} : Refreshed(kind) \/ NotRefreshed(kind)
  \/ Interval \/ Wake
ScanNext == Visit \/ Leave \/ ScanPage \/ LeftBehindLands \/ OtherTab

\* The page's timers
ScanFairness == WF_scanVars(Wake) /\ WF_scanVars(Interval)

\* Of the nodes: a read ends, and now and then one succeeds that is up to date
ScanNodes ==
  /\ WF_scanVars(Refreshed("loop") \/ NotRefreshed("loop"))
  /\ SF_scanVars(HeadRead(HeadBlock))
  /\ SF_scanVars(\E served \in ServedUpTo(scan.to) : ChunkRead(served))
  /\ SF_scanVars(Refreshed("interval"))

-----------------------------------------------------------------------------

(***************************************************************************)
(* A checkpoint has no gap of the page's making: in memory and in storage, *)
(* the addresses are those of every event up to the block it names that a  *)
(* node had when it was asked, whatever chunks failed, pages were left,    *)
(* tabs raced or heads lagged.  Nothing rescans what it has passed         *)
(* (usePositionsRegistry.ts:179-195), so a borrower the page skipped would *)
(* never be listed - nor is one all of whose posts a lagging node missed.  *)
(***************************************************************************)
ScannedOf(saved) == (1..saved.scannedTo) \ saved.missed
ScanLeavesNoGap ==
  /\ ScanMounted => checkpoint.addresses = Discovered(ScannedOf(checkpoint))
  /\ storage # Nothing => storage.addresses = Discovered(ScannedOf(storage))
=============================================================================
