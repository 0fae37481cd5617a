---------------------------- MODULE RecordLedger -----------------------------
(***************************************************************************)
(* useLedger.ts: the rows of a record page, one per event of its borrower, *)
(* collected by polls that ask for the blocks not scanned yet.  A poll     *)
(* awaits the head and then the logs; the page may turn to another record  *)
(* meanwhile, which starts a new effect and cancels the old one's poll.    *)
(* The nodes that answer for the logs need not be the one that answered    *)
(* for the head, and may be behind it.                                     *)
(***************************************************************************)
EXTENDS PageChain

CONSTANTS
  LOG_CHUNK_BLOCKS,
  Records,          \* addresses a record page is opened on
  ORIGIN_BLOCK,     \* DEMO_ORIGIN_BLOCK
  MaxBlockOf,       \* record -> the block its scan is capped at
  NoRecord,
  MaxTicks          \* bound: polls under way at once

Uncapped == MaxHead + 1

ASSUME LedgerConstants ==
  /\ LOG_CHUNK_BLOCKS \in Nat \ {0}
  /\ ORIGIN_BLOCK \in Nat \ {0}
  /\ MaxBlockOf \in [Records -> 0..Uncapped]
  /\ NoRecord \notin Records

VARIABLES
  record,         \* the address on display
  scannedThrough,
  rows,           \* `accumulated', which is what the ledger shows
  ticks,          \* polls under way, of the running effect or a cancelled one
  headWentBack,   \* a node answered with a head this page had passed; bound: once a visit
  unserved        \* history: its events in blocks that the node asked for their logs did not have

ledgerVars == <<record, scannedThrough, rows, ticks, headWentBack, unserved>>

\* fetchLogsChunked of chain.ts: chunk after chunk, or an error and nothing
fetchLogsChunked(fromBlock, toBlock) ==
  LET chunks == computeBlockChunks(fromBlock, toBlock, LOG_CHUNK_BLOCKS)
      getLogs(chunk) == [n \in 1..(chunk.toBlock - chunk.fromBlock + 1) |-> chunk.fromBlock + n - 1]
  IN FlattenSeq([i \in DOMAIN chunks |-> getLogs(chunks[i])])

\* Each chunk is a call of its own, and its node may lack the last of its blocks.
Lackings(fromBlock, toBlock) ==
  LET chunks == computeBlockChunks(fromBlock, toBlock, LOG_CHUNK_BLOCKS)
      beyond(chunk, served) == {n \in chunk.fromBlock..chunk.toBlock : n > served}
  IN {UNION {beyond(chunks[i], nodes[i]) : i \in DOMAIN chunks} :
        nodes \in {f \in [DOMAIN chunks -> 0..toBlock] :
                     \A i \in DOMAIN chunks : f[i] \in ServedUpTo(chunks[i].toBlock)}}

\* What the node had of a block, and the filter on args.borrower leaves of it
forBorrower(address, n, lacking) ==
  IF log[n].borrower = address /\ n \notin lacking THEN <<n>> ELSE <<>>

\* The blocks with an event of this borrower, in the order of the chain
fetchLedgerRange(address, fromBlock, toBlock, lacking) ==
  LET logs == fetchLogsChunked(fromBlock, toBlock)
  IN FlattenSeq([i \in DOMAIN logs |-> forBorrower(address, logs[i], lacking)])

AskHead(address) ==
  [address |-> address, effect |-> "running", at |-> "head", fromBlock |-> 0, toBlock |-> 0]

\* Mutant: a second poll starts while one is under way
InFlightNever == FALSE
InFlight == \E t \in ticks : t.effect = "running"

LedgerInit ==
  /\ record = NoRecord /\ scannedThrough = 0 /\ rows = <<>>
  /\ ticks = {} /\ headWentBack = FALSE /\ unserved = {}

TicksCancelled == {[t EXCEPT !.effect = "cancelled"] : t \in ticks}

\* The effect runs again: its cleanup cancels the polls of the last one.
ShowRecord(address) ==
  /\ record # address /\ Cardinality(ticks) < MaxTicks
  /\ record' = address
  /\ scannedThrough' = ORIGIN_BLOCK - 1
  /\ rows' = <<>>
  /\ ticks' = TicksCancelled \union {AskHead(address)}
  /\ headWentBack' = FALSE /\ unserved' = {}

LeaveRecord ==
  /\ record # NoRecord
  /\ record' = NoRecord /\ scannedThrough' = 0 /\ rows' = <<>>
  /\ headWentBack' = FALSE /\ unserved' = {}
  /\ ticks' = TicksCancelled

\* The interval, while the scan has not passed maxBlock
Tick ==
  /\ record # NoRecord /\ Cardinality(ticks) < MaxTicks
  /\ ~InFlight
  /\ scannedThrough < MaxBlockOf[record]
  /\ ticks' = ticks \union {AskHead(record)}
  /\ UNCHANGED <<record, scannedThrough, rows, headWentBack, unserved>>

\* A poll does not notice that it is cancelled before it has the logs.
HeadAnswered(t, head) ==
  /\ t.at = "head" /\ (head = HeadBlock \/ ~headWentBack)
  /\ ticks' = (ticks \ {t}) \union
       {[t EXCEPT !.at = "logs", !.fromBlock = scannedThrough + 1,
                  !.toBlock = Earlier(head, MaxBlockOf[t.address])]}
  /\ UNCHANGED <<record, scannedThrough, rows, headWentBack, unserved>>

\* scannedThrough is set to toBlock even where that is behind it, and even
\* where the nodes did not have all the blocks up to it.
LogsAnswered(t) ==
  /\ t.at = "logs"
  /\ ticks' = ticks \ {t}
  /\ IF t.effect = "cancelled"
     THEN UNCHANGED <<scannedThrough, rows, headWentBack, unserved>>
     ELSE \E lacking \in Lackings(t.fromBlock, t.toBlock) :
            /\ scannedThrough' = t.toBlock
            /\ rows' = rows \o fetchLedgerRange(t.address, t.fromBlock, t.toBlock, lacking)
            /\ headWentBack' = (headWentBack \/ t.toBlock < scannedThrough)
            /\ unserved' = (unserved \ (t.fromBlock..t.toBlock))
                 \union {n \in lacking : log[n].borrower = t.address}
  /\ UNCHANGED record

TickFailed(t) ==
  /\ ticks' = ticks \ {t}
  /\ UNCHANGED <<record, scannedThrough, rows, headWentBack, unserved>>

LedgerNext ==
  \/ \E address \in Records : ShowRecord(address)
  \/ LeaveRecord
  \/ Tick
  \/ \E t \in ticks :
       \/ \E head \in HeadsSeen : HeadAnswered(t, head)
       \/ LogsAnswered(t)
       \/ TickFailed(t)

LedgerFairness == WF_ledgerVars(Tick)

\* Of the nodes: a poll ends, and now and then one is up to date in both reads
LedgerNodes ==
  /\ WF_ledgerVars(\E t \in ticks : LogsAnswered(t) \/ TickFailed(t))
  /\ SF_ledgerVars(\E t \in ticks : HeadAnswered(t, HeadBlock))
  /\ SF_ledgerVars(\E t \in ticks :
       t.toBlock = Earlier(HeadBlock, MaxBlockOf[t.address]) /\ LogsAnswered(t))

-----------------------------------------------------------------------------

\* The events from the origin up to a block, in the order of the chain
EventsOf(address, n, lacking) ==
  FlattenSeq([i \in 1..(n - ORIGIN_BLOCK + 1) |->
                forBorrower(address, ORIGIN_BLOCK + i - 1, lacking)])

(***************************************************************************)
(* The ledger is its borrower's history: every event between the origin    *)
(* and the last block scanned has a row, and, as long as no node took the  *)
(* page back to an older head, exactly one, in the order of the chain -    *)
(* though polls overlap, fail and answer late and the page changes record. *)
(* The one gap is the nodes': scannedThrough passes a block that the node  *)
(* asked for its logs did not have (useLedger.ts:171-177), and its events  *)
(* get no row unless an older head makes the page ask again.               *)
(***************************************************************************)
LedgerIsHistory ==
  record # NoRecord =>
    /\ ToSet(EventsOf(record, scannedThrough, unserved)) \subseteq ToSet(rows)
    /\ headWentBack \/ rows = EventsOf(record, scannedThrough, unserved)
=============================================================================
