------------------------------ MODULE RecordPage ------------------------------
(***************************************************************************)
(* pages/RecordPage.tsx with usePosition and useStrikePhase: the standing  *)
(* of one record, polled from the chain; the ring, which breaks when a     *)
(* revocation is witnessed; and the two actions a backend performs, whose  *)
(* progress the page only knows from its own polls and from `last-error'.  *)
(*                                                                         *)
(* The page may turn to another record without being mounted anew; what    *)
(* that one's standing is by then is anybody's guess, so only the standing *)
(* of the record on display is kept.                                       *)
(***************************************************************************)
VARIABLES
  standing,  \* of the record on display, on chain
  snapshot,  \* usePosition
  reading,   \* the read under way; a cancelled one changes nothing
  ring,      \* useStrikePhase
  request,   \* `pending', `pendingSinceState'
  errand        \* what the backend does about it

recordPageVars == <<standing, snapshot, reading, ring, request, errand>>

GuardianState == {"HEALTHY", "FLAGGED", "UNWINDING", "RESOLVED"}
PositionSnapshot == [guardianState : GuardianState, compliant : BOOLEAN]
Closed == [status |-> "closed"]
RecordLoading == [status |-> "loading"]
RecordFailed == [status |-> "error"]
Shown == snapshot.status = "ready"

NoReading == [at |-> "none"]
Asked == [at |-> "asked"]
\* `overtaken' is not in the code: the state moved meanwhile, or the page turned
NoRequest == [pending |-> "idle", since |-> "HEALTHY", overtaken |-> FALSE]
Pending == request.pending # "idle"

struck(data) ==
  \/ data.guardianState \in {"FLAGGED", "UNWINDING"}
  \/ data.guardianState = "RESOLVED" /\ ~data.compliant

-----------------------------------------------------------------------------
(* The page *)

OpenPage ==
  /\ snapshot = Closed
  /\ standing' \in PositionSnapshot
  /\ snapshot' = RecordLoading /\ reading' = Asked
  /\ UNCHANGED <<ring, request, errand>>

\* The effects of usePosition run again; the page's own state stays.
\* The backend goes on with the other record's action, out of sight.
TurnPage ==
  /\ snapshot # Closed
  /\ standing' \in PositionSnapshot
  /\ snapshot' = RecordLoading /\ reading' = Asked /\ errand' = "none"
  /\ request' = [request EXCEPT !.overtaken = Pending]
  /\ UNCHANGED ring

LeavePage ==
  /\ snapshot # Closed
  /\ snapshot' = Closed /\ reading' = NoReading /\ errand' = "none"
  /\ ring' = [phase |-> "valid", initialized |-> FALSE]
  /\ request' = NoRequest
  /\ UNCHANGED standing

PollRecord ==
  /\ snapshot # Closed /\ reading = NoReading
  /\ reading' = Asked
  /\ UNCHANGED <<standing, snapshot, ring, request, errand>>

\* fetchSnapshot: one eth_call, whose answer may take a while
NodeReads ==
  /\ reading = Asked
  /\ reading' = [at |-> "read", data |-> standing]
  /\ UNCHANGED <<standing, snapshot, ring, request, errand>>

\* What the effects make of a snapshot
RingAfter(isStruck) ==
  [initialized |-> TRUE,
   phase |-> CASE ~ring.initialized -> (IF isStruck THEN "struck" ELSE "valid")
               [] ring.initialized /\ isStruck /\ ring.phase = "valid" -> "striking"
               [] ring.initialized /\ ~isStruck -> "valid"
               [] OTHER -> ring.phase]
RequestAfter(data) == IF data.guardianState # request.since THEN NoRequest ELSE request

SnapshotLands ==
  /\ reading.at = "read"
  /\ snapshot' = [status |-> "ready", data |-> reading.data]
  /\ ring' = RingAfter(struck(reading.data))
  /\ request' = IF Pending THEN RequestAfter(reading.data) ELSE request
  /\ reading' = NoReading
  /\ UNCHANGED <<standing, errand>>

ReadFails ==
  /\ reading # NoReading
  /\ snapshot' = RecordFailed /\ reading' = NoReading
  /\ UNCHANGED <<standing, ring, request, errand>>

\* The ring has been drawn broken
completeStrike ==
  /\ ring.phase = "striking"
  /\ ring' = [ring EXCEPT !.phase = "struck"]
  /\ UNCHANGED <<standing, snapshot, reading, request, errand>>

\* Grace may be over or not
readyToStrike(data) == ~struck(data)
Buttons(data) ==
  {kind \in {"strike", "advance"} :
     IF kind = "strike" THEN readyToStrike(data)
     ELSE data.guardianState \in {"FLAGGED", "UNWINDING"}}

callBackend ==
  /\ Shown /\ ~Pending
  /\ \E kind \in Buttons(snapshot.data) :
       /\ request' = [pending |-> kind, since |-> snapshot.data.guardianState,
                      overtaken |-> FALSE]
       /\ errand' = kind
  /\ UNCHANGED <<standing, snapshot, reading, ring>>

\* A POST is refused or its answer lost, the backend at work or not: whichever
\* request it was, the page drops the one it waits for
callFails ==
  /\ Pending
  /\ request' = NoRequest
  /\ errand' \in {errand, "none"}
  /\ UNCHANGED <<standing, snapshot, reading, ring>>

lastError ==
  /\ Pending /\ errand = "failed"
  /\ request' = NoRequest /\ errand' = "none"
  /\ UNCHANGED <<standing, snapshot, reading, ring>>

-----------------------------------------------------------------------------
(* The backend, and the chain *)

Moves(states) ==
  \/ standing.guardianState \in {"HEALTHY", "RESOLVED"} /\ states = {"FLAGGED"}
  \/ standing.guardianState = "FLAGGED" /\ states \in {{"HEALTHY"}, {"UNWINDING", "RESOLVED"}}
  \/ standing.guardianState = "UNWINDING" /\ states = {"RESOLVED"}
MovesTo(state) ==
  /\ standing' = [standing EXCEPT !.guardianState = state]
  /\ request' = [request EXCEPT !.overtaken = Pending]

JobDone ==
  /\ \/ errand = "strike" /\ Moves({"FLAGGED"}) /\ MovesTo("FLAGGED")
     \/ /\ errand = "advance"
        /\ standing.guardianState \in {"FLAGGED", "UNWINDING"}
        /\ \E state \in {"UNWINDING", "RESOLVED"} \ {standing.guardianState} : MovesTo(state)
  /\ errand' = "none"
  /\ UNCHANGED <<snapshot, reading, ring>>
JobFails ==
  /\ errand \in {"strike", "advance"} /\ errand' = "failed"
  /\ UNCHANGED <<standing, snapshot, reading, ring, request>>

\* The keeper and everyone else
StandingMoves ==
  /\ snapshot # Closed
  /\ \E states \in SUBSET GuardianState :
       Moves(states) /\ \E state \in states : MovesTo(state)
  /\ UNCHANGED <<snapshot, reading, ring, errand>>
FactsMove ==
  /\ snapshot # Closed
  /\ standing' = [standing EXCEPT !.compliant = ~@]
  /\ UNCHANGED <<snapshot, reading, ring, request, errand>>

RecordPageInit ==
  /\ standing = [guardianState |-> "HEALTHY", compliant |-> TRUE]
  /\ snapshot = Closed /\ reading = NoReading
  /\ ring = [phase |-> "valid", initialized |-> FALSE]
  /\ request = NoRequest /\ errand = "none"

RecordPageNext ==
  \/ OpenPage \/ TurnPage \/ LeavePage
  \/ PollRecord \/ NodeReads \/ SnapshotLands \/ ReadFails
  \/ completeStrike \/ callBackend \/ callFails \/ lastError
  \/ JobDone \/ JobFails \/ StandingMoves \/ FactsMove

RecordPageFairness ==
  WF_recordPageVars(PollRecord) /\ WF_recordPageVars(completeStrike) /\ WF_recordPageVars(lastError)

\* Of the nodes, which answer in the end, and of the backend
RecordPageNodes ==
  /\ SF_recordPageVars(NodeReads) /\ SF_recordPageVars(SnapshotLands)
  /\ WF_recordPageVars(JobDone \/ JobFails)

-----------------------------------------------------------------------------

(***************************************************************************)
(* Once a record stays on display and its standing is at rest, the page    *)
(* shows that standing and the ring agrees with it, through failed reads   *)
(* and late answers; and a button does not stay "pending": the action      *)
(* showed, or failed and said so - unless the state came back to what it   *)
(* was between two polls, or the page was turned under way.                *)
(***************************************************************************)
PageAtRest == <>[][~(OpenPage \/ TurnPage \/ LeavePage \/ StandingMoves \/ FactsMove
                      \/ JobDone \/ callBackend)]_recordPageVars
StandingIsShown ==
  RecordPageNodes /\ PageAtRest /\ <>[](snapshot # Closed) =>
    /\ []<>(Shown /\ snapshot.data = standing)
    /\ <>[](Shown =>
         /\ snapshot.data = standing
         /\ ring.phase = (IF struck(standing) THEN "struck" ELSE "valid")
         /\ ~Pending \/ (request.overtaken /\ request.since = standing.guardianState))
=============================================================================
