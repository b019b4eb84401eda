----------------------------- MODULE Settlement -----------------------------
(***************************************************************************)
(* `spy-der settlement`: once the recording shows the session is over, one *)
(* counterfactual outcome per generated candidate goes to the journal,     *)
(* then a settlement artifact, then the marker that says the session is    *)
(* settled.  A universe's candidates are one here: their outcomes are      *)
(* journaled one after the other by the same loop, so a snapshot's         *)
(* outcomes are as good as one.                                            *)
(***************************************************************************)
EXTENDS StateRoot

CONSTANTS
  CloseAt,     \* first tick the calendar calls CLOSED
  RolloverAt   \* first tick after the UTC date has left the session's date

VARIABLES
  spc,      \* "idle", "read", "outcomes", "artifact", "marker"
  settled,  \* _settled holds the session
  blocked,  \* the snapshots whose candidates this pass settles
  todo,     \* the recording's snapshots as read, then what is left of blocked
  sseq      \* StageArtifactStore._seq of the settlements store

settlementVars == <<spc, settled, blocked, todo, sseq>>

\* Mutant: the marker of an earlier life is not read back.
NothingSettled == FALSE

\* _already_settled: a session with a marker in the journal is settled.
AlreadySettled == Count("outcome_settled", SessionKey) > 0

SettlementStart ==
  /\ spc = "idle"
  /\ settled = AlreadySettled
  /\ blocked = {}
  /\ todo = << >>
  /\ sseq = Unset

\* _engine_snapshots
Generated == {id \in Ids : Count("candidates_generated", id) > 0}

\* Mutant: the record before the close is taken for the close.
OverOneTickEarly(lastId) == lastId >= CloseAt - 1 \/ clock >= RolloverAt

\* Mutant: a service that died before the close is waited for for ever.
OverAtTheCloseOnly(lastId) == lastId >= CloseAt

\* _session_is_over: the last record says CLOSED, or the date has passed.
SessionIsOver(lastId) == lastId >= CloseAt \/ clock >= RolloverAt

\* The id the last record carries, 0 while the recording is empty.
LastId == IF tape.lines = << >> THEN 0 ELSE tape.lines[Len(tape.lines)].id
TapeIds == [i \in DOMAIN tape.lines |-> tape.lines[i].id]

\* _settle reads the recording, with each of its early returns a guard: it
\* fails its check or is empty, its last snapshot does not parse, the session
\* is not over.
ReadRecording ==
  /\ spc = "idle"
  /\ ~settled
  /\ Readable(tape) /\ tape.lines # << >>
  /\ LastId \in Ids /\ Shape[LastId] # "unparsable"
  /\ SessionIsOver(LastId)
  /\ todo' = TapeIds
  /\ spc' = "read"
  /\ UNCHANGED <<tape, arts, journal, crashes, clock, settled, blocked, sseq>>

\* Then the journal, by now maybe ahead of what was read: the universes are
\* generated again from the recording, and without a candidate the pass ends.
ReadUniverses ==
  /\ spc = "read"
  /\ todo' = Those(todo, {id \in Generated : Shape[id] = "good"})
  /\ blocked' = {todo'[i] : i \in DOMAIN todo'}
  /\ spc' = IF todo' = << >> THEN "idle" ELSE "outcomes"
  /\ UNCHANGED <<tape, arts, journal, crashes, clock, settled, sseq>>

\* Mutant: one outcome a pass.
JournalOneOutcome ==
  /\ spc = "outcomes"
  /\ journal' = Journaled(journal, "counterfactual_settled", Head(todo))
  /\ todo' = Tail(todo)
  /\ spc' = "artifact"
  /\ UNCHANGED <<tape, arts, crashes, clock, settled, blocked, sseq>>

\* settle_session journals the counterfactuals in tape order.
JournalOutcome ==
  /\ spc = "outcomes"
  /\ journal' = Journaled(journal, "counterfactual_settled", Head(todo))
  /\ todo' = Tail(todo)
  /\ spc' = IF Len(todo) = 1 THEN "artifact" ELSE "outcomes"
  /\ UNCHANGED <<tape, arts, crashes, clock, settled, blocked, sseq>>

SettlementRecord == ArtifactRecord(sseq, arts["settlements"], SessionKey)

WriteSettlement ==
  /\ spc = "artifact"
  /\ Len(arts["settlements"].lines) < MaxRecords
  /\ arts' = [arts EXCEPT !["settlements"] = AppendRecord(@, SettlementRecord)]
  /\ sseq' = SettlementRecord.seq + 1
  /\ spc' = "marker"
  /\ UNCHANGED <<tape, journal, crashes, clock, settled, blocked, todo>>

JournalMarker ==
  /\ spc = "marker"
  /\ journal' = Journaled(journal, "outcome_settled", SessionKey)
  /\ settled' = TRUE
  /\ blocked' = {}
  /\ spc' = "idle"
  /\ UNCHANGED <<tape, arts, crashes, clock, todo, sseq>>

\* Killed between two writes, or with the artifact record cut short.
SettlementCrash ==
  /\ crashes < MaxCrashes
  /\ crashes' = crashes + 1
  /\ \/ UNCHANGED arts
     \/ /\ spc = "artifact"
        /\ Len(arts["settlements"].lines) < MaxRecords
        /\ \E f \in CutShort(arts["settlements"], SettlementRecord) :
             arts' = [arts EXCEPT !["settlements"] = f]
  /\ spc' = "idle"
  /\ settled' = AlreadySettled
  /\ blocked' = {} /\ todo' = << >>
  /\ sseq' = Unset
  /\ UNCHANGED <<tape, journal, clock>>

SettlementStep ==
  \/ ReadRecording \/ ReadUniverses
  \/ JournalOutcome \/ WriteSettlement \/ JournalMarker
SettlementNext == SettlementStep \/ SettlementCrash
=============================================================================
