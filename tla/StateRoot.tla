----------------------------- MODULE StateRoot -----------------------------
(***************************************************************************)
(* What the engine and settlement processes share on disk under            *)
(* /var/lib/spy-der, for one session: the stage artifacts, as JSONL files, *)
(* and the journal, as how many events of a type it holds about a snapshot *)
(* (0 for an event about the session itself).  The counts saturate at Cap: *)
(* "none, one, more than one" is all the properties ask.  An append to the *)
(* journal is one step here; SqliteJournal shows why it may be.            *)
(***************************************************************************)
EXTENDS Session

CONSTANTS
  Shape,      \* snapshot -> what its content makes of the pure stages
  Cap,        \* event type -> the count at which it saturates
  MaxRecords  \* bound on the lines of an artifact file

VARIABLES
  arts,    \* stage -> its artifact file
  journal  \* event type and snapshot -> how many events

Shapes == {"good", "empty", "raises", "unparsable"}
SessionKey == 0

Stages == {"features", "forecasts", "candidates", "settlements"}

EventTypes ==
  {"snapshot_rejected", "features_computed", "feature_stage_failed",
   "forecast_generated", "forecast_unavailable", "candidate_rejected",
   "candidates_generated", "counterfactual_settled", "outcome_settled"}

Events == EventTypes \X (0 .. N)
EmptyJournal == [e \in Events |-> 0]

Count(type, id) == journal[<<type, id>>]

\* journal.append
Journaled(events, type, id) ==
  [events EXCEPT ![<<type, id>>] = IF @ < Cap[type] THEN @ + 1 ELSE @]

\* Mutant: a restart numbers from 0 again.
NextArtifactSeqInMemory(cached, file) == IF cached # Unset THEN cached ELSE 0

\* StageArtifactStore._next_seq: cached per path, read from disk on first use.
NextArtifactSeq(cached, file) ==
  IF cached # Unset THEN cached ELSE SeqAfterLast(file)

\* The record StageArtifactStore.append writes.
ArtifactRecord(cached, file, id) == Entry(NextArtifactSeq(cached, file), id)
=============================================================================
