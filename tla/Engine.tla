------------------------------- MODULE Engine -------------------------------
(***************************************************************************)
(* `spy-der engine`: each pass re-reads the recording and takes every      *)
(* snapshot without a candidate artifact through the feature, forecast and *)
(* candidate stages, one durable write at a time.  A kill between any two  *)
(* writes, or inside one, loses the process's memory; systemd starts it    *)
(* again.  Journal and artifact are written one after the other, never     *)
(* together.                                                               *)
(***************************************************************************)
EXTENDS StateRoot

CONSTANT
  HasForecaster  \* a model group was configured and loaded

VARIABLES
  epc,     \* "idle" between passes, or the stage the current snapshot is in
  feed,    \* snapshots of this pass not done with, as read when it began
  done,    \* _seen: snapshots whose candidate artifact is recorded
  loaded,  \* _seen holds this session
  bundle,  \* the current snapshot's feature bundle holds features
  eseq     \* StageArtifactStore._seq of the engine's three stores

engineVars == <<epc, feed, done, loaded, bundle, eseq>>

EngineStages == {"features", "forecasts", "candidates"}
EnginePC == {"idle", "scan", "featured", "families", "forecast", "forecasted",
             "candidates", "universe"}

cur == Head(feed)

EngineStart ==
  /\ epc = "idle"
  /\ feed = << >>
  /\ done = {}
  /\ loaded = FALSE
  /\ bundle = FALSE
  /\ eseq = [s \in EngineStages |-> Unset]

-----------------------------------------------------------------------------
(* Steps of a pass. *)

\* Mutant: what an earlier life processed is not read back.
DoneInMemory == done

\* _already_processed reads the candidate artifacts once in a process's life.
DoneOnDisk == IF loaded THEN done ELSE IdsIn(arts["candidates"])

SnapshotIds(f) == [i \in DOMAIN f.lines |-> f.lines[i].id]

\* _process_session: a recording, or on first use an artifact file, that fails
\* its integrity check is skipped for this pass; and a pass that finds every
\* snapshot done writes nothing.
BeginPass ==
  /\ epc = "idle"
  /\ Readable(tape)
  /\ loaded \/ Readable(arts["candidates"])
  /\ feed' = Those(SnapshotIds(tape), Ids \ DoneOnDisk)
  /\ feed' # << >>
  /\ done' = DoneOnDisk
  /\ loaded' = TRUE
  /\ epc' = "scan"
  /\ UNCHANGED <<tape, arts, journal, crashes, bundle, eseq>>

NextSnapshot ==
  /\ feed' = Tail(feed)
  /\ epc' = IF Len(feed) = 1 THEN "idle" ELSE "scan"

\* Mutant: a snapshot that does not parse ends the pass.
RejectEndsPass ==
  /\ epc = "scan"
  /\ Shape[cur] = "unparsable"
  /\ journal' = Journaled(journal, "snapshot_rejected", cur)
  /\ feed' = << >>
  /\ epc' = "idle"
  /\ UNCHANGED <<tape, arts, crashes, done, loaded, bundle, eseq>>

\* snapshot_from_dict refuses the payload; the next pass meets it again.
RejectSnapshot ==
  /\ epc = "scan"
  /\ Shape[cur] = "unparsable"
  /\ journal' = Journaled(journal, "snapshot_rejected", cur)
  /\ NextSnapshot
  /\ UNCHANGED <<tape, arts, crashes, done, loaded, bundle, eseq>>

Rebuilt == epc = "scan" /\ Shape[cur] # "unparsable"

\* build_detailed raises: journaled, and the candidates still run.
FeatureStageFails ==
  /\ Rebuilt
  /\ journal' = Journaled(journal, "feature_stage_failed", cur)
  /\ bundle' = FALSE
  /\ epc' = "forecast"
  /\ UNCHANGED <<tape, arts, crashes, feed, done, loaded, eseq>>

\* stores.<stage>.append for the current snapshot.
AppendArtifact(stage) ==
  LET record == ArtifactRecord(eseq[stage], arts[stage], cur)
  IN  /\ Len(arts[stage].lines) < MaxRecords
      /\ arts' = [arts EXCEPT ![stage] = AppendRecord(@, record)]
      /\ eseq' = [eseq EXCEPT ![stage] = record.seq + 1]

WriteFeatures ==
  /\ Rebuilt
  /\ AppendArtifact("features")
  /\ epc' = "featured"
  /\ UNCHANGED <<tape, journal, crashes, feed, done, loaded, bundle>>

\* Families whose inputs are missing, or that raised, leave the bundle thinner and
\* maybe empty; those that raised are journaled next.
JournalFeatures ==
  /\ epc = "featured"
  /\ journal' = Journaled(journal, "features_computed", cur)
  /\ bundle' \in BOOLEAN
  /\ epc' \in {"forecast", "families"}
  /\ UNCHANGED <<tape, arts, crashes, feed, done, loaded, eseq>>

JournalFailedFamilies ==
  /\ epc = "families"
  /\ journal' = Journaled(journal, "feature_stage_failed", cur)
  /\ epc' = "forecast"
  /\ UNCHANGED <<tape, arts, crashes, feed, done, loaded, bundle, eseq>>

\* No group, no feature row, or predict raises.
ForecastUnavailable ==
  /\ epc = "forecast"
  /\ journal' = Journaled(journal, "forecast_unavailable", cur)
  /\ bundle' = FALSE
  /\ epc' = "candidates"
  /\ UNCHANGED <<tape, arts, crashes, feed, done, loaded, eseq>>

WriteForecast ==
  /\ epc = "forecast" /\ HasForecaster /\ bundle
  /\ AppendArtifact("forecasts")
  /\ epc' = "forecasted"
  /\ UNCHANGED <<tape, journal, crashes, feed, done, loaded, bundle>>

JournalForecast ==
  /\ epc = "forecasted"
  /\ journal' = Journaled(journal, "forecast_generated", cur)
  /\ bundle' = FALSE
  /\ epc' = "candidates"
  /\ UNCHANGED <<tape, arts, crashes, feed, done, loaded, eseq>>

\* generate_candidate_universe raises: the snapshot is not done, and the next
\* pass takes it through every stage again.
RejectCandidates ==
  /\ epc = "candidates"
  /\ Shape[cur] = "raises"
  /\ journal' = Journaled(journal, "candidate_rejected", cur)
  /\ NextSnapshot
  /\ UNCHANGED <<tape, arts, crashes, done, loaded, bundle, eseq>>

WriteCandidates ==
  /\ epc = "candidates"
  /\ Shape[cur] # "raises"
  /\ AppendArtifact("candidates")
  /\ epc' = "universe"
  /\ UNCHANGED <<tape, journal, crashes, feed, done, loaded, bundle>>

JournalCandidates ==
  /\ epc = "universe"
  /\ journal' = Journaled(journal, "candidates_generated", cur)
  /\ done' = done \cup {cur}
  /\ NextSnapshot
  /\ UNCHANGED <<tape, arts, crashes, loaded, bundle, eseq>>

-----------------------------------------------------------------------------
(* Deaths. *)

\* The artifact a step from the current state would append to.
WritingTo ==
  {s \in EngineStages :
     \/ s = "features" /\ Rebuilt
     \/ s = "forecasts" /\ epc = "forecast" /\ HasForecaster /\ bundle
     \/ s = "candidates" /\ epc = "candidates" /\ Shape[cur] # "raises"}

\* The process is killed, or an append raises and ends it: between two writes,
\* or with an artifact record cut short.
EngineCrash ==
  /\ crashes < MaxCrashes
  /\ crashes' = crashes + 1
  /\ \/ UNCHANGED arts
     \/ \E s \in WritingTo :
          /\ Len(arts[s].lines) < MaxRecords
          /\ \E f \in CutShort(arts[s], ArtifactRecord(eseq[s], arts[s], cur)) :
             arts' = [arts EXCEPT ![s] = f]
  /\ epc' = "idle" /\ feed' = << >>
  /\ done' = {} /\ loaded' = FALSE
  /\ bundle' = FALSE
  /\ eseq' = [s \in EngineStages |-> Unset]
  /\ UNCHANGED <<tape, journal>>

EngineStep ==
  \/ BeginPass \/ RejectSnapshot
  \/ FeatureStageFails \/ WriteFeatures \/ JournalFeatures \/ JournalFailedFamilies
  \/ ForecastUnavailable \/ WriteForecast \/ JournalForecast
  \/ RejectCandidates \/ WriteCandidates \/ JournalCandidates

EngineNext == EngineStep \/ EngineCrash
=============================================================================
