------------------------------ MODULE Pipeline ------------------------------
(***************************************************************************)
(* The market, engine and settlement services over one state root: three   *)
(* processes that share files and a journal and no lock between them but   *)
(* the journal's.  Every interleaving of their steps, and of their deaths, *)
(* is explored.  The repair tool does not run.                             *)
(***************************************************************************)
EXTENDS Recording, Engine, Settlement

recordingVars == <<marketVars, repairVars>>
pipelineVars ==
  <<tape, arts, journal, clock, crashes, recordingVars, engineVars, settlementVars>>

ASSUME PipelineAssumption ==
  /\ Shape \in [Ids -> Shapes]
  /\ HasForecaster \in BOOLEAN
  /\ MaxRecords \in Nat
  /\ CloseAt \in Nat \ {0}
  /\ RolloverAt \in Nat /\ CloseAt <= RolloverAt
  /\ Cap \in [EventTypes -> Nat \ {0}]

PipelineInit ==
  /\ Init
  /\ arts = [s \in Stages |-> EmptyFile]
  /\ journal = EmptyJournal
  /\ EngineStart
  /\ SettlementStart

MarketTurn == MarketNext /\ UNCHANGED <<arts, journal, engineVars, settlementVars>>
EngineTurn == EngineNext /\ UNCHANGED <<clock, recordingVars, settlementVars>>
SettlementTurn == SettlementNext /\ UNCHANGED <<recordingVars, engineVars>>

PipelineNext == MarketTurn \/ EngineTurn \/ SettlementTurn
PipelineSpec == PipelineInit /\ [][PipelineNext]_pipelineVars

-----------------------------------------------------------------------------
(* Safety. *)

PipelineTypeOK ==
  /\ \A s \in Stages : arts[s].lines \in Seq([ok : BOOLEAN, seq : {-1} \cup Nat, id : 0 .. N])
  /\ \A e \in Events : journal[e] \in 0 .. Cap[e[1]]
  /\ epc \in EnginePC /\ (epc = "idle" <=> feed = << >>)
  /\ done \in SUBSET Ids
  /\ spc \in {"idle", "read", "outcomes", "artifact", "marker"}
  /\ spc \in {"read", "outcomes"} <=> todo # << >>
  /\ blocked \in SUBSET Ids

\* However often the engine dies, and whatever a death leaves of a record, no
\* snapshot gets a second candidate universe, on disk or in the journal
\* (_already_processed; docs/ops/pipeline.md: "a snapshot whose artifact is
\* already recorded is skipped").
OneUniversePerSnapshot ==
  /\ \A id \in Ids : Count("candidates_generated", id) <= 1
  /\ LET lines == arts["candidates"].lines
     IN  \A i, j \in DOMAIN lines :
           lines[i].ok /\ lines[j].ok /\ lines[i].id = lines[j].id => i = j

\* A counterfactual outcome exists only for a snapshot that is on the tape and
\* for which the engine journaled a universe, and only of a session that is
\* over (_engine_snapshots, _session_is_over).
OutcomesAreEarned ==
  \A id \in Ids : Count("counterfactual_settled", id) > 0 =>
    /\ Count("candidates_generated", id) = 1
    /\ id \in IdsIn(tape)
    /\ clock >= RolloverAt \/ \E last \in IdsIn(tape) : last >= CloseAt

\* A session is marked settled once, even when settlement dies right after
\* the marker reached the journal (_already_settled), and while no process
\* dies each snapshot is settled once.
SettledOnce ==
  /\ Count("outcome_settled", SessionKey) <= 1
  /\ crashes = 0 => \A id \in Ids : Count("counterfactual_settled", id) <= 1

\* The marker is never ahead of the outcomes it vouches for, and is not
\* written without its artifact.
MarkerVouches ==
  [][Count("outcome_settled", SessionKey) = 0 /\ Count("outcome_settled", SessionKey)' > 0
       => /\ \A id \in blocked : Count("counterfactual_settled", id) > 0
          /\ arts["settlements"].lines # << >>]_pipelineVars

\* A restart continues an artifact file's sequence: a file whose lines all
\* parse is one replay accepts, and only a death leaves a line that does not
\* (StageArtifactStore._next_seq).
ArtifactsVerify ==
  \A s \in Stages :
    LET intact == \A i \in DOMAIN arts[s].lines : arts[s].lines[i].ok
    IN  /\ intact => Readable(arts[s])
        /\ crashes = 0 => intact

-----------------------------------------------------------------------------
(* Refinement: the three services and what they share, as the life of each *)
(* snapshot.                                                               *)

Life == INSTANCE SnapshotLife WITH
  Snapshots <- Ids,
  recorded <- IdsIn(tape),
  over <- clock >= RolloverAt \/ \E last \in IdsIn(tape) : last >= CloseAt,
  offered <- Generated,
  batch <- blocked,
  settled <- {id \in Ids : Count("counterfactual_settled", id) > 0},
  marked <- Count("outcome_settled", SessionKey) > 0

\* Every interleaving of the services and their deaths is a history in which
\* snapshots are recorded in order, offered once and only if recorded, and
\* settled only if offered, in a session that is over and not yet marked
\* (_process_session, _settle, _already_settled).
ImplementsSnapshotLife == Life!Spec

-----------------------------------------------------------------------------
(* Liveness.  The services loop until they are signalled and systemd       *)
(* restarts them, so a step that stays possible is taken; no provider has  *)
(* to answer, so ticks need not come.                                      *)

Fairness ==
  /\ WF_pipelineVars((TickWriteSome \/ TickWritten)
              /\ UNCHANGED <<arts, journal, engineVars, settlementVars>>)
  /\ WF_pipelineVars(EngineStep /\ UNCHANGED <<clock, recordingVars, settlementVars>>)
  /\ WF_pipelineVars(SettlementStep /\ UNCHANGED <<recordingVars, engineVars>>)
FairSpec == PipelineSpec /\ Fairness

Damaged(f) == \E i \in DOMAIN f.lines : ~f.lines[i].ok

\* A death, and not a write under way, left a line of the recording torn.
TapeTorn == Damaged(tape) /\ mpc # "partial"

\* A death cut a record short in the recording or the candidate artifacts, or
\* fell between a snapshot's candidate artifact and its event.
LostToADeath(id) ==
  \/ TapeTorn
  \/ Damaged(arts["candidates"])
  \/ /\ id \in IdsIn(arts["candidates"])
     /\ Count("candidates_generated", id) = 0
     /\ epc # "universe"

\* Every recorded snapshot that can be rebuilt gets its universe journaled,
\* through any death but the three kinds above.
RecordedIsProcessed ==
  \A id \in Ids :
    id \in IdsIn(tape) /\ Shape[id] \in {"good", "empty"}
      ~> Count("candidates_generated", id) = 1 \/ LostToADeath(id)

\* The session's date has passed, its recording passes replay's check and its last
\* snapshot can be rebuilt.
ReadyToSettle ==
  /\ clock = N /\ clock >= RolloverAt
  /\ Readable(tape)
  /\ LastId \in {i \in Ids : Shape[i] # "unparsable"}

\* A session that is over and has a candidate to settle is settled in the end,
\* unless the market service dies inside its last write.
OverIsSettled ==
  \A id \in Ids :
    ReadyToSettle /\ Shape[id] = "good" /\ Count("candidates_generated", id) = 1
      ~> Count("outcome_settled", SessionKey) = 1 \/ TapeTorn
=============================================================================
