# SPY-DER: a TLA+ verification project

SPY-DER records option-market snapshots of SPY, derives features, forecasts and
candidate trades from them, settles what those trades would have earned, and
trades on paper. Its processes run under systemd, share a directory
(`/var/lib/spy-der`, the *state root*) and talk to each other through files and
one SQLite journal. This project models the parts that keep state across steps
and processes, checks them with TLC, and proves what it can with TLAPS.

Paths below are relative to `src/spy_der/` of the repository unless they start
with `docs/`, `deploy/` or `tests/`.

## 1. Inventory

| Part | State it keeps | Operations | Talks to | Hard behaviour | What makes it correct |
|---|---|---|---|---|---|
| Market recording (`runtime/market_service.py`, `market_data/recording.py`) | `market/<session>.jsonl`; next sequence number in memory | tick: sequence, terminate a torn line, append | providers in, the file out | killed inside a write; restart resumes the sequence from disk | no gap after a restart, no acknowledged record lost |
| Repair tool (`market_data/repair.py`, `runtime/repair_recording.py`) | none of its own | inspect, renumber, replace | the same file, with no lock | reads, then replaces a file another process may be writing | no record appended meanwhile is lost |
| Stage artifacts (`runtime/artifacts.py`) | `<stage>/<session>.jsonl`; next sequence number in memory | append, verified read | engine, settlement | torn tail; sequence resumed | file verifies; sequence has no gap |
| Engine (`runtime/engine.py`) | `_seen`; artifacts; events | pass: features, forecast, candidates of each new snapshot | recording in, artifacts and journal out | six durable writes a snapshot, a kill between any two | one universe a snapshot; every snapshot processed |
| Settlement (`runtime/settlement.py`, `evaluation/settlement.py`) | `_settled`; outcomes, artifact, marker | settle a finished session | recording and journal in, journal and artifact out | runs while recorder and engine run; killed in mid-batch | outcomes only of finished sessions and generated universes; marker once, after the outcomes |
| Journal (`journal/store.py`, `journal/hash_chain.py`) | `journal/journal.db` | append, iterate, verify | engine, settlement, tools | several writers, busy timeout, failure, death | the chain verifies; an append is atomic |
| Paper trading (`execution/*`, `positions/*`) | orders, accounts, positions; a journal to rebuild them | submit, quote, cancel, mark, reduce, close, settle, restart | order → fill → position → cash | partial fills, a step that fails half-way, an account that refuses, restart on a new book | cash is explained by the recorded fills and closes; the book lists the open positions |
| AI loop (`runtime/ai_loop.py`, `runtime/primary.py`, `positions/exits.py`, `agents/authority.py`) | stage of a tick, marks, peaks, events | tick: manage the open position, enter when flat | agent → loop → paper trading; deployment decides whether it runs | an exception of the account ends a tick anywhere; the agent answers anything | hard floors close whatever the agent says; each fill is in a position; journal and account agree |
| Risk and guard (`risk/*`, `execution/guard.py`) | the session's exposure, memory of approved decisions | check, approve, guard, record, close, loss | decision, simulator | check and record at different moments; a session rolls over between them | a day's losses and positions stay within the limits; nothing is approved twice within the memory |
| Promotion (`learning/promotion.py`, `learning/promotion_trial.py`, `dojo/runner.py`) | `configs/`: champion, pending, promoted, rejected and archive files | stage, trial, promote, reject, roll back | Dojo and dashboard in, decision service out | several processes without a lock; a death between two files; archive names within a second | every champion that was replaced can be restored; the cooldown holds |
| Decision service (`decisions/*`, `runtime/decision_service.py`) | caches of champion and last decision | decide | HTTP clients, champion file | a threading server over a half-locked and an unlocked cache, a file replaced meanwhile | no decision under stale knobs; a request gets its own decision |
| Agents (`agents/*`) | usage counters | packet, ask, parse, review | external model | timeouts, refusals: fail closed | a refused answer never trades: in the AI loop it is HOLD or no entry |
| Deployment (`deployment/*`, `runtime/parity.py`) | manifest served, history, cutover state | promote, freeze, cut over, roll back, rehearse | operator in, AI loop out | rollback of a rollback, a refused rollback, a pointer moved past the controller | what is reported as primary is what is served |
| Registry (`training/registry.py`, `training/pipeline.py`, `forecasting/runtime.py`) | artifact, metadata and group files | fit, save, load | training runs in, engine out | artifact and metadata in two files, written over; a death between or inside them | metadata describes a whole artifact of its run; what is served is what metadata vouches for |
| Dojo memory (`dojo/*`, `learning/gaps.py`, `learning/memories.py`) | failure episodes, curriculum weights | read gaps, train, save weights, append findings | timers in, learner and universe phase out | runs that overlap, a file rewritten in place, a death inside the write | no finding is lost; the learner is given open gaps; weights accumulate |
| The rest | none between calls | features, forecasting, candidates, economics, policies, synthetic data, training math, evaluation reports, providers, contracts, importers, status views | | pure computation or I/O | not modelled (section 6) |

The hazards, each at its line, are in `PROJECT.json`.

## 2. Modules

| Module | What it is | Code |
|---|---|---|
| `JsonlFile` | operators on a JSONL file: a line is *parses or not*, sequence, snapshot id; the file may lack its last newline | `market_service._last_seq`, `_ensure_trailing_newline`, `ReplayFeed._verify`, `StageArtifactStore._next_seq`, `repair._renumber` |
| `Session` | the session's ticks, its recording and the process deaths, which all the services share | |
| `RecordingLog` | abstract specification: a log of whole records, each numbered one after the highest, which a repair renumbers | what `_tick` and `_next_seq` promise `ReplayFeed` |
| `Recording` | recorder and repair tool on one recording | `MarketService`, `inspect_recording`, `repair_recording` |
| `StateRoot` | the artifact files and the journal, as engine and settlement see them | `StageArtifactStore`, `AppendOnlyJournal` |
| `Engine` | one pass as a chain of durable writes; deaths | `EngineService` |
| `Settlement` | one settlement pass; deaths | `SettlementService`, `settle_session` |
| `SnapshotLife` | abstract specification: snapshots recorded, offered, settled in batches, closed by the marker | what the three services promise each other |
| `Pipeline` | `Recording`, `Engine` and `Settlement` composed over one state root | the three units in `deploy/` |
| `Pipeline_proofs` | the theorems about `Recording` and `Pipeline` | |
| `Journal` | abstract specification: an atomic append-only log with concurrent callers | `AppendOnlyJournal` |
| `SqliteJournal` | the store: `BEGIN IMMEDIATE`, tip, insert, commit, rollback, busy timeout, death | `SqliteJournalStore`, `_finalize`, `verify_chain` |
| `SqliteJournal_proofs` | its theorems | |
| `PaperTrading` | orders, their fills, positions, one account and its book, restart | `PaperExecutionSimulator`, `PositionManager`, `IsolatedAccountBook`, `reconcile_account`, `restart_runtime` |
| `Promotion` | `configs/` and the processes that change it, one file operation a step | `learning/promotion.py`, `_cooldown_gate`, `_run_promotion_phase`, the dashboard's writes |
| `Promotion_proofs` | its theorems | |
| `DecisionService` | the threads of the server over the two caches | `_load_payload`, `decide_shadow_tick`, `_DecisionHandler` |
| `DecisionService_proofs` | its theorems | |
| `Deployment` | the pointer with its history, the cutover controller | `DeploymentPointer`, `freeze_deployment`, `rollback_deployment`, `promote`, `ControlledCutover`, `rehearse_rollback` |
| `AiLoop` | `PaperTrading` and `Deployment` composed under the ticks of the research loop | `ShadowAiLoop.tick`, `PrimaryResearchRuntime.tick`, `evaluate_exit`, `_needs_forced_close` |
| `AiLoop_proofs` | the theorems about `PaperTrading` and `AiLoop` | |
| `RiskGate` | tracker, envelope, firewall, sizing, duplicate memory and guard, under several traders | `PortfolioTracker`, `build_risk_envelope`, `apply_risk_firewall`, `DuplicateGuard`, `apply_execution_guard` |
| `RiskGate_proofs` | its theorems | |
| `Registry` | training runs that save models, the engine that loads them | `ModelRegistry`, `train_model_group`, `ForecastServer.load` |
| `Registry_proofs` | its theorems | |
| `Dojo` | the memory of Dojo runs: episodes, gaps, weights | `load_archetype_gaps`, `record_archetype_gaps`, `append_failure_episode`, `run_universe_phase`, `_run_dojo_phases_with_progress` |
| `Dojo_proofs` | its theorems | |
| `MC*` | constants for TLC | |

How they fit: `Pipeline` extends `Recording` (whose repair tool keeps its
variables and takes no step), `Engine` and `Settlement`, which share the
variables `tape`, `clock` and `crashes` of `Session` and the `arts` and `journal` of
`StateRoot`; it interleaves the steps of the three (`MarketTurn`, `EngineTurn`,
`SettlementTurn`). There the journal is
a table of counts and an append one step; `SqliteJournal` refines `Journal`, the
log whose append takes effect at one moment, and that is why one step is enough.
`Recording` implements `RecordingLog` with the file seen through its readers (`log <- Parsable(tape)`): a record
enters when its write ends, or when its writer dies before the newline. `Pipeline` implements
`SnapshotLife`, which knows sets of snapshots and no process: its `offered` and `settled` are the
events of the journal, its `batch` is the memory of settlement, which a death empties.
`AiLoop` extends `PaperTrading`, instantiates `Deployment`, and takes the
steps of both; together they share nothing with the pipeline but the journal. `PaperTrading`
is also checked alone, with every call in any order, which the loop never makes. `Registry` is
where the engine's forecasts come from: `Engine` takes "a forecast or none" from it. A Dojo run's
promotion phase is a process of `Promotion`, and the rest of it is `Dojo`; `RiskGate` stands
before an order and shares no variable with the others. `DecisionService` sees one thing of `Promotion`: that another process
replaces `champion.json` at once. Its `ChampionReplaced` is `Promotion`'s
`WriteChampion` with everything but the file forgotten, and both call what stat tells
of the file its `stamp`.

### State and actions

* **A file** is `[lines, nl]`. A write is in pieces: a death, or a reader, may
  find a fragment (`Garbled`, `nl = FALSE`), or a whole record without its
  newline. A later append on an unterminated line yields one garbled line, as two
  JSON values on one line do.
* **A snapshot** is its tick number. What its content makes of the pure stages is
  the constant `Shape`: `good`, `empty` (a universe without candidates), `raises`
  (the candidate factory fails), `unparsable` (`snapshot_from_dict` refuses).
  Feature failure and forecast failure are nondeterministic.
* **A process** is its program counter and its memory (`mseq`; `done`, `loaded`,
  `eseq`; `settled`, `sseq`). A crash action resets all of it and leaves the
  disk, perhaps with the record it was writing cut short.
* **Time** is `clock`, the tick reached. From `CloseAt` on a snapshot says
  `CLOSED`; from `RolloverAt` on the UTC date has left the session's date.
* **The journal** in `Pipeline` counts events per type and snapshot, saturating at
  `Cap`. In `SqliteJournal` a digest is the sequence of everything hashed so far,
  so two digests are equal only if what they digest is.
* **Paper trading** has one account. An order has its price, its size and whether it
  opens for a credit; a quote fills all, some or none of what remains, as the
  simulator's share of the displayed size does. `MaybeFill` debits the account before it updates
  the order, in the code's order, and `Close` stores the position before it books. What a
  fill or a close could not book is kept in history variables, so that
  `LedgerExplainsCash` can say what the cash should be. `mark` and the exit policies
  change valuations only; sells are submitted by nobody; prices are multiples of sizes,
  so averages are exact.
* **A change of champion** is five steps of a process: read and name the archive, save
  it, write the champion, retire or unlink the source. A candidate is one file, and
  `where` is the directory it is in. Archive names are a second and a suffix, and sort as
  the file names do. The gates of a trial other than the cooldown are a choice. `raced` records that two
  changes were under way at once.
* **A tick of the loop** goes through the stages `manage`, `enter` and `open`. Its input is
  one quote (0 stands for an absent one, as both are false in Python) and the four floors that
  come from outside; the stop is computed from the quote or, without one, from the last mark. An exception ends the tick at `idle`, with what was
  done left done. `due` is what a hard floor of this tick applies to: an emergency, an expiration, a
  structural exit or a stop, and the end of the day unless a target or a trail is reached.
* **A deployment** is an id, a system and whether it is frozen. `direct` records that the
  pointer was moved past the controller.
* **A trader** has a ticket from its approval to its record. `fresh` says that no trade was
  recorded since the approval, and `strayed` that one was recorded on a portfolio its approval did not see, or for a
  day gone by. Losses are whole dollars; the clock has a warm-up, an entry window and a late
  part in each day. The window stands for the lockout's (10:00 to 15:30) and the guard's (9:40 to 15:45): no
  property depends on the minutes between them.
* **An artifact** is the run it is from and whether it is whole; its hash is its content.
  Opening the file makes it not whole, and a death then leaves it so. `alone` says that
  no other run overlapped the one that wrote the metadata, `dirty` that the
  files of the group may be of several runs, `calm` and `raced` what happened to them while
  an engine loaded. A run names the configured group if it fits its roles; a `--group-id` given
  to it (`runtime/training.py:74`) would separate the two, but a run under another id is like one that does not
  name the group, and one that fits fewer roles under the same id leaves fewer files to agree.
* **The episodes** are a text that is JSON, cut off or garbled, and per archetype the last
  verdict with its date. Weights are the set of runs whose evidence is blended
  into them. `told` and `saved` are what ought to be remembered; `raced`, `crossed` and `cut`
  say that appends overlapped, that universe phases did, and that a run stopped inside a write.
* **A decision** is the fingerprint it was made for, which is enough to tell whose it
  is. The two cache writes at the end of `decide_shadow_tick`, and the two reads of the cached
  decision (compare, return), are steps; each critical section of the champion cache is
  one. `overlapped` records that two requests were between them at once.

## 3. Runs

| Run | Question | Instance | Result |
|---|---|---|---|
| `recording` | Does a restart open a gap or lose a record, wherever the death falls, with an operator repairing beside it? Is the file the log of `RecordingLog`? | 5 ticks, 2 deaths, a fresh file and two recordings with a restarted sequence | holds |
| `pipeline` | Do universes, outcomes, artifacts and marker agree under every interleaving of the three services and a death? Does each snapshot live the life of `SnapshotLife`? | 3 ticks, 1 death, a snapshot whose candidates raise, forecasts on | holds |
| `pipeline_live` | Is every snapshot processed, every finished session settled? | 3 ticks, 1 death, a snapshot that does not parse and one with no candidate | holds |
| `journal` | Does the chain survive concurrent writers, timeouts, failures and deaths, and is an append atomic? | 3 writers, 2 events (one with its caller's event_id), 2 committed rows | holds |
| `paper_trading` | Do cash, orders, positions and the book agree through partial fills, refusals and restarts? | a debit and a credit order of 3 contracts, 1 restart | holds |
| `promotion` | Is every replaced champion kept, and the cooldown, with deaths between any two file operations? Does a rollback take the latest archive? | 2 candidates, 2 Dojo runs, 1 operator, 1 death, 3 writes, 2 seconds | holds, but for changes that race |
| `decision_service` | Are knobs current and decisions the request's own? | 2 threads, 3 requests, 2 promotions, restarts | holds, but for requests that overlap |
| `ai_loop` | Do floors close, fills become positions, and do journal, account and primary agree under any agent, refusals, restarts and rollbacks? | 2 orders of 2 contracts, 2 exit policies, 1 restart, 1 rollback | holds |
| `registry` | Is what an engine serves what its metadata vouches for, and of one run, with deaths anywhere? | 2 roles, 2 trainers, 3 runs, the last refused by the load mode | holds, but for runs that overlap |
| `risk_gate` | Do the daily loss and the concentration limits hold for traders who interleave over days? | 2 traders, 2 candidates, 2 days | holds, but for approvals that overlap |
| `dojo` | Is what runs found remembered, and given to the learner while it is open? | 3 runs, 2 at once, 2 archetypes, 2 days, 1 death | holds, but for writes that overlap |
| `credit_claim` | Does closing at a gain book a gain? | as `paper_trading` | violated: credit structures |

### Bounds

* `N`, ticks. Three give a tick before the close, one at it and one after it, or
  two that differ in `Shape` and one more; the recording run takes five so that two
  deaths and a repair each have a record before and after.
* `MaxCrashes`. What a death can do depends on what is on disk and not on how many
  deaths made it so, except in the recording, where a death can meet the fragment of an
  earlier one: two there, one in the pipeline, which is dominated by *where* it falls.
* `MaxRecords`, lines of an artifact file: `N` plus one repeated record and one
  fragment; appends stop there, so no counterexample needs more.
* `Cap`: "none, one, more than one".
* `MaxRows`: an append is called only below it; with three writers three more
  rows can still be under way, so chains of up to five rows are reached.
  The proofs of section 4 need none of these values.
* `StartingCash` 30 with prices 6 and 12: one order can be paid, the second only in part
  or after a close, and a close can leave less than nothing. `Contracts` 3 lets an order
  fill in up to three parts.
* `MaxRestarts`: a restart only reads the two stores, so a second one finds what the first left.
* `MaxClock` 2 and `Cooldown` 1: changes within the cooldown and after it, archives of the
  same second and of two. `MaxWrites` 3: a promotion over a promotion and a rollback of it.
  `MaxDeaths` 1: a death leaves only files behind. Candidates and Dojo runs are interchangeable, hence
  the symmetry; no property of that run is about liveness.
* `MaxRequests` 3: one to fill the cache, one to change it, one to read it. `MaxWrites` 2 is a
  file replaced by another while a request holds the first.
* `ai_loop`: orders of 2 contracts at 10 with marks 0, 6, 10 and 15 reach the target, the
  stop, neither, and the worthless quote; `StartingCash` 24 and `Fee` 1 pay for one order, so
  that the account may refuse a second; `MaxHistory` 3 and `MaxRollbacks` 1 allow a release, a
  freeze and a rollback over it.
* `registry`: the third run is the one whose status the load mode refuses, so that there is a
  run to serve, one over it and one that must not be served. Two roles are the least that can
  mix. Trainers are interchangeable.
* `risk_gate`: losses of 3 and 1 against `MaxDailyLoss` 6 and two contracts each: a limit reached
  exactly, and passed by one trade too many. `MaxFamily` 1 and `MaxPositions` 2 can each be
  the one that binds. `OrderTtl` 3 is shorter than the `DayLength` of 4, and `MaxTime` 5 is in the second day,
  so the memory and the day end at different moments. Traders are interchangeable.
* `dojo`: `MaxAge` 0 and two days make a gap too old; `DiagnoseLimit` 1 of 2 archetypes leaves one out;
  three runs with two at once are a race and a run that meets its result. `MaxStops` 1: a death leaves only the two files.
  Runs and archetypes are interchangeable.
* `CHECK_DEADLOCK FALSE` in the pipeline runs: when the session's ticks have
  passed and all is settled, the model has nothing to do; in all others but
  two, when the orders, the time, the runs or the requests are used up. The
  recording and journal runs check deadlock.
* The type invariants of `Pipeline`, `SqliteJournal`, `Promotion`, `DecisionService`, `Registry`, `RiskGate` and
  `Dojo` are proved for every instance (section 4), and so are not among the runs' properties; the other modules' are.

### Fairness

`FairSpec` assumes that a write that began ends unless the process dies, and
that the engine and settlement loops take a step that stays possible
(`while not self._stop`, `Restart=always` in `deploy/*.service`). Ticks are not fair:
no provider has to answer. Deaths are bounded, which stands for "there is an end to
crashing". The liveness properties name the deaths that defeat them: a torn
recording (every reader refuses it until it is repaired by hand), a torn
candidate artifact (`append` never terminates it and `_already_processed` refuses
the file in every later pass), and a death between a candidate artifact and its
event (the snapshot counts as done and is never journaled).

### Where code and words differ

`credit_claim` is a run: `reduce` and `close` book exit minus entry whatever the direction, so a
credit position closed at a profit costs the account money (`CloseBooksTheGain`). The models
also take these steps, which no run states as a claim:

* A torn line in a contiguous recording is reported clean: `_load_for_repair` drops it before
  `inspect_recording` applies "the same reader training uses" (`market_data/repair.py:165`).
* The candidate artifact is the only record of progress, so a restart repeats features and forecasts of the
  snapshot in hand, though `runtime/engine.py:31` calls the engine idempotent.
* The marker closes a session for the universes that were journaled when settlement looked;
  later ones never settle (`runtime/settlement.py:9`).
* A second partial fill of an order raises, as `on_order_state` asks for a move from `OPEN` to
  `OPEN` (`positions/manager.py:98`). The loop never offers a second quote.
* `evaluate_exit` looks for a target and a trail before the end of the day
  (`positions/exits.py:75`), so a position at its target at 15:55 may be kept by the agent's
  HOLD, though docs/CODEX_HANDOFF_STATE.md:89 lists `eod` among the floors that override it.
  `FloorsAreObeyed` leaves that case out; `AgentIsOverriddenByFloors` proves it is the only one.
* `reduce` stores the reduced position before the account may refuse the booking
  (`positions/manager.py:233`), and the exception ends the tick, so such a reduction has no event.
  `JournalTellsPositions` asks for none.
* Positions are not managed while the agent's authority is off or System A is primary: the
  tick is refused before anything is looked at (`runtime/primary.py:89`).
* A second `rollback_to_system_a` goes to System B and reports System A
  (`deployment/cutover.py:319`); a refused `rollback_deployment` has already lost its target
  (`deployment/rollback.py:49`).
* An artifact that is written between its hash check and its load serves, or raises an error that
  the engine does not turn into "unavailable" (`runtime/engine.py:180`).
* The guard caps the loss of one contract, for several (`execution/guard.py:300`); a decision the
  guard then blocks is still remembered, and its retry refused until the ttl has passed.
* A death inside `append_failure_episode` leaves a file that makes every later Dojo run raise at its start
  (`learning/memories.py:120`), and runs that overlap, as the daily 06:30 and recent 07:00 timers
  allow, lose each other's findings or weights. `deploy/spy-der-dojo-daily.service:3` says "Never auto-promotes", and
  `auto_promote` is on by default.
* `rollback_champion` says "Restore the most recently archived champion" (`learning/promotion.py:253`)
  and takes the name that sorts last; of two archives of one second, `champion-S.json` sorts after
  `champion-S-1.json`, which was saved later. `LatestIsRestored` is for archives alone in their second.
* `restart_runtime` without an account book starts from the initial cash and lifts a block
  (`positions/restart.py:34`); `LedgerExplainsCash` accounts for the difference.

## 4. Proofs

`SqliteJournal_proofs` proves, for every set of writers and of events and every
`MaxRows`, from `SqliteAssumption` alone:

* the type invariant, `ChainVerifies`, `LockIsInUse`, `TipIsFresh` and
  `ReturnedIsStored` as invariants of `Spec`;
* that only an `event_id` chosen by the caller can collide (`SequenceNeverCollides`);
* `Refinement`: `Spec => ImplementsJournal`.

The inductive invariant is `Inv`: the five properties and `CommittedIsStored`, that
a writer which has committed and not yet returned finds its row in the table.
`TipIsFresh` is what makes it inductive: a commit extends the chain only because
the tip read earlier is still the tip, which needs `LockIsInUse` (nobody else can
commit meanwhile); `ReturnedIsStored` needs `CommittedIsStored` for the row that
is about to be returned. `TipOfSequence` and `CommitAppends` turn the `CHOOSE` of
`_tip` and the function update of a commit into `Len` and `Append`. The refinement
step maps `Commit` to `Apply`, the return to `Return`, a timeout or rollback to
`Raise`, a death to `Die`, and everything else to a stutter.

`DecisionService_proofs` proves, for every set of threads, requests and candidates and
every bound, from `ServiceAssumption` alone (`None` and `Empty` are nobody's candidate or
request): the type invariant, `KnobsAreCurrent` and `AnswersItsRequest` as invariants of
`Spec`. The inductive invariant `Inv` has two parts that do not need each other.

* For the knobs: the cached payload is no older than the stat it is found under
  (`CacheIsCurrent`), and no stat is from the future (`StatsWereTaken`). That
  `_load_payload` stores under the stat it took *before* reading is the whole argument.
* For the decisions: without overlap one thread at a time is in the shadow
  (`OneInShadow`), and the kept fingerprint is absent, or that of the kept decision, or
  that of the decision a thread is about to keep (`KeyFitsDecision`). A thread that
  compares enters alone (`EntersAlone`), so only the second is left to it, and
  `ReusesItsOwn` follows; that a request without candidates clears the fingerprint
  is what makes it stable.

`RiskGate_proofs`, from `RiskAssumption`: the type invariant, `DailyLossHolds`,
`ConcentrationHolds` and `ApprovedOnce`, for any traders, candidates, limits and length of a day.

* `LossInv`: unless something strayed, the tracker's committed loss is what was recorded on its day (`LedgerAgrees`),
  and what a fresh ticket may lose still fits (`ApprovalsFit`): the approval of several
  contracts was sized within the budget (`ContractsFit`), and a record makes every other
  ticket stale. `NotAhead`, that nothing is about a later day than today, is what makes a
  session that rolls over start empty.
* `RoomInv` is the same argument for the number of positions, with `FamilyOfAppend` for the
  count of a family.
* `MemoryOfApprovals`: the guard's memory of a candidate is its last approval, or that is
  older than the ttl.

`Registry_proofs`, from `RegistryAssumption`: the type invariant, `MetadataIsOfItsModel`,
`LoadsAreVouched` and `ServedIsOneRun`, for any roles, trainers and runs. `IInv` is
`AloneIsAlone` (a run marked alone is the only one), `LoneRunWrites` (the artifact such a run has closed is
whole and its own until its metadata is written), `MetadataIsOfItsModel`, `LoaderHolds` (what a
load holds between its steps) and `CleanGroup` (the group's files are of the run that names it).

`Dojo_proofs`, from `DojoAssumption`: the type invariant, `MemoryAccumulates`,
`PressureAccumulates` and `TrainsOnOpenGaps`, for any runs, archetypes and bounds. `MemoryInv`
needs that, without a race, one run appends at a time (`OneAppends`), that its copy is the
whole memory (`CopyIsWhole`) and that the file it opened is cut until it fills it
(`OpenedIsCut`); `PressureInv` needs the same two facts of universe phases. `TrainsOnOpenGaps`
follows from `MemoryAccumulates`: a file that parses is what was told.

`Promotion_proofs`, from `PromotionAssumption`: the type invariant, `ReplacedIsArchived`,
`CooldownIsKept` and `LatestIsRestored`, for any candidates, runs, operators, cooldown and bounds.

* `Typed` says that the choices of the code are defined: a second has a free name
  (`FreeNameIsFree`: a finite set of suffixes leaves one out below its size) and a history that
  is not empty has an archive that sorts last (`OneSortsLast`). Both take the least or the
  greatest of a set of numbers, from the well-foundedness of `<`.
* `TrialsWaited`: a Dojo in a change was given a champion that was old enough, and time only
  adds to that.
* `Held` is what a change that is alone knows: about to save, it has the champion in force and
  a free name; about to write, the champion is archived or there is none; about to unlink, the
  archive is of the champion it has restored (`SourceHolds`). That last part is why a rollback loses nothing,
  also when the process died and another rolled back to the same archive.
* `NamesInv`: the archive a change is about to save is named no earlier than all that are there.
  Time passes between the naming and the saving, so this needs that a change which is alone past its
  first step keeps every other archive out (`OnePast`); the order of names is by second first
  (`LatestSortsLast`).

The properties of `RiskGate`, `Registry`, `Dojo`, `Promotion` and `DecisionService` exempt what
the code does not exclude: overlapping writers, approvals and requests. The history variables
say exactly when that was the case.

`AiLoop_proofs` proves of `PaperTrading`, from `PaperAssumption`: the type invariant,
`BookListsOpenPositions`, `RefusalIsCaught` and `LedgerExplainsCash`, for any orders, sizes,
prices, marks, fee and cash.

* `Typed` takes each order with its position alone (`OrderFits`, `PositionFits`), so that a step
  is one lemma about the order it changes.
* `RefusedAreClosed` is what the book needs: a position whose close the account
  refused is closed for good, as no status becomes `OPEN` again (`NothingReopens`); it stays on
  the list, holds nothing, and a restart on the same book finds it.
* The ledger is a sum over the orders. `TotalChanges` says that when one order gains, the sum
  gains as much; it goes order by order through the set (`OneByOne`, induction on its size, over
  a set of numbers), and rests on `SumExists`, that the recursive function `Total` is written
  with is defined for every finite set. A fill then moves cash and ledger by the same amount
  (`OfferExplained`), and a booking moves the ledger and either cash or `unbooked`
  (`BookingExplained`).
* The steps are lemmas about `PaperStep`, which is `Next` with a position closed or reduced at any
  price. The loop needs that: it closes at the price it keeps for a position, which is the
  price it was bought at until a quote comes, and need not be one of `Marks`.

It proves of `AiLoop`, from `LoopAssumption`: the type invariant, `FloorsAreObeyed`,
`FillsBecomePositions`, `JournalTellsPositions` and `PrimaryRunsItsSystem`, for any orders and marks,
exit policies and answers of the agent; and that the account it trades on keeps its ledger and
its list (`LoopKeepsTheBook`), as every step of the loop is a `PaperStep` or leaves the account alone.

* `Inv` has a part per property over what all need: `Kept` (the records fit together, an entry
  price is not 0, so gains can be compared with it) and `OneOpen` (no entry while a position is
  open).
* `FloorInv`: until the position is managed, the floors of the tick are those of its input. The
  lemma under it, `FloorsAreTheHardSignals`, is that the close is forced exactly when a floor applies,
  although `evaluate_exit` returns the first signal it finds: the outside floors are looked for first, a stop is
  never at its target (`StopIsNotTarget`), and the end of the day, looked for last, is hidden by a target
  or a trail and by nothing else. As a theorem of the loop it is `AgentIsOverriddenByFloors`.
* `FillsInv`: only the order just submitted has fills that are no position yet.
* `BookInv` and `EventsInv`: a close without its event is the refused one, still on the list; a
  position is there from its opening event on, and only a position that was reduced has an event of it.
* `CutoverInv`: before the rollback the controller has System B's manifest and goes back to
  System A's, after it the reverse; a second rollback would swap them again, so the property
  stops at one. Every other action of the loop leaves the deployment alone.
* `PricesInv`, for the types: an order of the loop fills in one piece at its limit, so the average
  its position is entered at is that limit (`EntryIsLimit`), one of `Prices`.

`Pipeline_proofs` proves of `Recording`, from `RecordingAssumption`: the type invariant,
`AppendedRecordsSurvive` and `RestartNeverGaps`, for a session and deaths of any number and any
recording it may start from. `RecordingInv` has

* `TapeOK`: the lines that parse are of ticks whose record can be in the file by now, in order; a
  process about to write has ended the last line, and one inside a write has a fragment there;
* `LoadOK`: the records the repair tool holds are renumbered and in order, and none the process wrote is
  missing while the process leaves the file alone;
* `SeqOK`: the number in memory is one after the highest in the file, unless a repair has replaced the
  file under a process that was using it. `AppendedRecordsSurvive` and `RestartNeverGaps` need it, and it needs
  `TapeOK`, as the highest number is that of the lines that parse.

And of `Pipeline`, from `PipelineAssumption` too: the type invariant, `OneUniversePerSnapshot`,
`OutcomesAreEarned`, `SettledOnce`, `ArtifactsVerify` and `MarkerVouches`, for any session length,
number of deaths, shapes of snapshots and caps. `PipelineInv` takes from `RecordingInv` what holds without
repairs (`Unrepaired`) and adds

* `JournalOK` and `FilesOK`: the counts within their caps; a file's numbers go up by one, and the
  number its writer remembers is the next one;
* `EngineOK` and `UniversesOK`: the snapshots still to do are distinct and not done; a candidate artifact
  on disk is of a snapshot that is done or in hand; a universe in the journal has its
  artifact on disk, unless the file is torn. That is why a restarted engine, which knows only the file,
  makes no second universe: either it finds the first or it reads no further;
* `SettlementOK` and `FirstPassOK`: where settlement is in its pass, that the marker is absent until
  its last step, and that without a death the first pass is the only one.

The two abstract specifications are proved to be implemented.

* `RecordingIsALog`: `Spec => ImplementsLog`. It needs of `RecordingInv` that the number in memory is one
  after the highest (`SeqOK`; `HighestOfParsable` carries that over from the lines to the records a
  reader finds), and one invariant more, `LoadIsCurrent`: what the repair tool holds is the log renumbered, as
  long as the recorder leaves the file alone. The end of a write, and the death of a writer with a whole record
  in the file, are `Enter` (`WrittenLands`, `DeathLands`); a fragment is a stutter, as no reader takes it for a
  record; the replacement of a file left alone is `Renumbered`; from the replacement of a file in
  use on, every step is `Break`. `PipelineKeepsTheLog` says the same of the composition, where no repair runs.
* `PipelineIsALife`: `PipelineSpec => ImplementsSnapshotLife`, from `PipelineInv` and two invariants more. `FeedIsRecorded`:
  what the engine is about to offer is on the tape, although it read it a while ago.
  `BatchOK`: settlement holds a batch from the moment it has read the universes until its pass ends, it is not
  empty, and what is still to do is part of it. A recorded tick is `Record`, the tick that passes
  `RolloverAt` is `EndSession`, `JournalCandidates` is `Offer`, and the steps of settlement are
  `BeginBatch`, `Settle`, `Mark` and, for its death, `AbandonBatch`; everything else is a stutter.
* `NothingAfterTheMarker` is proved of `SnapshotLife` and holds of the pipeline by that refinement: a
  marked session has no batch, and only one without the marker gets one.

`Those`, through which every reader selects the lines that parse, is a recursive function;
`ThoseKeeps` and the lemmas after it say what it returns for a file of any length, by induction over
a set of numbers. `HighestSeq` and `Renumber` are characterised from there.

Two things in the model were corrected for these proofs: the conditions of the recorder's `CASE` over the
state of the file overlapped, so that only TLC's order said which applied; and the assumption on the
recording a session starts from did not say of what type its lines are.

## 5. What is only model-checked

* The two liveness properties: TLAPS proves no liveness under fairness.
* That the claim `CloseBooksTheGain` fails: a counterexample is TLC's to find.

Every invariant, every action property and every refinement that a passing run checks is a theorem
(section 4).

## 6. Not modelled, and why

* **Pure computation**: features, forecasting, candidates, economics, policies, training
  math, synthetic data, evaluation reports. They keep no state between calls; where a
  modelled part needs one it is an oracle that may succeed, fail or be unavailable.
* **I/O with the outside**: market data providers, the external model, HTTP framing,
  status files and views.
* **Contracts**: frozen records and their serialization; their enumerations appear where
  they are used.
* **Parts of modelled components** are named in `PROJECT.json`'s notes: sells in paper trading, the trial's other gates and the audit copies in promotion, environment
  switches in the decision service, traded outcomes in settlement.
* **The agent**: it answers anything. Its packets, transport and usage counters are left out.
* **The rest of a Dojo run**: scores are a choice; lessons are kept as episodes are and read
  by no run; progress file and reports are output.

## 7. Plan

Done: the recording and its repair; engine, settlement and journal; paper trading and the
loop over it; deployment; risk and guard; the registry; promotion; the decision service; the
Dojo's memory; the abstract specifications of journal, recording and pipeline. What is left, in order:

1. **Composition**: `RiskGate` in front of the orders of `AiLoop`; a Dojo run as one process
   of `Dojo` and `Promotion`.
2. **Overlap**: what does hold for requests, approvals and appends that overlap.
