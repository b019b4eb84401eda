-------------------------------- MODULE Dojo --------------------------------
(***************************************************************************)
(* What Dojo runs remember.  Three timers start runs that may take longer  *)
(* than the time between them and share, without a lock, the failure       *)
(* episodes, a JSON file that is rewritten in place, and the curriculum    *)
(* weights, a file that is replaced at once.  A run reads the gaps earlier *)
(* runs left before it trains, blends the weights in its universe phase,   *)
(* and appends what it found, one episode at a time, at the end.  It may   *)
(* raise or be killed anywhere.                                            *)
(*                                                                         *)
(* Weights are the runs whose evidence was blended into them.  The scores  *)
(* of a phase are a choice; the promotion trial is module Promotion.       *)
(* Lessons, kept in a second file in the same way, and the episode on a    *)
(* losing tape are left out: no run reads them, and an append that raises  *)
(* is one of the ways to stop.                                             *)
(***************************************************************************)
EXTENDS Integers, FiniteSets

CONSTANTS
  Runs,           \* runs that timers may start
  Archetypes,     \* of the synthetic markets
  MaxAge,         \* days a gap stays actionable
  DiagnoseLimit,  \* gaps one learning cycle acts on
  MaxDay, MaxStops, MaxOverlap  \* bounds: days, runs cut short, runs at once

ASSUME DojoAssumption ==
  /\ MaxAge \in Nat /\ DiagnoseLimit \in Nat \ {0}
  /\ MaxDay \in Nat /\ MaxStops \in Nat /\ MaxOverlap \in Nat

VARIABLES
  episodes,  \* the text of failure_episodes.json
  weights,   \* curriculum_weights.json
  day,       \* the date
  run,       \* run -> what it is doing
  stops,     \* runs cut short
  told,      \* history: archetype -> its episode last written in full, until appends raced
  saved,     \* history: runs that replaced the weights
  raced,     \* history: two appends were under way at once
  cut,       \* history: a run stopped inside a write
  crossed    \* history: two universe phases were under way at once

files == <<episodes, weights>>
ghosts == <<told, saved, raced, cut, crossed>>
vars == <<files, day, run, stops, ghosts>>

Kinds == {"weak", "recovered"}
Episodes == [kind : Kinds \cup {"none"}, day : 0 .. MaxDay]
Absent == [kind |-> "none", day |-> 0]
Contents == [Archetypes -> Episodes]
Nothing == [a \in Archetypes |-> Absent]

\* Cut off and filled by nobody yet, or filled by two.
Texts == [state : {"json", "cut", "garbled"}, of : Contents]

Findings == [archetype : Archetypes, kind : Kinds]
NoFinding == [kind |-> "none"]

PCs == {"idle", "training", "universe", "persist", "read", "opened", "ended"}
Phases == [pc : PCs, diagnosed : SUBSET Archetypes, prior : SUBSET Runs, todo : SUBSET Findings,
           finding : Findings \cup {NoFinding}, date : 0 .. MaxDay, copy : Contents]
Fresh == [pc |-> "idle", diagnosed |-> {}, prior |-> {}, todo |-> {}, finding |-> NoFinding,
          date |-> 0, copy |-> Nothing]
Ended == [Fresh EXCEPT !.pc = "ended"]

Init ==
  /\ episodes = [state |-> "json", of |-> Nothing]
  /\ weights = {}
  /\ day = 0
  /\ run = [r \in Runs |-> Fresh]
  /\ stops = 0
  /\ told = Nothing
  /\ saved = {}
  /\ raced = FALSE
  /\ cut = FALSE
  /\ crossed = FALSE

UnderWay(r) == run[r].pc \notin {"idle", "ended"}
Appending(r) == run[r].pc \in {"read", "opened"}

-----------------------------------------------------------------------------
(* A run up to its findings. *)

\* Mutant: a file that does not parse is taken for an empty one.
AlwaysReads(text) == text.state = text.state

\* load_failure_episodes: json.load raises; a file that is not there is empty.
Reads(text) == text.state = "json"

\* Mutant: a marker of recovery is taken for a gap.
AnyKind(content, today) ==
  {a \in Archetypes : content[a].kind # "none" /\ content[a].day + MaxAge >= today}

\* load_archetype_gaps.
Gaps(content, today) ==
  {a \in Archetypes : content[a].kind = "weak" /\ content[a].day + MaxAge >= today}

\* weakest_archetypes: which are the worst is for the scores to say.
Diagnoses(gaps) ==
  {d \in SUBSET gaps : \/ d = gaps /\ Cardinality(gaps) <= DiagnoseLimit
                       \/ Cardinality(d) = DiagnoseLimit}

\* The run reads the gaps, and scores the tape and the blind days.
Start(r) ==
  /\ run[r].pc = "idle" /\ Cardinality({q \in Runs : UnderWay(q)}) < MaxOverlap
  /\ Reads(episodes)
  /\ \E d \in Diagnoses(Gaps(episodes.of, day)) :
       run' = [run EXCEPT ![r].pc = "training", ![r].diagnosed = d]
  /\ UNCHANGED <<files, day, stops, ghosts>>

StartRaises(r) ==
  /\ run[r].pc = "idle"
  /\ ~Reads(episodes)
  /\ run' = [run EXCEPT ![r] = Ended]
  /\ UNCHANGED <<files, day, stops, ghosts>>

\* Mutant: every run starts with equal weights.
EqualWeights(w) == w \ w

LoadCurriculum(w) == w

BeginUniverse(r) ==
  /\ run[r].pc = "training"
  /\ run' = [run EXCEPT ![r] = [Fresh EXCEPT !.pc = "universe", !.prior = LoadCurriculum(weights)]]
  /\ crossed' = (crossed \/ \E q \in Runs \ {r} : run[q].pc = "universe")
  /\ UNCHANGED <<files, day, stops, told, saved, raced, cut>>

\* What a panel says of each archetype, "thin" for too few sessions.
Verdicts == [Archetypes -> {"thin", "weak", "recovered"}]
NoPanel == [a \in Archetypes |-> "thin"]

\* record_archetype_gaps, as the episodes it appends.
FindingsOf(verdict) == {f \in Findings : verdict[f.archetype] = f.kind}

Concluded(r, verdict) ==
  run' = [run EXCEPT ![r] = [Fresh EXCEPT !.pc = "persist", !.todo = FindingsOf(verdict)]]

\* No tape to train against, or the phase is switched off.
SkipUniverse(r) ==
  /\ run[r].pc = "training"
  /\ Concluded(r, NoPanel)
  /\ UNCHANGED <<files, day, stops, ghosts>>

\* A panel that scored nothing leaves the weights alone, and so does one whose
\* weights cannot be written.
EndUniverse(r) ==
  /\ run[r].pc = "universe"
  /\ \E verdict \in Verdicts : Concluded(r, verdict)
  /\ \/ weights' = run[r].prior \cup {r} /\ saved' = saved \cup {r}
     \/ UNCHANGED <<weights, saved>>
  /\ UNCHANGED <<episodes, day, stops, told, raced, cut, crossed>>

-----------------------------------------------------------------------------
(* append_failure_episode, for each finding. *)

\* Gaps, then recoveries.
NextFindings(r) ==
  {f \in run[r].todo : f.kind = "weak" \/ \A g \in run[r].todo : g.kind = "recovered"}

ReadEpisodes(r) ==
  /\ run[r].pc = "persist"
  /\ Reads(episodes)
  /\ \E f \in NextFindings(r) :
       run' = [run EXCEPT ![r].pc = "read", ![r].finding = f, ![r].date = day,
                          ![r].copy = episodes.of]
  /\ raced' = (raced \/ \E q \in Runs \ {r} : Appending(q))
  /\ told' = IF raced' THEN Nothing ELSE told
  /\ UNCHANGED <<files, day, stops, saved, cut, crossed>>

ReadRaises(r) ==
  /\ run[r].pc = "persist" /\ run[r].todo # {}
  /\ ~Reads(episodes)
  /\ run' = [run EXCEPT ![r] = Ended]
  /\ UNCHANGED <<files, day, stops, ghosts>>

\* write_text truncates the file,
OpenEpisodes(r) ==
  /\ run[r].pc = "read"
  /\ episodes' = [state |-> "cut", of |-> Nothing]
  /\ run' = [run EXCEPT ![r].pc = "opened"]
  /\ UNCHANGED <<weights, day, stops, ghosts>>

Episode(r) == [kind |-> run[r].finding.kind, day |-> run[r].date]

\* and fills it, over what another run wrote meanwhile, the end of which may
\* stay behind.
FillEpisodes(r) ==
  LET f == run[r].finding
  IN  /\ run[r].pc = "opened"
      /\ \/ episodes' = [state |-> "json", of |-> [run[r].copy EXCEPT ![f.archetype] = Episode(r)]]
         \/ episodes.state # "cut" /\ episodes' = [state |-> "garbled", of |-> Nothing]
      /\ told' = IF raced THEN Nothing ELSE [told EXCEPT ![f.archetype] = Episode(r)]
      /\ run' = [run EXCEPT ![r] = [Fresh EXCEPT !.pc = "persist", !.todo = run[r].todo \ {f}]]
      /\ UNCHANGED <<weights, day, stops, saved, raced, cut, crossed>>

\* The report, and the end.
Finish(r) ==
  /\ run[r].pc = "persist" /\ run[r].todo = {}
  /\ run' = [run EXCEPT ![r] = Ended]
  /\ UNCHANGED <<files, day, stops, ghosts>>

-----------------------------------------------------------------------------
(* Failures and time. *)

\* A phase or a write raises, or the run is killed.
Stop(r) ==
  /\ UnderWay(r)
  /\ stops < MaxStops
  /\ stops' = stops + 1
  /\ run' = [run EXCEPT ![r] = Ended]
  /\ cut' = (cut \/ run[r].pc = "opened")
  /\ UNCHANGED <<files, day, told, saved, raced, crossed>>

NextDay ==
  /\ day < MaxDay
  /\ day' = day + 1
  /\ UNCHANGED <<files, run, stops, ghosts>>

RunStep(r) ==
  \/ Start(r) \/ StartRaises(r) \/ BeginUniverse(r) \/ SkipUniverse(r) \/ EndUniverse(r)
  \/ ReadEpisodes(r) \/ ReadRaises(r) \/ OpenEpisodes(r) \/ FillEpisodes(r) \/ Finish(r)
  \/ Stop(r)

Next == NextDay \/ \E r \in Runs : RunStep(r)
Spec == Init /\ [][Next]_vars

-----------------------------------------------------------------------------
(* Properties. *)

TypeOK ==
  /\ episodes \in Texts
  /\ weights \in SUBSET Runs
  /\ day \in 0 .. MaxDay
  /\ run \in [Runs -> Phases]
  /\ stops \in 0 .. MaxStops
  /\ told \in Contents
  /\ saved \in SUBSET Runs
  /\ raced \in BOOLEAN /\ cut \in BOOLEAN /\ crossed \in BOOLEAN

\* Rewriting the whole file for each episode loses none: unless two appends
\* raced, the file holds of each archetype what was last written of it, and does not
\* parse only while it is written or after a run stopped writing it
\* (append_failure_episode; learning/gaps.py: gaps "have to outlive a single
\* report and accumulate").
MemoryAccumulates ==
  ~raced =>
    /\ episodes.state = "json" => episodes.of = told
    /\ episodes.state # "json" => cut \/ \E r \in Runs : run[r].pc = "opened"

\* The learner is given gaps that are open: the last verdict written of them
\* was a loss, no more than MaxAge days ago, however many runs came between and
\* wherever they stopped; and if any is open it is given one (load_archetype_gaps,
\* weakest_archetypes; clear_archetype_gap "removes it" once it has recovered).
TrainsOnOpenGaps ==
  [][\A r \in Runs :
       run[r].pc = "idle" /\ run'[r].pc = "training" /\ ~raced =>
         LET open == {a \in Archetypes : told[a].kind = "weak" /\ day - told[a].day <= MaxAge}
         IN  /\ run'[r].diagnosed \subseteq open
             /\ open # {} => run'[r].diagnosed # {}]_vars

\* Unless two universe phases overlapped, the weights hold the evidence of all
\* runs that wrote them (dojo/curriculum_weights.py: without persistence "the
\* robustness gaps would never accumulate training pressure").
PressureAccumulates == ~crossed => weights = saved
=============================================================================
