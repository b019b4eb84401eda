----------------------------- MODULE Dojo_proofs -----------------------------
(***************************************************************************)
(* Theorems about Dojo, for every set of runs and archetypes and all       *)
(* bounds: the type invariant, what the episodes and the weights hold, and *)
(* which gaps a run is given.                                              *)
(***************************************************************************)
EXTENDS Dojo, FiniteSetTheorems, TLAPS

\* While appends have not raced, the one that is under way holds a copy of all
\* that was written, and the file it has opened is its own.
OneAppends ==
  ~raced => \A q, r \in Runs : Appending(q) /\ Appending(r) => q = r
CopyIsWhole ==
  ~raced => \A r \in Runs : Appending(r) => run[r].copy = told
OpenedIsCut ==
  ~raced => \A r \in Runs : run[r].pc = "opened" => episodes.state = "cut"
FindingInHand ==
  \A r \in Runs : Appending(r) => run[r].finding \in Findings

\* Likewise of the weights, while universe phases have not crossed.
OneTrains ==
  ~crossed => \A q, r \in Runs : run[q].pc = "universe" /\ run[r].pc = "universe" => q = r
PriorIsWhole ==
  ~crossed => \A r \in Runs : run[r].pc = "universe" => run[r].prior = saved

Typed == TypeOK /\ FindingInHand
MemoryInv == OneAppends /\ CopyIsWhole /\ OpenedIsCut /\ MemoryAccumulates
PressureInv == OneTrains /\ PriorIsWhole /\ PressureAccumulates
IInv == Typed /\ MemoryInv /\ PressureInv

-----------------------------------------------------------------------------
(* Types. *)

LEMMA FreshType == Fresh \in Phases /\ Ended \in Phases /\ Nothing \in Contents
<1> USE DojoAssumption
<1>1. Nothing \in Contents
  BY DEF Nothing, Contents, Absent, Episodes
<1> QED
  BY <1>1 DEF Fresh, Ended, Phases, PCs

\* A run that moves on to what has its type.
LEMMA MovesOn ==
  ASSUME run \in [Runs -> Phases], NEW r \in Runs, NEW p \in Phases,
         run' = [run EXCEPT ![r] = p]
  PROVE  /\ run' \in [Runs -> Phases]
         /\ run'[r] = p
         /\ \A q \in Runs \ {r} : run'[q] = run[q]
OBVIOUS

\* No step but those of its append gives a run a finding in hand.
LEMMA HandStays ==
  ASSUME run \in [Runs -> Phases], FindingInHand, NEW r \in Runs, NEW p \in Phases,
         run' = [run EXCEPT ![r] = p], p.pc \notin {"read", "opened"}
  PROVE  FindingInHand'
BY MovesOn DEF FindingInHand, Appending

\* What each step leaves of the run that takes it.
LEMMA StartedIs ==
  ASSUME TypeOK, NEW r \in Runs, Start(r)
  PROVE  \E d \in Diagnoses(Gaps(episodes.of, day)) :
           /\ [run[r] EXCEPT !.pc = "training", !.diagnosed = d] \in Phases
           /\ run' = [run EXCEPT ![r] = [run[r] EXCEPT !.pc = "training", !.diagnosed = d]]
<1>1. PICK d \in Diagnoses(Gaps(episodes.of, day)) :
        run' = [run EXCEPT ![r].pc = "training", ![r].diagnosed = d]
  BY DEF Start
<1>2. d \in SUBSET Archetypes
  BY DEF Diagnoses, Gaps
<1>3. run[r] \in Phases
  BY DEF TypeOK
<1>4. [run[r] EXCEPT !.pc = "training", !.diagnosed = d] \in Phases
  BY <1>2, <1>3 DEF Phases, PCs
<1>5. run' = [run EXCEPT ![r] = [run[r] EXCEPT !.pc = "training", !.diagnosed = d]]
  BY <1>1, <1>3 DEF TypeOK, Phases
<1> QED
  BY <1>4, <1>5

LEMMA ConcludedIs ==
  ASSUME NEW r \in Runs, NEW verdict, Concluded(r, verdict)
  PROVE  \E p \in Phases : p.pc = "persist" /\ run' = [run EXCEPT ![r] = p]
<1> DEFINE p == [Fresh EXCEPT !.pc = "persist", !.todo = FindingsOf(verdict)]
<1>1. p \in Phases /\ p.pc = "persist"
  BY FreshType DEF Phases, PCs, FindingsOf
<1> QED
  BY <1>1 DEF Concluded

LEMMA ReadIs ==
  ASSUME TypeOK, NEW r \in Runs, ReadEpisodes(r)
  PROVE  \E p \in Phases :
           /\ p.pc = "read" /\ p.finding \in Findings /\ p.copy = episodes.of
           /\ run' = [run EXCEPT ![r] = p]
<1>1. PICK f \in NextFindings(r) :
        run' = [run EXCEPT ![r].pc = "read", ![r].finding = f, ![r].date = day,
                           ![r].copy = episodes.of]
  BY DEF ReadEpisodes
<1> DEFINE p == [run[r] EXCEPT !.pc = "read", !.finding = f, !.date = day, !.copy = episodes.of]
<1>2. run[r] \in Phases /\ f \in Findings /\ episodes.of \in Contents /\ day \in 0 .. MaxDay
  BY DEF TypeOK, NextFindings, Phases, Texts
<1>3. p \in Phases /\ p.pc = "read" /\ p.finding \in Findings /\ p.copy = episodes.of
  BY <1>2 DEF Phases, PCs
<1>4. run' = [run EXCEPT ![r] = p]
  BY <1>1, <1>2 DEF TypeOK, Phases
<1> QED
  BY <1>3, <1>4

LEMMA OpenedIs ==
  ASSUME TypeOK, NEW r \in Runs, OpenEpisodes(r)
  PROVE  \E p \in Phases :
           /\ p.pc = "opened" /\ p.finding = run[r].finding /\ p.copy = run[r].copy
           /\ run' = [run EXCEPT ![r] = p]
<1> DEFINE p == [run[r] EXCEPT !.pc = "opened"]
<1>1. run[r] \in Phases
  BY DEF TypeOK
<1>2. p \in Phases /\ p.pc = "opened" /\ p.finding = run[r].finding /\ p.copy = run[r].copy
  BY <1>1 DEF Phases, PCs
<1>3. run' = [run EXCEPT ![r] = p]
  BY <1>1 DEF OpenEpisodes, TypeOK, Phases
<1> QED
  BY <1>2, <1>3

LEMMA FilledIs ==
  ASSUME TypeOK, FindingInHand, NEW r \in Runs, FillEpisodes(r)
  PROVE  /\ \E p \in Phases : p.pc = "persist" /\ run' = [run EXCEPT ![r] = p]
         /\ Episode(r) \in Episodes
         /\ run[r].copy \in Contents /\ run[r].finding.archetype \in Archetypes
<1>1. run[r] \in Phases /\ run[r].finding \in Findings
  BY DEF FillEpisodes, TypeOK, FindingInHand, Appending
<1> DEFINE p == [Fresh EXCEPT !.pc = "persist", !.todo = run[r].todo \ {run[r].finding}]
<1>2. p \in Phases /\ p.pc = "persist"
  BY <1>1, FreshType DEF Phases, PCs
<1>3. run' = [run EXCEPT ![r] = p]
  BY DEF FillEpisodes
<1>4. Episode(r) \in Episodes
  BY <1>1 DEF Episode, Episodes, Phases, Findings
<1>5. run[r].copy \in Contents /\ run[r].finding.archetype \in Archetypes
  BY <1>1 DEF Phases, Findings
<1> QED
  BY <1>2, <1>3, <1>4, <1>5

LEMMA InitTyped == Init => Typed
<1> SUFFICES ASSUME Init PROVE Typed
  OBVIOUS
<1> USE DojoAssumption, FreshType
<1>1. TypeOK
  <2>1. episodes \in Texts
    BY DEF Init, Texts
  <2>2. run \in [Runs -> Phases]
    BY DEF Init
  <2>3. day \in 0 .. MaxDay /\ stops \in 0 .. MaxStops
    BY DEF Init
  <2>4. told \in Contents /\ weights \in SUBSET Runs /\ saved \in SUBSET Runs
    BY DEF Init
  <2> QED
    BY <2>1, <2>2, <2>3, <2>4 DEF Init, TypeOK
<1>2. FindingInHand
  BY DEF Init, FindingInHand, Appending, Fresh
<1> QED
  BY <1>1, <1>2 DEF Typed

LEMMA TypedStep ==
  ASSUME Typed, [Next]_vars
  PROVE  Typed'
<1> USE DojoAssumption
<1>a. TypeOK /\ FindingInHand /\ run \in [Runs -> Phases]
  BY DEF Typed, TypeOK
<1>1. ASSUME NEW r \in Runs, Start(r) PROVE Typed'
  <2>1. PICK p \in Phases : p.pc = "training" /\ run' = [run EXCEPT ![r] = p]
    <3>1. PICK d \in Diagnoses(Gaps(episodes.of, day)) :
            /\ [run[r] EXCEPT !.pc = "training", !.diagnosed = d] \in Phases
            /\ run' = [run EXCEPT ![r] = [run[r] EXCEPT !.pc = "training", !.diagnosed = d]]
      BY <1>1, <1>a, StartedIs
    <3>2. [run[r] EXCEPT !.pc = "training", !.diagnosed = d].pc = "training"
      BY <1>a DEF Phases
    <3> QED
      BY <3>1, <3>2
  <2>2. FindingInHand' /\ run' \in [Runs -> Phases]
    BY <1>a, <2>1, HandStays, MovesOn
  <2> QED
    BY <1>1, <1>a, <2>2 DEF Start, Typed, TypeOK, files, ghosts
<1>2. ASSUME NEW r \in Runs, StartRaises(r) \/ ReadRaises(r) \/ Finish(r) PROVE Typed'
  <2>1. FindingInHand' /\ run' \in [Runs -> Phases]
    BY <1>2, <1>a, HandStays, MovesOn, FreshType DEF StartRaises, ReadRaises, Finish, Ended, Fresh
  <2> QED
    BY <1>2, <1>a, <2>1 DEF StartRaises, ReadRaises, Finish, Typed, TypeOK, files, ghosts
<1>3. ASSUME NEW r \in Runs, BeginUniverse(r) PROVE Typed'
  <2> DEFINE p == [Fresh EXCEPT !.pc = "universe", !.prior = LoadCurriculum(weights)]
  <2>1. p \in Phases /\ p.pc = "universe"
    BY <1>a, FreshType DEF Phases, PCs, LoadCurriculum, TypeOK
  <2>2. FindingInHand' /\ run' \in [Runs -> Phases]
    BY <1>3, <1>a, <2>1, HandStays, MovesOn DEF BeginUniverse
  <2> QED
    BY <1>3, <1>a, <2>2 DEF BeginUniverse, Typed, TypeOK, files
<1>4. ASSUME NEW r \in Runs, SkipUniverse(r) PROVE Typed'
  <2>1. PICK p \in Phases : p.pc = "persist" /\ run' = [run EXCEPT ![r] = p]
    BY <1>4, ConcludedIs DEF SkipUniverse
  <2>2. FindingInHand' /\ run' \in [Runs -> Phases]
    BY <1>a, <2>1, HandStays, MovesOn
  <2> QED
    BY <1>4, <1>a, <2>2 DEF SkipUniverse, Typed, TypeOK, files, ghosts
<1>5. ASSUME NEW r \in Runs, EndUniverse(r) PROVE Typed'
  <2>1. PICK p \in Phases : p.pc = "persist" /\ run' = [run EXCEPT ![r] = p]
    BY <1>5, ConcludedIs DEF EndUniverse
  <2>2. FindingInHand' /\ run' \in [Runs -> Phases]
    BY <1>a, <2>1, HandStays, MovesOn
  <2>3. weights' \in SUBSET Runs /\ saved' \in SUBSET Runs
    BY <1>5, <1>a DEF EndUniverse, TypeOK, Phases
  <2> QED
    BY <1>5, <1>a, <2>2, <2>3 DEF EndUniverse, Typed, TypeOK
<1>6. ASSUME NEW r \in Runs, ReadEpisodes(r) PROVE Typed'
  <2>1. PICK p \in Phases : p.finding \in Findings /\ run' = [run EXCEPT ![r] = p]
    BY <1>6, <1>a, ReadIs
  <2>2. FindingInHand' /\ run' \in [Runs -> Phases]
    BY <1>a, <2>1, MovesOn DEF FindingInHand, Appending
  <2>3. told' \in Contents
    BY <1>6, <1>a, FreshType DEF ReadEpisodes, TypeOK
  <2> QED
    BY <1>6, <1>a, <2>2, <2>3 DEF ReadEpisodes, Typed, TypeOK, files
<1>7. ASSUME NEW r \in Runs, OpenEpisodes(r) PROVE Typed'
  <2>1. PICK p \in Phases : p.finding = run[r].finding /\ run' = [run EXCEPT ![r] = p]
    BY <1>7, <1>a, OpenedIs
  <2>2. run[r].finding \in Findings
    BY <1>7, <1>a DEF OpenEpisodes, FindingInHand, Appending
  <2>3. FindingInHand' /\ run' \in [Runs -> Phases]
    BY <1>a, <2>1, <2>2, MovesOn DEF FindingInHand, Appending
  <2>4. episodes' \in Texts
    BY <1>7, FreshType DEF OpenEpisodes, Texts
  <2> QED
    BY <1>7, <1>a, <2>3, <2>4 DEF OpenEpisodes, Typed, TypeOK, ghosts
<1>8. ASSUME NEW r \in Runs, FillEpisodes(r) PROVE Typed'
  <2>1. /\ \E p \in Phases : p.pc = "persist" /\ run' = [run EXCEPT ![r] = p]
        /\ Episode(r) \in Episodes
        /\ run[r].copy \in Contents /\ run[r].finding.archetype \in Archetypes
    BY <1>8, <1>a, FilledIs
  <2>2. FindingInHand' /\ run' \in [Runs -> Phases]
    BY <1>a, <2>1, HandStays, MovesOn
  <2>3. episodes' \in Texts
    BY <1>8, <2>1, FreshType DEF FillEpisodes, Texts, Contents
  <2>4. told' \in Contents
    BY <1>8, <1>a, <2>1, FreshType DEF FillEpisodes, Contents, TypeOK
  <2> QED
    BY <1>8, <1>a, <2>2, <2>3, <2>4 DEF FillEpisodes, Typed, TypeOK
<1>9. ASSUME NEW r \in Runs, Stop(r) PROVE Typed'
  <2>1. FindingInHand' /\ run' \in [Runs -> Phases]
    BY <1>9, <1>a, HandStays, MovesOn, FreshType DEF Stop, Ended, Fresh
  <2> QED
    BY <1>9, <1>a, <2>1 DEF Stop, Typed, TypeOK, files
<1>10. CASE NextDay
  BY <1>10, <1>a DEF NextDay, Typed, TypeOK, FindingInHand, Appending, files, ghosts
<1>11. CASE UNCHANGED vars
  BY <1>11, <1>a DEF vars, files, ghosts, Typed, TypeOK, FindingInHand, Appending
<1> QED
  BY <1>1, <1>2, <1>3, <1>4, <1>5, <1>6, <1>7, <1>8, <1>9, <1>10, <1>11 DEF Next, RunStep

-----------------------------------------------------------------------------
(* The episodes. *)

LEMMA InitMemory == Init => MemoryInv
BY DEF Init, MemoryInv, OneAppends, CopyIsWhole, OpenedIsCut, MemoryAccumulates, Appending, Fresh

\* A step of a run that is not appending, before or after, and leaves the file.
LEMMA MemoryIsLeft ==
  ASSUME Typed, MemoryInv, NEW r \in Runs, NEW p \in Phases, run' = [run EXCEPT ![r] = p],
         p.pc \notin {"read", "opened"},
         run[r].pc = "opened" => cut',
         cut => cut', raced' = raced, UNCHANGED <<episodes, told>>
  PROVE  MemoryInv'
<1>1. run' \in [Runs -> Phases] /\ run'[r] = p /\ \A q \in Runs \ {r} : run'[q] = run[q]
  BY MovesOn DEF Typed, TypeOK
<1>2. OneAppends' /\ CopyIsWhole' /\ OpenedIsCut'
  BY <1>1 DEF MemoryInv, OneAppends, CopyIsWhole, OpenedIsCut, Appending
<1>3. MemoryAccumulates'
  <2> SUFFICES ASSUME ~raced
               PROVE  /\ episodes.state = "json" => episodes.of = told
                      /\ episodes.state # "json" => cut' \/ \E q \in Runs : run'[q].pc = "opened"
    BY DEF MemoryAccumulates
  <2>1. episodes.state = "json" => episodes.of = told
    BY DEF MemoryInv, MemoryAccumulates
  <2>2. ASSUME episodes.state # "json"
        PROVE  cut' \/ \E q \in Runs : run'[q].pc = "opened"
    BY <1>1, <2>2 DEF MemoryInv, MemoryAccumulates
  <2> QED
    BY <2>1, <2>2
<1> QED
  BY <1>2, <1>3 DEF MemoryInv

LEMMA MemoryStep ==
  ASSUME Typed, MemoryInv, [Next]_vars
  PROVE  MemoryInv'
<1>a. TypeOK /\ FindingInHand /\ run \in [Runs -> Phases]
  BY DEF Typed, TypeOK
<1>1. ASSUME NEW r \in Runs, Start(r) PROVE MemoryInv'
  <2>1. PICK p \in Phases : p.pc = "training" /\ run' = [run EXCEPT ![r] = p]
    <3>1. PICK d \in Diagnoses(Gaps(episodes.of, day)) :
            /\ [run[r] EXCEPT !.pc = "training", !.diagnosed = d] \in Phases
            /\ run' = [run EXCEPT ![r] = [run[r] EXCEPT !.pc = "training", !.diagnosed = d]]
      BY <1>1, <1>a, StartedIs
    <3>2. [run[r] EXCEPT !.pc = "training", !.diagnosed = d].pc = "training"
      BY <1>a DEF Phases
    <3> QED
      BY <3>1, <3>2
  <2>2. run[r].pc = "idle" /\ cut' = cut /\ raced' = raced /\ UNCHANGED <<episodes, told>>
    BY <1>1 DEF Start, files, ghosts
  <2> QED
    BY <2>1, <2>2, MemoryIsLeft
<1>2. ASSUME NEW r \in Runs, StartRaises(r) \/ ReadRaises(r) \/ Finish(r) PROVE MemoryInv'
  <2>1. /\ run[r].pc \in {"idle", "persist"} /\ cut' = cut /\ raced' = raced
        /\ UNCHANGED <<episodes, told>> /\ run' = [run EXCEPT ![r] = Ended]
    BY <1>2 DEF StartRaises, ReadRaises, Finish, files, ghosts
  <2>2. Ended \in Phases /\ Ended.pc = "ended"
    BY FreshType DEF Ended, Fresh
  <2> QED
    BY <2>1, <2>2, MemoryIsLeft
<1>3. ASSUME NEW r \in Runs, BeginUniverse(r) PROVE MemoryInv'
  <2> DEFINE p == [Fresh EXCEPT !.pc = "universe", !.prior = LoadCurriculum(weights)]
  <2>1. p \in Phases /\ p.pc = "universe"
    BY <1>a, FreshType DEF Phases, PCs, LoadCurriculum, TypeOK
  <2>2. /\ run[r].pc = "training" /\ cut' = cut /\ raced' = raced
        /\ UNCHANGED <<episodes, told>> /\ run' = [run EXCEPT ![r] = p]
    BY <1>3 DEF BeginUniverse, files
  <2> HIDE DEF p
  <2> QED
    BY <2>1, <2>2, MemoryIsLeft
<1>4. ASSUME NEW r \in Runs, SkipUniverse(r) \/ EndUniverse(r) PROVE MemoryInv'
  <2>1. PICK p \in Phases : p.pc = "persist" /\ run' = [run EXCEPT ![r] = p]
    BY <1>4, ConcludedIs DEF SkipUniverse, EndUniverse
  <2>2. /\ run[r].pc \in {"training", "universe"} /\ cut' = cut /\ raced' = raced
        /\ UNCHANGED <<episodes, told>>
    BY <1>4 DEF SkipUniverse, EndUniverse, files, ghosts
  <2> QED
    BY <2>1, <2>2, MemoryIsLeft
<1>5. ASSUME NEW r \in Runs, Stop(r) PROVE MemoryInv'
  <2>1. /\ cut' = (cut \/ run[r].pc = "opened") /\ raced' = raced
        /\ UNCHANGED <<episodes, told>> /\ run' = [run EXCEPT ![r] = Ended]
    BY <1>5 DEF Stop, files
  <2>2. Ended \in Phases /\ Ended.pc = "ended"
    BY FreshType DEF Ended, Fresh
  <2> QED
    BY <2>1, <2>2, MemoryIsLeft
<1>6. ASSUME NEW r \in Runs, ReadEpisodes(r) PROVE MemoryInv'
  <2>1. PICK p \in Phases : /\ p.pc = "read" /\ p.copy = episodes.of
                            /\ run' = [run EXCEPT ![r] = p]
    BY <1>6, <1>a, ReadIs
  <2>2. run'[r] = p /\ \A q \in Runs \ {r} : run'[q] = run[q]
    BY <1>a, <2>1, MovesOn
  <2>3. /\ episodes.state = "json" /\ cut' = cut /\ episodes' = episodes
        /\ raced' = (raced \/ \E q \in Runs \ {r} : Appending(q))
        /\ told' = IF raced' THEN Nothing ELSE told
    BY <1>6 DEF ReadEpisodes, Reads, files
  <2> SUFFICES ASSUME ~raced' PROVE MemoryInv'
    BY DEF MemoryInv, OneAppends, CopyIsWhole, OpenedIsCut, MemoryAccumulates
  <2>4. /\ ~raced /\ told' = told /\ episodes.of = told
        /\ \A q \in Runs \ {r} : run'[q].pc \notin {"read", "opened"}
    BY <2>2, <2>3 DEF MemoryInv, MemoryAccumulates, Appending
  <2> QED
    BY <2>1, <2>2, <2>3, <2>4
       DEF MemoryInv, OneAppends, CopyIsWhole, OpenedIsCut, MemoryAccumulates, Appending
<1>7. ASSUME NEW r \in Runs, OpenEpisodes(r) PROVE MemoryInv'
  <2>1. PICK p \in Phases : /\ p.pc = "opened" /\ p.copy = run[r].copy
                            /\ run' = [run EXCEPT ![r] = p]
    BY <1>7, <1>a, OpenedIs
  <2>2. run'[r] = p /\ \A q \in Runs \ {r} : run'[q] = run[q]
    BY <1>a, <2>1, MovesOn
  <2>3. /\ run[r].pc = "read" /\ episodes'.state = "cut"
        /\ UNCHANGED <<told, raced, cut>>
    BY <1>7 DEF OpenEpisodes, ghosts
  <2>4. OneAppends' /\ CopyIsWhole'
    BY <2>1, <2>2, <2>3 DEF MemoryInv, OneAppends, CopyIsWhole, Appending
  <2>5. OpenedIsCut' /\ MemoryAccumulates'
    BY <2>1, <2>2, <2>3 DEF OpenedIsCut, MemoryAccumulates
  <2> QED
    BY <2>4, <2>5 DEF MemoryInv
<1>8. ASSUME NEW r \in Runs, FillEpisodes(r) PROVE MemoryInv'
  <2>1. PICK p \in Phases : p.pc = "persist" /\ run' = [run EXCEPT ![r] = p]
    BY <1>8, <1>a, FilledIs
  <2>2. run'[r] = p /\ \A q \in Runs \ {r} : run'[q] = run[q]
    BY <1>a, <2>1, MovesOn
  <2> SUFFICES ASSUME ~raced' PROVE MemoryInv'
    BY DEF MemoryInv, OneAppends, CopyIsWhole, OpenedIsCut, MemoryAccumulates
  <2>3. ~raced /\ raced' = raced /\ cut' = cut /\ run[r].pc = "opened"
    BY <1>8 DEF FillEpisodes
  <2>4. /\ episodes.state = "cut" /\ run[r].copy = told
        /\ \A q \in Runs \ {r} : ~Appending(q)
    BY <2>3 DEF MemoryInv, OneAppends, CopyIsWhole, OpenedIsCut, Appending
  <2>5. episodes'.state = "json" /\ episodes'.of = told'
    BY <1>8, <2>3, <2>4 DEF FillEpisodes
  <2>6. \A q \in Runs : ~Appending(q)' /\ run'[q].pc # "opened"
    BY <2>1, <2>2, <2>4 DEF Appending
  <2> QED
    BY <2>5, <2>6 DEF MemoryInv, OneAppends, CopyIsWhole, OpenedIsCut, MemoryAccumulates
<1>9. CASE NextDay \/ UNCHANGED vars
  BY <1>9 DEF NextDay, vars, files, ghosts, MemoryInv, OneAppends, CopyIsWhole, OpenedIsCut,
              MemoryAccumulates, Appending
<1> QED
  BY <1>1, <1>2, <1>3, <1>4, <1>5, <1>6, <1>7, <1>8, <1>9 DEF Next, RunStep

-----------------------------------------------------------------------------
(* The weights. *)

LEMMA InitPressure == Init => PressureInv
BY DEF Init, PressureInv, OneTrains, PriorIsWhole, PressureAccumulates, Fresh

\* A step that does not enter the universe phase and leaves the weights.
LEMMA PressureIsLeft ==
  ASSUME Typed, PressureInv, NEW r \in Runs, NEW p \in Phases, run' = [run EXCEPT ![r] = p],
         p.pc # "universe", UNCHANGED <<weights, saved, crossed>>
  PROVE  PressureInv'
<1>1. run'[r] = p /\ \A q \in Runs \ {r} : run'[q] = run[q]
  BY MovesOn DEF Typed, TypeOK
<1> QED
  BY <1>1 DEF PressureInv, OneTrains, PriorIsWhole, PressureAccumulates

LEMMA PressureStep ==
  ASSUME Typed, PressureInv, [Next]_vars
  PROVE  PressureInv'
<1>a. TypeOK /\ FindingInHand /\ run \in [Runs -> Phases]
  BY DEF Typed, TypeOK
<1>1. ASSUME NEW r \in Runs, Start(r) PROVE PressureInv'
  <2>1. PICK p \in Phases : p.pc = "training" /\ run' = [run EXCEPT ![r] = p]
    <3>1. PICK d \in Diagnoses(Gaps(episodes.of, day)) :
            /\ [run[r] EXCEPT !.pc = "training", !.diagnosed = d] \in Phases
            /\ run' = [run EXCEPT ![r] = [run[r] EXCEPT !.pc = "training", !.diagnosed = d]]
      BY <1>1, <1>a, StartedIs
    <3>2. [run[r] EXCEPT !.pc = "training", !.diagnosed = d].pc = "training"
      BY <1>a DEF Phases
    <3> QED
      BY <3>1, <3>2
  <2>2. UNCHANGED <<weights, saved, crossed>>
    BY <1>1 DEF Start, files, ghosts
  <2> QED
    BY <2>1, <2>2, PressureIsLeft
<1>2. ASSUME NEW r \in Runs, StartRaises(r) \/ ReadRaises(r) \/ Finish(r) \/ Stop(r)
      PROVE  PressureInv'
  <2>1. run' = [run EXCEPT ![r] = Ended] /\ UNCHANGED <<weights, saved, crossed>>
    BY <1>2 DEF StartRaises, ReadRaises, Finish, Stop, files, ghosts
  <2>2. Ended \in Phases /\ Ended.pc = "ended"
    BY FreshType DEF Ended, Fresh
  <2> QED
    BY <2>1, <2>2, PressureIsLeft
<1>3. ASSUME NEW r \in Runs, BeginUniverse(r) PROVE PressureInv'
  <2> DEFINE p == [Fresh EXCEPT !.pc = "universe", !.prior = LoadCurriculum(weights)]
  <2>1. p \in Phases /\ p.pc = "universe" /\ p.prior = weights
    BY <1>a, FreshType DEF Phases, PCs, LoadCurriculum, TypeOK
  <2>2. /\ run' = [run EXCEPT ![r] = p] /\ UNCHANGED <<weights, saved>>
        /\ crossed' = (crossed \/ \E q \in Runs \ {r} : run[q].pc = "universe")
    BY <1>3 DEF BeginUniverse, files
  <2> HIDE DEF p
  <2>3. run'[r] = p /\ \A q \in Runs \ {r} : run'[q] = run[q]
    BY <1>a, <2>1, <2>2, MovesOn
  <2> QED
    BY <2>1, <2>2, <2>3 DEF PressureInv, OneTrains, PriorIsWhole, PressureAccumulates
<1>4. ASSUME NEW r \in Runs, SkipUniverse(r) PROVE PressureInv'
  <2>1. PICK p \in Phases : p.pc = "persist" /\ run' = [run EXCEPT ![r] = p]
    BY <1>4, ConcludedIs DEF SkipUniverse
  <2>2. UNCHANGED <<weights, saved, crossed>>
    BY <1>4 DEF SkipUniverse, files, ghosts
  <2> QED
    BY <2>1, <2>2, PressureIsLeft
<1>5. ASSUME NEW r \in Runs, EndUniverse(r) PROVE PressureInv'
  <2>1. PICK p \in Phases : p.pc = "persist" /\ run' = [run EXCEPT ![r] = p]
    BY <1>5, ConcludedIs DEF EndUniverse
  <2>2. run'[r] = p /\ \A q \in Runs \ {r} : run'[q] = run[q]
    BY <1>a, <2>1, MovesOn
  <2>3. /\ run[r].pc = "universe" /\ crossed' = crossed
        /\ \/ weights' = run[r].prior \cup {r} /\ saved' = saved \cup {r}
           \/ UNCHANGED <<weights, saved>>
    BY <1>5 DEF EndUniverse
  <2> SUFFICES ASSUME ~crossed PROVE PressureInv'
    BY <2>3 DEF PressureInv, OneTrains, PriorIsWhole, PressureAccumulates
  <2>4. \A q \in Runs : run'[q].pc # "universe"
    BY <2>1, <2>2, <2>3 DEF PressureInv, OneTrains
  <2>5. weights' = saved'
    BY <2>3 DEF PressureInv, PriorIsWhole, PressureAccumulates
  <2> QED
    BY <2>4, <2>5 DEF PressureInv, OneTrains, PriorIsWhole, PressureAccumulates
<1>6. ASSUME NEW r \in Runs, ReadEpisodes(r) PROVE PressureInv'
  <2>1. PICK p \in Phases : p.pc = "read" /\ run' = [run EXCEPT ![r] = p]
    BY <1>6, <1>a, ReadIs
  <2>2. UNCHANGED <<weights, saved, crossed>>
    BY <1>6 DEF ReadEpisodes, files
  <2> QED
    BY <2>1, <2>2, PressureIsLeft
<1>7. ASSUME NEW r \in Runs, OpenEpisodes(r) PROVE PressureInv'
  <2>1. PICK p \in Phases : p.pc = "opened" /\ run' = [run EXCEPT ![r] = p]
    BY <1>7, <1>a, OpenedIs
  <2>2. UNCHANGED <<weights, saved, crossed>>
    BY <1>7 DEF OpenEpisodes, ghosts
  <2> QED
    BY <2>1, <2>2, PressureIsLeft
<1>8. ASSUME NEW r \in Runs, FillEpisodes(r) PROVE PressureInv'
  <2>1. PICK p \in Phases : p.pc = "persist" /\ run' = [run EXCEPT ![r] = p]
    BY <1>8, <1>a, FilledIs
  <2>2. UNCHANGED <<weights, saved, crossed>>
    BY <1>8 DEF FillEpisodes
  <2> QED
    BY <2>1, <2>2, PressureIsLeft
<1>9. CASE NextDay \/ UNCHANGED vars
  BY <1>9 DEF NextDay, vars, files, ghosts, PressureInv, OneTrains, PriorIsWhole,
              PressureAccumulates
<1> QED
  BY <1>1, <1>2, <1>3, <1>4, <1>5, <1>6, <1>7, <1>8, <1>9 DEF Next, RunStep

-----------------------------------------------------------------------------
(* The theorems. *)

LEMMA AlwaysInv == Spec => []IInv
<1>1. Init => IInv
  BY InitTyped, InitMemory, InitPressure DEF IInv
<1>2. IInv /\ [Next]_vars => IInv'
  BY TypedStep, MemoryStep, PressureStep DEF IInv
<1> QED
  BY <1>1, <1>2, PTL DEF Spec

\* The state of runs and files has its type.
THEOREM TypeCorrect == Spec => []TypeOK
<1>1. IInv => TypeOK
  BY DEF IInv, Typed
<1> QED
  BY <1>1, AlwaysInv, PTL

\* Until two appends race, the episodes hold what was last written of each
\* archetype, wherever runs stop (append_failure_episode).
THEOREM MemoryAlwaysAccumulates == Spec => []MemoryAccumulates
<1>1. IInv => MemoryAccumulates
  BY DEF IInv, MemoryInv
<1> QED
  BY <1>1, AlwaysInv, PTL

\* Until two universe phases overlap, no run's evidence is missing from the
\* weights (run_universe_phase).
THEOREM PressureAlwaysAccumulates == Spec => []PressureAccumulates
<1>1. IInv => PressureAccumulates
  BY DEF IInv, PressureInv
<1> QED
  BY <1>1, AlwaysInv, PTL

\* What weakest_archetypes chooses is among the gaps, and is not nothing
\* unless they are.
LEMMA DiagnosesAreGaps ==
  ASSUME NEW gaps, NEW d \in Diagnoses(gaps)
  PROVE  d \subseteq gaps /\ (gaps # {} => d # {})
<1>1. Cardinality({}) = 0
  BY FS_EmptySet
<1>2. DiagnoseLimit # 0
  BY DojoAssumption
<1> QED
  BY <1>1, <1>2 DEF Diagnoses

\* Only Start begins the training of a run.
LEMMA OnlyStartTrains ==
  ASSUME Typed, [Next]_vars, NEW r \in Runs, run[r].pc = "idle", run'[r].pc = "training"
  PROVE  Start(r)
<1>a. TypeOK /\ FindingInHand /\ run \in [Runs -> Phases]
  BY DEF Typed, TypeOK
<1>1. run' # run
  OBVIOUS
<1>2. PICK q \in Runs : RunStep(q)
  BY <1>1 DEF Next, NextDay, vars, files, ghosts
<1>3. \E p \in Phases : run' = [run EXCEPT ![q] = p] /\ (Start(q) \/ p.pc # "training")
  <2>1. CASE Start(q)
    BY <1>a, <2>1, StartedIs
  <2>2. CASE StartRaises(q) \/ ReadRaises(q) \/ Finish(q) \/ Stop(q)
    BY <2>2, FreshType DEF StartRaises, ReadRaises, Finish, Stop, Ended, Fresh
  <2>3. CASE BeginUniverse(q)
    <3> DEFINE p == [Fresh EXCEPT !.pc = "universe", !.prior = LoadCurriculum(weights)]
    <3>1. p \in Phases /\ p.pc = "universe"
      BY <1>a, FreshType DEF Phases, PCs, LoadCurriculum, TypeOK
    <3>2. run' = [run EXCEPT ![q] = p]
      BY <2>3 DEF BeginUniverse
    <3> QED
      BY <3>1, <3>2
  <2>4. CASE SkipUniverse(q) \/ EndUniverse(q)
    BY <2>4, ConcludedIs DEF SkipUniverse, EndUniverse
  <2>5. CASE ReadEpisodes(q)
    BY <1>a, <2>5, ReadIs
  <2>6. CASE OpenEpisodes(q)
    BY <1>a, <2>6, OpenedIs
  <2>7. CASE FillEpisodes(q)
    BY <1>a, <2>7, FilledIs
  <2> QED
    BY <1>2, <2>1, <2>2, <2>3, <2>4, <2>5, <2>6, <2>7 DEF RunStep
<1>4. q = r
  BY <1>a, <1>3, MovesOn
<1> QED
  BY <1>a, <1>3, <1>4, MovesOn

\* Until two appends race, a run is given gaps that are open, and one if there
\* is one (load_archetype_gaps, weakest_archetypes).
THEOREM AlwaysTrainsOnOpenGaps == Spec => TrainsOnOpenGaps
<1> DEFINE Open == {a \in Archetypes : told[a].kind = "weak" /\ day - told[a].day <= MaxAge}
<1>1. ASSUME IInv, [Next]_vars, NEW r \in Runs,
             run[r].pc = "idle", run'[r].pc = "training", ~raced
      PROVE  run'[r].diagnosed \subseteq Open /\ (Open # {} => run'[r].diagnosed # {})
  <2>1. Start(r) /\ TypeOK
    BY <1>1, OnlyStartTrains DEF IInv, Typed
  <2>2. PICK d \in Diagnoses(Gaps(episodes.of, day)) :
          run' = [run EXCEPT ![r] = [run[r] EXCEPT !.pc = "training", !.diagnosed = d]]
    BY <2>1, StartedIs
  <2>3. run'[r].diagnosed = d
    BY <2>1, <2>2 DEF TypeOK, Phases
  <2>4. episodes.of = told
    BY <1>1, <2>1 DEF Start, Reads, IInv, MemoryInv, MemoryAccumulates
  <2>5. Gaps(told, day) = Open
    <3>1. \A a \in Archetypes : told[a].day \in Int /\ day \in Int /\ MaxAge \in Int
      BY <2>1, DojoAssumption DEF TypeOK, Contents, Episodes
    <3> QED
      BY <3>1 DEF Gaps
  <2> QED
    BY <2>2, <2>3, <2>4, <2>5, DiagnosesAreGaps
<1>2. IInv /\ [Next]_vars =>
        [\A r \in Runs :
           run[r].pc = "idle" /\ run'[r].pc = "training" /\ ~raced =>
             LET open == {a \in Archetypes : told[a].kind = "weak" /\ day - told[a].day <= MaxAge}
             IN  /\ run'[r].diagnosed \subseteq open
                 /\ open # {} => run'[r].diagnosed # {}]_vars
  BY <1>1
<1> QED
  BY <1>2, AlwaysInv, PTL DEF Spec, TrainsOnOpenGaps
=============================================================================
