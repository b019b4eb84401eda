-------------------------- MODULE Promotion_proofs --------------------------
(***************************************************************************)
(* Theorems about Promotion, for every set of candidates, Dojo runs and    *)
(* operators, any cooldown and all bounds: the type invariant, that a      *)
(* champion that was replaced is archived, that the cooldown is kept, and  *)
(* that a rollback restores what was archived last.                        *)
(*                                                                         *)
(* TrialsWaited carries what a trial's gate found to the write it allows.  *)
(* Held says what a change knows between its steps, which is true while no *)
(* two changes are under way past their first step (OnePast).  NamesInv    *)
(* says that it then names its archive after all others.                   *)
(***************************************************************************)
EXTENDS Promotion, FiniteSetTheorems, WellFoundedInduction, TLAPS

-----------------------------------------------------------------------------
(* Names of archives. *)

LEMMA LeastNumber ==
  ASSUME NEW S \in SUBSET Nat, S # {}
  PROVE  \E m \in S : \A n \in S : m <= n
<1>1. PICK m \in S : \A n \in S : <<n, m>> \notin OpToRel(<, Nat)
  BY WFMin, NatLessThanWellFounded
<1>2. \A n \in S : ~(n < m)
  BY <1>1 DEF OpToRel
<1> QED
  BY <1>2

LEMMA GreatestNumber ==
  ASSUME NEW S \in SUBSET Nat, S # {}, NEW b \in Nat, \A n \in S : n <= b
  PROVE  \E m \in S : \A n \in S : n <= m
<1> DEFINE Bounds == {c \in Nat : \A n \in S : n <= c}
<1>1. PICK c \in Bounds : \A d \in Bounds : c <= d
  <2>1. b \in Bounds
    OBVIOUS
  <2> QED
    BY <2>1, LeastNumber
<1>2. ASSUME c \notin S PROVE FALSE
  <2>1. \A n \in S : n <= c - 1 /\ c - 1 \in Nat
    BY <1>2
  <2>2. c - 1 \in Bounds
    BY <2>1
  <2> QED
    BY <1>1, <2>2
<1> QED
  BY <1>1, <1>2

\* A finite set of numbers leaves out one that is no more than its size; the
\* least of them has all below it in the set.
LEMMA FirstFree ==
  ASSUME NEW S \in SUBSET Nat, IsFiniteSet(S)
  PROVE  \E k \in 0 .. Cardinality(S) : k \notin S /\ \A j \in 0 .. k - 1 : j \in S
<1> DEFINE size == Cardinality(S)
           Free == (0 .. size) \ S
<1>1. size \in Nat
  BY FS_CardinalityType
<1>2. Free # {}
  <2>1. SUFFICES ASSUME Free = {} PROVE FALSE
    OBVIOUS
  <2>2. 0 .. size \in SUBSET S
    BY <2>1
  <2>3. Cardinality(0 .. size) <= size
    BY <2>2, FS_Subset
  <2>4. Cardinality(0 .. size) = size + 1
    BY <1>1, FS_Interval
  <2> QED
    BY <1>1, <2>3, <2>4
<1>3. Free \in SUBSET Nat
  BY <1>1
<1>4. PICK k \in Free : \A j \in Free : k <= j
  BY <1>2, <1>3, LeastNumber
<1> QED
  BY <1>1, <1>4

Names == [at : Nat, k : Nat]
Archives == [name : Names, id : Candidates]

\* What the archives are at every moment.
Archived ==
  /\ history \subseteq Archives /\ IsFiniteSet(history)
  /\ \A g, h \in history : g.name = h.name => g = h
  /\ \A h \in history : h.name.at \in 1 .. clock
  /\ \E b \in Nat : \A h \in history : h.name.k <= b

LEMMA FreeNameIsFree ==
  ASSUME Archived, clock \in Nat \ {0}
  PROVE  /\ FreeName \in Names /\ FreeName.at = clock
         /\ \A h \in history : h.name # FreeName
<1> DEFINE now == {g \in history : g.name.at = clock}
           taken == {h.name.k : h \in now}
           k == CHOOSE k \in 0 .. Cardinality(taken) :
                  k \notin taken /\ \A j \in 0 .. k - 1 : j \in taken
<1>1. taken \in SUBSET Nat
  BY DEF Archived, Archives, Names
<1>2. IsFiniteSet(taken)
  <2>1. PICK b \in Nat : \A h \in history : h.name.k <= b
    BY DEF Archived
  <2>2. \A n \in taken : n <= b
    BY <2>1
  <2> QED
    BY <1>1, <2>2, FS_BoundedSetOfNaturals
<1>3. k \in 0 .. Cardinality(taken) /\ k \notin taken
  BY <1>1, <1>2, FirstFree
<1>4. FreeName = [at |-> clock, k |-> k]
  BY DEF FreeName
<1>5. Cardinality(taken) \in Nat
  BY <1>2, FS_CardinalityType
<1>6. k \in Nat
  BY <1>3, <1>5
<1> HIDE DEF k
<1>7. FreeName \in Names /\ FreeName.at = clock /\ FreeName.k = k
  BY <1>4, <1>6 DEF Names
<1>8. \A h \in history : h.name.at = clock => h.name.k \in taken
  OBVIOUS
<1> QED
  BY <1>3, <1>7, <1>8

\* There is an archive that sorts last.
LEMMA OneSortsLast ==
  ASSUME Archived, clock \in Nat, history # {}
  PROVE  LastArchived \in history
<1> DEFINE Seconds == {h.name.at : h \in history}
<1>1. PICK s \in Seconds : \A n \in Seconds : n <= s
  <2>1. Seconds \in SUBSET Nat /\ Seconds # {} /\ \A n \in Seconds : n <= clock
    BY DEF Archived, Archives, Names
  <2> QED
    BY <2>1, GreatestNumber
<1> DEFINE Latest == {h \in history : h.name.at = s}
           Suffixes == {h.name.k : h \in Latest}
<1>2. Latest # {} /\ Suffixes # {} /\ Suffixes \in SUBSET Nat
  BY <1>1 DEF Archived, Archives, Names
<1>3. PICK m \in Suffixes : \A n \in Suffixes : n <= m
  <2>1. PICK b \in Nat : \A h \in history : h.name.k <= b
    BY DEF Archived
  <2>2. \A n \in Suffixes : n <= b
    BY <2>1
  <2> QED
    BY <1>2, <2>2, GreatestNumber
<1>4. PICK h \in Latest : h.name.k = IF 0 \in Suffixes THEN 0 ELSE m
  BY <1>3
<1>5. h \in history /\ h.name \in Names /\ h.name.at = s
  BY <1>4 DEF Archived, Archives
<1>6. ASSUME NEW g \in history \ {h} PROVE SortsAfter(h.name, g.name)
  <2>1. g.name \in Names /\ g.name.at \in Seconds /\ g.name # h.name
    BY <1>5, <1>6 DEF Archived, Archives
  <2>2. CASE g.name.at # s
    <3>1. g.name.at \in Nat /\ s \in Nat /\ g.name.at <= s
      BY <1>1, <1>5, <2>1 DEF Names
    <3>2. g.name.at < s
      BY <2>2, <3>1
    <3> QED
      BY <1>5, <3>1, <3>2 DEF SortsAfter
  <2>3. CASE g.name.at = s
    <3>1. g.name.k \in Suffixes /\ g.name.k <= m /\ g.name.k # h.name.k
      BY <1>3, <1>5, <2>1, <2>3 DEF Names
    <3> QED
      BY <1>3, <1>4, <1>5, <2>1, <2>3, <3>1 DEF SortsAfter, Names
  <2> QED
    BY <2>2, <2>3
<1> QED
  BY <1>5, <1>6 DEF LastArchived

-----------------------------------------------------------------------------
(* Types. *)

Directories == {"new", "pending", "promoted", "rejected"}
PCs == {"idle", "staged", "trial", "archive", "save", "write", "retire", "unlink"}
Changes == {"archive", "save", "write", "retire", "unlink"}
Champions == [id : Candidates \cup {None}, at : Nat, stamp : Nat]
Processes == [pc : PCs, id : Candidates \cup {None}, seen : Champions,
              outgoing : Candidates \cup {None}, name : Names, source : Names]

\* What a process holds at each of its steps, at time c.
Proper(p, c) ==
  /\ p.pc # "idle" => p.id \in Candidates
  /\ p.pc \in {"staged", "trial"} => p.source = NoName
  /\ p.pc = "save" => p.outgoing \in Candidates /\ p.name.at \in 1 .. c

Processing ==
  /\ writer \in [Writers -> Processes]
  /\ \A w \in Writers : Proper(writer[w], clock)

Championed ==
  /\ champion \in Champions /\ champion.at <= clock
  /\ champion # NoChampion => champion.id \in Candidates

Typed ==
  /\ where \in [Candidates -> Directories]
  /\ clock \in Nat \ {0}
  /\ ever \subseteq Candidates
  /\ Championed /\ Archived /\ Processing

LEMMA IdleProper == Idle \in Processes /\ Proper(Idle, clock) /\ NoChampion \in Champions
BY DEF Idle, Processes, PCs, Proper, NoChampion, Champions, NoName, Names

LEMMA TypedIsTypeOK == Typed => TypeOK
<1> SUFFICES ASSUME Typed PROVE TypeOK
  OBVIOUS
<1>1. where \in [Candidates -> {"new", "pending", "promoted", "rejected"}]
  BY DEF Typed, Directories
<1>2. champion.id \in Candidates \cup {None} /\ champion.at \in 0 .. clock
  BY DEF Typed, Championed, Champions
<1>3. \A g, h \in history : g.name = h.name => g = h
  BY DEF Typed, Archived
<1>4. \A h \in history : h.id \in Candidates
  BY DEF Typed, Archived, Archives
<1>5. \A w \in Writers : Changing(w) => writer[w].id \in Candidates
  BY DEF Typed, Processing, Proper, Changing
<1> QED
  BY <1>1, <1>2, <1>3, <1>4, <1>5 DEF TypeOK

LEMMA TypedInit == Init => Typed
<1> SUFFICES ASSUME Init PROVE Typed
  OBVIOUS
<1>1. where \in [Candidates -> Directories] /\ clock \in Nat \ {0} /\ ever \subseteq Candidates
  BY DEF Init, Directories
<1>2. Championed
  BY IdleProper DEF Init, Championed, NoChampion
<1>3. Archived
  BY FS_EmptySet DEF Init, Archived
<1>4. Processing
  BY IdleProper DEF Init, Processing
<1> QED
  BY <1>1, <1>2, <1>3, <1>4 DEF Typed

\* One process moves on to p.
Becomes(w, p) == writer' = [writer EXCEPT ![w] = p]

LEMMA Moved ==
  ASSUME Processing, NEW w \in Writers, NEW p \in Processes, Becomes(w, p)
  PROVE  writer'[w] = p /\ \A v \in Writers \ {w} : writer'[v] = writer[v]
BY DEF Processing, Becomes

LEMMA ProcessingKept ==
  ASSUME Processing, UNCHANGED clock,
         NEW w \in Writers, NEW p \in Processes, Proper(p, clock), Becomes(w, p)
  PROVE  Processing'
<1>1. writer' \in [Writers -> Processes]
  BY DEF Processing, Becomes
<1>2. \A v \in Writers : Proper(writer'[v], clock)
  BY Moved DEF Processing
<1> QED
  BY <1>1, <1>2 DEF Processing, Proper

\* A process becomes idle, or has its step changed and what it does not need.
LEMMA Rests ==
  ASSUME Typed, UNCHANGED clock, NEW w \in Writers, Becomes(w, Idle)
  PROVE  Processing'
BY IdleProper, ProcessingKept DEF Typed

LEMMA GoesOn ==
  ASSUME Typed, UNCHANGED clock, NEW w \in Writers, writer[w].pc # "idle",
         NEW pc \in {"archive", "write", "retire", "unlink"}, Goes(w, pc)
  PROVE  Processing' /\ Becomes(w, [writer[w] EXCEPT !.pc = pc])
<1> DEFINE p == [writer[w] EXCEPT !.pc = pc]
<1>1. writer[w] \in Processes /\ Proper(writer[w], clock)
  BY DEF Typed, Processing
<1>2. p \in Processes /\ Proper(p, clock)
  BY <1>1 DEF Processes, PCs, Proper
<1>3. Becomes(w, p)
  BY DEF Goes, Becomes
<1> QED
  BY <1>2, <1>3, ProcessingKept DEF Typed

-----------------------------------------------------------------------------
(* What each step does to the process that takes it. *)

LEMMA Stages ==
  ASSUME Typed, NEW d \in Dojos, NEW c \in Candidates, Stage(d, c)
  PROVE  \E p \in Processes : /\ Becomes(d, p) /\ Proper(p, clock)
                              /\ p.pc = "staged"
<1> DEFINE p == [Idle EXCEPT !.pc = "staged", !.id = c]
<1>1. p \in Processes /\ Proper(p, clock) /\ p.pc = "staged"
  BY IdleProper DEF Processes, PCs, Proper, Idle
<1>2. Becomes(d, p)
  BY DEF Stage, Becomes
<1> QED
  BY <1>1, <1>2

LEMMA Tries ==
  ASSUME Typed, NEW d \in Dojos, BeginTrial(d)
  PROVE  \E p \in Processes : /\ Becomes(d, p) /\ Proper(p, clock)
                              /\ p.pc = "trial"
<1> DEFINE p == [writer[d] EXCEPT !.pc = "trial", !.seen = champion]
<1>1. writer[d] \in Processes /\ Proper(writer[d], clock) /\ writer[d].pc = "staged"
  BY DEF Typed, Processing, BeginTrial, Writers
<1>2. champion \in Champions
  BY DEF Typed, Championed
<1>3. p \in Processes /\ Proper(p, clock) /\ p.pc = "trial"
  BY <1>1, <1>2 DEF Processes, PCs, Proper
<1>4. Becomes(d, p)
  BY DEF BeginTrial, Becomes
<1> QED
  BY <1>3, <1>4

LEMMA Chooses ==
  ASSUME Typed, NEW o \in Operators, NEW c \in Candidates, PromoteByHand(o, c)
  PROVE  \E p \in Processes : /\ Becomes(o, p) /\ Proper(p, clock)
                              /\ p.pc = "archive" /\ p.source = NoName
<1> DEFINE p == [Idle EXCEPT !.pc = "archive", !.id = c]
<1>1. p \in Processes /\ Proper(p, clock) /\ p.pc = "archive" /\ p.source = NoName
  BY IdleProper DEF Processes, PCs, Proper, Idle
<1>2. Becomes(o, p)
  BY DEF PromoteByHand, Becomes
<1> QED
  BY <1>1, <1>2

LEMMA TakesLast ==
  ASSUME Typed, NEW o \in Operators, Rollback(o)
  PROVE  \E p \in Processes : /\ Becomes(o, p) /\ Proper(p, clock)
                              /\ p.pc = "archive"
                              /\ \E h \in history : h.name = p.source /\ h.id = p.id
<1> DEFINE p == [Idle EXCEPT !.pc = "archive", !.id = LastArchived.id, !.source = LastArchived.name]
<1>1. LastArchived \in history
  BY OneSortsLast DEF Rollback, Typed
<1>2. LastArchived.id \in Candidates /\ LastArchived.name \in Names
  BY <1>1 DEF Typed, Archived, Archives
<1>3. p \in Processes /\ Proper(p, clock) /\ p.pc = "archive"
      /\ p.id = LastArchived.id /\ p.source = LastArchived.name
  BY <1>2, IdleProper DEF Processes, PCs, Proper, Idle
<1>4. Becomes(o, p)
  BY DEF Rollback, Becomes
<1> QED
  BY <1>1, <1>3, <1>4

\* The first step of a change: to archive a champion, or that there is none.
LEMMA PicksName ==
  ASSUME Typed, NEW w \in Writers, Archive(w)
  PROVE  \E p \in Processes :
           /\ Becomes(w, p) /\ Proper(p, clock)
           /\ p.id = writer[w].id /\ p.source = writer[w].source /\ p.seen = writer[w].seen
           /\ \/ p.pc = "write" /\ champion = NoChampion
              \/ /\ p.pc = "save" /\ p.outgoing = champion.id /\ p.name.at = clock
                 /\ \A h \in history : h.name # p.name
<1>1. writer[w] \in Processes /\ Proper(writer[w], clock) /\ writer[w].pc = "archive"
  BY DEF Typed, Processing, Archive
<1>2. CASE champion = NoChampion
  <2> DEFINE p == [writer[w] EXCEPT !.pc = "write"]
  <2>1. p \in Processes /\ Proper(p, clock) /\ p.pc = "write"
        /\ p.id = writer[w].id /\ p.source = writer[w].source /\ p.seen = writer[w].seen
    BY <1>1 DEF Processes, PCs, Proper
  <2>2. Becomes(w, p)
    BY <1>2 DEF Archive, Becomes
  <2> QED
    BY <1>2, <2>1, <2>2
<1>3. CASE champion # NoChampion
  <2> DEFINE p == [writer[w] EXCEPT !.pc = "save", !.name = FreeName, !.outgoing = champion.id]
  <2>1. champion.id \in Candidates
    BY <1>3 DEF Typed, Championed
  <2>2. FreeName \in Names /\ FreeName.at \in 1 .. clock /\ FreeName.at = clock
        /\ \A h \in history : h.name # FreeName
    BY FreeNameIsFree DEF Typed
  <2>3. p \in Processes /\ p.pc = "save" /\ p.outgoing = champion.id /\ p.name = FreeName
        /\ p.id = writer[w].id /\ p.source = writer[w].source /\ p.seen = writer[w].seen
    BY <1>1, <2>1, <2>2 DEF Processes, PCs
  <2>4. Proper(p, clock)
    BY <1>1, <2>1, <2>2, <2>3 DEF Proper
  <2>5. Becomes(w, p)
    BY <1>3 DEF Archive, Becomes
  <2> QED
    BY <2>2, <2>3, <2>4, <2>5
<1> QED
  BY <1>2, <1>3

LEMMA SavedArchived ==
  ASSUME Typed, NEW w \in Writers, Save(w)
  PROVE  Archived'
<1> DEFINE new == [name |-> writer[w].name, id |-> writer[w].outgoing]
           old == {h \in history : h.name # writer[w].name}
<1>1. writer[w] \in Processes /\ Proper(writer[w], clock) /\ writer[w].pc = "save"
  BY DEF Typed, Processing, Save
<1>2. new \in Archives /\ new.name = writer[w].name /\ new.name.at \in 1 .. clock
  BY <1>1 DEF Archives, Processes, Proper
<1>3. history' = old \cup {new} /\ clock' = clock
  BY DEF Save
<1>4. old \subseteq history /\ \A h \in old : h.name # new.name
  BY <1>2
<1>5. history' \subseteq Archives
  BY <1>2, <1>3, <1>4 DEF Typed, Archived
<1>6. IsFiniteSet(history')
  <2>1. IsFiniteSet(old)
    BY <1>4, FS_Subset DEF Typed, Archived
  <2> QED
    BY <1>3, <2>1, FS_AddElement
<1>7. \A g, h \in history' : g.name = h.name => g = h
  BY <1>3, <1>4 DEF Typed, Archived
<1>8. \A h \in history' : h.name.at \in 1 .. clock'
  BY <1>2, <1>3, <1>4 DEF Typed, Archived
<1>9. \E b \in Nat : \A h \in history' : h.name.k <= b
  <2>1. PICK b \in Nat : \A h \in history : h.name.k <= b
    BY DEF Typed, Archived
  <2>2. new.name.k \in Nat /\ \A h \in history : h.name.k \in Nat
    BY <1>2 DEF Archives, Names, Typed, Archived
  <2>3. b + new.name.k \in Nat /\ new.name.k <= b + new.name.k
        /\ \A h \in history : h.name.k <= b + new.name.k
    BY <2>1, <2>2
  <2> QED
    BY <1>3, <1>4, <2>3
<1> QED
  BY <1>5, <1>6, <1>7, <1>8, <1>9 DEF Archived

LEMMA UnlinkedArchived ==
  ASSUME Typed, NEW w \in Writers, Unlink(w)
  PROVE  Archived'
<1>1. history' \subseteq history /\ clock' = clock
  BY DEF Unlink
<1>2. IsFiniteSet(history')
  BY <1>1, FS_Subset DEF Typed, Archived
<1>3. \E b \in Nat : \A h \in history' : h.name.k <= b
  BY <1>1 DEF Typed, Archived
<1> QED
  BY <1>1, <1>2, <1>3 DEF Typed, Archived

\* Steps of a process that leave the champion and the archives.
LEMMA FilesLeft ==
  ASSUME Typed, UNCHANGED <<champion, history, clock, ever>>
  PROVE  Championed' /\ Archived' /\ clock' \in Nat \ {0} /\ ever' \subseteq Candidates
BY DEF Typed, Championed, Archived

LEMMA TypedStep == Typed /\ [Next]_vars => Typed'
<1> SUFFICES ASSUME Typed, [Next]_vars PROVE Typed'
  OBVIOUS
<1> USE DEF Writers
<1>1. ASSUME NEW d \in Dojos, NEW c \in Candidates, Stage(d, c) PROVE Typed'
  <2>1. Processing'
    BY <1>1, Stages, ProcessingKept DEF Typed, Stage
  <2>2. where' \in [Candidates -> Directories]
    BY <1>1 DEF Typed, Stage, Directories
  <2> QED
    BY <1>1, <2>1, <2>2, FilesLeft DEF Typed, Stage
<1>2. ASSUME NEW d \in Dojos, BeginTrial(d) PROVE Typed'
  <2>1. Processing'
    BY <1>2, Tries, ProcessingKept DEF Typed, BeginTrial
  <2> QED
    BY <1>2, <2>1, FilesLeft DEF Typed, BeginTrial
<1>3. ASSUME NEW d \in Dojos, TrialEnds(d) PROVE Typed'
  <2>1. Processing'
    BY <1>3, Rests DEF TrialEnds, Becomes
  <2> QED
    BY <1>3, <2>1, FilesLeft DEF Typed, TrialEnds
<1>4. ASSUME NEW d \in Dojos, AutoPromote(d) PROVE Typed'
  <2>1. Processing'
    BY <1>4, GoesOn DEF AutoPromote
  <2> QED
    BY <1>4, <2>1, FilesLeft DEF Typed, AutoPromote
<1>5. ASSUME NEW o \in Operators, NEW c \in Candidates, PromoteByHand(o, c) PROVE Typed'
  <2>1. Processing'
    BY <1>5, Chooses, ProcessingKept DEF Typed, PromoteByHand
  <2> QED
    BY <1>5, <2>1, FilesLeft DEF Typed, PromoteByHand
<1>6. ASSUME NEW o \in Operators, NEW c \in Candidates, Reject(o, c) PROVE Typed'
  <2>1. where' \in [Candidates -> Directories]
    BY <1>6 DEF Typed, Reject, Directories
  <2>2. Processing'
    BY <1>6 DEF Typed, Reject, Processing, Proper
  <2> QED
    BY <1>6, <2>1, <2>2, FilesLeft DEF Typed, Reject
<1>7. ASSUME NEW o \in Operators, Rollback(o) PROVE Typed'
  <2>1. Processing'
    BY <1>7, TakesLast, ProcessingKept DEF Typed, Rollback
  <2> QED
    BY <1>7, <2>1, FilesLeft DEF Typed, Rollback
<1>8. ASSUME NEW w \in Writers, Archive(w) PROVE Typed'
  <2>1. Processing'
    BY <1>8, PicksName, ProcessingKept DEF Typed, Archive
  <2> QED
    BY <1>8, <2>1, FilesLeft DEF Typed, Archive
<1>9. ASSUME NEW w \in Writers, Save(w) PROVE Typed'
  <2>1. Processing'
    BY <1>9, GoesOn DEF Save
  <2>2. Archived'
    BY <1>9, SavedArchived
  <2> QED
    BY <1>9, <2>1, <2>2 DEF Typed, Save, Championed
<1>10. ASSUME NEW w \in Writers, WriteChampion(w) PROVE Typed'
  <2>1. Processing'
    BY <1>10, GoesOn DEF WriteChampion
  <2>2. writer[w].id \in Candidates
    BY <1>10 DEF Typed, Processing, Proper, WriteChampion
  <2>3. Championed' /\ ever' \subseteq Candidates
    BY <1>10, <2>2 DEF Typed, Championed, Champions, WriteChampion
  <2>4. Archived'
    BY <1>10 DEF Typed, Archived, WriteChampion
  <2> QED
    BY <1>10, <2>1, <2>3, <2>4 DEF Typed, WriteChampion
<1>11. ASSUME NEW w \in Writers, Retire(w) PROVE Typed'
  <2>1. Processing'
    BY <1>11, Rests DEF Retire, Becomes
  <2>2. where' \in [Candidates -> Directories]
    BY <1>11 DEF Typed, Retire, Directories
  <2> QED
    BY <1>11, <2>1, <2>2, FilesLeft DEF Typed, Retire
<1>12. ASSUME NEW w \in Writers, Unlink(w) PROVE Typed'
  <2>1. Processing'
    BY <1>12, Rests DEF Unlink, Becomes
  <2>2. Archived'
    BY <1>12, UnlinkedArchived
  <2> QED
    BY <1>12, <2>1, <2>2 DEF Typed, Unlink, Championed
<1>13. ASSUME NEW w \in Writers, Death(w) PROVE Typed'
  <2>1. Processing'
    BY <1>13, Rests DEF Death, Becomes
  <2> QED
    BY <1>13, <2>1, FilesLeft DEF Typed, Death
<1>14. CASE Tick
  <2>1. clock' \in Nat \ {0} /\ clock < clock' /\ clock \in Nat
    BY <1>14 DEF Typed, Tick
  <2>2. Championed' /\ Processing'
    BY <1>14, <2>1 DEF Typed, Championed, Champions, Processing, Proper, Processes, Names, Tick
  <2>3. Archived'
    BY <1>14, <2>1 DEF Typed, Archived, Archives, Names, Tick
  <2> QED
    BY <1>14, <2>1, <2>2, <2>3 DEF Typed, Tick
<1>15. CASE UNCHANGED vars
  BY <1>15 DEF vars, Typed, Championed, Archived, Processing, Proper
<1> QED
  BY <1>1, <1>2, <1>3, <1>4, <1>5, <1>6, <1>7, <1>8, <1>9, <1>10, <1>11, <1>12, <1>13, <1>14,
     <1>15 DEF Next

LEMMA AlwaysTyped == Spec => []Typed
BY TypedInit, TypedStep, PTL DEF Spec

\* TypeOK: whatever runs, changes and deaths there are.
THEOREM TypeCorrect == Spec => []TypeOK
BY AlwaysTyped, TypedIsTypeOK, PTL

-----------------------------------------------------------------------------
(* The cooldown. *)

\* A Dojo in a change was given a champion that was old enough, and is now.
TrialsWaited ==
  \A d \in Dojos : Changing(d) => CooldownGate(writer[d].seen)

\* A process that was not in a change and is not an auto-promoted Dojo.
LEMMA WaitedKept ==
  ASSUME Typed, TrialsWaited, UNCHANGED clock,
         NEW w \in Writers, NEW p \in Processes, Becomes(w, p),
         w \in Dojos /\ p.pc \in Changes => Changing(w) /\ p.seen = writer[w].seen
  PROVE  TrialsWaited'
<1>1. writer'[w] = p /\ \A v \in Writers \ {w} : writer'[v] = writer[v]
  BY Moved DEF Typed
<1>2. ASSUME NEW d \in Dojos, Changing(d)' PROVE CooldownGate(writer[d].seen)'
  <2>1. CASE d = w
    BY <1>1, <1>2, <2>1 DEF TrialsWaited, Changing, Changes, CooldownGate
  <2>2. CASE d # w
    BY <1>1, <1>2, <2>2 DEF TrialsWaited, Changing, CooldownGate, Writers
  <2> QED
    BY <2>1, <2>2
<1> QED
  BY <1>2 DEF TrialsWaited, CooldownGate

LEMMA SameTrial ==
  ASSUME Typed, TrialsWaited, UNCHANGED clock, NEW w \in Writers, Changing(w),
         NEW pc \in {"write", "retire", "unlink"}, Goes(w, pc)
  PROVE  TrialsWaited'
<1> DEFINE p == [writer[w] EXCEPT !.pc = pc]
<1>1. writer[w] \in Processes
  BY DEF Typed, Processing
<1>2. p \in Processes /\ p.seen = writer[w].seen
  BY <1>1 DEF Processes, PCs
<1>3. Becomes(w, p)
  BY DEF Goes, Becomes
<1> QED
  BY <1>2, <1>3, WaitedKept

LEMMA WaitedStep == Typed /\ TrialsWaited /\ [Next]_vars => TrialsWaited'
<1> SUFFICES ASSUME Typed, TrialsWaited, [Next]_vars PROVE TrialsWaited'
  OBVIOUS
<1> USE DEF Writers
<1>1. ASSUME NEW d \in Dojos, NEW c \in Candidates, Stage(d, c) PROVE TrialsWaited'
  <2>1. PICK p \in Processes : Becomes(d, p) /\ p.pc = "staged"
    BY <1>1, Stages
  <2> QED
    BY <1>1, <2>1, WaitedKept DEF Stage, Changes
<1>2. ASSUME NEW d \in Dojos, BeginTrial(d) PROVE TrialsWaited'
  <2>1. PICK p \in Processes : Becomes(d, p) /\ p.pc = "trial"
    BY <1>2, Tries
  <2> QED
    BY <1>2, <2>1, WaitedKept DEF BeginTrial, Changes
<1>3. ASSUME NEW w \in Writers, TrialEnds(w) \/ Retire(w) \/ Unlink(w) \/ Death(w) PROVE TrialsWaited'
  <2>1. Becomes(w, Idle) /\ UNCHANGED clock /\ Idle.pc = "idle"
    BY <1>3 DEF TrialEnds, Retire, Unlink, Death, Becomes, Idle
  <2> QED
    BY <2>1, IdleProper, WaitedKept DEF Changes
<1>4. ASSUME NEW d \in Dojos, AutoPromote(d) PROVE TrialsWaited'
  <2>1. /\ writer'[d].seen = writer[d].seen /\ CooldownGate(writer[d].seen)
        /\ \A v \in Writers \ {d} : writer'[v] = writer[v]
        /\ clock' = clock
    BY <1>4 DEF AutoPromote, Goes, Typed, Processing, Processes
  <2> QED
    BY <2>1 DEF TrialsWaited, Changing, CooldownGate
<1>5. ASSUME NEW o \in Operators, NEW c \in Candidates, PromoteByHand(o, c) PROVE TrialsWaited'
  <2>1. PICK p \in Processes : Becomes(o, p)
    BY <1>5, Chooses
  <2>2. o \notin Dojos
    BY PromotionAssumption
  <2> QED
    BY <1>5, <2>1, <2>2, WaitedKept DEF PromoteByHand
<1>6. ASSUME NEW o \in Operators, NEW c \in Candidates, Reject(o, c) PROVE TrialsWaited'
  BY <1>6 DEF Reject, TrialsWaited, Changing, CooldownGate
<1>7. ASSUME NEW o \in Operators, Rollback(o) PROVE TrialsWaited'
  <2>1. PICK p \in Processes : Becomes(o, p)
    BY <1>7, TakesLast
  <2>2. o \notin Dojos
    BY PromotionAssumption
  <2> QED
    BY <1>7, <2>1, <2>2, WaitedKept DEF Rollback
<1>8. ASSUME NEW w \in Writers, Archive(w) PROVE TrialsWaited'
  <2>1. PICK p \in Processes : Becomes(w, p) /\ p.seen = writer[w].seen
    BY <1>8, PicksName
  <2> QED
    BY <1>8, <2>1, WaitedKept DEF Archive, Changing
<1>9. ASSUME NEW w \in Writers, Save(w) PROVE TrialsWaited'
  BY <1>9, SameTrial DEF Save, Changing
<1>10. ASSUME NEW w \in Writers, WriteChampion(w) PROVE TrialsWaited'
  BY <1>10, SameTrial DEF WriteChampion, Changing
<1>11. CASE Tick
  <2>1. writer' = writer /\ clock' = clock + 1 /\ clock \in Nat
    BY <1>11 DEF Tick, Typed
  <2>2. ASSUME NEW d \in Dojos, CooldownGate(writer[d].seen) PROVE CooldownGate(writer[d].seen)'
    <3>1. writer[d].seen.at \in Nat
      BY DEF Typed, Processing, Processes, Champions
    <3> QED
      BY <2>1, <2>2, <3>1, PromotionAssumption DEF CooldownGate
  <2> QED
    BY <2>1, <2>2 DEF TrialsWaited, Changing
<1>12. CASE UNCHANGED vars
  BY <1>12 DEF vars, TrialsWaited, Changing, CooldownGate
<1> QED
  BY <1>1, <1>2, <1>3, <1>4, <1>5, <1>6, <1>7, <1>8, <1>9, <1>10, <1>11, <1>12 DEF Next

LEMMA AlwaysWaited == Spec => []TrialsWaited
<1>1. Init => TrialsWaited
  BY DEF Init, TrialsWaited, Changing, Idle, Writers
<1> QED
  BY <1>1, WaitedStep, AlwaysTyped, PTL DEF Spec

\* CooldownIsKept: for any cooldown and any number of Dojo runs and operators.
THEOREM CooldownAlwaysKept == Spec => CooldownIsKept
<1> DEFINE Waits == \A d \in Dojos : WriteChampion(d) /\ champion = writer[d].seen =>
                      champion = NoChampion \/ clock - champion.at >= Cooldown
<1>1. TrialsWaited => Waits
  BY DEF TrialsWaited, WriteChampion, Changing, CooldownGate
<1>2. TrialsWaited /\ [Next]_vars => [Waits]_vars
  BY <1>1
<1>3. Spec => [][Waits]_vars
  BY <1>2, AlwaysWaited, PTL DEF Spec
<1> QED
  BY <1>3 DEF CooldownIsKept

-----------------------------------------------------------------------------
(* What was replaced. *)

Past(w) == writer[w].pc \in {"save", "write", "retire", "unlink"}
InArchives(id) == \E h \in history : h.id = id

OnePast == \A v, w \in Writers : Past(v) /\ Past(w) => v = w

\* About to save: the champion in force, under a name that is free.
SaveHolds(w) ==
  writer[w].pc = "save" =>
    writer[w].outgoing = champion.id /\ \A h \in history : h.name # writer[w].name

WriteHolds(w) == writer[w].pc = "write" => champion = NoChampion \/ InArchives(champion.id)
UnlinkHolds(w) == writer[w].pc = "unlink" => champion.id = writer[w].id

\* The archive a rollback restores is of the candidate it restores. It is gone
\* only if another rollback has restored it in the meantime, and is done.
SourceHolds(w) ==
  Changing(w) /\ writer[w].source # NoName =>
    /\ \A h \in history : h.name = writer[w].source => h.id = writer[w].id
    /\ writer[w].pc \in {"archive", "save"} =>
         \/ \E h \in history : h.name = writer[w].source
         \/ champion.id = writer[w].id /\ \A v \in Writers \ {w} : ~Past(v)

ChangeHolds(w) == SaveHolds(w) /\ WriteHolds(w) /\ UnlinkHolds(w) /\ SourceHolds(w)
NoneLost == \A c \in ever : champion.id = c \/ InArchives(c)
Held == OnePast /\ NoneLost /\ \A w \in Writers : ChangeHolds(w)
ArchiveInv == ~raced => Held

files == <<champion, history, ever>>

\* A process that is between changes or enters one.
LEMMA HeldKept ==
  ASSUME Typed, Held, UNCHANGED files,
         NEW w \in Writers, NEW p \in Processes, Becomes(w, p),
         p.pc \in {"idle", "staged", "trial", "archive"},
         \/ p.pc # "archive" \/ p.source = NoName
         \/ \E h \in history : h.name = p.source /\ h.id = p.id
  PROVE  Held'
<1>1. writer'[w] = p /\ \A v \in Writers \ {w} : writer'[v] = writer[v]
  BY Moved DEF Typed
<1>2. champion' = champion /\ history' = history /\ ever' = ever
  BY DEF files
<1>3. OnePast'
  BY <1>1 DEF Held, OnePast, Past
<1>4. NoneLost'
  BY <1>2 DEF Held, NoneLost, InArchives
<1>5. ASSUME NEW v \in Writers \ {w} PROVE ChangeHolds(v)'
  <2>1. ChangeHolds(v) /\ writer'[v] = writer[v]
    BY <1>1 DEF Held
  <2>2. \A u \in Writers : ~Past(u) => ~Past(u)'
    BY <1>1 DEF Past
  <2> QED
    BY <1>2, <2>1, <2>2
       DEF ChangeHolds, SaveHolds, WriteHolds, UnlinkHolds, SourceHolds, Changing, InArchives
<1>6. ChangeHolds(w)'
  <2>1. SaveHolds(w)' /\ WriteHolds(w)' /\ UnlinkHolds(w)'
    BY <1>1 DEF SaveHolds, WriteHolds, UnlinkHolds
  <2>2. SourceHolds(w)'
    BY <1>1, <1>2 DEF SourceHolds, Changing, Typed, Archived
  <2> QED
    BY <2>1, <2>2 DEF ChangeHolds
<1> QED
  BY <1>3, <1>4, <1>5, <1>6 DEF Held

\* The first step of the only change under way.
LEMMA HeldArchive ==
  ASSUME Typed, Held, NEW w \in Writers, Archive(w), \A v \in Writers \ {w} : ~Changing(v)
  PROVE  Held'
<1>1. PICK p \in Processes :
        /\ Becomes(w, p) /\ p.id = writer[w].id /\ p.source = writer[w].source
        /\ \/ p.pc = "write" /\ champion = NoChampion
           \/ /\ p.pc = "save" /\ p.outgoing = champion.id
              /\ \A h \in history : h.name # p.name
  BY PicksName
<1>2. writer'[w] = p /\ \A v \in Writers \ {w} : writer'[v] = writer[v]
  BY <1>1, Moved DEF Typed
<1>3. champion' = champion /\ history' = history /\ ever' = ever
  BY DEF Archive
<1>4. \A v \in Writers \ {w} : ~Changing(v)' /\ ~Past(v)'
  BY <1>2 DEF Changing, Past
<1>5. OnePast' /\ NoneLost'
  BY <1>3, <1>4 DEF Held, OnePast, NoneLost, InArchives
<1>6. ASSUME NEW v \in Writers \ {w} PROVE ChangeHolds(v)'
  <2>1. ~Changing(v)'
    BY <1>4
  <2> QED
    BY <2>1 DEF ChangeHolds, SaveHolds, WriteHolds, UnlinkHolds, SourceHolds, Changing
<1>7. ChangeHolds(w)'
  <2>1. SaveHolds(w)' /\ WriteHolds(w)' /\ UnlinkHolds(w)'
    BY <1>1, <1>2, <1>3 DEF SaveHolds, WriteHolds, UnlinkHolds
  <2>2. writer[w].pc = "archive" /\ SourceHolds(w)
    BY DEF Archive, Held, ChangeHolds
  <2>3. SourceHolds(w)'
    BY <1>1, <1>2, <1>3, <1>4, <2>2 DEF SourceHolds, Changing
  <2> QED
    BY <2>1, <2>3 DEF ChangeHolds
<1> QED
  BY <1>5, <1>6, <1>7 DEF Held

LEMMA OthersAreNotPast ==
  ASSUME Held, NEW w \in Writers, Past(w)
  PROVE  \A v \in Writers \ {w} : ~Past(v)
BY DEF Held, OnePast

\* The others, when a process that is past its first step takes its next.
LEMMA OthersHold ==
  ASSUME Held, NEW w \in Writers, Past(w),
         \A v \in Writers \ {w} : writer'[v] = writer[v],
         \A v \in Writers \ {w} : Changing(v) => SourceHolds(v)'
  PROVE  OnePast' /\ \A v \in Writers \ {w} : ChangeHolds(v)'
<1>1. \A v \in Writers \ {w} : ~Past(v) /\ ~Past(v)'
  BY OthersAreNotPast DEF Past
<1>2. OnePast'
  BY <1>1 DEF OnePast
<1>3. ASSUME NEW v \in Writers \ {w} PROVE ChangeHolds(v)'
  <2>1. SaveHolds(v)' /\ WriteHolds(v)' /\ UnlinkHolds(v)'
    BY <1>1 DEF SaveHolds, WriteHolds, UnlinkHolds, Past
  <2>2. SourceHolds(v)'
    BY DEF SourceHolds, Changing
  <2> QED
    BY <2>1, <2>2 DEF ChangeHolds
<1> QED
  BY <1>2, <1>3

\* Another change, of which nothing is done, finds the archive it restores.
LEMMA SourceIsThere ==
  ASSUME Held, NEW w \in Writers, Past(w),
         NEW v \in Writers \ {w}, Changing(v), writer[v].source # NoName
  PROVE  /\ writer[v].pc = "archive"
         /\ \A h \in history : h.name = writer[v].source => h.id = writer[v].id
         /\ \E h \in history : h.name = writer[v].source
<1>1. writer[v].pc = "archive"
  BY OthersAreNotPast DEF Past, Changing
<1>2. SourceHolds(v)
  BY DEF Held, ChangeHolds
<1> QED
  BY <1>1, <1>2 DEF SourceHolds

LEMMA HeldSave ==
  ASSUME Typed, Held, NEW w \in Writers, Save(w)
  PROVE  Held'
<1> DEFINE new == [name |-> writer[w].name, id |-> writer[w].outgoing]
<1>1. writer[w].pc = "save" /\ Past(w) /\ ChangeHolds(w)
  BY DEF Save, Past, Held
<1>2. new.name = writer[w].name /\ new.id = champion.id
      /\ \A h \in history : h.name # new.name
  BY <1>1 DEF ChangeHolds, SaveHolds
<1>3. history' = history \cup {new} /\ champion' = champion /\ ever' = ever
  BY <1>2 DEF Save
<1>4. /\ writer'[w].pc = "write" /\ writer'[w].id = writer[w].id
      /\ writer'[w].source = writer[w].source
      /\ \A v \in Writers \ {w} : writer'[v] = writer[v]
  BY DEF Save, Goes, Typed, Processing, Processes
<1> HIDE DEF new
<1>5. NoneLost'
  BY <1>3 DEF Held, NoneLost, InArchives
<1>6. ChangeHolds(w)'
  <2>1. SaveHolds(w)' /\ UnlinkHolds(w)'
    BY <1>4 DEF SaveHolds, UnlinkHolds
  <2>2. WriteHolds(w)'
    BY <1>2, <1>3 DEF WriteHolds, InArchives
  <2>3. ASSUME writer[w].source # NoName, NEW h \in history', h.name = writer[w].source
        PROVE  h.id = writer[w].id
    BY <1>1, <1>2, <1>3, <2>3 DEF ChangeHolds, SourceHolds, Changing
  <2>4. SourceHolds(w)'
    BY <1>4, <2>3 DEF SourceHolds
  <2> QED
    BY <2>1, <2>2, <2>4 DEF ChangeHolds
<1>7. ASSUME NEW v \in Writers \ {w}, Changing(v) PROVE SourceHolds(v)'
  <2>1. SUFFICES ASSUME writer[v].source # NoName PROVE SourceHolds(v)'
    BY <1>4 DEF SourceHolds
  <2>2. PICK h \in history : h.name = writer[v].source
    BY <1>1, <1>7, <2>1, SourceIsThere
  <2>3. h \in history' /\ new.name # writer[v].source
    BY <1>2, <1>3, <2>2
  <2>4. \A g \in history' : g.name = writer[v].source => g.id = writer[v].id
    BY <1>1, <1>3, <1>7, <2>1, <2>3, SourceIsThere
  <2> QED
    BY <1>4, <2>2, <2>3, <2>4 DEF SourceHolds
<1> QED
  BY <1>1, <1>4, <1>5, <1>6, <1>7, OthersHold DEF Held

LEMMA HeldWrite ==
  ASSUME Typed, Held, NEW w \in Writers, WriteChampion(w)
  PROVE  Held'
<1>1. writer[w].pc = "write" /\ Past(w) /\ ChangeHolds(w)
  BY DEF WriteChampion, Past, Held
<1>2. /\ champion'.id = writer[w].id
      /\ history' = history /\ ever' = ever \cup {writer[w].id}
  BY DEF WriteChampion
<1>3. /\ writer'[w].pc \in {"retire", "unlink"} /\ writer'[w].id = writer[w].id
      /\ writer'[w].source = writer[w].source
      /\ \A v \in Writers \ {w} : writer'[v] = writer[v]
  BY DEF WriteChampion, Goes, Typed, Processing, Processes
<1>4. NoneLost'
  <2>1. champion = NoChampion \/ InArchives(champion.id)
    BY <1>1 DEF ChangeHolds, WriteHolds
  <2>2. ASSUME NEW c \in ever PROVE InArchives(c)
    <3>1. c # None
      BY PromotionAssumption DEF Typed
    <3>2. champion.id = c \/ InArchives(c)
      BY DEF Held, NoneLost
    <3> QED
      BY <2>1, <3>1, <3>2 DEF NoChampion
  <2> QED
    BY <1>2, <2>2 DEF NoneLost, InArchives
<1>5. ChangeHolds(w)'
  <2>1. SaveHolds(w)' /\ WriteHolds(w)' /\ UnlinkHolds(w)'
    BY <1>2, <1>3 DEF SaveHolds, WriteHolds, UnlinkHolds
  <2>2. SourceHolds(w)'
    BY <1>1, <1>2, <1>3 DEF ChangeHolds, SourceHolds, Changing
  <2> QED
    BY <2>1, <2>2 DEF ChangeHolds
<1>6. ASSUME NEW v \in Writers \ {w}, Changing(v) PROVE SourceHolds(v)'
  <2>1. SUFFICES ASSUME writer[v].source # NoName PROVE SourceHolds(v)'
    BY <1>3 DEF SourceHolds
  <2> QED
    BY <1>1, <1>2, <1>3, <1>6, <2>1, SourceIsThere DEF SourceHolds
<1> QED
  BY <1>1, <1>3, <1>4, <1>5, <1>6, OthersHold DEF Held

\* What a rollback removes is of the champion it has restored.
LEMMA HeldUnlink ==
  ASSUME Typed, Held, NEW w \in Writers, Unlink(w)
  PROVE  Held'
<1>1. writer[w].pc = "unlink" /\ Past(w) /\ ChangeHolds(w) /\ champion.id = writer[w].id
  BY DEF Unlink, Past, Held, ChangeHolds, UnlinkHolds
<1>2. /\ history' = {h \in history : h.name # writer[w].source}
      /\ champion' = champion /\ ever' = ever
  BY DEF Unlink
<1>3. /\ writer'[w] = Idle /\ Idle.pc = "idle"
      /\ \A v \in Writers \ {w} : writer'[v] = writer[v]
  BY DEF Unlink, Typed, Processing, Idle
<1>4. \A h \in history : h.name = writer[w].source => h.id = champion.id
  <2>1. \A h \in history : h.name # NoName
    BY DEF Typed, Archived, NoName
  <2> QED
    BY <1>1, <2>1 DEF ChangeHolds, SourceHolds, Changing
<1>5. NoneLost'
  BY <1>2, <1>4 DEF Held, NoneLost, InArchives
<1>6. ChangeHolds(w)'
  BY <1>3 DEF ChangeHolds, SaveHolds, WriteHolds, UnlinkHolds, SourceHolds, Changing
<1>7. ASSUME NEW v \in Writers \ {w}, Changing(v) PROVE SourceHolds(v)'
  <2>1. SUFFICES ASSUME writer[v].source # NoName PROVE SourceHolds(v)'
    BY <1>3 DEF SourceHolds
  <2>2. /\ \A h \in history : h.name = writer[v].source => h.id = writer[v].id
        /\ \E h \in history : h.name = writer[v].source
    BY <1>1, <1>7, <2>1, SourceIsThere
  <2>3. \A u \in Writers : ~Past(u)'
    BY <1>1, <1>3, OthersAreNotPast DEF Past
  <2>4. CASE writer[v].source = writer[w].source
    BY <1>2, <1>3, <1>4, <2>2, <2>3, <2>4 DEF SourceHolds
  <2>5. CASE writer[v].source # writer[w].source
    BY <1>2, <1>3, <2>2, <2>5 DEF SourceHolds
  <2> QED
    BY <2>4, <2>5
<1> QED
  BY <1>1, <1>3, <1>5, <1>6, <1>7, OthersHold DEF Held

LEMMA HeldStep == Typed /\ ArchiveInv /\ [Next]_vars => ArchiveInv'
<1> SUFFICES ASSUME Typed, ArchiveInv, [Next]_vars, ~raced' PROVE Held'
  BY DEF ArchiveInv
<1> USE DEF Writers
<1>1. ASSUME NEW w \in Writers, Archive(w) PROVE Held'
  <2>1. ~raced /\ \A v \in Writers \ {w} : ~Changing(v)
    BY <1>1 DEF Archive
  <2> QED
    BY <1>1, <2>1, HeldArchive DEF ArchiveInv
<1>2. ASSUME ~(\E w \in Writers : Archive(w)) PROVE raced' = raced
  BY <1>2 DEF Next, Stage, BeginTrial, TrialEnds, AutoPromote, PromoteByHand, Reject, Rollback,
              Save, WriteChampion, Retire, Unlink, Death, Tick, vars
<1>3. CASE ~(\E w \in Writers : Archive(w))
  <2>1. Held
    BY <1>2, <1>3 DEF ArchiveInv
  <2>2. ASSUME NEW d \in Dojos, NEW c \in Candidates, Stage(d, c) PROVE Held'
    <3>1. PICK p \in Processes : Becomes(d, p) /\ p.pc = "staged"
      BY <2>2, Stages
    <3> QED
      BY <2>1, <2>2, <3>1, HeldKept DEF Stage, files
  <2>3. ASSUME NEW d \in Dojos, BeginTrial(d) PROVE Held'
    <3>1. PICK p \in Processes : Becomes(d, p) /\ p.pc = "trial"
      BY <2>3, Tries
    <3> QED
      BY <2>1, <2>3, <3>1, HeldKept DEF BeginTrial, files
  <2>4. ASSUME NEW w \in Writers, TrialEnds(w) \/ Retire(w) \/ Death(w) PROVE Held'
    <3>1. Becomes(w, Idle) /\ UNCHANGED files /\ Idle.pc = "idle"
      BY <2>4 DEF TrialEnds, Retire, Death, Becomes, Idle, files
    <3> QED
      BY <2>1, <3>1, IdleProper, HeldKept
  <2>5. ASSUME NEW d \in Dojos, AutoPromote(d) PROVE Held'
    <3> DEFINE p == [writer[d] EXCEPT !.pc = "archive"]
    <3>1. writer[d] \in Processes /\ writer[d].source = NoName
      BY <2>5 DEF Typed, Processing, Proper, AutoPromote
    <3>2. p \in Processes /\ p.pc = "archive" /\ p.source = NoName
      BY <3>1 DEF Processes, PCs
    <3>3. Becomes(d, p) /\ UNCHANGED files
      BY <2>5 DEF AutoPromote, Goes, Becomes, files
    <3> QED
      BY <2>1, <3>2, <3>3, HeldKept
  <2>6. ASSUME NEW o \in Operators, NEW c \in Candidates, PromoteByHand(o, c) PROVE Held'
    <3>1. PICK p \in Processes : Becomes(o, p) /\ p.pc = "archive" /\ p.source = NoName
      BY <2>6, Chooses
    <3> QED
      BY <2>1, <2>6, <3>1, HeldKept DEF PromoteByHand, files
  <2>7. ASSUME NEW o \in Operators, Rollback(o) PROVE Held'
    <3>1. PICK p \in Processes : /\ Becomes(o, p) /\ p.pc = "archive"
                                 /\ \E h \in history : h.name = p.source /\ h.id = p.id
      BY <2>7, TakesLast
    <3> QED
      BY <2>1, <2>7, <3>1, HeldKept DEF Rollback, files
  <2>8. ASSUME NEW w \in Writers, Save(w) \/ WriteChampion(w) \/ Unlink(w) PROVE Held'
    BY <2>1, <2>8, HeldSave, HeldWrite, HeldUnlink
  <2>9. ASSUME UNCHANGED <<champion, history, ever, writer>> PROVE Held'
    BY <2>1, <2>9 DEF Held, OnePast, NoneLost, ChangeHolds, SaveHolds, WriteHolds, UnlinkHolds,
                      SourceHolds, Past, InArchives, Changing
  <2>10. ASSUME NEW o \in Operators, NEW c \in Candidates, Reject(o, c) PROVE Held'
    BY <2>9, <2>10 DEF Reject
  <2>11. CASE Tick \/ UNCHANGED vars
    BY <2>9, <2>11 DEF Tick, vars
  <2> QED
    BY <1>3, <2>2, <2>3, <2>4, <2>5, <2>6, <2>7, <2>8, <2>10, <2>11 DEF Next
<1> QED
  BY <1>1, <1>3

LEMMA AlwaysHeld == Spec => []ArchiveInv
<1>1. Init => ArchiveInv
  <2> SUFFICES ASSUME Init PROVE Held
    BY DEF ArchiveInv
  <2>1. ever = {} /\ \A w \in Writers : writer[w] = Idle /\ Idle.pc = "idle"
    BY DEF Init, Idle
  <2> QED
    BY <2>1 DEF Held, OnePast, NoneLost, ChangeHolds, SaveHolds, WriteHolds, UnlinkHolds,
                SourceHolds, Past, Changing
<1> QED
  BY <1>1, HeldStep, AlwaysTyped, PTL DEF Spec

\* ReplacedIsArchived: for any number of candidates, promotions, rollbacks and
\* deaths, as long as no two changes were under way at once.
THEOREM ReplacedAlwaysArchived == Spec => []ReplacedIsArchived
<1>1. ArchiveInv => ReplacedIsArchived
  BY DEF ArchiveInv, Held, NoneLost, InArchives, ReplacedIsArchived
<1> QED
  BY <1>1, AlwaysHeld, PTL

-----------------------------------------------------------------------------
(* What a rollback restores. *)

\* An archive about to be saved was named after all that are there: none is
\* added while a change that is alone is under way.
NamedLast(w) == writer[w].pc = "save" => \A h \in history : h.name.at <= writer[w].name.at
NamesInv == ~raced => \A w \in Writers : NamedLast(w)

\* A step that names and archives nothing.
LEMMA NamedKept ==
  ASSUME NamesInv, raced' = raced, history' \subseteq history,
         \A w \in Writers : writer'[w].pc = "save" => writer'[w] = writer[w]
  PROVE  NamesInv'
<1> SUFFICES ASSUME ~raced', NEW w \in Writers, writer'[w].pc = "save", NEW h \in history'
             PROVE  h.name.at <= writer'[w].name.at
  BY DEF NamesInv, NamedLast
<1>1. writer'[w] = writer[w] /\ h \in history
  OBVIOUS
<1>2. NamedLast(w)
  BY DEF NamesInv
<1> QED
  BY <1>1, <1>2 DEF NamedLast

LEMMA NamedArchive ==
  ASSUME Typed, NEW w \in Writers, Archive(w)
  PROVE  NamesInv'
<1>1. PICK p \in Processes : Becomes(w, p) /\ (p.pc = "save" => p.name.at = clock)
  BY PicksName
<1>2. writer'[w] = p /\ \A v \in Writers \ {w} : writer'[v] = writer[v]
  BY <1>1, Moved DEF Typed
<1>3. history' = history /\ (~raced' => \A v \in Writers \ {w} : ~Changing(v))
  BY DEF Archive
<1>4. \A h \in history : h.name.at <= clock
  BY DEF Typed, Archived
<1>5. NamedLast(w)'
  BY <1>1, <1>2, <1>3, <1>4 DEF NamedLast
<1>6. ASSUME ~raced', NEW v \in Writers \ {w} PROVE NamedLast(v)'
  BY <1>2, <1>3, <1>6 DEF NamedLast, Changing
<1> QED
  BY <1>5, <1>6 DEF NamesInv

LEMMA NamedSave ==
  ASSUME Typed, ArchiveInv, NEW w \in Writers, Save(w)
  PROVE  NamesInv'
<1> SUFFICES ASSUME ~raced, NEW v \in Writers PROVE writer'[v].pc # "save"
  BY DEF NamesInv, NamedLast, Save
<1>1. /\ writer[w].pc = "save" /\ writer'[w].pc = "write"
      /\ \A u \in Writers \ {w} : writer'[u] = writer[u]
  BY DEF Save, Goes, Typed, Processing, Processes
<1>2. \A u \in Writers \ {w} : ~Past(u)
  BY <1>1, OthersAreNotPast DEF ArchiveInv, Past
<1> QED
  BY <1>1, <1>2 DEF Past

LEMMA NamedStep == Typed /\ ArchiveInv /\ NamesInv /\ [Next]_vars => NamesInv'
<1> SUFFICES ASSUME Typed, ArchiveInv, NamesInv, [Next]_vars PROVE NamesInv'
  OBVIOUS
<1> USE DEF Writers
<1>1. ASSUME NEW w \in Writers, NEW p \in Processes, Becomes(w, p), p.pc # "save",
             raced' = raced, history' \subseteq history
      PROVE  NamesInv'
  <2>1. writer'[w] = p /\ \A v \in Writers \ {w} : writer'[v] = writer[v]
    BY <1>1, Moved DEF Typed
  <2>2. \A v \in Writers : writer'[v].pc = "save" => writer'[v] = writer[v]
    BY <1>1, <2>1
  <2> QED
    BY <1>1, <2>2, NamedKept
<1>2. ASSUME NEW d \in Dojos, NEW c \in Candidates, Stage(d, c) PROVE NamesInv'
  <2>1. PICK p \in Processes : Becomes(d, p) /\ p.pc = "staged"
    BY <1>2, Stages
  <2> QED
    BY <1>1, <1>2, <2>1 DEF Stage
<1>3. ASSUME NEW d \in Dojos, BeginTrial(d) PROVE NamesInv'
  <2>1. PICK p \in Processes : Becomes(d, p) /\ p.pc = "trial"
    BY <1>3, Tries
  <2> QED
    BY <1>1, <1>3, <2>1 DEF BeginTrial
<1>4. ASSUME NEW w \in Writers, TrialEnds(w) \/ Retire(w) \/ Unlink(w) \/ Death(w) PROVE NamesInv'
  <2>1. Becomes(w, Idle) /\ Idle.pc = "idle" /\ raced' = raced /\ history' \subseteq history
    BY <1>4 DEF TrialEnds, Retire, Unlink, Death, Becomes, Idle
  <2> QED
    BY <1>1, <2>1, IdleProper
<1>5. ASSUME NEW d \in Dojos, AutoPromote(d) PROVE NamesInv'
  <2>1. writer[d].pc # "idle" /\ raced' = raced /\ history' = history /\ clock' = clock
    BY <1>5 DEF AutoPromote
  <2> DEFINE p == [writer[d] EXCEPT !.pc = "archive"]
  <2>2. p \in Processes /\ p.pc = "archive" /\ Becomes(d, p)
    BY <1>5 DEF AutoPromote, Goes, Becomes, Typed, Processing, Processes, PCs
  <2> HIDE DEF p
  <2> QED
    BY <1>1, <2>1, <2>2
<1>6. ASSUME NEW o \in Operators, NEW c \in Candidates, PromoteByHand(o, c) PROVE NamesInv'
  <2>1. PICK p \in Processes : Becomes(o, p) /\ p.pc = "archive"
    BY <1>6, Chooses
  <2> QED
    BY <1>1, <1>6, <2>1 DEF PromoteByHand
<1>7. ASSUME NEW o \in Operators, Rollback(o) PROVE NamesInv'
  <2>1. PICK p \in Processes : Becomes(o, p) /\ p.pc = "archive"
    BY <1>7, TakesLast
  <2> QED
    BY <1>1, <1>7, <2>1 DEF Rollback
<1>8. ASSUME NEW w \in Writers, WriteChampion(w) PROVE NamesInv'
  <2>1. raced' = raced /\ history' = history
    BY <1>8 DEF WriteChampion
  <2>2. /\ writer'[w].pc # "save"
        /\ \A v \in Writers \ {w} : writer'[v] = writer[v]
    BY <1>8 DEF WriteChampion, Goes, Typed, Processing, Processes
  <2> QED
    BY <2>1, <2>2, NamedKept
<1>9. ASSUME UNCHANGED <<history, writer, raced>> PROVE NamesInv'
  BY <1>9 DEF NamesInv, NamedLast
<1>10. ASSUME NEW o \in Operators, NEW c \in Candidates, Reject(o, c) PROVE NamesInv'
  BY <1>9, <1>10 DEF Reject
<1>11. CASE Tick \/ UNCHANGED vars
  BY <1>9, <1>11 DEF Tick, vars
<1>12. ASSUME NEW w \in Writers, Archive(w) \/ Save(w) PROVE NamesInv'
  BY <1>12, NamedArchive, NamedSave
<1> QED
  BY <1>2, <1>3, <1>4, <1>5, <1>6, <1>7, <1>8, <1>10, <1>11, <1>12 DEF Next

LEMMA AlwaysNamed == Spec => []NamesInv
<1>1. Init => NamesInv
  BY DEF Init, NamesInv, NamedLast
<1> QED
  BY <1>1, NamedStep, AlwaysTyped, AlwaysHeld, PTL DEF Spec

\* An archive of a later second than all others sorts after them, and is taken.
LEMMA LatestSortsLast ==
  ASSUME Archived', NEW new \in history', \A h \in history' \ {new} : h.name.at < new.name.at
  PROVE  LastArchived' = new
<1> DEFINE SortsLast(h) == \A g \in history' \ {h} : SortsAfter(h.name, g.name)
<1>1. \A h \in history' : h.name.at \in Int
  BY DEF Archived, Archives, Names
<1>2. SortsLast(new)
  BY <1>1 DEF SortsAfter
<1>3. ASSUME NEW h \in history', SortsLast(h) PROVE h = new
  <2> SUFFICES ASSUME h # new PROVE FALSE
    OBVIOUS
  <2>1. SortsAfter(h.name, new.name) /\ h.name.at < new.name.at
    BY <1>3
  <2> QED
    BY <1>1, <2>1 DEF SortsAfter
<1> HIDE DEF SortsLast
<1>4. (CHOOSE h \in history' : SortsLast(h)) = new
  BY <1>2, <1>3
<1> QED
  BY <1>4 DEF LastArchived, SortsLast

LEMMA SavedSortsLast ==
  ASSUME Typed, NamesInv, ~raced, NEW w \in Writers, Save(w),
         \A h \in history : h.name.at # writer[w].name.at
  PROVE  LastArchived'.name = writer[w].name
<1> DEFINE new == [name |-> writer[w].name, id |-> writer[w].outgoing]
<1>1. Archived'
  BY SavedArchived
<1>2. new.name = writer[w].name /\ history' \subseteq history \cup {new} /\ new \in history'
  BY DEF Save
<1>3. writer[w].name.at \in Int /\ \A h \in history : h.name.at \in Int
  BY DEF Typed, Archived, Archives, Processing, Processes, Names
<1>4. \A h \in history : h.name.at <= writer[w].name.at
  BY DEF NamesInv, NamedLast, Save
<1>5. \A h \in history : h.name.at < writer[w].name.at
  BY <1>3, <1>4
<1> HIDE DEF new
<1>6. \A h \in history' \ {new} : h.name.at < new.name.at
  BY <1>2, <1>5
<1>7. LastArchived' = new
  BY <1>1, <1>2, <1>6, LatestSortsLast
<1> QED
  BY <1>2, <1>7

\* LatestIsRestored: for any number of archives, whenever they were saved.
THEOREM LatestAlwaysRestored == Spec => LatestIsRestored
<1> DEFINE Lasts == \A w \in Writers :
                      /\ Save(w) /\ ~raced
                      /\ \A h \in history : h.name.at # writer[w].name.at
                      => LastArchived'.name = writer[w].name
<1>1. Typed /\ NamesInv => Lasts
  BY SavedSortsLast
<1>2. Typed /\ NamesInv /\ [Next]_vars => [Lasts]_vars
  BY <1>1
<1>3. Spec => [][Lasts]_vars
  BY <1>2, AlwaysTyped, AlwaysNamed, PTL DEF Spec
<1> QED
  BY <1>3 DEF LatestIsRestored
=============================================================================
