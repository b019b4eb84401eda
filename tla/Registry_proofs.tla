--------------------------- MODULE Registry_proofs ---------------------------
(***************************************************************************)
(* The safety properties of Registry, for all roles, groups, trainers and  *)
(* numbers of runs.                                                        *)
(*                                                                         *)
(* A run that is alone has the directory for itself (AloneIsAlone), so     *)
(* what it wrote is what it hashes, and what it saved stays                *)
(* (LoneRunWrites).  LoaderHolds says what the loader holds of each file   *)
(* it read; and while nobody wrote to the group since it was complete, all *)
(* of that is of one run (CleanGroup).                                     *)
(***************************************************************************)
EXTENDS Registry, TLAPS

-----------------------------------------------------------------------------
(* Types. *)

\* One step of a trainer is one new record of it.
Becomes(t, new) == trainer' = [trainer EXCEPT ![t] = new]

Writing(me) == me.pc \in {"dump", "hash", "meta"}

\* A run that writes has a role in hand, after those it has saved.
Proper(me) ==
  /\ \A r \in me.saved : r < me.role
  /\ Writing(me) => me.role \in Roles

ProperTrainers == \A t \in Trainers : Proper(trainer[t])

LEMMA TrainerStep ==
  ASSUME TypeOK, ProperTrainers, NEW t \in Trainers, NEW new \in Trainings, Becomes(t, new), Proper(new)
  PROVE  /\ trainer' \in [Trainers -> Trainings]
         /\ \A u \in Trainers : \A r \in trainer'[u].saved : r < trainer'[u].role
         /\ ProperTrainers'
<1>1. trainer' \in [Trainers -> Trainings]
  BY DEF TypeOK, Becomes
<1>2. \A u \in Trainers : Proper(trainer'[u])
  BY DEF TypeOK, Becomes, ProperTrainers
<1> QED
  BY <1>1, <1>2 DEF ProperTrainers, Proper

LEMMA OneMore ==
  ASSUME NEW n \in 0 .. MaxRuns, n < MaxRuns
  PROVE  n + 1 \in Runs /\ n + 1 \in 0 .. MaxRuns
BY RegistryAssumption DEF Runs

LEMMA Constants ==
  /\ RoleCount \in Nat /\ MaxRuns \in Nat /\ Group \subseteq Roles /\ Group # {}
  /\ Roles \subseteq 1 .. RoleCount + 1 /\ 0 \in Runs \cup {0} /\ 1 \in 1 .. RoleCount + 1
  /\ NoContent \in Contents /\ NoMeta \in Metas /\ Off \in Trainings
  /\ NotLoading \in Loadings
<1>1. /\ RoleCount \in Nat /\ MaxRuns \in Nat /\ Group \subseteq Roles /\ Group # {}
      /\ Roles \subseteq 1 .. RoleCount + 1 /\ 1 \in 1 .. RoleCount + 1
  BY RegistryAssumption DEF Roles
<1>2. NoContent \in Contents
  BY DEF NoContent, Contents
<1>3. NoMeta \in Metas
  BY <1>2 DEF NoMeta, Metas
<1>4. Off \in Trainings
  BY <1>1, <1>2 DEF Off, Trainings
<1>5. NothingLoaded \in [Roles -> [model : Contents, meta : Metas, raced : BOOLEAN]]
  BY <1>2, <1>3 DEF NothingLoaded
<1>6. (CHOOSE r \in Group : TRUE) \in Roles
  BY <1>1
<1>7. NotLoading \in Loadings
  BY <1>3, <1>5, <1>6 DEF NotLoading, Loadings
<1> QED
  BY <1>1, <1>2, <1>3, <1>4, <1>7

LEMMA TypeInit == Init => TypeOK /\ ProperTrainers
<1> SUFFICES ASSUME Init PROVE TypeOK /\ ProperTrainers
  OBVIOUS
<1>1. artifact \in [Roles -> Contents] /\ meta \in [Roles -> Metas] /\ loader \in Loadings
  BY Constants DEF Init
<1>2. /\ trainer \in [Trainers -> Trainings]
      /\ \A t \in Trainers : \A r \in trainer[t].saved : r < trainer[t].role
  BY Constants DEF Init, Off
<1>3. 0 \in 0 .. MaxRuns
  BY RegistryAssumption
<1>4. group \in 0 .. MaxRuns /\ runs \in 0 .. MaxRuns
  BY <1>3 DEF Init
<1>5. dirty \in BOOLEAN
  BY DEF Init
<1> QED
  BY <1>1, <1>2, <1>4, <1>5 DEF TypeOK, ProperTrainers, Proper, Writing, Init, Off

\* What a write to an artifact makes of the loader.
LEMMA DisturbedTyped ==
  ASSUME TypeOK, NEW r \in Roles
  PROVE  Disturbed(r) \in Loadings
BY DEF TypeOK, Disturbed, Loadings, RacesLoad

\* The trainers and the files, and the loader, of a typed state.
FilesTyped ==
  /\ artifact \in [Roles -> Contents] /\ meta \in [Roles -> Metas]
  /\ group \in 0 .. MaxRuns /\ runs \in 0 .. MaxRuns /\ dirty \in BOOLEAN

LEMMA Assembled ==
  ASSUME FilesTyped, loader \in Loadings, trainer \in [Trainers -> Trainings],
         \A u \in Trainers : \A r \in trainer[u].saved : r < trainer[u].role
  PROVE  TypeOK
BY DEF FilesTyped, TypeOK

\* A step of one trainer keeps the types when the files and the loader keep theirs.
LEMMA TrainerKeepsTypes ==
  ASSUME TypeOK, ProperTrainers, NEW t \in Trainers, NEW new \in Trainings,
         Becomes(t, new), Proper(new), FilesTyped', loader' \in Loadings
  PROVE  TypeOK' /\ ProperTrainers'
BY TrainerStep DEF FilesTyped, TypeOK

LEMMA StartKeepsTypes ==
  ASSUME TypeOK, ProperTrainers, NEW t \in Trainers, StartRun(t)
  PROVE  TypeOK' /\ ProperTrainers'
<1> DEFINE first == [Off EXCEPT !.pc = "fit", !.run = runs + 1,
                                !.alone = \A v \in Trainers \ {t} : ~Active(v)]
<1>1. runs + 1 \in Runs /\ runs + 1 \in 0 .. MaxRuns
  BY OneMore DEF TypeOK, StartRun
<1>2. first \in Trainings /\ first.saved = {} /\ first.pc = "fit"
  BY <1>1, Constants DEF Off, Trainings
<1>3. \A u \in Trainers : [trainer[u] EXCEPT !.alone = FALSE] \in Trainings
  BY DEF TypeOK, Trainings
<1>4. trainer' = [u \in Trainers |-> IF u = t THEN first ELSE [trainer[u] EXCEPT !.alone = FALSE]]
  BY DEF StartRun
<1> HIDE DEF first
<1>5. trainer' \in [Trainers -> Trainings]
  BY <1>2, <1>3, <1>4
<1>6. ASSUME NEW u \in Trainers PROVE Proper(trainer'[u])
  <2>1. CASE u = t
    BY <2>1, <1>2, <1>4 DEF Proper, Writing
  <2>2. CASE u # t
    <3>1. /\ trainer'[u].saved = trainer[u].saved /\ trainer'[u].role = trainer[u].role
          /\ trainer'[u].pc = trainer[u].pc
      BY <2>2, <1>4 DEF TypeOK, Trainings
    <3> QED
      BY <3>1 DEF ProperTrainers, Proper, Writing
  <2> QED
    BY <2>1, <2>2
<1> QED
  BY <1>1, <1>5, <1>6 DEF StartRun, disk, TypeOK, ProperTrainers, Proper

LEMMA TrainersKeepTypes ==
  ASSUME TypeOK, ProperTrainers, NEW t \in Trainers,
         \/ SkipRole(t) \/ OpenArtifact(t) \/ CloseArtifact(t)
         \/ HashArtifact(t) \/ WriteMeta(t) \/ Finish(t) \/ Die(t)
  PROVE  TypeOK' /\ ProperTrainers'
<1>a. trainer[t] \in Trainings /\ Proper(trainer[t])
  BY DEF TypeOK, ProperTrainers
<1>1. CASE SkipRole(t)
  <2> DEFINE new == [trainer[t] EXCEPT !.role = NextRole(@)]
  <2>1. new \in Trainings /\ Proper(new) /\ Becomes(t, new)
    BY <1>1, <1>a, RegistryAssumption DEF SkipRole, Becomes, Trainings, NextRole, Roles, Proper, Writing
  <2>2. FilesTyped' /\ loader' \in Loadings
    BY <1>1 DEF SkipRole, disk, TypeOK, FilesTyped
  <2> QED
    BY <2>1, <2>2, TrainerKeepsTypes
<1>2. CASE OpenArtifact(t)
  <2> DEFINE new == [trainer[t] EXCEPT !.pc = "dump"]
  <2>1. new \in Trainings /\ Proper(new) /\ Becomes(t, new)
    BY <1>2, <1>a DEF OpenArtifact, Becomes, Trainings, Proper, Writing
  <2>2. [run |-> trainer[t].run, whole |-> FALSE] \in Contents
    BY <1>a DEF Trainings, Contents
  <2>3. artifact' \in [Roles -> Contents]
    BY <1>2, <2>2 DEF TypeOK, OpenArtifact
  <2>4. loader' \in Loadings
    BY <1>2, DisturbedTyped DEF OpenArtifact
  <2>5. dirty' \in BOOLEAN
    BY <1>2 DEF TypeOK, OpenArtifact
  <2>6. FilesTyped'
    BY <1>2, <2>3, <2>5 DEF OpenArtifact, TypeOK, FilesTyped
  <2> QED
    BY <2>1, <2>4, <2>6, TrainerKeepsTypes
<1>3. CASE CloseArtifact(t)
  <2> DEFINE new == [trainer[t] EXCEPT !.pc = "hash"]
  <2>1. new \in Trainings /\ Proper(new) /\ Becomes(t, new)
    BY <1>3, <1>a DEF CloseArtifact, Becomes, Trainings, Proper, Writing
  <2>2. \A r \in Roles : [artifact[r] EXCEPT !.whole = TRUE] \in Contents
    BY DEF TypeOK, Contents
  <2>3. artifact' \in [Roles -> Contents]
    BY <1>3, <2>2 DEF TypeOK, CloseArtifact
  <2>4. loader' \in Loadings
    BY <1>3, <1>a, DisturbedTyped DEF CloseArtifact, Proper, Writing
  <2>5. FilesTyped'
    BY <1>3, <2>3 DEF CloseArtifact, TypeOK, FilesTyped
  <2> QED
    BY <2>1, <2>4, <2>5, TrainerKeepsTypes
<1>4. CASE HashArtifact(t)
  <2> DEFINE new == [trainer[t] EXCEPT !.pc = "meta", !.hash = FileHash(trainer[t].role)]
  <2>1. FileHash(trainer[t].role) \in Contents
    BY <1>4, <1>a DEF HashArtifact, FileHash, Proper, Writing, TypeOK
  <2>2. new \in Trainings /\ Proper(new) /\ Becomes(t, new)
    BY <1>4, <1>a, <2>1 DEF HashArtifact, Becomes, Trainings, Proper, Writing
  <2>3. FilesTyped' /\ loader' \in Loadings
    BY <1>4 DEF HashArtifact, disk, TypeOK, FilesTyped
  <2> QED
    BY <2>2, <2>3, TrainerKeepsTypes
<1>5. CASE WriteMeta(t)
  <2> DEFINE new == [trainer[t] EXCEPT !.pc = "fit", !.role = NextRole(@), !.saved = @ \cup {trainer[t].role}]
             file == [run |-> trainer[t].run, hash |-> trainer[t].hash, alone |-> trainer[t].alone]
  <2>1. trainer[t].role \in Roles
    BY <1>5, <1>a DEF WriteMeta, Proper, Writing
  <2>2. new \in Trainings
    <3>1. trainer[t].saved \cup {trainer[t].role} \in SUBSET Roles
      BY <1>a, <2>1 DEF Trainings
    <3>2. NextRole(trainer[t].role) \in 1 .. RoleCount + 1
      BY <2>1, RegistryAssumption DEF NextRole, Roles
    <3> QED
      BY <1>a, <3>1, <3>2 DEF Trainings
  <2>3. Proper(new)
    BY <1>a, <2>1, RegistryAssumption DEF Trainings, NextRole, Roles, Proper, Writing
  <2>4. Becomes(t, new)
    BY <1>5 DEF WriteMeta, Becomes
  <2>5. file \in Metas
    BY <1>a DEF Trainings, Metas
  <2>6. FilesTyped' /\ loader' \in Loadings
    BY <1>5, <2>5 DEF WriteMeta, TypeOK, FilesTyped
  <2> QED
    BY <2>2, <2>3, <2>4, <2>6, TrainerKeepsTypes
<1>6. CASE Finish(t)
  <2>1. Off \in Trainings /\ Proper(Off) /\ Becomes(t, Off)
    BY <1>6, Constants DEF Finish, Becomes, Off, Proper, Writing
  <2>2. group' \in 0 .. MaxRuns
    BY <1>6, <1>a, RegistryAssumption DEF Finish, TypeOK, Trainings, Runs
  <2>3. dirty' \in BOOLEAN
    BY <1>6 DEF Finish, TypeOK
  <2>4. FilesTyped' /\ loader' \in Loadings
    BY <1>6, <2>2, <2>3 DEF Finish, TypeOK, FilesTyped
  <2> QED
    BY <2>1, <2>4, TrainerKeepsTypes
<1>7. CASE Die(t)
  <2>1. Off \in Trainings /\ Proper(Off) /\ Becomes(t, Off)
    BY <1>7, Constants DEF Die, Becomes, Off, Proper, Writing
  <2>2. FilesTyped' /\ loader' \in Loadings
    BY <1>7 DEF Die, disk, TypeOK, FilesTyped
  <2> QED
    BY <2>1, <2>2, TrainerKeepsTypes
<1> QED
  BY <1>1, <1>2, <1>3, <1>4, <1>5, <1>6, <1>7

LEMMA LoaderKeepsTypes ==
  ASSUME TypeOK, ProperTrainers, ReadGroup \/ ReadMeta \/ CheckHash \/ LoadModel \/ Restart
  PROVE  TypeOK' /\ ProperTrainers'
<1>a. loader \in Loadings /\ NotLoading \in Loadings
  BY Constants DEF TypeOK
<1>1. CASE ReadGroup
  <2>1. PICK r \in Group : loader' = [NotLoading EXCEPT !.pc = "meta", !.left = Group \ {r}, !.role = r,
                                                  !.run = group, !.calm = ~dirty]
    BY <1>1 DEF ReadGroup
  <2>2. r \in Roles /\ Group \ {r} \in SUBSET Roles
    BY RegistryAssumption
  <2>3. group \in Runs \cup {0}
    BY RegistryAssumption DEF TypeOK, Runs
  <2>4. loader' \in Loadings
    BY <1>a, <2>1, <2>2, <2>3 DEF Loadings
  <2> QED
    BY <1>1, <2>4 DEF ReadGroup, disk, TypeOK, ProperTrainers
<1>2. CASE ReadMeta
  <2>1. meta[loader.role] \in Metas
    BY <1>a DEF TypeOK, Loadings
  <2>2. loader' \in Loadings
    BY <1>2, <1>a, <2>1 DEF ReadMeta, Unavailable, Loadings
  <2> QED
    BY <1>2, <2>2 DEF ReadMeta, disk, TypeOK, ProperTrainers
<1>3. CASE CheckHash
  <2>1. loader' \in Loadings
    BY <1>3, <1>a DEF CheckHash, Unavailable, Loadings
  <2> QED
    BY <1>3, <2>1 DEF CheckHash, disk, TypeOK, ProperTrainers
<1>4. CASE LoadModel
  <2> DEFINE r == loader.role
             got == [loader.got EXCEPT ![r] =
                       [model |-> artifact[r], meta |-> loader.meta, raced |-> loader.raced]]
  <2>1. got \in [Roles -> [model : Contents, meta : Metas, raced : BOOLEAN]]
    <3>1. [model |-> artifact[r], meta |-> loader.meta, raced |-> loader.raced]
            \in [model : Contents, meta : Metas, raced : BOOLEAN]
      BY <1>a DEF TypeOK, Loadings
    <3> QED
      BY <3>1, <1>a DEF Loadings
  <2>2. \/ \E s \in loader.left :
              loader' = [loader EXCEPT !.pc = "meta", !.got = got, !.role = s, !.left = @ \ {s}]
        \/ loader' = [loader EXCEPT !.pc = "served", !.got = got]
        \/ loader' = [loader EXCEPT !.pc = "crashed"]
    BY <1>4 DEF LoadModel
  <2> HIDE DEF got
  <2>3. loader' \in Loadings
    <3>1. ASSUME NEW s \in loader.left,
                 loader' = [loader EXCEPT !.pc = "meta", !.got = got, !.role = s, !.left = @ \ {s}]
          PROVE  loader' \in Loadings
      <4>1. s \in Roles /\ loader.left \ {s} \in SUBSET Roles
        BY <1>a DEF Loadings
      <4> QED
        BY <1>a, <2>1, <3>1, <4>1 DEF Loadings
    <3>2. CASE loader' = [loader EXCEPT !.pc = "served", !.got = got]
      BY <1>a, <2>1, <3>2 DEF Loadings
    <3>3. CASE loader' = [loader EXCEPT !.pc = "crashed"]
      BY <1>a, <3>3 DEF Loadings
    <3> QED
      BY <2>2, <3>1, <3>2, <3>3
  <2> QED
    BY <1>4, <2>3 DEF LoadModel, disk, TypeOK, ProperTrainers
<1>5. CASE Restart
  BY <1>5, <1>a DEF Restart, disk, TypeOK, ProperTrainers
<1> QED
  BY <1>1, <1>2, <1>3, <1>4, <1>5

LEMMA NextType == TypeOK /\ ProperTrainers /\ [Next]_vars => TypeOK' /\ ProperTrainers'
<1> SUFFICES ASSUME TypeOK, ProperTrainers, [Next]_vars PROVE TypeOK' /\ ProperTrainers'
  OBVIOUS
<1>1. CASE UNCHANGED vars
  BY <1>1 DEF vars, disk, TypeOK, ProperTrainers
<1>2. CASE Next
  BY <1>2, StartKeepsTypes, TrainersKeepTypes, LoaderKeepsTypes DEF Next
<1> QED
  BY <1>1, <1>2

Typed == TypeOK /\ ProperTrainers

-----------------------------------------------------------------------------
(* Runs, alone and not. *)

\* What a step of one run, after its start, leaves of the trainers.
Acts(t) ==
  \/ SkipRole(t) \/ OpenArtifact(t) \/ CloseArtifact(t)
  \/ HashArtifact(t) \/ WriteMeta(t) \/ Finish(t) \/ Die(t)

LEMMA OneActs ==
  ASSUME Typed, NEW t \in Trainers, Acts(t)
  PROVE  /\ Active(t)
         /\ \A u \in Trainers \ {t} : trainer'[u] = trainer[u]
         /\ \/ trainer'[t] = Off
            \/ trainer'[t].run = trainer[t].run /\ trainer'[t].alone = trainer[t].alone
<1>a. trainer \in [Trainers -> Trainings] /\ trainer[t] \in Trainings
  BY DEF Typed, TypeOK
<1>1. CASE SkipRole(t)
  BY <1>1, <1>a DEF SkipRole, Active, Trainings
<1>2. CASE OpenArtifact(t)
  BY <1>2, <1>a DEF OpenArtifact, Active, Trainings
<1>3. CASE CloseArtifact(t)
  BY <1>3, <1>a DEF CloseArtifact, Active, Trainings
<1>4. CASE HashArtifact(t)
  BY <1>4, <1>a DEF HashArtifact, Active, Trainings
<1>5. CASE WriteMeta(t)
  BY <1>5, <1>a DEF WriteMeta, Active, Trainings
<1>6. CASE Finish(t)
  BY <1>6, <1>a DEF Finish, Active, Trainings
<1>7. CASE Die(t)
  BY <1>7, <1>a DEF Die, Active, Trainings
<1> QED
  BY <1>1, <1>2, <1>3, <1>4, <1>5, <1>6, <1>7 DEF Acts

LEMMA Starts ==
  ASSUME Typed, NEW t \in Trainers, StartRun(t)
  PROVE  /\ ~Active(t)
         /\ trainer'[t].pc = "fit" /\ trainer'[t].run = runs + 1 /\ trainer'[t].saved = {}
         /\ trainer'[t].alone = \A v \in Trainers \ {t} : ~Active(v)
         /\ \A u \in Trainers \ {t} :
              /\ trainer'[u].alone = FALSE /\ trainer'[u].pc = trainer[u].pc
              /\ trainer'[u].run = trainer[u].run /\ trainer'[u].role = trainer[u].role
              /\ trainer'[u].saved = trainer[u].saved
<1>1. trainer'[t] = [Off EXCEPT !.pc = "fit", !.run = runs + 1,
                                !.alone = \A v \in Trainers \ {t} : ~Active(v)]
  BY DEF StartRun
<1>2. \A u \in Trainers \ {t} : trainer'[u] = [trainer[u] EXCEPT !.alone = FALSE]
  BY DEF StartRun
<1>3. /\ trainer'[t].pc = "fit" /\ trainer'[t].run = runs + 1 /\ trainer'[t].saved = {}
      /\ trainer'[t].alone = \A v \in Trainers \ {t} : ~Active(v)
  BY <1>1 DEF Off
<1>4. ASSUME NEW u \in Trainers \ {t}
      PROVE  /\ trainer'[u].alone = FALSE /\ trainer'[u].pc = trainer[u].pc
             /\ trainer'[u].run = trainer[u].run /\ trainer'[u].role = trainer[u].role
             /\ trainer'[u].saved = trainer[u].saved
  <2>1. trainer[u] \in Trainings
    BY DEF Typed, TypeOK
  <2> QED
    BY <1>2, <2>1 DEF Trainings
<1> QED
  BY <1>3, <1>4 DEF StartRun

\* A run that is alone is the only one under way, and every run has a number.
AloneIsAlone ==
  /\ \A t, u \in Trainers : t # u /\ Active(t) /\ trainer[t].alone => ~Active(u)
  /\ \A t \in Trainers : Active(t) => trainer[t].run # 0

LEMMA AloneStep ==
  ASSUME Typed, AloneIsAlone, Next
  PROVE  AloneIsAlone'
<1>1. ASSUME NEW t \in Trainers, StartRun(t) PROVE AloneIsAlone'
  <2>1. runs + 1 # 0
    BY RegistryAssumption DEF Typed, TypeOK
  <2>2. ASSUME NEW u \in Trainers, NEW v \in Trainers, u # v, Active(u)', trainer'[u].alone
        PROVE  ~Active(v)'
    <3>1. u = t
      BY <1>1, <2>2, Starts
    <3>2. ~Active(v) /\ trainer'[v].pc = trainer[v].pc
      BY <1>1, <2>2, <3>1, Starts
    <3> QED
      BY <3>2 DEF Active
  <2>3. ASSUME NEW u \in Trainers, Active(u)' PROVE trainer'[u].run # 0
    <3>1. CASE u = t
      BY <1>1, <2>1, <3>1, Starts
    <3>2. CASE u # t
      <4>1. trainer'[u].run = trainer[u].run /\ trainer'[u].pc = trainer[u].pc
        BY <1>1, <3>2, Starts
      <4> QED
        BY <2>3, <4>1 DEF AloneIsAlone, Active
    <3> QED
      BY <3>1, <3>2
  <2> QED
    BY <2>2, <2>3 DEF AloneIsAlone
<1>2. ASSUME NEW t \in Trainers, Acts(t) PROVE AloneIsAlone'
  <2>1. Off.pc = "off"
    BY DEF Off
  <2> QED
    BY <1>2, <2>1, OneActs DEF AloneIsAlone, Active
<1>3. CASE ReadGroup \/ ReadMeta \/ CheckHash \/ LoadModel \/ Restart
  BY <1>3 DEF ReadGroup, ReadMeta, CheckHash, LoadModel, Restart, AloneIsAlone, Active
<1> QED
  BY <1>1, <1>2, <1>3 DEF Next, Acts

-----------------------------------------------------------------------------
(* What a run that is alone has written. *)

Whole(run) == [run |-> run, whole |-> TRUE]

LoneWrites(me) ==
  /\ me.pc = "dump" => artifact[me.role].run = me.run
  /\ me.pc \in {"hash", "meta"} => artifact[me.role] = Whole(me.run)
  /\ me.pc = "meta" => me.hash = Whole(me.run)
  /\ \A r \in me.saved : artifact[r] = Whole(me.run) /\ meta[r].run = me.run

LoneRunWrites == \A t \in Trainers : Active(t) /\ trainer[t].alone => LoneWrites(trainer[t])

LEMMA LoneStep ==
  ASSUME Typed, AloneIsAlone, LoneRunWrites, Next
  PROVE  LoneRunWrites'
<1>1. ASSUME NEW t \in Trainers, StartRun(t) PROVE LoneRunWrites'
  <2>1. ASSUME NEW u \in Trainers, Active(u)', trainer'[u].alone PROVE LoneWrites(trainer[u])'
    <3>1. u = t
      BY <1>1, <2>1, Starts
    <3> QED
      BY <1>1, <3>1, Starts DEF LoneWrites
  <2> QED
    BY <2>1 DEF LoneRunWrites
<1>2. ASSUME NEW t \in Trainers, Acts(t) PROVE LoneRunWrites'
  <2> SUFFICES ASSUME NEW u \in Trainers, Active(u)', trainer'[u].alone
               PROVE  LoneWrites(trainer[u])'
    BY DEF LoneRunWrites
  <2>1. u = t
    BY <1>2, OneActs DEF AloneIsAlone, Active
  <2>2. trainer[t].alone /\ trainer'[t] # Off /\ Active(t)
    BY <1>2, <2>1, OneActs DEF Active, Off
  <2>3. LoneWrites(trainer[t]) /\ Proper(trainer[t]) /\ trainer[t] \in Trainings
    BY <2>2 DEF LoneRunWrites, Typed, TypeOK, ProperTrainers
  <2>4. artifact \in [Roles -> Contents] /\ meta \in [Roles -> Metas] /\ trainer \in [Trainers -> Trainings]
    BY DEF Typed, TypeOK
  <2>5. \A r \in trainer[t].saved : r \in Roles /\ r # trainer[t].role
    BY <2>3 DEF Proper, Trainings, Roles
  <2>6. LoneWrites(trainer[t])'
    <3>1. CASE SkipRole(t)
      BY <3>1, <2>3, <2>4 DEF SkipRole, disk, LoneWrites, Trainings
    <3>2. CASE OpenArtifact(t)
      <4>1. /\ trainer'[t].pc = "dump" /\ trainer'[t].role = trainer[t].role
            /\ trainer'[t].run = trainer[t].run /\ trainer'[t].saved = trainer[t].saved
        BY <3>2, <2>3, <2>4 DEF OpenArtifact, Trainings
      <4>2. artifact'[trainer[t].role].run = trainer[t].run
        BY <3>2, <2>4 DEF OpenArtifact
      <4>3. \A r \in trainer[t].saved : artifact'[r] = artifact[r] /\ meta'[r] = meta[r]
        BY <3>2, <2>4, <2>5 DEF OpenArtifact
      <4> QED
        BY <4>1, <4>2, <4>3, <2>3 DEF LoneWrites
    <3>3. CASE CloseArtifact(t)
      <4>1. /\ trainer'[t].pc = "hash" /\ trainer'[t].role = trainer[t].role
            /\ trainer'[t].run = trainer[t].run /\ trainer'[t].saved = trainer[t].saved
        BY <3>3, <2>3, <2>4 DEF CloseArtifact, Trainings
      <4>2. artifact[trainer[t].role].run = trainer[t].run /\ trainer[t].role \in Roles
        BY <3>3, <2>3 DEF CloseArtifact, LoneWrites, Proper, Writing
      <4>3. artifact' = [artifact EXCEPT ![trainer[t].role].whole = TRUE]
        BY <3>3, <2>2 DEF CloseArtifact
      <4>4. artifact'[trainer[t].role] = Whole(trainer[t].run)
        BY <4>2, <4>3, <2>4 DEF Contents, Whole
      <4>5. \A r \in trainer[t].saved : artifact'[r] = artifact[r] /\ meta'[r] = meta[r]
        BY <3>3, <4>3, <2>4, <2>5 DEF CloseArtifact
      <4> QED
        BY <4>1, <4>4, <4>5, <2>3 DEF LoneWrites
    <3>4. CASE HashArtifact(t)
      BY <3>4, <2>3, <2>4 DEF HashArtifact, FileHash, disk, LoneWrites, Trainings
    <3>5. CASE WriteMeta(t)
      <4>1. /\ trainer'[t].pc = "fit" /\ trainer'[t].run = trainer[t].run
            /\ trainer'[t].saved = trainer[t].saved \cup {trainer[t].role}
        BY <3>5, <2>3, <2>4 DEF WriteMeta, Trainings
      <4>2. trainer[t].role \in Roles
        BY <3>5, <2>3 DEF WriteMeta, Proper, Writing
      <4>3. artifact' = artifact /\ meta'[trainer[t].role].run = trainer[t].run
        BY <3>5, <4>2, <2>4 DEF WriteMeta
      <4>4. \A r \in trainer[t].saved : meta'[r] = meta[r]
        BY <3>5, <2>4, <2>5 DEF WriteMeta
      <4>5. artifact[trainer[t].role] = Whole(trainer[t].run)
        BY <3>5, <2>3 DEF WriteMeta, LoneWrites
      <4> QED
        BY <4>1, <4>3, <4>4, <4>5, <2>3 DEF LoneWrites
    <3>6. CASE Finish(t) \/ Die(t)
      BY <3>6, <2>2, <2>4 DEF Finish, Die
    <3> QED
      BY <1>2, <3>1, <3>2, <3>3, <3>4, <3>5, <3>6 DEF Acts
  <2> QED
    BY <2>1, <2>6
<1>3. CASE ReadGroup \/ ReadMeta \/ CheckHash \/ LoadModel \/ Restart
  <2>1. trainer' = trainer /\ artifact' = artifact /\ meta' = meta
    BY <1>3 DEF ReadGroup, ReadMeta, CheckHash, LoadModel, Restart, disk
  <2> QED
    BY <2>1 DEF LoneRunWrites, LoneWrites, Active
<1> QED
  BY <1>1, <1>2, <1>3 DEF Next, Acts

LEMMA MetadataStep ==
  ASSUME Typed, LoneRunWrites, MetadataIsOfItsModel, Next
  PROVE  MetadataIsOfItsModel'
<1>1. ASSUME NEW t \in Trainers, WriteMeta(t) PROVE MetadataIsOfItsModel'
  <2>1. meta \in [Roles -> Metas] /\ trainer[t] \in Trainings
    BY DEF Typed, TypeOK
  <2>2. trainer[t].alone => trainer[t].hash = Whole(trainer[t].run)
    BY <1>1 DEF WriteMeta, LoneRunWrites, LoneWrites, Active
  <2> QED
    BY <1>1, <2>1, <2>2 DEF WriteMeta, MetadataIsOfItsModel, Whole
<1>2. CASE UNCHANGED meta
  BY <1>2 DEF MetadataIsOfItsModel
<1> QED
  BY <1>1, <1>2 DEF Next, disk, StartRun, SkipRole, OpenArtifact, CloseArtifact, HashArtifact,
                    Finish, Die, ReadGroup, ReadMeta, CheckHash, LoadModel, Restart

-----------------------------------------------------------------------------
(* What the loader holds. *)

Vouched(got) == ~got.raced => got.model = got.meta.hash

\* The roles the loader has loaded.
Loaded == IF loader.pc = "served" THEN Group ELSE Group \ (loader.left \cup {loader.role})

LoaderHolds ==
  /\ loader.pc \in {"meta", "hash", "load"} =>
       loader.left \subseteq Group /\ loader.role \in Group /\ loader.role \notin loader.left
  /\ loader.pc \in {"meta", "hash", "load"} => \A r \in Group : meta[r].run # 0
  /\ loader.pc \in {"hash", "load"} /\ loader.meta.alone => loader.meta.hash.whole
  /\ loader.pc = "load" /\ ~loader.raced => artifact[loader.role] = loader.meta.hash
  /\ loader.pc \in {"meta", "hash", "load", "served"} => \A r \in Loaded : Vouched(loader.got[r])
  /\ loader.pc = "crashed" => loader.raced \/ ~loader.meta.alone

\* A write disturbs what the loader has checked, and nothing else of it.
LEMMA DisturbedHolds ==
  ASSUME Typed, LoaderHolds, NEW r \in Roles, loader' = Disturbed(r),
         meta' = meta, \A s \in Roles \ {r} : artifact'[s] = artifact[s]
  PROVE  LoaderHolds'
<1>1. loader \in Loadings
  BY DEF Typed, TypeOK
<1>2. /\ loader'.pc = loader.pc /\ loader'.left = loader.left /\ loader'.role = loader.role
      /\ loader'.meta = loader.meta /\ loader'.got = loader.got
      /\ loader'.raced = (loader.raced \/ RacesLoad(r))
  BY <1>1 DEF Disturbed, Loadings
<1>3. Loaded' = Loaded
  BY <1>2 DEF Loaded
<1>4. loader.pc = "load" /\ ~loader'.raced => artifact'[loader.role] = artifact[loader.role]
  BY <1>1, <1>2 DEF RacesLoad, Loadings
<1> QED
  BY <1>2, <1>3, <1>4 DEF LoaderHolds, Vouched

LEMMA LoaderStep ==
  ASSUME Typed, AloneIsAlone, MetadataIsOfItsModel, LoaderHolds, Next
  PROVE  LoaderHolds'
<1>a. loader \in Loadings /\ Group \subseteq Roles
  BY RegistryAssumption DEF Typed, TypeOK
<1>b. artifact \in [Roles -> Contents] /\ meta \in [Roles -> Metas]
  BY DEF Typed, TypeOK
<1>1. ASSUME NEW t \in Trainers, OpenArtifact(t) \/ CloseArtifact(t) PROVE LoaderHolds'
  <2>1. trainer[t].role \in Roles
    BY <1>1 DEF OpenArtifact, CloseArtifact, Typed, ProperTrainers, Proper, Writing
  <2>2. loader' = Disturbed(trainer[t].role) /\ meta' = meta
    BY <1>1 DEF OpenArtifact, CloseArtifact
  <2>3. \A s \in Roles \ {trainer[t].role} : artifact'[s] = artifact[s]
    BY <1>1, <1>b DEF OpenArtifact, CloseArtifact
  <2> QED
    BY <2>1, <2>2, <2>3, DisturbedHolds
<1>2. ASSUME NEW t \in Trainers, WriteMeta(t) PROVE LoaderHolds'
  <2>1. trainer[t].run # 0
    BY <1>2 DEF WriteMeta, AloneIsAlone, Active
  <2>2. \A r \in Roles : meta'[r].run = meta[r].run \/ meta'[r].run = trainer[t].run
    BY <1>2, <1>b DEF WriteMeta
  <2>3. loader' = loader /\ artifact' = artifact
    BY <1>2 DEF WriteMeta
  <2>4. Loaded' = Loaded
    BY <2>3 DEF Loaded
  <2> QED
    BY <1>a, <2>1, <2>2, <2>3, <2>4 DEF LoaderHolds, Vouched
<1>3. ASSUME NEW t \in Trainers, StartRun(t) \/ SkipRole(t) \/ HashArtifact(t) \/ Finish(t) \/ Die(t)
      PROVE  LoaderHolds'
  <2>1. loader' = loader /\ artifact' = artifact /\ meta' = meta
    BY <1>3 DEF StartRun, SkipRole, HashArtifact, Finish, Die, disk
  <2>2. Loaded' = Loaded
    BY <2>1 DEF Loaded
  <2> QED
    BY <2>1, <2>2 DEF LoaderHolds, Vouched
<1>4. CASE ReadGroup
  <2>1. PICK r \in Group : loader' = [NotLoading EXCEPT !.pc = "meta", !.left = Group \ {r}, !.role = r,
                                                  !.run = group, !.calm = ~dirty]
    BY <1>4 DEF ReadGroup
  <2>2. loader'.pc = "meta" /\ loader'.left = Group \ {r} /\ loader'.role = r
    BY <2>1 DEF NotLoading
  <2>3. Loaded' = {}
    BY <2>2 DEF Loaded
  <2>4. \A s \in Group : meta'[s].run # 0
    BY <1>4 DEF ReadGroup, disk
  <2> QED
    BY <2>2, <2>3, <2>4 DEF LoaderHolds
<1>5. ASSUME loader' = NotLoading PROVE LoaderHolds'
  BY <1>5 DEF NotLoading, LoaderHolds
<1>6. CASE ReadMeta
  <2>1. CASE loader' = [loader EXCEPT !.pc = "hash", !.meta = meta[loader.role]]
    <3>1. /\ loader.pc = "meta" /\ loader'.pc = "hash" /\ loader'.meta = meta[loader.role]
          /\ loader'.left = loader.left /\ loader'.role = loader.role /\ loader'.got = loader.got
          /\ meta' = meta
      BY <1>6, <1>a, <2>1 DEF ReadMeta, Loadings, disk
    <3>2. Loaded' = Loaded
      BY <3>1 DEF Loaded
    <3>3. loader.role \in Group /\ meta[loader.role].run # 0
      BY <3>1 DEF LoaderHolds
    <3>4. meta[loader.role].alone => meta[loader.role].hash.whole
      <4>1. ASSUME meta[loader.role].alone
            PROVE  meta[loader.role].hash = Whole(meta[loader.role].run)
        BY <3>3, <1>a, <4>1 DEF MetadataIsOfItsModel, Whole
      <4>2. Whole(meta[loader.role].run).whole
        BY DEF Whole
      <4> QED
        BY <4>1, <4>2
    <3> QED
      BY <3>1, <3>2, <3>4 DEF LoaderHolds, Vouched
  <2> QED
    BY <1>5, <1>6, <2>1 DEF ReadMeta, Unavailable
<1>7. CASE CheckHash
  <2>1. CASE HashMatches(loader.role) /\ loader' = [loader EXCEPT !.pc = "load", !.raced = FALSE]
    <3>1. /\ loader.pc = "hash" /\ loader'.pc = "load" /\ loader'.meta = loader.meta
          /\ loader'.left = loader.left /\ loader'.role = loader.role /\ loader'.got = loader.got
          /\ meta' = meta /\ artifact' = artifact
      BY <1>7, <1>a, <2>1 DEF CheckHash, Loadings, disk
    <3>2. Loaded' = Loaded
      BY <3>1 DEF Loaded
    <3>3. artifact[loader.role] = loader.meta.hash
      BY <2>1 DEF HashMatches
    <3> QED
      BY <3>1, <3>2, <3>3 DEF LoaderHolds, Vouched
  <2> QED
    BY <1>5, <1>7, <2>1 DEF CheckHash, Unavailable
<1>8. CASE LoadModel
  <2> DEFINE r == loader.role
             new == [model |-> artifact[r], meta |-> loader.meta, raced |-> loader.raced]
             got == [loader.got EXCEPT ![r] = new]
  <2>1. loader.pc = "load" /\ r \in Group /\ r \in Roles /\ meta' = meta /\ artifact' = artifact
    BY <1>8, <1>a DEF LoadModel, LoaderHolds, disk
  <2>2. Vouched(new)
    BY <2>1 DEF LoaderHolds, Vouched
  <2>3. got[r] = new /\ \A s \in Roles \ {r} : got[s] = loader.got[s]
    BY <2>1, <1>a DEF Loadings
  <2> HIDE DEF new, got
  <2>4. \A s \in Loaded \cup {r} : Vouched(got[s])
    BY <2>1, <2>2, <2>3, <1>a DEF LoaderHolds, Loaded
  <2>5. ASSUME NEW s \in loader.left,
               loader' = [loader EXCEPT !.pc = "meta", !.got = got, !.role = s, !.left = @ \ {s}]
        PROVE  LoaderHolds'
    <3>1. /\ loader'.pc = "meta" /\ loader'.role = s /\ loader'.left = loader.left \ {s}
          /\ loader'.got = got
      BY <2>5, <1>a DEF Loadings
    <3>2. Loaded' \subseteq Loaded \cup {r}
      BY <3>1, <2>1 DEF Loaded
    <3> QED
      BY <3>1, <3>2, <2>1, <2>4 DEF LoaderHolds
  <2>6. ASSUME loader.left = {}, loader' = [loader EXCEPT !.pc = "served", !.got = got]
        PROVE  LoaderHolds'
    <3>1. loader'.pc = "served" /\ loader'.got = got
      BY <2>6, <1>a DEF Loadings
    <3>2. Loaded' \subseteq Loaded \cup {r}
      BY <3>1, <2>1, <2>6 DEF Loaded
    <3> QED
      BY <3>1, <3>2, <2>4 DEF LoaderHolds
  <2>7. ASSUME ~artifact[r].whole, loader' = [loader EXCEPT !.pc = "crashed"]
        PROVE  LoaderHolds'
    <3>1. loader'.pc = "crashed" /\ loader'.raced = loader.raced /\ loader'.meta = loader.meta
      BY <2>7, <1>a DEF Loadings
    <3>2. loader.raced \/ ~loader.meta.alone
      BY <2>1, <2>7 DEF LoaderHolds
    <3> QED
      BY <3>1, <3>2 DEF LoaderHolds
  <2>8. \/ \E s \in loader.left :
              loader' = [loader EXCEPT !.pc = "meta", !.got = got, !.role = s, !.left = @ \ {s}]
        \/ loader.left = {} /\ loader' = [loader EXCEPT !.pc = "served", !.got = got]
        \/ ~artifact[r].whole /\ loader' = [loader EXCEPT !.pc = "crashed"]
    BY <1>8 DEF LoadModel, got, new
  <2> QED
    BY <2>5, <2>6, <2>7, <2>8
<1>9. CASE Restart
  BY <1>5, <1>9 DEF Restart
<1> QED
  BY <1>1, <1>2, <1>3, <1>4, <1>6, <1>7, <1>8, <1>9 DEF Next

LEMMA HoldsIsVouched == Typed /\ LoaderHolds => LoadsAreVouched
BY DEF LoaderHolds, LoadsAreVouched, Loaded, Vouched

-----------------------------------------------------------------------------
(* What a group that is clean holds. *)

\* While the group's files are of the run its file names, nobody is writing
\* to them or has done so, and so they stay while they are loaded.
CleanFiles(g) == \A r \in Group : artifact[r] = Whole(g) /\ meta[r].run = g

CleanTrainer(me) ==
  me.pc # "off" => me.saved \cap Group = {} /\ (Writing(me) => me.role \notin Group)

LoadedOf(g) ==
  /\ loader.pc # "off" => ~dirty /\ group = g /\ g # 0
  /\ loader.pc \in {"hash", "load"} => loader.meta.run = g
  /\ loader.pc \in {"meta", "hash", "load", "served"} =>
       \A r \in Loaded : loader.got[r].model = Whole(g) /\ loader.got[r].meta.run = g

CleanGroup ==
  /\ ~dirty => \A t \in Trainers : CleanTrainer(trainer[t])
  /\ ~dirty /\ group # 0 => CleanFiles(group)
  /\ loader.calm => LoadedOf(loader.run)

LEMMA CleanStays ==
  ASSUME Typed, CleanGroup, dirty' = dirty, group' = group, loader' = loader,
         \A r \in Group : artifact'[r] = artifact[r] /\ meta'[r].run = meta[r].run,
         ~dirty => \A t \in Trainers : CleanTrainer(trainer[t])'
  PROVE  CleanGroup'
<1>1. Loaded' = Loaded
  BY DEF Loaded
<1> QED
  BY <1>1 DEF CleanGroup, CleanFiles, LoadedOf

LEMMA CleanStart ==
  ASSUME Typed, CleanGroup, NEW t \in Trainers, StartRun(t), ~dirty
  PROVE  \A u \in Trainers : CleanTrainer(trainer[u])'
BY Starts DEF CleanTrainer, Writing, CleanGroup

LEMMA CleanActs ==
  ASSUME Typed, CleanGroup, NEW t \in Trainers, Acts(t), ~dirty,
         trainer'[t].pc = "dump" => trainer[t].role \notin Group
  PROVE  \A u \in Trainers : CleanTrainer(trainer[u])'
<1> USE DEF CleanTrainer, Writing
<1>a. trainer \in [Trainers -> Trainings] /\ \A u \in Trainers : CleanTrainer(trainer[u])
  BY DEF Typed, TypeOK, CleanGroup
<1>b. trainer[t] \in Trainings /\ CleanTrainer(trainer[t])
  BY <1>a
<1>1. CASE SkipRole(t)
  BY <1>1, <1>a, <1>b, OneActs DEF SkipRole, Trainings
<1>2. CASE OpenArtifact(t)
  BY <1>2, <1>a, <1>b, OneActs DEF OpenArtifact, Trainings
<1>3. CASE CloseArtifact(t)
  BY <1>3, <1>a, <1>b, OneActs DEF CloseArtifact, Trainings
<1>4. CASE HashArtifact(t)
  BY <1>4, <1>a, <1>b, OneActs DEF HashArtifact, Trainings
<1>5. CASE WriteMeta(t)
  BY <1>5, <1>a, <1>b, OneActs DEF WriteMeta, Trainings
<1>6. CASE Finish(t) \/ Die(t)
  BY <1>6, <1>a, OneActs DEF Finish, Die, Off
<1> QED
  BY <1>1, <1>2, <1>3, <1>4, <1>5, <1>6 DEF Acts

\* A write to an artifact of the group makes it unclean and the loader not calm.
LEMMA CleanWrite ==
  ASSUME Typed, CleanGroup, NEW t \in Trainers, OpenArtifact(t) \/ CloseArtifact(t)
  PROVE  CleanGroup'
<1>a. loader \in Loadings /\ Group \subseteq Roles
  BY RegistryAssumption DEF Typed, TypeOK
<1>b. artifact \in [Roles -> Contents]
  BY DEF Typed, TypeOK
<1> DEFINE r == trainer[t].role
<1>1. /\ loader'.pc = loader.pc /\ loader'.left = loader.left /\ loader'.role = loader.role
      /\ loader'.meta = loader.meta /\ loader'.got = loader.got /\ loader'.run = loader.run
      /\ loader'.calm = (loader.calm /\ r \notin Group)
  BY <1>a DEF OpenArtifact, CloseArtifact, Disturbed, Loadings
<1>2. meta' = meta /\ group' = group
  BY DEF OpenArtifact, CloseArtifact
<1>3. \A s \in Roles \ {r} : artifact'[s] = artifact[s]
  BY <1>b DEF OpenArtifact, CloseArtifact
<1>4. Loaded' = Loaded
  BY <1>1 DEF Loaded
<1>5. CASE r \in Group
  <2>1. dirty'
    BY <1>5 DEF OpenArtifact, CloseArtifact, CleanGroup, CleanTrainer, Writing
  <2> QED
    BY <1>1, <1>5, <2>1 DEF CleanGroup
<1>6. CASE r \notin Group
  <2>1. dirty' = dirty
    BY <1>6 DEF OpenArtifact, CloseArtifact, Typed, TypeOK
  <2>2. \A s \in Group : artifact'[s] = artifact[s]
    BY <1>a, <1>3, <1>6
  <2>3. ~dirty => \A u \in Trainers : CleanTrainer(trainer[u])'
    BY <1>6, CleanActs DEF Acts
  <2> QED
    BY <1>1, <1>2, <1>4, <2>1, <2>2, <2>3 DEF CleanGroup, CleanFiles, LoadedOf
<1> QED
  BY <1>5, <1>6

LEMMA CleanFinish ==
  ASSUME Typed, AloneIsAlone, LoneRunWrites, LoaderHolds, CleanGroup, NEW t \in Trainers, Finish(t)
  PROVE  CleanGroup'
<1>a. Group \subseteq Roles /\ Group # {} /\ trainer \in [Trainers -> Trainings]
  BY RegistryAssumption DEF Typed, TypeOK
<1>b. /\ Active(t) /\ loader' = loader /\ artifact' = artifact /\ meta' = meta
      /\ trainer'[t].pc = "off" /\ \A u \in Trainers \ {t} : trainer'[u] = trainer[u]
  BY <1>a DEF Finish, Active, Off
<1>1. CASE ~NamesTheGroup(trainer[t].saved)
  <2>1. dirty' = dirty /\ group' = group
    BY <1>1 DEF Finish, Typed, TypeOK
  <2>2. ~dirty => \A u \in Trainers : CleanTrainer(trainer[u])'
    BY <1>b, CleanActs DEF Acts
  <2> QED
    BY <1>b, <2>1, <2>2, CleanStays
<1>2. CASE NamesTheGroup(trainer[t].saved)
  <2>1. trainer[t].saved = Group /\ group' = trainer[t].run
    BY <1>2 DEF Finish, NamesTheGroup
  <2>2. dirty
    BY <1>a, <1>b, <2>1 DEF CleanGroup, CleanTrainer, Active
  <2>3. ~loader.calm \/ loader.pc = "off"
    BY <2>2 DEF CleanGroup, LoadedOf
  <2>4. loader'.calm => LoadedOf(loader.run)'
    BY <1>b, <2>3 DEF LoadedOf
  <2>5. CASE ~trainer[t].alone
    <3>1. dirty'
      BY <2>2, <2>5 DEF Finish
    <3> QED
      BY <1>b, <2>4, <3>1 DEF CleanGroup
  <2>6. CASE trainer[t].alone
    <3>1. \A u \in Trainers : trainer'[u].pc = "off"
      BY <1>b, <2>6 DEF AloneIsAlone, Active
    <3>2. LoneWrites(trainer[t])
      BY <1>b, <2>6 DEF LoneRunWrites
    <3>3. \A r \in Group : artifact'[r] = Whole(group') /\ meta'[r].run = group'
      BY <1>b, <2>1, <3>2 DEF LoneWrites
    <3>4. CleanFiles(group)'
      BY <3>3 DEF CleanFiles
    <3> QED
      BY <2>4, <3>1, <3>4 DEF CleanGroup, CleanTrainer
  <2> QED
    BY <2>5, <2>6
<1> QED
  BY <1>1, <1>2

LEMMA CleanRun ==
  ASSUME Typed, AloneIsAlone, LoneRunWrites, LoaderHolds, CleanGroup, NEW t \in Trainers,
         StartRun(t) \/ SkipRole(t) \/ HashArtifact(t) \/ WriteMeta(t) \/ Die(t)
  PROVE  CleanGroup'
<1>a. /\ Group \subseteq Roles /\ trainer \in [Trainers -> Trainings] /\ meta \in [Roles -> Metas]
  BY RegistryAssumption DEF Typed, TypeOK
<1>1. CASE StartRun(t)
  BY <1>1, CleanStart, CleanStays DEF StartRun, disk
<1>2. CASE SkipRole(t) \/ HashArtifact(t) \/ Die(t)
  <2>1. trainer'[t].pc # "dump"
    BY <1>2, <1>a DEF SkipRole, HashArtifact, Die, Off, Trainings
  <2>2. ~dirty => \A u \in Trainers : CleanTrainer(trainer[u])'
    BY <1>2, <2>1, CleanActs DEF Acts
  <2> QED
    BY <1>2, <2>2, CleanStays DEF SkipRole, HashArtifact, Die, disk
<1>3. CASE WriteMeta(t)
  <2>1. trainer'[t].pc # "dump"
    BY <1>3, <1>a DEF WriteMeta, Trainings
  <2>2. ~dirty => \A u \in Trainers : CleanTrainer(trainer[u])'
    BY <1>3, <2>1, CleanActs DEF Acts
  <2>3. ~dirty => \A r \in Group : meta'[r] = meta[r]
    BY <1>3, <1>a DEF WriteMeta, CleanGroup, CleanTrainer, Writing
  <2>4. dirty' = dirty /\ group' = group /\ loader' = loader /\ artifact' = artifact
    BY <1>3 DEF WriteMeta
  <2>5. Loaded' = Loaded
    BY <2>4 DEF Loaded
  <2> QED
    BY <2>2, <2>3, <2>4, <2>5 DEF CleanGroup, CleanFiles, LoadedOf
<1> QED
  BY <1>1, <1>2, <1>3

LEMMA CleanLoader ==
  ASSUME Typed, LoaderHolds, CleanGroup, ReadGroup \/ ReadMeta \/ CheckHash \/ LoadModel \/ Restart
  PROVE  CleanGroup'
<1>a. loader \in Loadings /\ Group \subseteq Roles /\ dirty \in BOOLEAN
  BY RegistryAssumption DEF Typed, TypeOK
<1>b. artifact' = artifact /\ meta' = meta /\ group' = group /\ dirty' = dirty /\ trainer' = trainer
  BY DEF ReadGroup, ReadMeta, CheckHash, LoadModel, Restart, disk
<1> SUFFICES ASSUME loader'.calm PROVE LoadedOf(loader.run)'
  BY <1>b DEF CleanGroup, CleanFiles
<1>1. CASE ReadGroup
  <2>1. PICK r \in Group : loader' = [NotLoading EXCEPT !.pc = "meta", !.left = Group \ {r}, !.role = r,
                                                  !.run = group, !.calm = ~dirty]
    BY <1>1 DEF ReadGroup
  <2>2. /\ loader'.pc = "meta" /\ loader'.left = Group \ {r} /\ loader'.role = r
        /\ loader'.run = group /\ loader'.calm = ~dirty
    BY <2>1 DEF NotLoading
  <2>3. Loaded' = {}
    BY <2>2 DEF Loaded
  <2>4. group # 0
    BY <1>1 DEF ReadGroup
  <2> QED
    BY <1>b, <2>2, <2>3, <2>4 DEF LoadedOf
<1>2. CASE loader' = NotLoading
  BY <1>2 DEF NotLoading
<1>3. CASE ReadMeta
  <2>1. CASE loader' = [loader EXCEPT !.pc = "hash", !.meta = meta[loader.role]]
    <3>1. /\ loader.pc = "meta" /\ loader'.pc = "hash" /\ loader'.meta = meta[loader.role]
          /\ loader'.left = loader.left /\ loader'.role = loader.role /\ loader'.got = loader.got
          /\ loader'.run = loader.run /\ loader'.calm = loader.calm
      BY <1>3, <1>a, <2>1 DEF ReadMeta, Loadings
    <3>2. LoadedOf(loader.run) /\ CleanFiles(loader.run) /\ loader.role \in Group
      BY <3>1 DEF CleanGroup, LoadedOf, LoaderHolds
    <3>3. Loaded' = Loaded
      BY <3>1 DEF Loaded
    <3> QED
      BY <1>b, <3>1, <3>2, <3>3 DEF LoadedOf, CleanFiles
  <2> QED
    BY <1>2, <1>3, <2>1 DEF ReadMeta, Unavailable
<1>4. CASE CheckHash
  <2>1. CASE loader' = [loader EXCEPT !.pc = "load", !.raced = FALSE]
    <3>1. /\ loader.pc = "hash" /\ loader'.pc = "load" /\ loader'.meta = loader.meta
          /\ loader'.left = loader.left /\ loader'.role = loader.role /\ loader'.got = loader.got
          /\ loader'.run = loader.run /\ loader'.calm = loader.calm
      BY <1>4, <1>a, <2>1 DEF CheckHash, Loadings
    <3>2. LoadedOf(loader.run)
      BY <3>1 DEF CleanGroup
    <3>3. Loaded' = Loaded
      BY <3>1 DEF Loaded
    <3> QED
      BY <1>b, <3>1, <3>2, <3>3 DEF LoadedOf
  <2> QED
    BY <1>2, <1>4, <2>1 DEF CheckHash, Unavailable
<1>5. CASE LoadModel
  <2> DEFINE r == loader.role
             new == [model |-> artifact[r], meta |-> loader.meta, raced |-> loader.raced]
             got == [loader.got EXCEPT ![r] = new]
             Of(x) == x.model = Whole(loader.run) /\ x.meta.run = loader.run
  <2>1. loader.pc = "load" /\ r \in Group /\ r \in Roles
    BY <1>5, <1>a DEF LoadModel, LoaderHolds
  <2>2. \/ \E s \in loader.left :
              loader' = [loader EXCEPT !.pc = "meta", !.got = got, !.role = s, !.left = @ \ {s}]
        \/ loader.left = {} /\ loader' = [loader EXCEPT !.pc = "served", !.got = got]
        \/ loader' = [loader EXCEPT !.pc = "crashed"]
    BY <1>5 DEF LoadModel
  <2>3. got[r] = new /\ \A s \in Roles \ {r} : got[s] = loader.got[s]
    BY <2>1, <1>a DEF Loadings
  <2>4. loader'.calm = loader.calm /\ loader'.run = loader.run
    BY <2>2, <1>a DEF Loadings
  <2>5. LoadedOf(loader.run) /\ CleanFiles(loader.run)
    BY <2>1, <2>4 DEF CleanGroup, LoadedOf
  <2>6. Of(new)
    BY <2>1, <2>5 DEF LoadedOf, CleanFiles
  <2> HIDE DEF new, got
  <2>7. \A s \in Loaded \cup {r} : Of(got[s])
    BY <2>1, <2>3, <2>5, <2>6, <1>a DEF LoadedOf, Loaded
  <2>8. ASSUME NEW s \in loader.left,
               loader' = [loader EXCEPT !.pc = "meta", !.got = got, !.role = s, !.left = @ \ {s}]
        PROVE  LoadedOf(loader.run)'
    <3>1. /\ loader'.pc = "meta" /\ loader'.role = s /\ loader'.left = loader.left \ {s}
          /\ loader'.got = got
      BY <2>8, <1>a DEF Loadings
    <3>2. Loaded' \subseteq Loaded \cup {r}
      BY <3>1, <2>1 DEF Loaded
    <3> QED
      BY <1>b, <2>1, <2>4, <2>5, <2>7, <3>1, <3>2 DEF LoadedOf
  <2>9. ASSUME loader.left = {}, loader' = [loader EXCEPT !.pc = "served", !.got = got]
        PROVE  LoadedOf(loader.run)'
    <3>1. loader'.pc = "served" /\ loader'.got = got
      BY <2>9, <1>a DEF Loadings
    <3>2. Loaded' \subseteq Loaded \cup {r}
      BY <3>1, <2>1, <2>9 DEF Loaded
    <3> QED
      BY <1>b, <2>1, <2>4, <2>5, <2>7, <3>1, <3>2 DEF LoadedOf
  <2>10. ASSUME loader' = [loader EXCEPT !.pc = "crashed"] PROVE LoadedOf(loader.run)'
    <3>1. loader'.pc = "crashed"
      BY <2>10, <1>a DEF Loadings
    <3> QED
      BY <1>b, <2>1, <2>4, <2>5, <3>1 DEF LoadedOf
  <2> QED
    BY <2>2, <2>8, <2>9, <2>10
<1>6. CASE Restart
  BY <1>2, <1>6 DEF Restart
<1> QED
  BY <1>1, <1>3, <1>4, <1>5, <1>6

LEMMA CleanStep ==
  ASSUME Typed, AloneIsAlone, LoneRunWrites, LoaderHolds, CleanGroup, Next
  PROVE  CleanGroup'
BY CleanWrite, CleanFinish, CleanRun, CleanLoader DEF Next

LEMMA CleanIsOneRun == LoaderHolds /\ CleanGroup => ServedIsOneRun
BY DEF CleanGroup, LoadedOf, Loaded, ServedIsOneRun, Whole

-----------------------------------------------------------------------------
(* The theorems. *)

IInv == Typed /\ AloneIsAlone /\ LoneRunWrites /\ MetadataIsOfItsModel /\ LoaderHolds /\ CleanGroup

LEMMA InvInit == Init => IInv
<1> SUFFICES ASSUME Init PROVE IInv
  OBVIOUS
<1>1. Typed
  BY TypeInit DEF Typed
<1>2. \A t \in Trainers : trainer[t] = Off
  BY DEF Init
<1>3. AloneIsAlone /\ LoneRunWrites
  BY <1>2 DEF AloneIsAlone, LoneRunWrites, Active, Off
<1>4. MetadataIsOfItsModel
  BY DEF Init, MetadataIsOfItsModel, NoMeta
<1>5. LoaderHolds
  BY DEF Init, LoaderHolds, NotLoading
<1>6. CleanGroup
  BY <1>2 DEF Init, CleanGroup, CleanTrainer, NotLoading, Off
<1> QED
  BY <1>1, <1>3, <1>4, <1>5, <1>6 DEF IInv

LEMMA InvNext == IInv /\ [Next]_vars => IInv'
<1> SUFFICES ASSUME IInv, [Next]_vars PROVE IInv'
  OBVIOUS
<1>1. Typed'
  BY NextType DEF IInv, Typed
<1>2. CASE UNCHANGED vars
  <2>1. Loaded' = Loaded
    BY <1>2 DEF vars, Loaded
  <2> QED
    BY <1>1, <1>2, <2>1 DEF vars, disk, IInv, AloneIsAlone, LoneRunWrites, LoneWrites, Active,
       MetadataIsOfItsModel, LoaderHolds, CleanGroup, CleanFiles, CleanTrainer, LoadedOf
<1>3. CASE Next
  BY <1>1, <1>3, AloneStep, LoneStep, MetadataStep, LoaderStep, CleanStep DEF IInv
<1> QED
  BY <1>2, <1>3

LEMMA AlwaysInv == Spec => []IInv
BY InvInit, InvNext, PTL DEF Spec

\* The variables of the registry keep their types, and a run saves the roles
\* in their order (train_model_group), however many runs overlap and die.
THEOREM TypeCorrect == Spec => []TypeOK
<1>1. IInv => TypeOK
  BY DEF IInv, Typed
<1> QED
  BY <1>1, AlwaysInv, PTL

\* Metadata of a run that nobody overlapped describes a whole artifact of
\* that run, wherever runs die (save).
THEOREM MetadataIsAlwaysOfItsModel == Spec => []MetadataIsOfItsModel
<1>1. IInv => MetadataIsOfItsModel
  BY DEF IInv
<1> QED
  BY <1>1, AlwaysInv, PTL

\* What is served is what its metadata vouches for, but for a write between
\* the check of the hash and the loading (load).
THEOREM LoadsAreAlwaysVouched == Spec => []LoadsAreVouched
<1>1. IInv => LoadsAreVouched
  BY HoldsIsVouched DEF IInv
<1> QED
  BY <1>1, AlwaysInv, PTL

\* All models served together are of one run, if the group's files were of
\* one run all along (train_model_group, ForecastServer.load).
THEOREM ServedIsAlwaysOneRun == Spec => []ServedIsOneRun
<1>1. IInv => ServedIsOneRun
  BY CleanIsOneRun DEF IInv
<1> QED
  BY <1>1, AlwaysInv, PTL
=============================================================================
