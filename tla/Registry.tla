------------------------------ MODULE Registry ------------------------------
(***************************************************************************)
(* The model registry: training runs fit one model per role and save each  *)
(* as an artifact and then its metadata, which holds the artifact's hash,  *)
(* and last a file that names the group.  A model's id depends on its      *)
(* hyperparameters only, so a later run writes over the files an engine    *)
(* serves from.  The artifact is written in place; the other two files are *)
(* replaced at once.  Nothing is locked, a run may die anywhere, and the   *)
(* engine loads a group when it starts, file by file.                      *)
(*                                                                         *)
(* A content is the run it is from and whether it is whole; its hash is    *)
(* the content.  The group the engine is configured for is that of the     *)
(* roles Group: a run that fits other roles names another group.           *)
(***************************************************************************)
EXTENDS Naturals

CONSTANTS
  RoleCount,  \* COMPONENT_ROLES, trained in this order
  Group,      \* the roles of the configured group
  Trainers,   \* processes that may train
  Research,   \* runs saved with a status the engine's load mode refuses
  MaxRuns     \* bound

Roles == 1 .. RoleCount
Runs == 1 .. MaxRuns

ASSUME RegistryAssumption ==
  /\ RoleCount \in Nat /\ Group \subseteq Roles /\ Group # {}
  /\ MaxRuns \in Nat /\ Research \subseteq Runs

VARIABLES
  artifact,  \* role -> content of its .joblib
  meta,      \* role -> its .json
  group,     \* run that wrote the group's file, 0 if none
  trainer,   \* trainer -> its run
  loader,    \* the engine, loading or serving
  runs,      \* runs so far
  dirty      \* history: the group's files may be of several runs

disk == <<artifact, meta, group>>
vars == <<disk, trainer, loader, runs, dirty>>

Contents == [run : Runs \cup {0}, whole : BOOLEAN]
NoContent == [run |-> 0, whole |-> FALSE]

\* alone is a history: no other run overlapped the one that wrote it.
Metas == [run : Runs \cup {0}, hash : Contents, alone : BOOLEAN]
NoMeta == [run |-> 0, hash |-> NoContent, alone |-> TRUE]

Trainings == [pc : {"off", "fit", "dump", "hash", "meta"}, run : Runs \cup {0},
              role : 1 .. RoleCount + 1, saved : SUBSET Roles, hash : Contents, alone : BOOLEAN]
Off == [pc |-> "off", run |-> 0, role |-> 1, saved |-> {}, hash |-> NoContent, alone |-> TRUE]

\* raced and calm are histories: the artifact of the role in hand was written
\* after its hash was checked; the group's files were of one run all along.
Loadings == [pc : {"off", "meta", "hash", "load", "served", "crashed"}, left : SUBSET Roles,
             role : Roles, meta : Metas, got : [Roles -> [model : Contents, meta : Metas, raced : BOOLEAN]],
             run : Runs \cup {0}, raced : BOOLEAN, calm : BOOLEAN]
NothingLoaded == [r \in Roles |-> [model |-> NoContent, meta |-> NoMeta, raced |-> FALSE]]
NotLoading == [pc |-> "off", left |-> {}, role |-> CHOOSE r \in Group : TRUE, meta |-> NoMeta,
               got |-> NothingLoaded, run |-> 0, raced |-> FALSE, calm |-> FALSE]

Init ==
  /\ artifact = [r \in Roles |-> NoContent]
  /\ meta = [r \in Roles |-> NoMeta]
  /\ group = 0
  /\ trainer = [t \in Trainers |-> Off]
  /\ loader = NotLoading
  /\ runs = 0
  /\ dirty = FALSE

Active(t) == trainer[t].pc # "off"

-----------------------------------------------------------------------------
(* A training run: train_model_group. *)

StartRun(t) ==
  /\ ~Active(t)
  /\ runs < MaxRuns
  /\ runs' = runs + 1
  /\ trainer' = [u \in Trainers |->
       IF u = t THEN [Off EXCEPT !.pc = "fit", !.run = runs + 1,
                                 !.alone = \A v \in Trainers \ {t} : ~Active(v)]
                ELSE [trainer[u] EXCEPT !.alone = FALSE]]
  /\ UNCHANGED <<disk, loader, dirty>>

NextRole(role) == role + 1

\* Too few rows, a degenerate target, or a fit that fails.
SkipRole(t) ==
  /\ trainer[t].pc = "fit" /\ trainer[t].role \in Roles
  /\ trainer' = [trainer EXCEPT ![t].role = NextRole(@)]
  /\ UNCHANGED <<disk, loader, runs, dirty>>

\* A write to the artifact the loader has already checked.
RacesLoad(r) == loader.pc = "load" /\ loader.role = r

Disturbed(r) == [loader EXCEPT !.raced = @ \/ RacesLoad(r), !.calm = @ /\ r \notin Group]

\* save: joblib.dump truncates the artifact and writes it,
OpenArtifact(t) ==
  LET r == trainer[t].role
  IN  /\ trainer[t].pc = "fit" /\ r \in Roles
      /\ artifact' = [artifact EXCEPT ![r] = [run |-> trainer[t].run, whole |-> FALSE]]
      /\ trainer' = [trainer EXCEPT ![t].pc = "dump"]
      /\ loader' = Disturbed(r)
      /\ dirty' = (dirty \/ r \in Group)
      /\ UNCHANGED <<meta, group, runs>>

\* and what another process wrote into it meanwhile stays in it;
CloseArtifact(t) ==
  LET r == trainer[t].role
  IN  /\ trainer[t].pc = "dump"
      /\ \/ /\ artifact[r].run = trainer[t].run
            /\ artifact' = [artifact EXCEPT ![r].whole = TRUE]
         \/ ~trainer[t].alone /\ UNCHANGED artifact
      /\ trainer' = [trainer EXCEPT ![t].pc = "hash"]
      /\ loader' = Disturbed(r)
      /\ UNCHANGED <<meta, group, runs, dirty>>

\* Mutant: the hash of the artifact as it was before.
HashOfMetadata(r) == meta[r].hash

FileHash(r) == artifact[r]

\* the file is read again for its hash,
HashArtifact(t) ==
  /\ trainer[t].pc = "hash"
  /\ trainer' = [trainer EXCEPT ![t].pc = "meta", ![t].hash = FileHash(trainer[t].role)]
  /\ UNCHANGED <<disk, loader, runs, dirty>>

\* and the metadata is replaced.
WriteMeta(t) ==
  LET me == trainer[t]
  IN  /\ me.pc = "meta"
      /\ meta' = [meta EXCEPT ![me.role] = [run |-> me.run, hash |-> me.hash, alone |-> me.alone]]
      /\ trainer' = [trainer EXCEPT ![t] =
           [me EXCEPT !.pc = "fit", !.role = NextRole(@), !.saved = @ \cup {me.role}]]
      /\ UNCHANGED <<artifact, group, loader, runs, dirty>>

\* Mutant: the group's file is written even if roles of it were not fitted.
SavedSome(saved) == saved # {}

\* The derived group id depends on the component ids.
NamesTheGroup(saved) == saved = Group

\* save_group; without a model there is no group.
Finish(t) ==
  /\ trainer[t].pc = "fit" /\ trainer[t].role = RoleCount + 1
  /\ group' = IF NamesTheGroup(trainer[t].saved) THEN trainer[t].run ELSE group
  /\ dirty' = (dirty /\ ~(NamesTheGroup(trainer[t].saved) /\ trainer[t].alone))
  /\ trainer' = [trainer EXCEPT ![t] = Off]
  /\ UNCHANGED <<artifact, meta, loader, runs>>

\* What it had written stays.
Die(t) ==
  /\ Active(t)
  /\ trainer' = [trainer EXCEPT ![t] = Off]
  /\ UNCHANGED <<disk, loader, runs, dirty>>

-----------------------------------------------------------------------------
(* The engine: ForecastServer.load. *)

Allows(run) == run \notin Research

\* A RegistryError is reported, and the engine runs without a forecast.
Unavailable == loader' = NotLoading

\* load_group and validate_group.
ReadGroup ==
  /\ loader.pc = "off"
  /\ group # 0 /\ Allows(group)
  /\ \A r \in Group : meta[r].run # 0
  /\ \E r \in Group : loader' = [NotLoading EXCEPT !.pc = "meta", !.left = Group \ {r}, !.role = r,
                                                  !.run = group, !.calm = ~dirty]
  /\ UNCHANGED <<disk, trainer, runs, dirty>>

\* load: the metadata,
ReadMeta ==
  /\ loader.pc = "meta"
  /\ \/ /\ Allows(meta[loader.role].run)
        /\ loader' = [loader EXCEPT !.pc = "hash", !.meta = meta[loader.role]]
     \/ ~Allows(meta[loader.role].run) /\ Unavailable
  /\ UNCHANGED <<disk, trainer, runs, dirty>>

\* Mutant: the artifact is taken for the one the metadata describes.
AnyContent(r) == TRUE

HashMatches(r) == artifact[r] = loader.meta.hash

\* the hash of the artifact,
CheckHash ==
  /\ loader.pc = "hash"
  /\ \/ /\ HashMatches(loader.role)
        /\ loader' = [loader EXCEPT !.pc = "load", !.raced = FALSE]
     \/ ~HashMatches(loader.role) /\ Unavailable
  /\ UNCHANGED <<disk, trainer, runs, dirty>>

\* and the artifact once more.  What is torn raises an error that nobody
\* turns into a report.
LoadModel ==
  LET r == loader.role
      got == [loader.got EXCEPT ![r] =
                [model |-> artifact[r], meta |-> loader.meta, raced |-> loader.raced]]
  IN  /\ loader.pc = "load"
      /\ \/ artifact[r].whole /\ loader.left # {} /\ \E s \in loader.left :
              loader' = [loader EXCEPT !.pc = "meta", !.got = got, !.role = s, !.left = @ \ {s}]
         \/ artifact[r].whole /\ loader.left = {} /\ loader' = [loader EXCEPT !.pc = "served", !.got = got]
         \/ ~artifact[r].whole /\ loader' = [loader EXCEPT !.pc = "crashed"]
      /\ UNCHANGED <<disk, trainer, runs, dirty>>

\* systemd starts the engine again.
Restart ==
  /\ loader.pc \in {"served", "crashed"}
  /\ loader' = NotLoading
  /\ UNCHANGED <<disk, trainer, runs, dirty>>

Next ==
  \/ \E t \in Trainers :
       \/ StartRun(t) \/ SkipRole(t) \/ OpenArtifact(t) \/ CloseArtifact(t)
       \/ HashArtifact(t) \/ WriteMeta(t) \/ Finish(t) \/ Die(t)
  \/ ReadGroup \/ ReadMeta \/ CheckHash \/ LoadModel \/ Restart

Spec == Init /\ [][Next]_vars

-----------------------------------------------------------------------------
(* Properties. *)

\* Types; and a run has saved only roles before the one in hand.
TypeOK ==
  /\ artifact \in [Roles -> Contents]
  /\ meta \in [Roles -> Metas]
  /\ group \in 0 .. MaxRuns
  /\ trainer \in [Trainers -> Trainings]
  /\ \A t \in Trainers : \A r \in trainer[t].saved : r < trainer[t].role
  /\ loader \in Loadings
  /\ runs \in 0 .. MaxRuns /\ dirty \in BOOLEAN

\* Metadata describes a whole artifact of its own run, wherever a run died,
\* unless another run overlapped the one that wrote it (save).
MetadataIsOfItsModel ==
  \A r \in Roles : meta[r].run # 0 /\ meta[r].alone =>
    meta[r].hash = [run |-> meta[r].run, whole |-> TRUE]

\* A model that is served is the one its metadata vouches for, unless the
\* artifact was written between the check of its hash and its loading; and
\* the engine crashes over an artifact only then, or when the metadata is
\* of overlapping runs (load).
LoadsAreVouched ==
  /\ loader.pc = "served" =>
       \A r \in Group : ~loader.got[r].raced => loader.got[r].model = loader.got[r].meta.hash
  /\ loader.pc = "crashed" => loader.raced \/ ~loader.meta.alone

\* All models served together are of the run the group's file is from, if no
\* run was cut short, left out a role or was under way since, or overlapped
\* another (train_model_group, ForecastServer.load).
ServedIsOneRun ==
  loader.pc = "served" /\ loader.calm =>
    \A r \in Group : /\ loader.got[r].model = [run |-> loader.run, whole |-> TRUE]
                     /\ loader.got[r].meta.run = loader.run
=============================================================================
