----------------------------- MODULE Deployment -----------------------------
(***************************************************************************)
(* Which deployment serves: a pointer with its history, and the controller *)
(* of the cutover from System A to System B, which keeps its own record of *)
(* the primary and of what to roll back to.  The controller moves the      *)
(* pointer; an operator may also move it directly.                         *)
(*                                                                         *)
(* A manifest is its id, the system whose account it trades on and whether *)
(* it is frozen; the versions it pins are not read here.                   *)
(***************************************************************************)
EXTENDS Naturals, Sequences, SequencesExt

CONSTANTS
  Releases,    \* ids of the deployments that are promoted after the cutover
  MaxHistory,  \* bound on the pointer's history
  MaxRollbacks \* bound on rollbacks to System A

DeploymentAssumption ==
  /\ Releases \cap {"system-a", "system-b"} = {}
  /\ MaxHistory \in Nat \ {0} /\ MaxRollbacks \in Nat

VARIABLES
  pointer,    \* DeploymentPointer: the manifest served and those before it
  cutover,    \* CutoverState
  rollbacks,  \* history: rollbacks to System A so far
  direct      \* history: the pointer was moved past the controller

deployment == <<pointer, cutover, rollbacks, direct>>

Systems == {"system_a", "system_b"}
Manifests == [id : Releases \cup {"system-a", "system-b"}, system : Systems, frozen : BOOLEAN]

SystemA == [id |-> "system-a", system |-> "system_a", frozen |-> FALSE]
SystemB == [id |-> "system-b", system |-> "system_b", frozen |-> FALSE]

\* activate_controlled_cutover starts from System A and activates System B.
Init ==
  /\ pointer = [current |-> SystemB, history |-> <<SystemA>>]
  /\ cutover \in [phase : {"active"}, primary : {"system_b"}, manifest : {SystemB},
                  rollback : {SystemA}, agent : BOOLEAN]
  /\ rollbacks = 0
  /\ direct = FALSE

-----------------------------------------------------------------------------
(* The pointer. *)

\* activate raises when the current deployment is frozen and m is another.
Activates(m) == ~pointer.current.frozen \/ m.id = pointer.current.id

Activated(m) == [current |-> m, history |-> Append(pointer.history, pointer.current)]

Room == Len(pointer.history) < MaxHistory

\* promote refuses a frozen rollback target, here the deployment served, and
\* gives the release that target's account; the operator activates it.
Release(r) ==
  LET m == [id |-> r, system |-> pointer.current.system, frozen |-> FALSE]
  IN  /\ Room
      /\ ~pointer.current.frozen
      /\ Activates(m)
      /\ pointer' = Activated(m)
      /\ direct' = TRUE
      /\ UNCHANGED <<cutover, rollbacks>>

\* freeze_deployment replaces the manifest without a new history entry.
Freeze ==
  /\ ~pointer.current.frozen
  /\ pointer' = [pointer EXCEPT !.current.frozen = TRUE]
  /\ UNCHANGED <<cutover, rollbacks, direct>>

\* A frozen deployment may be activated again under its own id.
Thaw ==
  LET m == [pointer.current EXCEPT !.frozen = FALSE]
  IN  /\ Room
      /\ pointer.current.frozen
      /\ Activates(m)
      /\ pointer' = Activated(m)
      /\ UNCHANGED <<cutover, rollbacks, direct>>

\* rollback_deployment takes its target off the history, and only then
\* refuses a frozen one.
RollbackDeployment ==
  LET target == Last(pointer.history)
  IN  /\ pointer.history # <<>>
      /\ pointer' = [current |-> IF target.frozen THEN pointer.current ELSE target,
                     history |-> Front(pointer.history)]
      /\ direct' = TRUE
      /\ UNCHANGED <<cutover, rollbacks>>

\* rehearse_rollback rolls back for good when there is a history; without one
\* it activates a twin and comes back to where it was.
RehearseRollback == RollbackDeployment

-----------------------------------------------------------------------------
(* The controller. *)

SetAgentAuthority(on) ==
  /\ cutover.agent # on
  /\ cutover' = [cutover EXCEPT !.agent = on]
  /\ UNCHANGED <<pointer, rollbacks, direct>>

\* Mutant: the manifest of the last deployment rather than of System A.
PreviousTarget == IF pointer.history = <<>> THEN pointer.current ELSE Last(pointer.history)

RollbackTarget == cutover.rollback

\* rollback_to_system_a: the pointer first, which may refuse; what served as
\* primary becomes what the next rollback goes to.
RollbackToSystemA ==
  /\ rollbacks < MaxRollbacks /\ Room
  /\ Activates(RollbackTarget)
  /\ pointer' = Activated(RollbackTarget)
  /\ cutover' = [cutover EXCEPT !.phase = "rolled_back", !.primary = "system_a",
                                !.manifest = RollbackTarget, !.rollback = cutover.manifest]
  /\ rollbacks' = rollbacks + 1
  /\ UNCHANGED direct

Next ==
  \/ \E r \in Releases : Release(r)
  \/ Freeze \/ Thaw \/ RollbackDeployment \/ RehearseRollback
  \/ \E on \in BOOLEAN : SetAgentAuthority(on)
  \/ RollbackToSystemA

Spec == Init /\ [][Next]_deployment

-----------------------------------------------------------------------------
(* Properties. *)

TypeOK ==
  /\ pointer.current \in Manifests
  /\ pointer.history \in Seq(Manifests) /\ Len(pointer.history) <= MaxHistory
  /\ cutover \in [phase : {"active", "rolled_back"}, primary : Systems,
                  manifest : Manifests, rollback : Manifests, agent : BOOLEAN]
  /\ rollbacks \in 0 .. MaxRollbacks /\ direct \in BOOLEAN

\* What the controller reports as primary is the system whose manifest it
\* activated, and the pointer serves that system, as long as the rollback is
\* asked for once and nobody moves the pointer past the controller
\* (rollback_to_system_a, activate).
PrimaryRunsItsSystem ==
  rollbacks <= 1 =>
    /\ cutover.manifest.system = cutover.primary
    /\ ~direct => pointer.current.system = cutover.primary
=============================================================================
