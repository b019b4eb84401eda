----------------------------- MODULE Promotion -----------------------------
(***************************************************************************)
(* The champion configuration and the files beside it under configs/:      *)
(* pending_review/, promoted/, challengers/rejected_*, champion_history/.  *)
(* Dojo runs stage a candidate, try it against the champion in force and   *)
(* promote it; operators promote, reject and roll back through the         *)
(* dashboard's threads.  A change archives the outgoing champion, writes   *)
(* the new one and tidies up, in separate files and under no lock, and its *)
(* process may die in between.                                             *)
(*                                                                         *)
(* Each file is replaced or renamed at once.  A candidate is one file that *)
(* moves between the directories.  Time is a counter: the names of archive *)
(* files and the cooldown are in its unit.                                 *)
(***************************************************************************)
EXTENDS Integers, FiniteSets

CONSTANTS
  Candidates, Dojos, Operators,
  None,
  Cooldown,      \* cooldown_hours
  MaxClock, MaxWrites, MaxDeaths   \* bounds

Writers == Dojos \cup Operators

VARIABLES
  where,      \* candidate -> the directory its staged file is in
  champion,   \* champion.json: candidate, promoted_at, and what stat tells of it
  history,    \* champion_history/: archived champions under their names
  clock,
  writer,     \* per process: pc, and what it holds between its steps
  deaths,
  ever,       \* history variable: candidates that were champion
  raced       \* history variable: two changes were under way at once

vars == <<where, champion, history, clock, writer, deaths, ever, raced>>

NoChampion == [id |-> None, at |-> 0, stamp |-> 0]
NoName == [at |-> 0, k |-> 0]
Idle == [pc |-> "idle", id |-> None, seen |-> NoChampion, outgoing |-> None,
         name |-> NoName, source |-> NoName]

ASSUME PromotionAssumption ==
  /\ IsFiniteSet(Candidates) /\ None \notin Candidates
  /\ Dojos \cap Operators = {}
  /\ Cooldown \in Nat /\ MaxClock \in Nat /\ MaxWrites \in Nat /\ MaxDeaths \in Nat

Init ==
  /\ where = [c \in Candidates |-> "new"]
  /\ champion = NoChampion
  /\ history = {}
  /\ clock = 1
  /\ writer = [w \in Writers |-> Idle]
  /\ deaths = 0
  /\ ever = {}
  /\ raced = FALSE

Goes(w, pc) == writer' = [writer EXCEPT ![w].pc = pc]

-----------------------------------------------------------------------------
(* The Dojo. *)

\* stage_pending_review, under an id no run has used.
Stage(d, c) ==
  /\ writer[d] = Idle /\ where[c] = "new"
  /\ where' = [where EXCEPT ![c] = "pending"]
  /\ writer' = [writer EXCEPT ![d].pc = "staged", ![d].id = c]
  /\ UNCHANGED <<champion, history, clock, deaths, ever, raced>>

\* run_promotion_trial is given the champion of this moment.
BeginTrial(d) ==
  /\ writer[d].pc = "staged"
  /\ writer' = [writer EXCEPT ![d].pc = "trial", ![d].seen = champion]
  /\ UNCHANGED <<where, champion, history, clock, deaths, ever, raced>>

\* Mutant: every trial passes the gate.
NoCooldownGate(seen) == seen.stamp >= 0

\* _cooldown_gate: no champion, or one promoted long enough ago.
CooldownGate(seen) == seen = NoChampion \/ clock - seen.at >= Cooldown

\* Any gate may fail; auto_promote_pending may find the file gone.
TrialEnds(d) ==
  /\ writer[d].pc = "trial"
  /\ writer' = [writer EXCEPT ![d] = Idle]
  /\ UNCHANGED <<where, champion, history, clock, deaths, ever, raced>>

AutoPromote(d) ==
  /\ writer[d].pc = "trial"
  /\ CooldownGate(writer[d].seen)
  /\ where[writer[d].id] = "pending"
  /\ Goes(d, "archive")
  /\ UNCHANGED <<where, champion, history, clock, deaths, ever, raced>>

-----------------------------------------------------------------------------
(* The operators. *)

PromoteByHand(o, c) ==
  /\ writer[o] = Idle /\ where[c] = "pending"
  /\ writer' = [writer EXCEPT ![o].pc = "archive", ![o].id = c]
  /\ UNCHANGED <<where, champion, history, clock, deaths, ever, raced>>

Reject(o, c) ==
  /\ writer[o] = Idle /\ where[c] = "pending"
  /\ where' = [where EXCEPT ![c] = "rejected"]
  /\ UNCHANGED <<champion, history, clock, writer, deaths, ever, raced>>

\* Names sort by their second; within it "champion-S-1.json" comes before
\* "champion-S.json".
SortsAfter(m, n) ==
  \/ m.at > n.at
  \/ m.at = n.at /\ m.k # n.k /\ (m.k = 0 \/ (n.k # 0 /\ m.k > n.k))

\* Mutant: the archive that sorts first.
FirstArchived == CHOOSE h \in history : \A g \in history \ {h} : SortsAfter(g.name, h.name)

LastArchived == CHOOSE h \in history : \A g \in history \ {h} : SortsAfter(h.name, g.name)

\* rollback_champion takes the archive that sorts last.
Rollback(o) ==
  /\ writer[o] = Idle /\ history # {}
  /\ writer' = [writer EXCEPT ![o].pc = "archive", ![o].id = LastArchived.id,
                              ![o].source = LastArchived.name]
  /\ UNCHANGED <<where, champion, history, clock, deaths, ever, raced>>

-----------------------------------------------------------------------------
(* What promotions and rollbacks share. *)

Changing(w) == writer[w].pc \in {"archive", "save", "write", "retire", "unlink"}

\* Mutant: two archives of one second share a name.
SecondsName == [at |-> clock, k |-> 0]

\* _archive_champion tries suffixes until a name of this second is free.
FreeName ==
  LET taken == {h.name.k : h \in {g \in history : g.name.at = clock}}
  IN  [at |-> clock, k |-> CHOOSE k \in 0 .. Cardinality(taken) :
                              k \notin taken /\ \A j \in 0 .. k - 1 : j \in taken]

\* _archive_champion reads the outgoing champion, if any, and picks a name.
Archive(w) ==
  /\ writer[w].pc = "archive"
  /\ writer' = IF champion = NoChampion
                 THEN [writer EXCEPT ![w].pc = "write"]
                 ELSE [writer EXCEPT ![w].pc = "save", ![w].name = FreeName,
                                     ![w].outgoing = champion.id]
  /\ raced' = (raced \/ \E v \in Writers \ {w} : Changing(v))
  /\ UNCHANGED <<where, champion, history, clock, deaths, ever>>

Save(w) ==
  /\ writer[w].pc = "save"
  /\ history' = {h \in history : h.name # writer[w].name}
                  \cup {[name |-> writer[w].name, id |-> writer[w].outgoing]}
  /\ Goes(w, "write")
  /\ UNCHANGED <<where, champion, clock, deaths, ever, raced>>

\* _write_champion.
WriteChampion(w) ==
  /\ writer[w].pc = "write" /\ champion.stamp < MaxWrites
  /\ champion' = [id |-> writer[w].id, at |-> clock, stamp |-> champion.stamp + 1]
  /\ ever' = ever \cup {writer[w].id}
  /\ Goes(w, IF writer[w].source = NoName THEN "retire" ELSE "unlink")
  /\ UNCHANGED <<where, history, clock, deaths, raced>>

\* _retire_pending, unless the file is gone.
Retire(w) ==
  /\ writer[w].pc = "retire"
  /\ where' = [where EXCEPT ![writer[w].id] = IF @ = "pending" THEN "promoted" ELSE @]
  /\ writer' = [writer EXCEPT ![w] = Idle]
  /\ UNCHANGED <<champion, history, clock, deaths, ever, raced>>

\* rollback_champion removes the archive it restored.
Unlink(w) ==
  /\ writer[w].pc = "unlink"
  /\ history' = {h \in history : h.name # writer[w].source}
  /\ writer' = [writer EXCEPT ![w] = Idle]
  /\ UNCHANGED <<where, champion, clock, deaths, ever, raced>>

Death(w) ==
  /\ writer[w] # Idle /\ deaths < MaxDeaths
  /\ deaths' = deaths + 1
  /\ writer' = [writer EXCEPT ![w] = Idle]
  /\ UNCHANGED <<where, champion, history, clock, ever, raced>>

Tick ==
  /\ clock < MaxClock
  /\ clock' = clock + 1
  /\ UNCHANGED <<where, champion, history, writer, deaths, ever, raced>>

Next ==
  \/ \E d \in Dojos :
       (\E c \in Candidates : Stage(d, c)) \/ BeginTrial(d) \/ TrialEnds(d) \/ AutoPromote(d)
  \/ \E o \in Operators :
       (\E c \in Candidates : PromoteByHand(o, c) \/ Reject(o, c)) \/ Rollback(o)
  \/ \E w \in Writers :
       Archive(w) \/ Save(w) \/ WriteChampion(w) \/ Retire(w) \/ Unlink(w) \/ Death(w)
  \/ Tick

Spec == Init /\ [][Next]_vars

-----------------------------------------------------------------------------
(* Properties. *)

\* Types, and the names in champion_history/ are distinct; what is archived was
\* a champion.
TypeOK ==
  /\ where \in [Candidates -> {"new", "pending", "promoted", "rejected"}]
  /\ champion.id \in Candidates \cup {None} /\ champion.at \in 0 .. clock
  /\ \A g, h \in history : g.name = h.name => g = h
  /\ \A h \in history : h.id \in Candidates
  /\ \A w \in Writers : Changing(w) => writer[w].id \in Candidates

\* Unless two changes were under way at once, every candidate that was ever
\* champion is champion still or in the history, whatever promotions,
\* rollbacks and deaths came after it (_archive_champion, rollback_champion).
ReplacedIsArchived ==
  raced \/ \A c \in ever : champion.id = c \/ \E h \in history : h.id = c

\* A Dojo that replaces the very champion its trial was given does so after
\* the cooldown (_cooldown_gate).
CooldownIsKept ==
  [][\A d \in Dojos : WriteChampion(d) /\ champion = writer[d].seen =>
       champion = NoChampion \/ clock - champion.at >= Cooldown]_vars

\* Unless two changes raced, an archive that is the only one of its second is,
\* once it is saved, the one a rollback would restore, however long its process
\* took to save it (_archive_champion names it, rollback_champion sorts names).
\* Of two archives of one second the first sorts last.
LatestIsRestored ==
  [][\A w \in Writers :
       /\ Save(w) /\ ~raced
       /\ \A h \in history : h.name.at # writer[w].name.at
       => LastArchived'.name = writer[w].name]_vars
=============================================================================
