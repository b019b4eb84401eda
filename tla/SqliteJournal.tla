--------------------------- MODULE SqliteJournal ---------------------------
(***************************************************************************)
(* SqliteJournalStore: engine, settlement and tools are processes that     *)
(* append to one WAL database.  A write transaction is opened by BEGIN     *)
(* IMMEDIATE, which one process at a time is granted; it reads the tip,    *)
(* inserts one row that names the hash of the row before it, and commits.  *)
(* A writer may wait in vain for the lock, fail at any statement, or die   *)
(* at any point: SQLite then discards what it had not committed and frees  *)
(* the lock.                                                               *)
(*                                                                         *)
(* event_hash is a digest without collisions: the digest of a row stands   *)
(* for everything it was computed from, the previous digest included.      *)
(***************************************************************************)
EXTENDS Integers, FiniteSets, Sequences

CONSTANTS
  Writer,   \* processes with a connection of their own
  Event,    \* what an event says, without its place in the chain
  Named,    \* events whose caller gave them an event_id
  NoWriter,
  MaxRows   \* bound: no append is called once the table holds this many

VARIABLES
  table,    \* committed rows of journal_events, by sequence_number
  lock,     \* holder of the write lock, or NoWriter
  pc,       \* where in append each writer is
  event,    \* the event it was called with
  tip,      \* what _tip returned to it
  returned  \* history: what appends returned, the row and its number

vars == <<table, lock, pc, event, tip, returned>>

ASSUME SqliteAssumption ==
  /\ NoWriter \notin Writer
  /\ Named \subseteq Event
  /\ MaxRows \in Nat

\* previous_event_hash of the first row
Genesis == << >>

\* compute_event_hash
Digest(seq, what, prev) == Append(prev, <<seq, what>>)

\* Mutant: hashed before the previous hash is filled in.
FinalizeUnlinked(what, at) ==
  [what |-> what, prev |-> at.prev, hash |-> Digest(at.seq, what, Genesis)]

\* _finalize
Finalize(what, at) ==
  [what |-> what, prev |-> at.prev, hash |-> Digest(at.seq, what, at.prev)]

\* verify_chain over iter_events: numbered from 1 without a gap, each row
\* naming the hash before it and carrying its own.
VerifyChain(t) ==
  \A k \in DOMAIN t :
    /\ k = 1 \/ k - 1 \in DOMAIN t
    /\ t[k].prev = IF k = 1 THEN Genesis ELSE t[k - 1].hash
    /\ t[k].hash = Digest(k, t[k].what, t[k].prev)

\* _tip: the highest committed row, and one after it.
Tip ==
  IF DOMAIN table = {}
    THEN [seq |-> 1, prev |-> Genesis]
    ELSE LET last == CHOOSE k \in DOMAIN table : \A j \in DOMAIN table : j <= k
         IN  [seq |-> last + 1, prev |-> table[last].hash]

NoTip == [seq |-> 1, prev |-> Genesis]

Init ==
  /\ table = << >>
  /\ lock = NoWriter
  /\ pc = [w \in Writer |-> "idle"]
  /\ event \in [Writer -> Event]
  /\ tip = [w \in Writer |-> NoTip]
  /\ returned = {}

-----------------------------------------------------------------------------
CallAppend(w, e) ==
  /\ pc[w] = "idle"
  /\ Cardinality(DOMAIN table) < MaxRows
  /\ pc' = [pc EXCEPT ![w] = "begin"]
  /\ event' = [event EXCEPT ![w] = e]
  /\ UNCHANGED <<table, lock, tip, returned>>

\* Mutant: a plain BEGIN takes no lock before the tip is read.
BeginDeferred(w) ==
  /\ pc[w] = "begin"
  /\ lock' = w
  /\ pc' = [pc EXCEPT ![w] = "tip"]
  /\ UNCHANGED <<table, event, tip, returned>>

\* BEGIN IMMEDIATE is granted to one writer at a time.
BeginImmediate(w) ==
  /\ pc[w] = "begin"
  /\ lock = NoWriter
  /\ lock' = w
  /\ pc' = [pc EXCEPT ![w] = "tip"]
  /\ UNCHANGED <<table, event, tip, returned>>

\* busy_timeout runs out while another writer holds the lock.
BusyTimeout(w) ==
  /\ pc[w] = "begin"
  /\ lock # NoWriter
  /\ pc' = [pc EXCEPT ![w] = "idle"]
  /\ UNCHANGED <<table, lock, event, tip, returned>>

ReadTip(w) ==
  /\ pc[w] = "tip"
  /\ tip' = [tip EXCEPT ![w] = Tip]
  /\ pc' = [pc EXCEPT ![w] = "insert"]
  /\ UNCHANGED <<table, lock, event, returned>>

\* UNIQUE event_id: an id made here holds the sequence number; one the caller
\* gave may be in the table already.
IdIsTaken(e) == e \in Named /\ \E k \in DOMAIN table : table[k].what = e
Collides(w) == tip[w].seq \in DOMAIN table \/ IdIsTaken(event[w])

\* The row is in the writer's transaction, and seen by nobody.
Insert(w) ==
  /\ pc[w] = "insert"
  /\ ~Collides(w)
  /\ pc' = [pc EXCEPT ![w] = "commit"]
  /\ UNCHANGED <<table, lock, event, tip, returned>>

Release(w) == IF lock = w THEN NoWriter ELSE lock

Row(w) == Finalize(event[w], tip[w])

\* Mutant: the event is returned without a commit.
ForgetCommit(w) ==
  /\ pc[w] = "commit"
  /\ lock' = Release(w)
  /\ pc' = [pc EXCEPT ![w] = "committed"]
  /\ UNCHANGED <<table, event, tip, returned>>

Commit(w) ==
  /\ pc[w] = "commit"
  /\ table' = [k \in DOMAIN table \cup {tip[w].seq} |->
                 IF k = tip[w].seq THEN Row(w) ELSE table[k]]
  /\ lock' = Release(w)
  /\ pc' = [pc EXCEPT ![w] = "committed"]
  /\ UNCHANGED <<event, tip, returned>>

\* Mutant: the exception is raised and the transaction stays open.
RaiseWithoutRollback(w) ==
  /\ pc[w] \in {"tip", "insert", "commit"}
  /\ pc' = [pc EXCEPT ![w] = "idle"]
  /\ UNCHANGED <<table, lock, event, tip, returned>>

\* Mutant: each statement commits itself, and there is nothing to roll back.
RollbackTooLate(w) ==
  /\ pc[w] \in {"tip", "insert", "commit"}
  /\ lock' = Release(w)
  /\ pc' = [pc EXCEPT ![w] = "idle"]
  /\ table' = IF pc[w] = "commit"
                THEN [k \in DOMAIN table \cup {tip[w].seq} |->
                        IF k = tip[w].seq THEN Row(w) ELSE table[k]]
                ELSE table
  /\ UNCHANGED <<event, tip, returned>>

\* A constraint, or the disk, fails a statement: rollback, and raise.
Rollback(w) ==
  /\ pc[w] \in {"tip", "insert", "commit"}
  /\ lock' = Release(w)
  /\ pc' = [pc EXCEPT ![w] = "idle"]
  /\ UNCHANGED <<table, event, tip, returned>>

ReturnRow(w) ==
  /\ pc[w] = "committed"
  /\ returned' = returned \cup {[seq |-> tip[w].seq, row |-> Row(w)]}
  /\ pc' = [pc EXCEPT ![w] = "idle"]
  /\ UNCHANGED <<table, lock, event, tip>>

\* The process is killed, in an append or between two; another takes its place.
Die(w) ==
  /\ lock' = Release(w)
  /\ pc' = [pc EXCEPT ![w] = "idle"]
  /\ UNCHANGED <<table, event, tip, returned>>

Next ==
  \E w \in Writer :
    \/ \E e \in Event : CallAppend(w, e)
    \/ BeginImmediate(w) \/ BusyTimeout(w) \/ ReadTip(w) \/ Insert(w)
    \/ Commit(w) \/ Rollback(w) \/ ReturnRow(w) \/ Die(w)

Spec == Init /\ [][Next]_vars

-----------------------------------------------------------------------------
(* Properties. *)

PC == {"idle", "begin", "tip", "insert", "commit", "committed"}
Digests == Seq((Nat \ {0}) \X Event)
Rows == [what : Event, prev : Digests, hash : Digests]

TypeOK ==
  /\ tip \in [Writer -> [seq : Nat \ {0}, prev : Digests]]
  /\ table \in Seq(Rows)
  /\ lock \in Writer \cup {NoWriter}
  /\ pc \in [Writer -> PC]
  /\ event \in [Writer -> Event]
  /\ returned \in SUBSET [seq : Nat \ {0}, row : Rows]

\* Whatever the writers' interleaving, timeouts, rollbacks and deaths, a
\* reader finds a journal whose chain verifies (SqliteJournalStore.append,
\* verify_chain).
ChainVerifies == VerifyChain(table)

\* The write lock belongs to a writer that is inside its transaction and to
\* no other: none is left locked out by one that has finished, failed or died.
LockIsInUse ==
  \A w \in Writer : lock = w <=> pc[w] \in {"tip", "insert", "commit"}

\* The tip a writer goes on is still the tip when it writes: two writers never
\* claim a sequence number (the class docstring of SqliteJournalStore).
TipIsFresh ==
  \A w \in Writer : pc[w] \in {"insert", "commit"} => tip[w] = Tip

\* What append returned to its caller is in the journal, at that number and
\* with that hash, for good.
ReturnedIsStored ==
  \A r \in returned : r.seq \in DOMAIN table /\ table[r.seq] = r.row

-----------------------------------------------------------------------------
(* Refinement. *)

EventsInOrder == [k \in DOMAIN table |-> table[k].what]

CallOf(w) ==
  CASE pc[w] = "idle" -> [phase |-> "idle"]
    [] pc[w] = "committed" -> [phase |-> "applied", what |-> event[w]]
    [] OTHER -> [phase |-> "called", what |-> event[w]]

Abstract == INSTANCE Journal WITH
  log <- EventsInOrder,
  call <- [w \in Writer |-> CallOf(w)]

\* The store is the atomic log that StateRoot takes the journal for.
ImplementsJournal == Abstract!Spec
=============================================================================
