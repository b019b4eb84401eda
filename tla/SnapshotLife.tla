---------------------------- MODULE SnapshotLife ----------------------------
(***************************************************************************)
(* What the pipeline promises about the snapshots of a session: each is    *)
(* recorded, then offered as a universe of candidates, then settled, in    *)
(* that order and for good.  Outcomes come in batches of offered           *)
(* snapshots, once the session is over; a batch that is settled to the     *)
(* last is closed by the session's marker, and after the marker nothing    *)
(* is settled.                                                             *)
(***************************************************************************)
EXTENDS Integers

CONSTANT Snapshots  \* numbers, in the order of their ticks

VARIABLES
  recorded,  \* in the recording
  over,      \* the session is over
  offered,   \* with a universe in the journal
  batch,     \* under settlement
  settled,   \* with an outcome in the journal
  marked     \* the session's marker is in the journal

life == <<recorded, over, offered, batch, settled, marked>>

Init ==
  /\ recorded \in SUBSET Snapshots
  /\ over \in BOOLEAN
  /\ offered = {} /\ batch = {} /\ settled = {}
  /\ marked = FALSE

\* A later snapshot than any; it may be the one that says the session is over.
Record(s) ==
  /\ \A r \in recorded : r < s
  /\ recorded' = recorded \cup {s}
  /\ over' \in {over, TRUE}
  /\ UNCHANGED <<offered, batch, settled, marked>>

EndSession ==
  /\ over' = TRUE
  /\ UNCHANGED <<recorded, offered, batch, settled, marked>>

Offer(s) ==
  /\ s \in recorded \ offered
  /\ offered' = offered \cup {s}
  /\ UNCHANGED <<recorded, over, batch, settled, marked>>

\* Whatever was settled before is settled again with the rest.
BeginBatch ==
  /\ over /\ ~marked
  /\ batch = {}
  /\ batch' \subseteq offered /\ batch' # {}
  /\ UNCHANGED <<recorded, over, offered, settled, marked>>

AbandonBatch ==
  /\ batch' = {}
  /\ UNCHANGED <<recorded, over, offered, settled, marked>>

Settle(s) ==
  /\ s \in batch
  /\ settled' = settled \cup {s}
  /\ UNCHANGED <<recorded, over, offered, batch, marked>>

Mark ==
  /\ ~marked
  /\ batch # {} /\ batch \subseteq settled
  /\ marked' = TRUE
  /\ batch' = {}
  /\ UNCHANGED <<recorded, over, offered, settled>>

Next ==
  \/ \E s \in Snapshots : Record(s) \/ Offer(s) \/ Settle(s)
  \/ EndSession \/ BeginBatch \/ AbandonBatch \/ Mark

Spec == Init /\ [][Next]_life
=============================================================================
