---------------------------- MODULE RecordingLog ----------------------------
(***************************************************************************)
(* What a session's recording promises those who read it: a log of whole   *)
(* records in the order of their ticks.  A record enters at one moment, at *)
(* the end, numbered one after the highest, whether its append then        *)
(* returns or its writer dies.  A repair numbers the records anew and      *)
(* leaves them.  One that replaces a file in use breaks this: from then on *)
(* only the order is promised.                                             *)
(***************************************************************************)
EXTENDS Integers, Sequences

CONSTANT Records  \* with a number "seq" and a tick "id"

VARIABLES
  log,       \* the records a reader finds, oldest first
  returned,  \* ticks whose append returned
  broken     \* a repair has replaced the file under its writer

Ordered(records) ==
  \A i, j \in DOMAIN records : i < j => records[i].id < records[j].id

TicksIn(records) == {records[i].id : i \in DOMAIN records}

\* One after the highest number in the log.
NextNumber(n) ==
  /\ \A i \in DOMAIN log : log[i].seq < n
  /\ n = 0 \/ \E i \in DOMAIN log : log[i].seq = n - 1

Init ==
  /\ log \in Seq(Records) /\ Ordered(log)
  /\ returned = TicksIn(log)
  /\ broken = FALSE

Enter(r) ==
  /\ \A t \in TicksIn(log) : t < r.id
  /\ NextNumber(r.seq)
  /\ log' = Append(log, r)
  /\ returned' \in {returned, returned \cup {r.id}}
  /\ broken = FALSE /\ broken' = FALSE

Renumbered ==
  /\ log' = [i \in DOMAIN log |-> [log[i] EXCEPT !.seq = i - 1]]
  /\ returned' = returned
  /\ broken = FALSE /\ broken' = FALSE

Break ==
  /\ broken' = TRUE
  /\ log' \in Seq(Records) /\ Ordered(log')
  /\ returned \subseteq returned'

Next == (\E r \in Records : Enter(r)) \/ Renumbered \/ Break
Spec == Init /\ [][Next]_<<log, returned, broken>>
=============================================================================
