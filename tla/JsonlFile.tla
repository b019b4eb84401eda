----------------------------- MODULE JsonlFile -----------------------------
(***************************************************************************)
(* A JSONL file in the recording envelope, as its writers leave it and its *)
(* readers see it: market/<session>.jsonl and the stage artifacts.         *)
(*                                                                         *)
(* A line is kept as what a reader can learn from it: whether it parses,   *)
(* its "seq" and its "snapshot_id".  A record cut short by a crash, or two *)
(* records run together on one line, is a line that does not parse.  "nl"  *)
(* says whether the file ends in a newline; without one the next append    *)
(* lands on the last line.  Payload and record_hash are not kept: nothing  *)
(* here alters a payload, so the hash check of _verify always agrees.      *)
(***************************************************************************)
EXTENDS Integers, Sequences

Entry(seq, id) == [ok |-> TRUE, seq |-> seq, id |-> id]
Garbled == [ok |-> FALSE, seq |-> -1, id |-> 0]

EmptyFile == [lines |-> << >>, nl |-> TRUE]

\* The bytes of one write reach the end of the file; "nl" is whether they
\* ended in a newline.  On an unterminated line they run into what is there.
WriteLine(f, line, nl) ==
  IF f.nl
    THEN [lines |-> Append(f.lines, line), nl |-> nl]
    ELSE [lines |-> [f.lines EXCEPT ![Len(f.lines)] = Garbled], nl |-> nl]

AppendRecord(f, line) == WriteLine(f, line, TRUE)

\* What a writer killed inside write() can leave of a record: a fragment of
\* it, or all of it but the newline.
CutShort(f, line) == {WriteLine(f, Garbled, FALSE), WriteLine(f, line, FALSE)}

\* Mutant: the next append lands on the fragment a crash left.
LeaveUnterminated(f) == f

\* market_service._ensure_trailing_newline
Terminate(f) == [f EXCEPT !.nl = TRUE]

\* The elements of s that are in S, in their order.
Those(s, S) ==
  LET kept[n \in 0 .. Len(s)] ==
        IF n = 0 THEN << >>
        ELSE IF s[n] \in S THEN Append(kept[n - 1], s[n])
        ELSE kept[n - 1]
  IN  kept[Len(s)]

Parsed == [ok : {TRUE}, seq : Int, id : Int]
Parsable(f) == Those(f.lines, Parsed)
IdsIn(f) == {f.lines[i].id : i \in {j \in DOMAIN f.lines : f.lines[j].ok}}

Contiguous(lines) ==
  \A i \in DOMAIN lines : i > 1 => lines[i].seq = lines[i - 1].seq + 1

\* ReplayFeed.from_file: every line parses and the sequence has no gap; any
\* first sequence number is accepted.
Readable(f) ==
  /\ \A i \in DOMAIN f.lines : f.lines[i].ok
  /\ Contiguous(f.lines)

\* Mutant: the last line alone is read, torn or not.
SeqOfLastLine(f) == IF f.lines = << >> THEN -1 ELSE f.lines[Len(f.lines)].seq

\* market_service._last_seq: the highest parsable sequence, -1 for none.
HighestSeq(f) ==
  LET seqs == {-1} \cup {f.lines[i].seq : i \in DOMAIN f.lines}
  IN  CHOOSE s \in seqs : \A t \in seqs : t <= s

\* StageArtifactStore._next_seq: one after the LAST parsable sequence.
SeqAfterLast(f) ==
  LET read == {i \in DOMAIN f.lines : f.lines[i].ok}
  IN  IF read = {} THEN 0
      ELSE f.lines[CHOOSE i \in read : \A j \in read : j <= i].seq + 1

\* repair._renumber
Renumber(lines) == [i \in DOMAIN lines |-> [lines[i] EXCEPT !.seq = i - 1]]
=============================================================================
