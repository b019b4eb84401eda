----------------------------- MODULE Recording -----------------------------
(***************************************************************************)
(* The front of the pipeline: `spy-der market` appends one record a tick   *)
(* to the session's recording, is killed and restarted by systemd          *)
(* (Restart=always), and an operator may run `spy-der-repair-recording` on *)
(* the same file.                                                          *)
(***************************************************************************)
EXTENDS Session

CONSTANT
  Legacy  \* recordings found on disk, written before `seq` was resumed

VARIABLES
  mpc,      \* market process: "idle", "open", "partial"
  mseq,     \* its cached next sequence (_seq_by_session), Unset after a start
  mfile,    \* is the handle it holds open still the file at that path?
  written,  \* ids of the ticks whose append returned
  rpc,      \* repair tool: "idle", "gap", "loaded", "done"
  rload,    \* records it loaded, renumbered
  rquiet,   \* history: the market process has left the file alone since
            \* that load, and remembers no sequence number for it
  live,     \* history: a repair replaced a file that was not left alone
  rstatus   \* the status it reported, "none" before

marketVars == <<mpc, mseq, mfile, written>>
repairVars == <<rpc, rload, rquiet, live, rstatus>>
vars == <<tape, clock, marketVars, crashes, repairVars>>

Line == [ok : BOOLEAN, seq : -1 .. N - 1, id : 0 .. N]

ASSUME RecordingAssumption ==
  /\ N \in Nat \ {0}
  /\ MaxCrashes \in Nat
  /\ Legacy \subseteq [lines : Seq([ok : {TRUE}, seq : Nat, id : Nat]), nl : {TRUE}]
  /\ \A f \in Legacy :
       /\ Len(f.lines) \in 1 .. N
       /\ \A i \in DOMAIN f.lines : f.lines[i].id = i /\ f.lines[i].seq \in 0 .. i - 1

-----------------------------------------------------------------------------
\* A fresh session has no file; a legacy one holds earlier ticks.
Init ==
  /\ tape \in {EmptyFile} \cup Legacy
  /\ clock = Len(tape.lines)
  /\ mpc = "idle"
  /\ mseq = Unset
  /\ mfile = TRUE
  /\ crashes = 0
  /\ written = IdsIn(tape)
  /\ rpc = "idle"
  /\ rload = << >>
  /\ rquiet = FALSE
  /\ live = FALSE
  /\ rstatus = "none"

-----------------------------------------------------------------------------
(* The market service. *)

\* No provider answers, the snapshot raises, or the process is between lives:
\* the tick passes and nothing is written.
TickMissed ==
  /\ mpc = "idle"
  /\ clock < N
  /\ clock' = clock + 1
  /\ UNCHANGED <<tape, marketVars, crashes, repairVars>>

\* Mutant: a start skips a number.
NextSeqSkips == IF mseq # Unset THEN mseq ELSE HighestSeq(tape) + 2

\* _next_seq: the cache, or one after the highest sequence on disk.
NextSeq == IF mseq # Unset THEN mseq ELSE HighestSeq(tape) + 1

\* _tick up to the open: the sequence is taken and cached before the write,
\* a fragment left by an earlier life is closed, the file is opened.
TickOpen ==
  /\ mpc = "idle"
  /\ clock < N
  /\ clock' = clock + 1
  /\ mseq' = NextSeq + 1
  /\ tape' = Terminate(tape)
  /\ mpc' = "open"
  /\ mfile' = TRUE
  /\ rquiet' = (rquiet /\ rpc # "loaded")
  /\ UNCHANGED <<crashes, written, rpc, rload, live, rstatus>>

MarketRecord == Entry(mseq - 1, clock)

\* A record longer than the stream's buffer reaches the file in pieces; a
\* reader, or a crash, may find the first of them.
TickWriteSome ==
  /\ mpc = "open"
  /\ mpc' = "partial"
  /\ tape' = IF mfile THEN WriteLine(tape, Garbled, FALSE) ELSE tape
  /\ UNCHANGED <<clock, mseq, mfile, crashes, written, repairVars>>

\* The whole record and its newline are in the file the handle refers to.
TickWritten ==
  /\ mpc \in {"open", "partial"}
  /\ tape' = CASE ~mfile -> tape
               [] mfile /\ mpc = "open" -> AppendRecord(tape, MarketRecord)
               [] OTHER -> [lines |-> [tape.lines EXCEPT ![Len(tape.lines)] = MarketRecord],
                            nl |-> TRUE]
  /\ mpc' = "idle"
  /\ written' = written \cup {clock}
  /\ UNCHANGED <<clock, mseq, mfile, crashes, repairVars>>

\* The process dies and systemd starts another: memory is lost, and a write
\* under way leaves what had reached the file, to the last byte but one.
MarketCrash ==
  /\ crashes < MaxCrashes
  /\ crashes' = crashes + 1
  /\ mpc' = "idle"
  /\ mseq' = Unset
  /\ mfile' = TRUE
  /\ \/ UNCHANGED tape
     \/ /\ mpc = "partial" /\ mfile
        /\ tape' = [tape EXCEPT !.lines[Len(tape.lines)] = MarketRecord]
  /\ UNCHANGED <<clock, written, repairVars>>

MarketNext == TickMissed \/ TickOpen \/ TickWriteSome \/ TickWritten \/ MarketCrash

-----------------------------------------------------------------------------
(* spy-der-repair-recording, run by an operator at any moment. *)

\* inspect_recording: lines that do not parse are dropped before the check.
Classify(f) ==
  CASE Parsable(f) = << >> -> "empty"
    [] Parsable(f) # << >> /\ ~Contiguous(Parsable(f)) -> "sequence_gap"
    [] OTHER -> "clean"

RepairInspect ==
  /\ rpc = "idle"
  /\ rstatus' = Classify(tape)
  /\ rpc' = IF Classify(tape) = "sequence_gap" THEN "gap" ELSE "done"
  /\ UNCHANGED <<tape, clock, marketVars, crashes, rload, rquiet, live>>

\* repair_recording reads the file again and renumbers what it loaded.
RepairLoad ==
  /\ rpc = "gap"
  /\ rpc' = "loaded"
  /\ rload' = Renumber(Parsable(tape))
  /\ rquiet' = (mpc = "idle" /\ mseq = Unset)
  /\ UNCHANGED <<tape, clock, marketVars, crashes, live, rstatus>>

\* The .partial file replaces the recording; a handle the market service
\* holds keeps referring to the file that was replaced.
RepairReplace ==
  /\ rpc = "loaded"
  /\ tape' = [lines |-> rload, nl |-> TRUE]
  /\ mfile' = (mpc = "idle")
  /\ rpc' = "done"
  /\ rstatus' = "repaired"
  /\ live' = (live \/ ~rquiet)
  /\ UNCHANGED <<clock, mpc, mseq, crashes, written, rload, rquiet>>

\* The operator may run it again.
RepairAgain ==
  /\ rpc = "done"
  /\ rpc' = "idle"
  /\ rload' = << >>
  /\ UNCHANGED <<tape, clock, marketVars, crashes, rquiet, live, rstatus>>

RepairNext == RepairInspect \/ RepairLoad \/ RepairReplace \/ RepairAgain

Next == MarketNext \/ RepairNext
Spec == Init /\ [][Next]_vars

-----------------------------------------------------------------------------
(* Properties. *)

TypeOK ==
  /\ tape.lines \in Seq(Line) /\ tape.nl \in BOOLEAN
  /\ clock \in 0 .. N
  /\ mpc \in {"idle", "open", "partial"}
  /\ mseq \in {Unset} \cup 0 .. N
  /\ mfile \in BOOLEAN
  /\ crashes \in 0 .. MaxCrashes
  /\ written \in SUBSET Ids
  /\ rpc \in {"idle", "gap", "loaded", "done"}
  /\ rload \in Seq(Line)
  /\ rquiet \in BOOLEAN /\ live \in BOOLEAN
  /\ rstatus \in {"none", "empty", "sequence_gap", "clean", "repaired"}

\* Restarting in mid-session never opens a sequence gap, and a gap healed by
\* the repair tool stays healed: once the records that parse are consecutive
\* they stay so, however often the service dies and wherever in a write
\* (_next_seq, _last_seq), unless a repair replaced the file under a service
\* that was using it.
RestartNeverGaps ==
  [][Contiguous(Parsable(tape)) => live' \/ Contiguous(Parsable(tape'))]_vars

\* A record whose append returned is never lost to a later crash: the fragment
\* a crash leaves does not swallow the record written after it
\* (_ensure_trailing_newline), and an offline repair keeps every record.
AppendedRecordsSurvive == ~live => written \subseteq IdsIn(tape)

-----------------------------------------------------------------------------
(* Refinement: what a reader can take from the file. *)

Log == INSTANCE RecordingLog WITH
  Records <- [ok : {TRUE}, seq : 0 .. N - 1, id : Ids],
  log <- Parsable(tape),
  returned <- written,
  broken <- live

\* A file written in pieces, by processes that die and resume, is to its readers
\* a log that grows by whole records, each numbered one after the highest, and
\* that a repair only renumbers, until one replaces a file in use (_tick,
\* _next_seq, repair_recording).
ImplementsLog == Log!Spec
=============================================================================
