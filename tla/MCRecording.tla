---------------------------- MODULE MCRecording ----------------------------
(* Recording with five ticks, two crashes, and files found on disk whose   *)
(* sequence restarted at 0 in mid-session (or at once).                    *)
EXTENDS Recording

MCLegacy ==
  { [lines |-> << Entry(0, 1), Entry(0, 2) >>, nl |-> TRUE],
    [lines |-> << Entry(0, 1), Entry(1, 2), Entry(0, 3) >>, nl |-> TRUE] }
=============================================================================
