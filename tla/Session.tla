------------------------------ MODULE Session ------------------------------
(***************************************************************************)
(* One trading session, as the processes under systemd share it: its ticks *)
(* as they pass, its recording, and the deaths of any of them.  Tick t has *)
(* snapshot id t: ids are digests of snapshots that carry their timestamp, *)
(* so no two ticks share one.                                              *)
(***************************************************************************)
EXTENDS JsonlFile

CONSTANTS
  N,          \* ticks in the session
  MaxCrashes  \* bound on process deaths, over all processes

VARIABLES
  tape,    \* market/<session>.jsonl
  clock,   \* ticks of the session that have passed
  crashes  \* process deaths so far

Ids == 1 .. N

\* A sequence number that is read from disk on first use.
Unset == -1
=============================================================================
