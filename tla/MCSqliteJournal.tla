-------------------------- MODULE MCSqliteJournal --------------------------
(* Engine, settlement and a tool on one journal; one of the two events     *)
(* carries an event_id of its own.                                         *)
EXTENDS SqliteJournal

CONSTANTS engine, settlement, tool, computed, settled

MCWriter == {engine, settlement, tool}
MCEvent == {computed, settled}
MCNamed == {settled}
=============================================================================
