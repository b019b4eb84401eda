------------------------------ MODULE Journal ------------------------------
(***************************************************************************)
(* What a journal store promises its writers (the AppendOnlyJournal        *)
(* protocol): an append takes effect at one moment between its call and    *)
(* its return, at the end of the log and once; one that raises never did;  *)
(* one whose process dies either did or did not.  Nothing else changes the *)
(* log.                                                                    *)
(***************************************************************************)
EXTENDS Sequences

CONSTANTS Writer, Event

VARIABLES
  log,    \* the events, oldest first
  call    \* writer -> the append it is in

NoCall == [phase |-> "idle"]
Called(e) == [phase |-> "called", what |-> e]
Applied(e) == [phase |-> "applied", what |-> e]

Init ==
  /\ log = << >>
  /\ call = [w \in Writer |-> NoCall]

CallAppend(w, e) ==
  /\ call[w] = NoCall
  /\ call' = [call EXCEPT ![w] = Called(e)]
  /\ UNCHANGED log

Apply(w, e) ==
  /\ call[w] = Called(e)
  /\ call' = [call EXCEPT ![w] = Applied(e)]
  /\ log' = Append(log, e)

Return(w, e) ==
  /\ call[w] = Applied(e)
  /\ call' = [call EXCEPT ![w] = NoCall]
  /\ UNCHANGED log

Raise(w, e) ==
  /\ call[w] = Called(e)
  /\ call' = [call EXCEPT ![w] = NoCall]
  /\ UNCHANGED log

Die(w) ==
  /\ call' = [call EXCEPT ![w] = NoCall]
  /\ UNCHANGED log

Next ==
  \E w \in Writer :
    \/ Die(w)
    \/ \E e \in Event : CallAppend(w, e) \/ Apply(w, e) \/ Return(w, e) \/ Raise(w, e)

Spec == Init /\ [][Next]_<<log, call>>
=============================================================================
