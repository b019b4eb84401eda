------------------------------- MODULE AiLoop -------------------------------
(***************************************************************************)
(* The primary research runtime: a tick is accepted while System B is      *)
(* primary and the agent may decide; it then asks the agent about the open *)
(* position, under hard floors the agent cannot answer away, and about a   *)
(* new entry when flat, and journals what it did.  The tick works on the   *)
(* paper account, orders and positions of PaperTrading under the           *)
(* deployment of Deployment; it runs through its stages one call after the *)
(* other, and an exception of any of them ends it where it is.             *)
(*                                                                         *)
(* An entry is made only when no position is open, so at most one is.      *)
(* The agent is external: it answers anything, and what validation refuses *)
(* counts as HOLD or as no entry.                                          *)
(***************************************************************************)
EXTENDS PaperTrading

CONSTANTS
  Releases, MaxHistory, MaxRollbacks,
  Policies   \* exit policies the agent may choose

VARIABLES
  pointer, cutover, rollbacks, direct,
  pc,        \* stage of the tick
  input,     \* what the tick was called with, until the position is managed
  policy,    \* exit_policy_id of each order's position
  mark,      \* its mark_price
  peak,      \* its peak_pnl, as a gain in money
  events,    \* journal: order and position events
  due        \* history: positions a hard floor of this tick applies to

Cutover == INSTANCE Deployment

ASSUME LoopAssumption ==
  PaperAssumption /\ Cutover!DeploymentAssumption /\ 0 \in Marks

deployment == <<pointer, cutover, rollbacks, direct>>
loop == <<pc, input, policy, mark, peak, events, due>>
loopVars == <<vars, deployment, loop>>

\* A quote of 0 stands for an absent one as well: both are false in Python.
Inputs == [quote : Marks, late : BOOLEAN, emergency : BOOLEAN, expired : BOOLEAN,
           ras : BOOLEAN]
Quiet == [quote |-> 0, late |-> FALSE, emergency |-> FALSE, expired |-> FALSE, ras |-> FALSE]

LoopInit ==
  /\ Init
  /\ Cutover!Init
  /\ pc = "idle"
  /\ input = Quiet
  /\ policy = [o \in Orders |-> "target_and_stop"]
  /\ mark = [o \in Orders |-> 0]
  /\ peak = [o \in Orders |-> 0]
  /\ events = {}
  /\ due = {}

-----------------------------------------------------------------------------
(* Exit signals: evaluate_exit, with the ratios of ExitPolicy's defaults.  *)

TargetPolicies == {"fixed_target", "target_and_stop", "trailing"}
StopPolicies == {"fixed_stop", "target_and_stop", "trailing"}
RasPolicies == {"structural_ras_exit", "target_and_stop", "trailing"}

\* Whether a gain is at least pct hundredths of the entry.
AtLeast(o, gain, pct) == 100 * gain >= pct * positions[o].entry

\* marks.get(...) or pos.mark_price.
EffectiveMark(o, in) == IF in.quote = 0 THEN mark[o] ELSE in.quote

NewPeak(o, m) == IF Gain(o, m) > peak[o] THEN Gain(o, m) ELSE peak[o]

TargetReached(o, m) == policy[o] \in TargetPolicies /\ AtLeast(o, Gain(o, m), 50)
StopReached(o, m) == policy[o] \in StopPolicies /\ AtLeast(o, -Gain(o, m), 35)
TrailReached(o, m) ==
  /\ policy[o] = "trailing"
  /\ AtLeast(o, NewPeak(o, m), 25)
  /\ AtLeast(o, NewPeak(o, m) - Gain(o, m), 15)

\* The first signal that applies; no default policy has a holding time, and
\* every one closes at the end of the day.
Signal(o, in) ==
  LET m == EffectiveMark(o, in)
  IN  CASE in.emergency                            -> "emergency_exit"
        [] ~in.emergency /\ in.expired             -> "expiration_settlement"
        [] ~in.emergency /\ ~in.expired /\ in.ras /\ policy[o] \in RasPolicies
                                                   -> "structural_ras_exit"
        [] OTHER -> CASE TargetReached(o, m)                          -> "target"
                      [] ~TargetReached(o, m) /\ StopReached(o, m)    -> "stop"
                      [] ~TargetReached(o, m) /\ ~StopReached(o, m) /\ TrailReached(o, m)
                                                                      -> "trail"
                      [] OTHER -> IF in.late THEN "eod" ELSE ""

HardSignals == {"emergency_exit", "stop", "eod", "expiration_settlement", "structural_ras_exit"}

\* Mutant: the stop informs the agent, like the target.
SoftStop(o, in) == Signal(o, in) \in HardSignals \ {"stop"}

NeedsForcedClose(o, in) == Signal(o, in) \in HardSignals

\* A target or a trail is looked for before the end of the day is, and leaves
\* the answer to the agent.
HidesTheClose(o, m) == TargetReached(o, m) \/ TrailReached(o, m)

\* A hard floor applies, whatever the order in which signals are looked for,
\* but for the end of the day, which a target or a trail hides.
Floor(o, in) ==
  LET m == EffectiveMark(o, in)
  IN  \/ in.emergency \/ in.expired
      \/ in.ras /\ policy[o] \in RasPolicies
      \/ StopReached(o, m)
      \/ in.late /\ ~HidesTheClose(o, m)

-----------------------------------------------------------------------------
(* The tick. *)

Accepted == cutover.phase = "active" /\ cutover.primary = "system_b" /\ cutover.agent

\* tick: refused unless System B is the active primary and the agent may
\* decide, and then nothing is done.
Tick(in) ==
  /\ pc = "idle"
  /\ Accepted
  /\ IF OpenPositions = {} THEN pc' = "enter" /\ input' = Quiet
                                  ELSE pc' = "manage" /\ input' = in
  /\ due' = {o \in OpenPositions : Floor(o, in)}
  /\ UNCHANGED <<vars, deployment, policy, mark, peak, events>>

Event(kind, o) == <<kind, o>>

\* Mutant: the event is written without waiting for the account.
TakenAsBooked(o) == TRUE

Booked(o) == o \notin refused'

\* close, and its event unless the account refuses and the tick ends.
CloseIt(o, m) ==
  /\ Close(o, m)
  /\ \/ /\ Booked(o)
        /\ events' = events \cup {Event("closed", o)}
        /\ pc' = "enter"
     \/ ~Booked(o) /\ pc' = "idle" /\ UNCHANGED events

\* reduce: a cut of all that is open closes.
ReduceIt(o, m) ==
  \E cut \in 1 .. positions[o].open :
    \/ cut = positions[o].open /\ CloseIt(o, m)
    \/ /\ cut < positions[o].open
       /\ Reduce(o, cut, m)
       /\ \/ /\ Bookable(Pnl(o, cut, m))
             /\ events' = events \cup {Event("reduced", o)}
             /\ pc' = "enter"
          \/ /\ ~Bookable(Pnl(o, cut, m))
             /\ pc' = "idle" /\ UNCHANGED events

\* The open position: marked, evaluated, and closed under a hard signal without
\* asking; else as the agent answers.
Manage(o) ==
  LET m == EffectiveMark(o, input)
  IN  /\ pc = "manage"
      /\ o \in OpenPositions
      /\ mark' = [mark EXCEPT ![o] = m]
      /\ peak' = [peak EXCEPT ![o] = NewPeak(o, m)]
      /\ \/ CloseIt(o, m)
         \/ ~NeedsForcedClose(o, input) /\ ReduceIt(o, m)
         \/ ~NeedsForcedClose(o, input) /\ pc' = "enter" /\ UNCHANGED <<vars, events>>
      /\ input' = Quiet
      /\ UNCHANGED <<deployment, policy, due>>

\* Mutant: an entry is considered whatever is open.
AlwaysFlat == TRUE

Flat == OpenPositions = {}

\* When flat, the agent may select o: its order fills at its own limit, is rejected for a
\* blocked account, or the account cannot pay and the exception ends the tick.
Select(o, n, limit, p) ==
  LET filled == orders'[o].filled > 0
      rejected == orders'[o].status = "REJECTED"
  IN  /\ pc = "enter" /\ Flat
      /\ Submit(o, n, limit)
      /\ policy' = [policy EXCEPT ![o] = p]
      /\ \/ filled /\ pc' = "open" /\ events' = events \cup {Event("submitted", o)}
         \/ rejected /\ pc' = "idle" /\ events' = events \cup {Event("submitted", o)}
         \/ /\ orders'[o].status = "ACKNOWLEDGED"
            /\ \E q \in FillSizes(orders'[o]) : ~FillAccepted(q * limit + q * Fee)
            /\ pc' = "idle" /\ UNCHANGED events
      /\ UNCHANGED <<deployment, input, mark, peak, due>>

\* No entry is allowed, there is no packet, or nothing is selected.
NoEntry ==
  /\ pc = "enter"
  /\ pc' = "idle"
  /\ UNCHANGED <<vars, deployment, input, policy, mark, peak, events, due>>

\* Mutant: only an order filled in full is reported.
FilledInFull(o) == orders[o].status = "FILLED"

Reportable(o) == orders[o].status \in {"FILLED", "PARTIALLY_FILLED"}

\* The fill of the order just submitted, which nobody has been told of.
Open(o) ==
  /\ pc = "open"
  /\ pc' = "idle"
  /\ orders[o].filled > 0 /\ told[o] = 0
  /\ \/ /\ Reportable(o)
        /\ OnOrderState(o)
        /\ mark' = [mark EXCEPT ![o] = Entry(orders[o])]
        /\ events' = events \cup {Event("opened", o)}
     \/ ~Reportable(o) /\ UNCHANGED <<vars, mark, events>>
  /\ UNCHANGED <<deployment, input, policy, peak, due>>

\* restart_runtime rebuilds the paper layer.
Restart ==
  /\ pc = "idle"
  /\ RestartWithBook
  /\ due' = {}
  /\ UNCHANGED <<deployment, pc, input, policy, mark, peak, events>>

\* The deployment changes between ticks.
Deploy ==
  /\ pc = "idle"
  /\ Cutover!Next
  /\ UNCHANGED <<vars, loop>>

LoopNext ==
  \/ \E in \in Inputs : Tick(in)
  \/ \E o \in Orders :
       \/ Manage(o) \/ Open(o)
       \/ \E n \in Contracts, limit \in Prices, p \in Policies : Select(o, n, limit, p)
  \/ NoEntry \/ Restart \/ Deploy

LoopSpec == LoopInit /\ [][LoopNext]_loopVars

-----------------------------------------------------------------------------
(* Properties. *)

\* Types, over both layers; at most one position is open.
LoopTypeOK ==
  /\ TypeOK /\ Cutover!TypeOK
  /\ pc \in {"idle", "manage", "enter", "open"}
  /\ input \in Inputs
  /\ policy \in [Orders -> Policies \cup {"target_and_stop"}]
  /\ \A o \in Orders : mark[o] \in Marks \cup Prices \cup {0}
  /\ events \subseteq {"submitted", "opened", "reduced", "closed"} \X Orders
  /\ due \subseteq Orders
  /\ Cardinality(OpenPositions) <= 1

\* A position that was open when an accepted tick began, and to which a hard
\* floor applied, holds no contract after its management, whatever the agent
\* answered and whatever the account refused: emergency, expiration, the
\* structural exit, a stop reached by the quote or, without one, by the last
\* mark, and the end of the day.  The one floor the agent may hold against is
\* an end of the day with a target or a trail reached (evaluate_exit,
\* decide_position).
FloorsAreObeyed ==
  pc # "manage" => \A o \in due : positions[o].open = 0

\* Between ticks every contract paid for was opened in a position, the
\* partial fill of an order included, for the loop reports a fill once and
\* never offers the rest (submit, on_order_state).
FillsBecomePositions ==
  pc = "idle" => \A o \in Orders : positions[o].opened = orders[o].filled

\* Between ticks the journal and the account tell the same story: a closed
\* position has its event exactly when the account booked it, an order has its
\* event exactly when no exception left it acknowledged, a position is opened
\* exactly with its event, and a reduction is told only of one that was reduced
\* (tick, close, on_order_state).  A reduction the account refused has none.
JournalTellsPositions ==
  pc = "idle" => \A o \in Orders :
    /\ positions[o].status = "CLOSED" => (Event("closed", o) \in events <=> o \notin openIds)
    /\ orders[o].status # "none" =>
         (Event("submitted", o) \in events <=> orders[o].status # "ACKNOWLEDGED")
    /\ Event("opened", o) \in events <=> positions[o].status # "none"
    /\ Event("reduced", o) \in events => positions[o].status \in {"PARTIALLY_REDUCED", "CLOSED"}

\* What the controller reports as primary, while the loop trades under it.
PrimaryRunsItsSystem == Cutover!PrimaryRunsItsSystem
=============================================================================
