------------------------------ MODULE RiskGate ------------------------------
(***************************************************************************)
(* What stands between a selected candidate and an order: the portfolio    *)
(* tracker of one session, the risk envelope built from it, the firewall   *)
(* with its memory of approved decisions, and the execution guard.         *)
(*                                                                         *)
(* A trader has its candidate approved, by the firewall or, for one        *)
(* contract, by the tracker's own check; the guard has the last word; the  *)
(* trade is recorded when it is made.  Each is a call of its own, so       *)
(* traders interleave between them, and days pass.                         *)
(*                                                                         *)
(* Losses are per contract, in whole dollars.  A candidate's id and its    *)
(* geometry name each other.  Limits on expirations, delta and gamma have  *)
(* the shape of those on families and are left out, as are the ages and    *)
(* estimates a caller passes, which stand in "healthy".                    *)
(***************************************************************************)
EXTENDS Integers, Sequences, FiniteSets

CONSTANTS
  Traders, Candidates,
  Loss,            \* candidate -> max_loss of a contract, not positive if unknown
  Family,          \* candidate -> family
  MaxDailyLoss, MaxPositions, MaxFamily, MaxContracts, MaxRisk,   \* RiskLimits
  GuardLoss, GuardContracts, GuardPositions, GuardFamily,         \* GuardLimits
  OrderTtl,        \* DuplicateGuard.ttl
  DayLength,       \* a day's moments: the warm-up, those open for entries, the late one
  MaxTime          \* bound

ASSUME RiskAssumption ==
  /\ Candidates # {} /\ Loss \in [Candidates -> Int]
  /\ MaxDailyLoss \in Nat \ {0} /\ MaxRisk \in Nat
  /\ {MaxPositions, MaxFamily, MaxContracts} \subseteq Nat \ {0}
  /\ {GuardLoss, GuardContracts, GuardPositions, GuardFamily} \subseteq Nat
  /\ OrderTtl \in Nat /\ DayLength \in Nat \ {0, 1, 2} /\ MaxTime \in Nat

VARIABLES
  session,    \* _session, the day the tracker is about
  open,       \* _positions
  committed,  \* _daily_committed_loss
  realized,   \* _daily_realized_pnl
  seen,       \* DuplicateGuard._seen: candidate -> time, -1 if absent
  ticket,     \* trader -> what it is about to trade
  now,
  spent,      \* history: day -> loss of the contracts recorded on it
  last,       \* history: candidate -> its last approval by the firewall, -1 if none
  strayed     \* history: a record met a tracker its approval did not see, or was of a day gone by

tracker == <<session, open, committed, realized>>
vars == <<tracker, seen, ticket, now, spent, last, strayed>>

Times == 0 .. MaxTime
Never == -1
Day(time) == time \div DayLength
Days == 0 .. Day(MaxTime)
Today == Day(now)

\* fresh is a history: no trade was recorded since the approval.
NoTicket == [pc |-> "idle", cand |-> CHOOSE c \in Candidates : TRUE, contracts |-> 0, day |-> 0,
             fresh |-> TRUE]
Tickets == [pc : {"idle", "approved", "ready"}, cand : Candidates, contracts : 0 .. MaxContracts,
            day : Days, fresh : BOOLEAN]

Init ==
  /\ session = -1 /\ open = <<>> /\ committed = 0 /\ realized = 0
  /\ seen = [c \in Candidates |-> Never]
  /\ ticket = [t \in Traders |-> NoTicket]
  /\ now = 0
  /\ spent = [d \in Days |-> 0]
  /\ last = [c \in Candidates |-> Never]
  /\ strayed = FALSE

-----------------------------------------------------------------------------
(* The tracker. *)

\* _maybe_reset: a call for another day than the tracker's empties it.
OpenOn(day) == IF day = session THEN open ELSE <<>>
CommittedOn(day) == IF day = session THEN committed ELSE 0
RealizedOn(day) == IF day = session THEN realized ELSE 0

OfFamily(positions, f) == Cardinality({i \in DOMAIN positions : Family[positions[i]] = f})

\* Mutant: a full tracker takes one more position.
CheckAtLimit(c) ==
  /\ CommittedOn(Today) + Loss[c] <= MaxDailyLoss
  /\ Len(OpenOn(Today)) <= MaxPositions
  /\ OfFamily(OpenOn(Today), Family[c]) <= MaxFamily

\* check: the limits, with one contract more.
CheckPasses(c) ==
  /\ CommittedOn(Today) + Loss[c] <= MaxDailyLoss
  /\ Len(OpenOn(Today)) < MaxPositions
  /\ OfFamily(OpenOn(Today), Family[c]) + 1 <= MaxFamily

\* Mutant: the loss of one contract, however many there are.
LossOfOne(c, n) == Loss[c]

TradeLoss(c, n) == Loss[c] * n

-----------------------------------------------------------------------------
(* The envelope: build_risk_envelope, on to_portfolio_state, which takes the *)
(* tracker as it is, of whatever day.                                        *)

Least(a, b) == IF a < b THEN a ELSE b

Open(time) == time % DayLength \in 1 .. DayLength - 2

Remaining == MaxDailyLoss - committed - (IF realized < 0 THEN -realized ELSE 0)

\* A static limit of zero is no limit.
MaxRiskDollars == IF MaxRisk = 0 THEN Remaining ELSE Least(MaxRisk, Remaining)

EnvelopeApproved(healthy) ==
  /\ healthy /\ Open(now)
  /\ Remaining > 0
  /\ Len(open) < MaxPositions

-----------------------------------------------------------------------------
(* The firewall. *)

\* Mutant: what is as old as the ttl is forgotten.
ForgottenEarly(c) == now - seen[c] >= OrderTtl

\* _purge.
Forgotten(c) == now - seen[c] > OrderTtl

Purged == [c \in Candidates |-> IF seen[c] # Never /\ Forgotten(c) THEN Never ELSE seen[c]]

EquivalentPosition(c) == \E i \in DOMAIN open : open[i] = c

\* contracts_for_risk: the budget, cut to halves by the size scalar, buys whole
\* contracts; the budget is rounded, so the last of an exact fit may be lost.
Sized(c, halves) ==
  LET budget == (MaxRiskDollars * halves) \div 2
      fit == budget \div Loss[c]
  IN  {fit} \cup (IF budget % Loss[c] = 0 THEN {fit - 1} ELSE {})

Approvable(n, asked) == Least(Least(n, MaxContracts), asked)

\* Every check of apply_risk_firewall on this portfolio.
Passes(c, healthy, stale) ==
  /\ EnvelopeApproved(healthy)
  /\ Loss[c] > 0 /\ Loss[c] <= MaxRiskDollars
  /\ committed + Loss[c] <= MaxDailyLoss
  /\ OfFamily(open, Family[c]) < MaxFamily
  /\ ~EquivalentPosition(c)
  /\ Purged[c] = Never
  /\ ~stale

\* evaluate approves, and remembers that it did.
FirewallApproves(t, c) ==
  \E healthy, stale \in BOOLEAN, halves \in 1 .. 2, asked \in 1 .. MaxContracts :
    /\ ticket[t].pc = "idle"
    /\ Passes(c, healthy, stale)
    /\ \E n \in Sized(c, halves) :
         /\ n >= 1
         /\ ticket' = [ticket EXCEPT ![t] = [pc |-> "approved", cand |-> c, day |-> Today,
                         contracts |-> Approvable(n, asked), fresh |-> TRUE]]
    /\ seen' = [Purged EXCEPT ![c] = now]
    /\ last' = [last EXCEPT ![c] = now]
    /\ UNCHANGED <<tracker, now, spent, strayed>>

\* It refuses; what it forgot stays forgotten.
FirewallRefuses ==
  /\ seen' = Purged
  /\ UNCHANGED <<tracker, ticket, now, spent, last, strayed>>

\* The tracker's own check, which empties the tracker when the day is another.
Check(t, c) ==
  /\ ticket[t].pc = "idle"
  /\ session' = Today /\ open' = OpenOn(Today)
  /\ committed' = CommittedOn(Today) /\ realized' = RealizedOn(Today)
  /\ \/ /\ CheckPasses(c) /\ Loss[c] > 0
        /\ ticket' = [ticket EXCEPT ![t] = [pc |-> "approved", cand |-> c, day |-> Today,
                        contracts |-> 1, fresh |-> TRUE]]
     \/ ~CheckPasses(c) /\ UNCHANGED ticket
  /\ UNCHANGED <<seen, now, spent, last, strayed>>

-----------------------------------------------------------------------------
(* The guard. *)

GuardAllows(c, n) ==
  /\ Open(now)
  /\ Loss[c] <= GuardLoss
  /\ Len(open) < GuardPositions
  /\ OfFamily(open, Family[c]) < GuardFamily
  /\ Least(n, GuardContracts) > 0

\* apply_execution_guard clamps the size, and never widens it.
Guard(t) ==
  LET c == ticket[t].cand
      n == ticket[t].contracts
  IN  /\ ticket[t].pc = "approved"
      /\ \/ /\ GuardAllows(c, n)
            /\ ticket' = [ticket EXCEPT ![t] =
                 [@ EXCEPT !.pc = "ready", !.contracts = Least(n, GuardContracts)]]
         \/ ticket' = [ticket EXCEPT ![t] = NoTicket]  \* also when the operator disabled trading
      /\ UNCHANGED <<tracker, seen, now, spent, last, strayed>>

\* record_trade, for the day of the decision.
RecordTrade(t) ==
  LET c == ticket[t].cand
      n == ticket[t].contracts
      d == ticket[t].day
  IN  /\ ticket[t].pc = "ready"
      /\ spent[d] <= MaxDailyLoss  \* bound: a day past its limit is not pursued
      /\ session' = d
      /\ open' = Append(OpenOn(d), c)
      /\ committed' = CommittedOn(d) + TradeLoss(c, n)
      /\ realized' = RealizedOn(d)
      /\ ticket' = [u \in Traders |->
                      IF u = t THEN NoTicket ELSE [ticket[u] EXCEPT !.fresh = ticket[u].pc = "idle"]]
      /\ spent' = [spent EXCEPT ![d] = @ + Loss[c] * n]
      /\ strayed' = (strayed \/ ~ticket[t].fresh \/ d < session)
      /\ UNCHANGED <<seen, now, last>>

\* record_realized_pnl: a day's loss of one, once a day; a gain bears on no
\* check.  For a day gone by it empties the tracker of today.
RecordLoss(d) ==
  /\ spent[d] > 0 /\ RealizedOn(d) = 0
  /\ session' = d /\ open' = OpenOn(d) /\ committed' = CommittedOn(d)
  /\ realized' = -1
  /\ strayed' = (strayed \/ d < session)
  /\ UNCHANGED <<seen, ticket, now, spent, last>>

ClosePositions ==
  /\ open # <<>>
  /\ open' = <<>>
  /\ UNCHANGED <<session, committed, realized, seen, ticket, now, spent, last, strayed>>

Tick ==
  /\ now < MaxTime
  /\ now' = now + 1
  /\ UNCHANGED <<tracker, seen, ticket, spent, last, strayed>>

Next ==
  \/ \E t \in Traders :
       \/ \E c \in Candidates : FirewallApproves(t, c) \/ Check(t, c)
       \/ Guard(t) \/ RecordTrade(t)
  \/ FirewallRefuses
  \/ \E d \in Days : RecordLoss(d)
  \/ ClosePositions \/ Tick

Spec == Init /\ [][Next]_vars

-----------------------------------------------------------------------------
(* Properties. *)

TypeOK ==
  /\ session \in Days \cup {-1} /\ open \in Seq(Candidates)
  /\ committed \in Nat /\ realized \in Int
  /\ seen \in [Candidates -> Times \cup {Never}]
  /\ ticket \in [Traders -> Tickets]
  /\ now \in Times
  /\ spent \in [Days -> Nat]
  /\ last \in [Candidates -> Times \cup {Never}]
  /\ strayed \in BOOLEAN

\* The trades recorded on a day cannot lose more than the daily limit, all
\* their contracts counted, whichever days the tracker is asked about in
\* between, unless two approvals were given on the same portfolio or something
\* was recorded for a day gone by (build_risk_envelope, contracts_for_risk,
\* check, record_trade).
DailyLossHolds == ~strayed => \A d \in Days : spent[d] <= MaxDailyLoss

\* The positions open at once stay within the number allowed, in all and per
\* family, under the same condition (to_portfolio_state, apply_risk_firewall,
\* check).
ConcentrationHolds ==
  ~strayed =>
    /\ Len(open) <= MaxPositions
    /\ \A i \in DOMAIN open : OfFamily(open, Family[open[i]]) <= MaxFamily

\* Two approvals of one candidate are further apart than the memory of the
\* duplicate guard, whatever was closed or recorded, and however often the
\* tracker was emptied, in between (DuplicateGuard, evaluate).
ApprovedOnce ==
  [][\A c \in Candidates :
       last'[c] # last[c] /\ last[c] # Never => last'[c] - last[c] > OrderTtl]_vars
=============================================================================
