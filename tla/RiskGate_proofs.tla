--------------------------- MODULE RiskGate_proofs ---------------------------
(***************************************************************************)
(* The safety properties of RiskGate, for all traders, candidates, limits  *)
(* and lengths of a day.                                                   *)
(*                                                                         *)
(* LedgerAgrees ties the tracker to what was recorded, ApprovalsFit and    *)
(* RoomForApproved carry what an approval found from the moment it was     *)
(* given to the moment its trade is recorded, which is why they need the   *)
(* approval to be fresh, and MemoryOfApprovals ties the duplicate guard to *)
(* the approvals there were.                                               *)
(***************************************************************************)
EXTENDS RiskGate, FiniteSetTheorems, TLAPS

-----------------------------------------------------------------------------
(* Lemmas. *)

\* A quotient of natural numbers is one, and grows with its dividend.
LEMMA Quotient ==
  ASSUME NEW a \in Nat, NEW b \in Nat, NEW l \in Nat \ {0}, a <= b
  PROVE  a \div l \in Nat /\ a \div l <= b \div l
  OBVIOUS

\* Every moment is of a day.
LEMMA DayOfTime ==
  ASSUME NEW time \in Times
  PROVE  Day(time) \in Days
<1> DEFINE last_day == MaxTime \div DayLength
<1>1. time \in Nat /\ time <= MaxTime /\ MaxTime \in Nat /\ DayLength \in Nat \ {0}
  BY RiskAssumption DEF Times
<1>2. Day(time) \in Nat /\ Day(time) <= last_day /\ last_day \in Nat
  BY <1>1, Quotient DEF Day
<1> QED
  BY <1>2 DEF Days, Day

\* As many contracts as fit a budget do not lose more than the budget.
LEMMA ContractsFit ==
  ASSUME NEW b \in Nat, NEW l \in Nat \ {0}, NEW n \in Nat, n <= b \div l
  PROVE  l * n <= b /\ l * n \in Nat
  OBVIOUS

\* Half a budget, or all of it.
LEMMA HalvesOfBudget ==
  ASSUME NEW b \in Nat, NEW h \in 1 .. 2
  PROVE  (b * h) \div 2 \in Nat /\ (b * h) \div 2 <= b
  OBVIOUS

\* Positions of a family, one position later.
LEMMA FamilyOfAppend ==
  ASSUME NEW s \in Seq(Candidates), NEW c \in Candidates, NEW f
  PROVE  /\ OfFamily(s, f) \in Nat
         /\ OfFamily(Append(s, c), f) = IF Family[c] = f THEN OfFamily(s, f) + 1 ELSE OfFamily(s, f)
<1> DEFINE Here == {i \in DOMAIN s : Family[s[i]] = f}
           New == Len(s) + 1
           There == {i \in DOMAIN Append(s, c) : Family[Append(s, c)[i]] = f}
<1>1. IsFiniteSet(Here) /\ Cardinality(Here) \in Nat
  <2>1. IsFiniteSet(1 .. Len(s))
    BY FS_Interval
  <2>2. Here \subseteq 1 .. Len(s)
    OBVIOUS
  <2> QED
    BY <2>1, <2>2, FS_Subset, FS_CardinalityType
<1>2. New \notin Here
  OBVIOUS
<1>3. There = IF Family[c] = f THEN Here \cup {New} ELSE Here
  <2>1. DOMAIN Append(s, c) = DOMAIN s \cup {New}
    OBVIOUS
  <2>2. \A i \in DOMAIN s : Append(s, c)[i] = s[i]
    OBVIOUS
  <2>3. Append(s, c)[New] = c
    OBVIOUS
  <2> HIDE DEF New
  <2> QED
    BY <1>2, <2>1, <2>2, <2>3
<1>4. Cardinality(Here \cup {New}) = Cardinality(Here) + 1
  BY <1>1, <1>2, FS_AddElement
<1> QED
  BY <1>1, <1>3, <1>4 DEF OfFamily

LEMMA FamilyOfNone ==
  ASSUME NEW f
  PROVE  OfFamily(<<>>, f) = 0
<1>1. {i \in DOMAIN <<>> : Family[<<>>[i]] = f} = {}
  OBVIOUS
<1> QED
  BY <1>1, FS_EmptySet DEF OfFamily

-----------------------------------------------------------------------------
(* Types. *)

Underway(t) == ticket[t].pc # "idle"

\* Only what can lose is traded.
TradesCanLose == \A t \in Traders : Underway(t) => Loss[ticket[t].cand] > 0

Typed == TypeOK /\ TradesCanLose

\* A ticket for a candidate that an approval today grants.
LEMMA TicketToday ==
  ASSUME TypeOK, NEW c \in Candidates, NEW n \in 0 .. MaxContracts, NEW fresh \in BOOLEAN,
         NEW pc \in {"approved", "ready"}
  PROVE  [pc |-> pc, cand |-> c, day |-> Today, contracts |-> n, fresh |-> fresh] \in Tickets
<1>1. Today \in Days
  BY DayOfTime DEF TypeOK, Today
<1> QED
  BY <1>1 DEF Tickets

LEMMA NoTicketTyped == NoTicket \in Tickets
<1>1. 0 \in Days
  <2>1. 0 \in Times
    BY RiskAssumption DEF Times
  <2>2. Day(0) = 0
    BY RiskAssumption DEF Day
  <2> QED
    BY <2>1, <2>2, DayOfTime
<1>2. (CHOOSE c \in Candidates : TRUE) \in Candidates
  BY RiskAssumption
<1>3. 0 \in 0 .. MaxContracts
  BY RiskAssumption
<1> QED
  BY <1>1, <1>2, <1>3 DEF NoTicket, Tickets

\* What the tracker is, asked about any day.
LEMMA TrackerTyped ==
  ASSUME TypeOK, NEW d \in Days
  PROVE  OpenOn(d) \in Seq(Candidates) /\ CommittedOn(d) \in Nat /\ RealizedOn(d) \in Int
BY DEF TypeOK, OpenOn, CommittedOn, RealizedOn

LEMMA PurgedTyped ==
  ASSUME TypeOK
  PROVE  Purged \in [Candidates -> Times \cup {Never}]
BY DEF TypeOK, Purged

\* What the firewall approves is of at least one contract, within its limit.
LEMMA ApprovedTyped ==
  ASSUME NEW n \in Nat, n >= 1, NEW asked \in 1 .. MaxContracts
  PROVE  Approvable(n, asked) \in 1 .. MaxContracts /\ Approvable(n, asked) <= n
BY RiskAssumption DEF Approvable, Least

LEMMA GuardedTyped ==
  ASSUME NEW n \in 0 .. MaxContracts
  PROVE  Least(n, GuardContracts) \in 0 .. MaxContracts /\ Least(n, GuardContracts) <= n
BY RiskAssumption DEF Least

LEMMA TradeLossTyped ==
  ASSUME NEW l \in Nat, NEW n \in Nat
  PROVE  l * n \in Nat
OBVIOUS

LEMMA SizedTyped ==
  ASSUME TypeOK, NEW c \in Candidates, NEW h \in 1 .. 2, Loss[c] > 0, Remaining > 0,
         NEW n \in Sized(c, h), n >= 1
  PROVE  n \in Nat /\ Loss[c] * n <= MaxRiskDollars /\ MaxRiskDollars <= Remaining
<1> DEFINE budget == (MaxRiskDollars * h) \div 2
           fit == budget \div Loss[c]
<1>1. MaxRiskDollars \in Nat /\ MaxRiskDollars <= Remaining
  BY RiskAssumption DEF TypeOK, MaxRiskDollars, Remaining, Least
<1>2. budget \in Nat /\ budget <= MaxRiskDollars
  BY <1>1, HalvesOfBudget
<1>3. Loss[c] \in Nat \ {0}
  BY RiskAssumption
<1>4. fit \in Nat
  BY <1>2, <1>3, Quotient
<1>5. n \in Nat /\ n <= fit
  BY <1>4 DEF Sized
<1>6. Loss[c] * n <= budget /\ Loss[c] * n \in Nat
  <2> HIDE DEF budget
  <2> QED BY <1>2, <1>3, <1>5, ContractsFit
<1> HIDE DEF budget
<1> QED
  BY <1>1, <1>2, <1>5, <1>6

LEMMA TypedInit == Init => Typed
<1> SUFFICES ASSUME Init PROVE Typed
  OBVIOUS
<1>1. NoTicket \in Tickets
  BY NoTicketTyped
<1>2. 0 \in Times /\ open \in Seq(Candidates)
  BY RiskAssumption DEF Times, Init
<1>3. ticket \in [Traders -> Tickets] /\ TradesCanLose
  BY <1>1 DEF Init, TradesCanLose, Underway, NoTicket
<1>4. spent \in [Days -> Nat]
  BY DEF Init
<1>5. seen \in [Candidates -> Times \cup {Never}] /\ last \in [Candidates -> Times \cup {Never}]
  BY DEF Init
<1>6. now \in Times /\ strayed \in BOOLEAN
  BY <1>2 DEF Init
<1>7. session \in Days \cup {-1}
  BY DEF Init
<1>8. committed \in Nat /\ realized \in Int
  BY DEF Init
<1> QED
  BY <1>2, <1>3, <1>4, <1>5, <1>6, <1>7, <1>8 DEF Typed, TypeOK

LEMMA TypedStep == Typed /\ [Next]_vars => Typed'
<1> SUFFICES ASSUME Typed, [Next]_vars PROVE Typed'
  OBVIOUS
<1> USE DEF Typed
<1>1. ASSUME NEW t \in Traders, NEW c \in Candidates, FirewallApproves(t, c)
      PROVE  Typed'
  <2>1. PICK healthy, stale \in BOOLEAN, h \in 1 .. 2, asked \in 1 .. MaxContracts :
             /\ ticket[t].pc = "idle"
             /\ Passes(c, healthy, stale)
             /\ \E n \in Sized(c, h) :
                  /\ n >= 1
                  /\ ticket' = [ticket EXCEPT ![t] = [pc |-> "approved", cand |-> c, day |-> Today,
                                  contracts |-> Approvable(n, asked), fresh |-> TRUE]]
             /\ seen' = [Purged EXCEPT ![c] = now]
             /\ last' = [last EXCEPT ![c] = now]
             /\ UNCHANGED <<tracker, now, spent, strayed>>
    BY <1>1 DEF FirewallApproves
  <2>2. PICK n \in Sized(c, h) :
             /\ n >= 1
             /\ ticket' = [ticket EXCEPT ![t] = [pc |-> "approved", cand |-> c, day |-> Today,
                             contracts |-> Approvable(n, asked), fresh |-> TRUE]]
    BY <2>1
  <2>3. Loss[c] > 0 /\ Remaining > 0
    BY <2>1 DEF Passes, EnvelopeApproved
  <2>4. n \in Nat
    BY <2>2, <2>3, SizedTyped
  <2>5. Approvable(n, asked) \in 0 .. MaxContracts
    BY <2>2, <2>4, ApprovedTyped, RiskAssumption
  <2>6. [pc |-> "approved", cand |-> c, day |-> Today,
         contracts |-> Approvable(n, asked), fresh |-> TRUE] \in Tickets
    BY <2>5, TicketToday
  <2>7. ticket' \in [Traders -> Tickets]
    BY <2>2, <2>6 DEF TypeOK
  <2>8. TradesCanLose'
    BY <2>2, <2>3 DEF TypeOK, TradesCanLose, Underway
  <2>9. seen' \in [Candidates -> Times \cup {Never}] /\ last' \in [Candidates -> Times \cup {Never}]
    BY <2>1, PurgedTyped DEF TypeOK
  <2> QED
    BY <2>1, <2>7, <2>8, <2>9 DEF TypeOK, tracker
<1>2. CASE FirewallRefuses
  BY <1>2, PurgedTyped DEF FirewallRefuses, TypeOK, TradesCanLose, Underway, tracker
<1>3. ASSUME NEW t \in Traders, NEW c \in Candidates, Check(t, c)
      PROVE  Typed'
  <2>1. Today \in Days
    BY DayOfTime DEF TypeOK, Today
  <2>2. 1 \in 0 .. MaxContracts
    BY RiskAssumption
  <2>3. [pc |-> "approved", cand |-> c, day |-> Today, contracts |-> 1, fresh |-> TRUE] \in Tickets
    BY <2>2, TicketToday
  <2>4. ticket' \in [Traders -> Tickets]
    BY <1>3, <2>3 DEF Check, TypeOK
  <2>5. TradesCanLose'
    BY <1>3 DEF Check, TypeOK, TradesCanLose, Underway
  <2>6. open' \in Seq(Candidates) /\ committed' \in Nat /\ realized' \in Int /\ session' \in Days
    BY <1>3, <2>1, TrackerTyped DEF Check
  <2> QED
    BY <1>3, <2>4, <2>5, <2>6 DEF Check, TypeOK
<1>4. ASSUME NEW t \in Traders, Guard(t)
      PROVE  Typed'
  <2>1. ticket[t] \in Tickets
    BY DEF TypeOK
  <2>2. Least(ticket[t].contracts, GuardContracts) \in 0 .. MaxContracts
    BY <2>1, GuardedTyped DEF Tickets
  <2> DEFINE ready == [ticket[t] EXCEPT !.pc = "ready",
                                        !.contracts = Least(ticket[t].contracts, GuardContracts)]
  <2>3. ready \in Tickets /\ ready.cand = ticket[t].cand
    BY <2>1, <2>2 DEF Tickets
  <2>6. \/ ticket' = [ticket EXCEPT ![t] = ready]
        \/ ticket' = [ticket EXCEPT ![t] = NoTicket]
    BY <1>4 DEF Guard
  <2> HIDE DEF ready
  <2>4. ticket' \in [Traders -> Tickets]
    BY <2>6, <2>3, NoTicketTyped DEF TypeOK
  <2>5. TradesCanLose'
    <3>1. ASSUME NEW u \in Traders, ticket'[u].pc # "idle"
          PROVE  Loss[ticket'[u].cand] > 0
      <4>1. ticket'[u].cand = ticket[u].cand /\ ticket[u].pc # "idle"
        <5>1. CASE u # t
          BY <2>6, <3>1, <5>1 DEF TypeOK
        <5>2. CASE u = t
          <6>1. ticket'[t] = ready \/ ticket'[t] = NoTicket
            BY <2>6 DEF TypeOK
          <6>2. NoTicket.pc = "idle" /\ ticket[t].pc # "idle"
            BY <1>4 DEF Guard, NoTicket
          <6> QED
            BY <2>3, <3>1, <5>2, <6>1, <6>2
        <5> QED
          BY <5>1, <5>2
      <4> QED
        BY <4>1 DEF TradesCanLose, Underway
    <3> QED
      BY <3>1 DEF TradesCanLose, Underway
  <2> QED
    BY <1>4, <2>4, <2>5 DEF Guard, TypeOK, tracker
<1>5. ASSUME NEW t \in Traders, RecordTrade(t)
      PROVE  Typed'
  <2> DEFINE c == ticket[t].cand
             n == ticket[t].contracts
             d == ticket[t].day
  <2>1. ticket[t] \in Tickets /\ c \in Candidates /\ n \in Nat /\ d \in Days
    BY RiskAssumption DEF TypeOK, Tickets
  <2>2. Loss[c] \in Nat
    <3>1. Underway(t)
      BY <1>5 DEF RecordTrade, Underway
    <3>2. Loss[ticket[t].cand] > 0
      BY <3>1 DEF TradesCanLose
    <3>3. Loss[ticket[t].cand] \in Int
      BY <2>1, RiskAssumption
    <3> QED
      BY <3>2, <3>3
  <2>3. Loss[c] * n \in Nat
    <3> HIDE DEF c, n
    <3> QED BY <2>1, <2>2, TradeLossTyped
  <2>4. ticket' \in [Traders -> Tickets]
    <3>1. ASSUME NEW u \in Traders
          PROVE  [ticket[u] EXCEPT !.fresh = ticket[u].pc = "idle"] \in Tickets
      BY DEF TypeOK, Tickets
    <3> QED
      BY <1>5, <3>1, NoTicketTyped DEF RecordTrade
  <2>5. TradesCanLose'
    <3>1. ASSUME NEW u \in Traders, ticket'[u].pc # "idle"
          PROVE  Loss[ticket'[u].cand] > 0
      <4>1. u # t
        BY <1>5, <3>1 DEF RecordTrade, NoTicket
      <4>2. ticket'[u] = [ticket[u] EXCEPT !.fresh = ticket[u].pc = "idle"] /\ ticket[u] \in Tickets
        BY <1>5, <4>1 DEF RecordTrade, TypeOK
      <4> QED
        BY <3>1, <4>2 DEF TradesCanLose, Underway, Tickets
    <3> QED
      BY <3>1 DEF TradesCanLose, Underway
  <2>6. /\ OpenOn(d) \in Seq(Candidates) /\ CommittedOn(d) \in Nat /\ RealizedOn(d) \in Int
    BY <2>1, TrackerTyped
  <2>7. open' \in Seq(Candidates) /\ committed' \in Nat /\ realized' \in Int /\ session' \in Days
    BY <1>5, <2>1, <2>3, <2>6 DEF RecordTrade, TradeLoss
  <2>8. spent' \in [Days -> Nat]
    BY <1>5, <2>1, <2>3 DEF RecordTrade, TypeOK
  <2>9. strayed' \in BOOLEAN
    BY <1>5 DEF RecordTrade
  <2> QED
    BY <1>5, <2>4, <2>5, <2>7, <2>8, <2>9 DEF RecordTrade, TypeOK
<1>6. ASSUME NEW d \in Days, RecordLoss(d)
      PROVE  Typed'
  <2>1. OpenOn(d) \in Seq(Candidates) /\ CommittedOn(d) \in Nat
    BY TrackerTyped
  <2>2. TradesCanLose'
    BY <1>6 DEF RecordLoss, TradesCanLose, Underway
  <2> QED
    BY <1>6, <2>1, <2>2 DEF RecordLoss, TypeOK
<1>7. CASE ClosePositions
  BY <1>7 DEF ClosePositions, TypeOK, TradesCanLose, Underway
<1>8. CASE Tick
  BY <1>8, RiskAssumption DEF Tick, TypeOK, TradesCanLose, Underway, tracker, Times
<1>9. CASE UNCHANGED vars
  BY <1>9 DEF vars, tracker, TypeOK, TradesCanLose, Underway
<1> QED
  BY <1>1, <1>2, <1>3, <1>4, <1>5, <1>6, <1>7, <1>8, <1>9 DEF Next

\* The tracker, the tickets and the histories keep their types.
THEOREM TypeCorrect == Spec => []TypeOK
<1>1. Typed => TypeOK
  BY DEF Typed
<1> QED
  BY <1>1, TypedInit, TypedStep, PTL DEF Spec

-----------------------------------------------------------------------------
(* The daily limit. *)

Fresh(t) == Underway(t) /\ ticket[t].fresh

\* The tracker knows of its own day what was recorded, and no later day has
\* seen a trade.
LedgerAgrees ==
  /\ session \in Days => committed = spent[session]
  /\ session \notin Days => committed = 0
  /\ \A d \in Days : d > session => spent[d] = 0

\* What a ticket may lose fits the day it is for.
Fits(u) ==
  Loss[ticket[u].cand] * ticket[u].contracts + CommittedOn(ticket[u].day) <= MaxDailyLoss

\* As long as an approval is fresh.
ApprovalsFit ==
  \A t \in Traders : Fresh(t) => Fits(t)

LossInv == ~strayed => LedgerAgrees /\ ApprovalsFit /\ DailyLossHolds

\* Asking the tracker about a day that is not gone by keeps the ledger.
LEMMA AskedAbout ==
  ASSUME Typed, LedgerAgrees, NEW d \in Days, d >= session
  PROVE  CommittedOn(d) = spent[d] /\ \A e \in Days : e > d => spent[e] = 0
<1>1. CASE d = session
  BY <1>1 DEF LedgerAgrees, CommittedOn
<1>2. CASE d # session
  BY <1>2 DEF LedgerAgrees, CommittedOn, Typed, TypeOK, Days
<1> QED
  BY <1>1, <1>2

\* Nothing is ahead of the clock.
NotAhead ==
  /\ session <= Today
  /\ \A t \in Traders : Underway(t) => ticket[t].day <= Today
  /\ \A d \in Days : spent[d] > 0 => d <= Today

LEMMA NotAheadInit == Init => NotAhead
<1> SUFFICES ASSUME Init PROVE NotAhead
  OBVIOUS
<1>1. Typed
  BY TypedInit
<1>2. Today \in Days /\ Days \subseteq Nat
  BY <1>1, DayOfTime DEF Typed, TypeOK, Today, Days
<1>3. session <= Today
  BY <1>2 DEF Init
<1>4. \A t \in Traders : ~Underway(t)
  BY DEF Init, Underway, NoTicket
<1>5. \A d \in Days : spent[d] = 0
  BY DEF Init
<1> QED
  BY <1>3, <1>4, <1>5 DEF NotAhead

LEMMA NotAheadStep == Typed /\ Typed' /\ NotAhead /\ [Next]_vars => NotAhead'
<1> SUFFICES ASSUME Typed, Typed', NotAhead, [Next]_vars PROVE NotAhead'
  OBVIOUS
<1>0. Today \in Days /\ Today' \in Days /\ Days \subseteq Nat
  BY DayOfTime DEF Typed, TypeOK, Today, Days
<1>1. ASSUME NEW t \in Traders, NEW c \in Candidates, FirewallApproves(t, c)
      PROVE  NotAhead'
  <2>1. UNCHANGED <<session, spent, now>>
    BY <1>1 DEF FirewallApproves, tracker
  <2>2. PICK new : new.day = Today /\ ticket' = [ticket EXCEPT ![t] = new]
    BY <1>1 DEF FirewallApproves
  <2>3. ASSUME NEW u \in Traders, ticket'[u].pc # "idle"
        PROVE  ticket'[u].day <= Today
    <3>1. CASE u = t
      BY <1>0, <2>2, <3>1 DEF Typed, TypeOK
    <3>2. CASE u # t
      BY <2>2, <2>3, <3>2 DEF NotAhead, Underway, Typed, TypeOK
    <3> QED
      BY <3>1, <3>2
  <2> QED
    BY <2>1, <2>3 DEF NotAhead, Today, Underway
<1>2. CASE FirewallRefuses
  BY <1>2 DEF FirewallRefuses, NotAhead, tracker, Today, Underway
<1>3. ASSUME NEW t \in Traders, NEW c \in Candidates, Check(t, c)
      PROVE  NotAhead'
  <2>1. session' = Today /\ UNCHANGED <<spent, now>>
    BY <1>3 DEF Check
  <2>2. \/ UNCHANGED ticket
        \/ \E new : new.day = Today /\ ticket' = [ticket EXCEPT ![t] = new]
    BY <1>3 DEF Check
  <2> QED
    BY <1>0, <2>1, <2>2 DEF NotAhead, Today, Underway, Typed, TypeOK
<1>4. ASSUME NEW t \in Traders, Guard(t)
      PROVE  NotAhead'
  <2>1. UNCHANGED <<session, spent, now>>
    BY <1>4 DEF Guard, tracker
  <2> DEFINE ready == [ticket[t] EXCEPT !.pc = "ready",
                                        !.contracts = Least(ticket[t].contracts, GuardContracts)]
  <2>2. PICK new : /\ ticket' = [ticket EXCEPT ![t] = new]
                   /\ new.pc = "idle" \/ new.day = ticket[t].day
    <3>1. ready.day = ticket[t].day
      BY DEF Typed, TypeOK, Tickets
    <3>2. NoTicket.pc = "idle"
      BY DEF NoTicket
    <3>3. \/ ticket' = [ticket EXCEPT ![t] = ready]
          \/ ticket' = [ticket EXCEPT ![t] = NoTicket]
      BY <1>4 DEF Guard
    <3> HIDE DEF ready
    <3> QED
      BY <3>1, <3>2, <3>3
  <2>3. Underway(t)
    BY <1>4 DEF Guard, Underway
  <2> QED
    BY <2>1, <2>2, <2>3 DEF NotAhead, Today, Underway, Typed, TypeOK
<1>5. ASSUME NEW t \in Traders, RecordTrade(t)
      PROVE  NotAhead'
  <2>1. ticket[t].day <= Today /\ ticket[t].day \in Days
    BY <1>5 DEF RecordTrade, NotAhead, Underway, Typed, TypeOK, Tickets
  <2>2. session' = ticket[t].day /\ UNCHANGED now
    BY <1>5 DEF RecordTrade
  <2>3. \A d \in Days : d # ticket[t].day => spent'[d] = spent[d]
    BY <1>5 DEF RecordTrade, Typed, TypeOK
  <2>4. ASSUME NEW u \in Traders, ticket'[u].pc # "idle"
        PROVE  ticket'[u].day <= Today
    <3>1. u # t
      BY <1>5, <2>4 DEF RecordTrade, NoTicket
    <3>2. ticket'[u] = [ticket[u] EXCEPT !.fresh = ticket[u].pc = "idle"] /\ ticket[u] \in Tickets
      BY <1>5, <3>1 DEF RecordTrade, Typed, TypeOK
    <3> QED
      BY <2>4, <3>2 DEF NotAhead, Underway, Tickets
  <2> QED
    BY <2>1, <2>2, <2>3, <2>4 DEF NotAhead, Today, Underway
<1>6. ASSUME NEW d \in Days, RecordLoss(d)
      PROVE  NotAhead'
  BY <1>6 DEF RecordLoss, NotAhead, Today, Underway
<1>7. CASE ClosePositions
  BY <1>7 DEF ClosePositions, NotAhead, Today, Underway
<1>8. CASE Tick
  <2>1. UNCHANGED <<session, ticket, spent>> /\ now \in Nat /\ now' \in Nat /\ now <= now'
    BY <1>8, RiskAssumption DEF Tick, tracker, Typed, TypeOK, Times
  <2>2. Today <= Today'
    BY <2>1, Quotient, RiskAssumption DEF Today, Day
  <2>3. \A t \in Traders : ticket[t].day \in Nat
    BY <1>0 DEF Typed, TypeOK, Tickets
  <2>4. session \in Int
    BY <1>0 DEF Typed, TypeOK
  <2>5. session' <= Today'
    BY <1>0, <2>1, <2>2, <2>4 DEF NotAhead
  <2>6. \A t \in Traders : Underway(t)' => ticket'[t].day <= Today'
    BY <1>0, <2>1, <2>2, <2>3 DEF NotAhead, Underway
  <2>7. \A d \in Days : spent'[d] > 0 => d <= Today'
    BY <1>0, <2>1, <2>2 DEF NotAhead
  <2> QED
    BY <2>5, <2>6, <2>7 DEF NotAhead
<1>9. CASE UNCHANGED vars
  BY <1>9 DEF vars, tracker, NotAhead, Today, Underway
<1> QED
  BY <1>1, <1>2, <1>3, <1>4, <1>5, <1>6, <1>7, <1>8, <1>9 DEF Next

LEMMA ProductGrows ==
  ASSUME NEW l \in Nat, NEW n \in Nat, NEW k \in Nat, k <= n
  PROVE  l * k \in Nat /\ l * n \in Nat /\ l * k <= l * n
OBVIOUS

\* Asking the tracker about a day disturbs neither ledger nor approvals, as
\* long as no day after it has seen a trade.
Asked(d) == session' = d /\ committed' = CommittedOn(d)

LEMMA AskingKeeps ==
  ASSUME Typed, Typed', NEW d \in Days, Asked(d), UNCHANGED spent, d >= session,
         LedgerAgrees
  PROVE  LedgerAgrees' /\ \A e \in Days : CommittedOn(e)' <= CommittedOn(e)
<1>1. CommittedOn(d) = spent[d] /\ \A e \in Days : e > d => spent[e] = 0
  BY AskedAbout
<1>2. LedgerAgrees'
  BY <1>1 DEF Asked, LedgerAgrees
<1>3. \A e \in Days : CommittedOn(e)' <= CommittedOn(e)
  BY DEF Asked, CommittedOn, Typed, TypeOK
<1> QED
  BY <1>2, <1>3

\* A ticket that does not change still fits a tracker that does not grow.
LEMMA StillFits ==
  ASSUME Typed, Typed', NEW u \in Traders, ticket'[u] = ticket[u], Underway(u), Fits(u),
         \A e \in Days : CommittedOn(e)' <= CommittedOn(e)
  PROVE  Fits(u)'
<1> DEFINE l == Loss[ticket[u].cand]
           n == ticket[u].contracts
<1>1. ticket[u] \in Tickets
  BY DEF Typed, TypeOK
<1>2. l \in Nat /\ n \in Nat /\ ticket[u].day \in Days
  BY <1>1, RiskAssumption DEF Typed, TradesCanLose, Tickets
<1>3. l * n \in Nat
  <2> HIDE DEF l, n
  <2> QED BY <1>2, TradeLossTyped
<1>4. PICK e \in Days : e = ticket[u].day
  BY <1>2
<1>5. CommittedOn(e) \in Nat /\ CommittedOn(e)' \in Nat
  BY DEF CommittedOn, Typed, TypeOK
<1>6. l * n + CommittedOn(e) <= MaxDailyLoss
  BY <1>4 DEF Fits
<1> DEFINE product == l * n
<1>7. product + CommittedOn(e)' <= MaxDailyLoss
  <2>1. product \in Nat /\ product + CommittedOn(e) <= MaxDailyLoss
    BY <1>3, <1>6
  <2> HIDE DEF product
  <2> QED BY <2>1, <1>5, RiskAssumption
<1>8. Fits(u)' = (product + (CommittedOn(e)') <= MaxDailyLoss)
  BY <1>4 DEF Fits, CommittedOn
<1> QED
  BY <1>7, <1>8

\* A new ticket for one trader, on a tracker that does not grow.
LEMMA OneTicketFits ==
  ASSUME Typed, Typed', ApprovalsFit, NEW t \in Traders, NEW new,
         ticket' = [ticket EXCEPT ![t] = new],
         \A e \in Days : CommittedOn(e)' <= CommittedOn(e),
         Fresh(t)' => Fits(t)'
  PROVE  ApprovalsFit'
<1>1. ASSUME NEW u \in Traders, Fresh(u)', u # t
      PROVE  Fits(u)'
  <2>1. ticket'[u] = ticket[u]
    BY <1>1 DEF Typed, TypeOK
  <2>2. Fresh(u)
    BY <1>1, <2>1 DEF Fresh, Underway
  <2>3. Underway(u) /\ Fits(u)
    BY <2>2 DEF ApprovalsFit, Fresh
  <2> QED
    BY <2>1, <2>3, StillFits
<1> QED
  BY <1>1 DEF ApprovalsFit

LEMMA SameTickets ==
  ASSUME Typed, Typed', ApprovalsFit, UNCHANGED ticket,
         \A e \in Days : CommittedOn(e)' <= CommittedOn(e)
  PROVE  ApprovalsFit'
<1>1. ASSUME NEW u \in Traders, Fresh(u)'
      PROVE  Fits(u)'
  <2>1. Underway(u) /\ Fits(u)
    BY <1>1 DEF ApprovalsFit, Fresh, Underway
  <2> QED
    BY <2>1, StillFits
<1> QED
  BY <1>1 DEF ApprovalsFit

LEMMA SameTracker ==
  ASSUME Typed, UNCHANGED <<session, committed>>
  PROVE  \A e \in Days : CommittedOn(e)' <= CommittedOn(e)
BY DEF CommittedOn, Typed, TypeOK

LEMMA LossInit == Init => LossInv
<1> SUFFICES ASSUME Init PROVE LossInv
  OBVIOUS
<1>1. \A d \in Days : spent[d] = 0 /\ d \in Nat
  BY DayOfTime DEF Init, Days
<1>2. session = -1 /\ committed = 0
  BY DEF Init
<1>3. LedgerAgrees
  BY <1>1, <1>2 DEF LedgerAgrees
<1>4. ApprovalsFit
  BY DEF Init, ApprovalsFit, Fresh, Underway, NoTicket
<1>5. DailyLossHolds
  BY <1>1, RiskAssumption DEF DailyLossHolds
<1> QED
  BY <1>3, <1>4, <1>5 DEF LossInv

LEMMA LossStep ==
  Typed /\ Typed' /\ NotAhead /\ LossInv /\ [Next]_vars => LossInv'
<1> SUFFICES ASSUME Typed, Typed', NotAhead, LossInv, [Next]_vars, ~strayed' PROVE LossInv'
  BY DEF LossInv
<1>0. ~strayed
  BY DEF Next, FirewallApproves, FirewallRefuses, Check, Guard, RecordTrade, RecordLoss,
         ClosePositions, Tick, vars, tracker
<1>1. LedgerAgrees /\ ApprovalsFit /\ DailyLossHolds
  BY <1>0 DEF LossInv
<1>2. Today \in Days /\ Today >= session
  BY DayOfTime DEF Typed, TypeOK, Today, NotAhead, Days
<1>3. SUFFICES LedgerAgrees' /\ ApprovalsFit' /\ DailyLossHolds'
  BY DEF LossInv
<1>4. ASSUME NEW t \in Traders, NEW c \in Candidates, FirewallApproves(t, c)
      PROVE  LedgerAgrees' /\ ApprovalsFit' /\ DailyLossHolds'
  <2>1. UNCHANGED <<session, committed, realized, spent, now, strayed>>
    BY <1>4 DEF FirewallApproves, tracker
  <2>2. PICK h \in 1 .. 2, asked \in 1 .. MaxContracts :
           /\ Loss[c] > 0 /\ Remaining > 0
           /\ \E n \in Sized(c, h) :
                /\ n >= 1
                /\ ticket' = [ticket EXCEPT ![t] = [pc |-> "approved", cand |-> c, day |-> Today,
                                contracts |-> Approvable(n, asked), fresh |-> TRUE]]
    BY <1>4 DEF FirewallApproves, Passes, EnvelopeApproved
  <2>3. PICK n \in Sized(c, h) :
           /\ n >= 1
           /\ ticket' = [ticket EXCEPT ![t] = [pc |-> "approved", cand |-> c, day |-> Today,
                           contracts |-> Approvable(n, asked), fresh |-> TRUE]]
    BY <2>2
  <2> DEFINE k == Approvable(n, asked)
  <2>4. n \in Nat /\ Loss[c] * n <= MaxRiskDollars /\ MaxRiskDollars <= Remaining
    BY <2>2, <2>3, SizedTyped DEF Typed
  <2>5. k \in Nat /\ k <= n
    BY <2>3, <2>4, ApprovedTyped, RiskAssumption
  <2>6. Loss[c] \in Nat
    BY <2>2, RiskAssumption
  <2>7. Loss[c] * k \in Nat /\ Loss[c] * n \in Nat /\ Loss[c] * k <= Loss[c] * n
    <3> HIDE DEF k
    <3> QED BY <2>4, <2>5, <2>6, ProductGrows
  <2>8. MaxRiskDollars \in Int /\ Remaining \in Int /\ Remaining <= MaxDailyLoss - committed
    BY RiskAssumption DEF Typed, TypeOK, Remaining, MaxRiskDollars, Least
  <2>9. CommittedOn(Today) <= committed /\ CommittedOn(Today) \in Nat /\ committed \in Nat
    BY DEF CommittedOn, Typed, TypeOK
  <2>10. Loss[c] * k + CommittedOn(Today) <= MaxDailyLoss
    <3> DEFINE a == Loss[c] * k
               b == Loss[c] * n
    <3>1. a \in Nat /\ b \in Nat /\ a <= b /\ b <= MaxRiskDollars /\ MaxRiskDollars <= Remaining
      BY <2>4, <2>7
    <3> HIDE DEF a, b, k
    <3>2. a + CommittedOn(Today) <= MaxDailyLoss
      BY <3>1, <2>8, <2>9, RiskAssumption
    <3> QED
      BY <3>2 DEF a
  <2>11. Fits(t)'
    <3>1. ticket'[t] = [pc |-> "approved", cand |-> c, day |-> Today, contracts |-> k, fresh |-> TRUE]
      BY <2>3 DEF Typed, TypeOK
    <3>2. CommittedOn(ticket[t].day)' = CommittedOn(Today)
      BY <2>1, <3>1 DEF CommittedOn
    <3> HIDE DEF k
    <3> QED
      BY <2>10, <3>1, <3>2 DEF Fits
  <2>12. ApprovalsFit'
    BY <1>1, <2>1, <2>3, <2>11, SameTracker, OneTicketFits
  <2> QED
    BY <1>1, <2>1, <2>12 DEF LedgerAgrees, DailyLossHolds
<1>5. CASE FirewallRefuses
  <2>1. UNCHANGED <<session, committed, ticket, spent, strayed>>
    BY <1>5 DEF FirewallRefuses, tracker
  <2> QED
    BY <1>1, <2>1, SameTracker, SameTickets DEF LedgerAgrees, DailyLossHolds
<1>6. ASSUME NEW t \in Traders, NEW c \in Candidates, Check(t, c)
      PROVE  LedgerAgrees' /\ ApprovalsFit' /\ DailyLossHolds'
  <2>1. Asked(Today) /\ UNCHANGED <<spent, strayed>>
    BY <1>6 DEF Check, Asked
  <2>2. LedgerAgrees' /\ \A e \in Days : CommittedOn(e)' <= CommittedOn(e)
    BY <1>1, <1>2, <2>1, AskingKeeps
  <2>3. CASE UNCHANGED ticket
    BY <1>1, <2>1, <2>2, <2>3, SameTickets DEF DailyLossHolds
  <2> DEFINE new == [pc |-> "approved", cand |-> c, day |-> Today, contracts |-> 1, fresh |-> TRUE]
  <2>4. CASE CheckPasses(c) /\ Loss[c] > 0 /\ ticket' = [ticket EXCEPT ![t] = new]
    <3>1. ticket'[t] = new
      BY <2>4 DEF Typed, TypeOK
    <3>2. CommittedOn(Today) + Loss[c] <= MaxDailyLoss
      BY <2>4 DEF CheckPasses
    <3>3. CommittedOn(ticket[t].day)' = CommittedOn(Today)
      BY <2>1, <3>1 DEF CommittedOn, Asked
    <3>4. CommittedOn(Today) \in Nat /\ Loss[c] \in Nat
      BY <1>2, <2>4, RiskAssumption DEF CommittedOn, Typed, TypeOK
    <3>5. Fits(t)'
      BY <3>1, <3>2, <3>3, <3>4, RiskAssumption DEF Fits
    <3> HIDE DEF new
    <3>6. ApprovalsFit'
      BY <1>1, <2>2, <2>4, <3>5, OneTicketFits
    <3> QED
      BY <1>1, <2>1, <2>2, <3>6 DEF DailyLossHolds
  <2> QED
    BY <1>6, <2>3, <2>4 DEF Check
<1>7. ASSUME NEW t \in Traders, Guard(t)
      PROVE  LedgerAgrees' /\ ApprovalsFit' /\ DailyLossHolds'
  <2> DEFINE n == ticket[t].contracts
             k == Least(n, GuardContracts)
             ready == [ticket[t] EXCEPT !.pc = "ready", !.contracts = k]
  <2>1. UNCHANGED <<session, committed, spent, strayed>>
    BY <1>7 DEF Guard, tracker
  <2>2. \A e \in Days : CommittedOn(e)' <= CommittedOn(e)
    BY <2>1, SameTracker
  <2>3. ticket[t] \in Tickets /\ Underway(t)
    BY <1>7 DEF Guard, Underway, Typed, TypeOK
  <2>4. CASE ticket' = [ticket EXCEPT ![t] = NoTicket]
    <3>1. ~Fresh(t)'
      BY <2>4 DEF Fresh, Underway, NoTicket, Typed, TypeOK
    <3> QED
      BY <1>1, <2>1, <2>2, <2>4, <3>1, OneTicketFits DEF LedgerAgrees, DailyLossHolds
  <2>5. CASE ticket' = [ticket EXCEPT ![t] = ready]
    <3> DEFINE l == Loss[ticket[t].cand]
    <3>1. ticket'[t] = ready
      BY <2>5 DEF Typed, TypeOK
    <3>2. n \in Nat /\ k \in Nat /\ k <= n /\ l \in Nat /\ ticket[t].day \in Days
      BY <2>3, GuardedTyped, RiskAssumption DEF Tickets, Typed, TradesCanLose
    <3>3. l * k \in Nat /\ l * n \in Nat /\ l * k <= l * n
      <4> HIDE DEF l, n, k
      <4> QED BY <3>2, ProductGrows
    <3>4. /\ ready.cand = ticket[t].cand /\ ready.contracts = k /\ ready.day = ticket[t].day
          /\ ready.fresh = ticket[t].fresh
      BY <2>3 DEF Tickets
    <3>5. ASSUME Fresh(t)'
          PROVE  Fits(t)'
      <4> DEFINE e == CommittedOn(ticket[t].day)
                 a == l * k
                 b == l * n
      <4>1. b + e <= MaxDailyLoss
        BY <1>1, <2>3, <3>1, <3>4, <3>5 DEF ApprovalsFit, Fresh, Fits
      <4>2. e \in Nat
        BY <3>2 DEF CommittedOn, Typed, TypeOK
      <4>3. e' = e
        BY <2>1, <3>1, <3>4 DEF CommittedOn
      <4>4. a \in Nat /\ b \in Nat /\ a <= b
        BY <3>3
      <4>5. a + e <= MaxDailyLoss
        <5> HIDE DEF a, b, e
        <5> QED BY <4>1, <4>2, <4>4, RiskAssumption
      <4>6. Fits(t)' = (Loss[ticket'[t].cand] * ticket'[t].contracts + e' <= MaxDailyLoss)
        BY DEF Fits
      <4>7. Loss[ticket'[t].cand] * ticket'[t].contracts = a
        BY <3>1, <3>4
      <4> HIDE DEF a, e
      <4> QED
        BY <4>3, <4>5, <4>6, <4>7
    <3> HIDE DEF ready
    <3>6. ApprovalsFit'
      BY <1>1, <2>2, <2>5, <3>5, OneTicketFits
    <3> QED
      BY <1>1, <2>1, <3>6 DEF LedgerAgrees, DailyLossHolds
  <2> QED
    BY <1>7, <2>4, <2>5 DEF Guard
<1>8. ASSUME NEW t \in Traders, RecordTrade(t)
      PROVE  LedgerAgrees' /\ ApprovalsFit' /\ DailyLossHolds'
  <2> DEFINE d == ticket[t].day
             loss == Loss[ticket[t].cand] * ticket[t].contracts
  <2>1. ticket[t] \in Tickets /\ d \in Days /\ Underway(t)
    BY <1>8 DEF RecordTrade, Underway, Typed, TypeOK, Tickets
  <2>2. Fresh(t) /\ d >= session
    <3>1. strayed' = (strayed \/ ~ticket[t].fresh \/ d < session)
      BY <1>8 DEF RecordTrade
    <3>2. ticket[t].fresh /\ ~(d < session)
      BY <3>1
    <3>3. d \in Int /\ session \in Int
      BY <2>1 DEF Typed, TypeOK, Days
    <3> QED
      BY <2>1, <3>2, <3>3 DEF Fresh
  <2>3. loss + CommittedOn(d) <= MaxDailyLoss
    BY <1>1, <2>2 DEF ApprovalsFit, Fits
  <2>4. CommittedOn(d) = spent[d] /\ \A e \in Days : e > d => spent[e] = 0
    BY <1>1, <2>1, <2>2, AskedAbout
  <2>5. loss \in Nat
    <3>1. Loss[ticket[t].cand] \in Nat /\ ticket[t].contracts \in Nat
      BY <2>1, RiskAssumption DEF Tickets, Typed, TradesCanLose
    <3> QED
      BY <3>1, TradeLossTyped
  <2>6. session' = d /\ committed' = CommittedOn(d) + loss /\ spent' = [spent EXCEPT ![d] = @ + loss]
    BY <1>8 DEF RecordTrade, TradeLoss
  <2>7. \A u \in Traders : ~Fresh(u)'
    BY <1>8 DEF RecordTrade, Fresh, Underway, NoTicket, Typed, TypeOK, Tickets
  <2>8. spent[d] \in Nat /\ spent'[d] = spent[d] + loss /\ \A e \in Days \ {d} : spent'[e] = spent[e]
    <3> HIDE DEF loss, d
    <3> QED BY <2>1, <2>6 DEF Typed, TypeOK
  <2> HIDE DEF loss, d
  <2>9. LedgerAgrees'
    BY <2>1, <2>4, <2>6, <2>8 DEF LedgerAgrees, Days
  <2>10. DailyLossHolds'
    <3>1. spent'[d] <= MaxDailyLoss
      BY <2>3, <2>4, <2>5, <2>8, RiskAssumption
    <3>2. \A e \in Days \ {d} : spent'[e] <= MaxDailyLoss
      BY <1>0, <1>1, <2>8 DEF DailyLossHolds
    <3> QED
      BY <3>1, <3>2 DEF DailyLossHolds
  <2> QED
    BY <2>7, <2>9, <2>10 DEF ApprovalsFit
<1>9. ASSUME NEW d \in Days, RecordLoss(d)
      PROVE  LedgerAgrees' /\ ApprovalsFit' /\ DailyLossHolds'
  <2>1. Asked(d) /\ UNCHANGED <<spent, ticket>> /\ d >= session
    <3>1. strayed' = (strayed \/ d < session)
      BY <1>9 DEF RecordLoss
    <3>2. ~(d < session)
      BY <3>1
    <3>3. d \in Int /\ session \in Int
      BY DEF Typed, TypeOK, Days
    <3> QED
      BY <1>9, <3>2, <3>3 DEF RecordLoss, Asked
  <2>2. LedgerAgrees' /\ \A e \in Days : CommittedOn(e)' <= CommittedOn(e)
    BY <1>1, <2>1, AskingKeeps
  <2>3. ApprovalsFit'
    BY <1>1, <2>1, <2>2, SameTickets
  <2> QED
    BY <1>0, <1>1, <2>1, <2>2, <2>3 DEF DailyLossHolds
<1>10. CASE ClosePositions
  <2>1. UNCHANGED <<session, committed, ticket, spent, strayed>>
    BY <1>10 DEF ClosePositions
  <2> QED
    BY <1>1, <2>1, SameTracker, SameTickets DEF LedgerAgrees, DailyLossHolds
<1>11. CASE Tick
  <2>1. UNCHANGED <<session, committed, ticket, spent, strayed>>
    BY <1>11 DEF Tick, tracker
  <2> QED
    BY <1>1, <2>1, SameTracker, SameTickets DEF LedgerAgrees, DailyLossHolds
<1>12. CASE UNCHANGED vars
  <2>1. UNCHANGED <<session, committed, ticket, spent, strayed>>
    BY <1>12 DEF vars, tracker
  <2> QED
    BY <1>1, <2>1, SameTracker, SameTickets DEF LedgerAgrees, DailyLossHolds
<1> QED
  BY <1>4, <1>5, <1>6, <1>7, <1>8, <1>9, <1>10, <1>11, <1>12 DEF Next

\* The daily limit holds of what is recorded on a day, for any traders, limits
\* and losses.
THEOREM DailyLossAlwaysHolds == Spec => []DailyLossHolds
<1> DEFINE Inv == Typed /\ NotAhead /\ LossInv
<1>1. Init => Inv
  BY TypedInit, NotAheadInit, LossInit
<1>2. Inv /\ [Next]_vars => Inv'
  BY TypedStep, NotAheadStep, LossStep
<1>3. Inv => DailyLossHolds
  BY DEF LossInv, DailyLossHolds
<1> QED
  BY <1>1, <1>2, <1>3, PTL DEF Spec

-----------------------------------------------------------------------------
(* Approvals. *)

\* The guard remembers the last approval of every candidate, or has had the
\* time to forget it.
MemoryOfApprovals ==
  \A c \in Candidates :
    /\ last[c] <= now
    /\ \/ seen[c] = last[c]
       \/ seen[c] = Never /\ (last[c] = Never \/ now - last[c] > OrderTtl)

Apart == \A c \in Candidates :
           last'[c] # last[c] /\ last[c] # Never => last'[c] - last[c] > OrderTtl

\* Forgetting what is old keeps the memory.
LEMMA PurgedRemembers ==
  ASSUME Typed, MemoryOfApprovals, NEW c \in Candidates
  PROVE  \/ Purged[c] = last[c]
         \/ Purged[c] = Never /\ (last[c] = Never \/ now - last[c] > OrderTtl)
BY DEF Typed, TypeOK, MemoryOfApprovals, Purged, Forgotten

LEMMA MemoryInit == Init => MemoryOfApprovals
BY DEF Init, MemoryOfApprovals, Never

LEMMA MemoryStep ==
  Typed /\ Typed' /\ MemoryOfApprovals /\ [Next]_vars => MemoryOfApprovals' /\ Apart
<1> SUFFICES ASSUME Typed, Typed', MemoryOfApprovals, [Next]_vars
             PROVE  MemoryOfApprovals' /\ Apart
  OBVIOUS
<1>0. /\ last \in [Candidates -> Times \cup {Never}] /\ Times \subseteq Nat
      /\ now \in Nat /\ OrderTtl \in Nat
  BY RiskAssumption DEF Typed, TypeOK, Times
<1>1. ASSUME NEW t \in Traders, NEW c \in Candidates, FirewallApproves(t, c)
      PROVE  MemoryOfApprovals' /\ Apart
  <2>1. /\ seen' = [Purged EXCEPT ![c] = now] /\ last' = [last EXCEPT ![c] = now]
        /\ UNCHANGED now /\ Purged[c] = Never
    BY <1>1 DEF FirewallApproves, Passes
  <2>2. last'[c] = now /\ seen'[c] = now
    BY <1>0, <2>1, PurgedTyped DEF Typed
  <2>3. last[c] = Never \/ now - last[c] > OrderTtl
    BY <2>1, PurgedRemembers
  <2>4. ASSUME NEW e \in Candidates, e # c
        PROVE  last'[e] = last[e] /\ seen'[e] = Purged[e]
    BY <1>0, <2>1, <2>4, PurgedTyped DEF Typed
  <2>5. ASSUME NEW e \in Candidates
        PROVE  /\ last'[e] <= now
               /\ \/ seen'[e] = last'[e]
                  \/ seen'[e] = Never /\ (last'[e] = Never \/ now - last'[e] > OrderTtl)
    <3>1. CASE e = c
      BY <1>0, <2>2, <3>1
    <3>2. CASE e # c
      BY <2>4, <3>2, PurgedRemembers DEF MemoryOfApprovals
    <3> QED
      BY <3>1, <3>2
  <2>6. Apart
    BY <2>2, <2>3, <2>4 DEF Apart
  <2> QED
    BY <2>1, <2>5, <2>6 DEF MemoryOfApprovals
<1>2. CASE FirewallRefuses
  <2>1. seen' = Purged /\ UNCHANGED <<last, now>>
    BY <1>2 DEF FirewallRefuses
  <2> QED
    BY <2>1, PurgedRemembers DEF MemoryOfApprovals, Apart
<1>3. CASE UNCHANGED <<seen, last, now>>
  BY <1>3 DEF MemoryOfApprovals, Apart
<1>4. CASE Tick
  <2>1. now' = now + 1 /\ UNCHANGED <<seen, last>>
    BY <1>4 DEF Tick
  <2>2. ASSUME NEW c \in Candidates
        PROVE  last[c] \in Int
    <3>1. last[c] \in Nat \/ last[c] = Never
      BY <1>0
    <3>2. Never \in Int
      BY DEF Never
    <3> QED
      BY <3>1, <3>2
  <2> QED
    BY <1>0, <2>1, <2>2 DEF MemoryOfApprovals, Apart
<1> QED
  BY <1>1, <1>2, <1>3, <1>4 DEF Next, Check, Guard, RecordTrade, RecordLoss, ClosePositions, vars

\* No candidate is approved twice within the guard's memory.
THEOREM AlwaysApprovedOnce == Spec => ApprovedOnce
<1> DEFINE Inv == Typed /\ MemoryOfApprovals
<1>1. Init => Inv
  BY TypedInit, MemoryInit
<1>2. Inv /\ [Next]_vars => Inv'
  BY TypedStep, MemoryStep
<1>3. Inv /\ Inv' /\ [Next]_vars => [Apart]_vars
  BY MemoryStep
<1>4. ApprovedOnce <=> [][Apart]_vars
  BY PTL DEF ApprovedOnce, Apart
<1> QED
  BY <1>1, <1>2, <1>3, <1>4, PTL DEF Spec

-----------------------------------------------------------------------------
(* Concentration. *)

\* No family a candidate is of has more positions than allowed.
PositionsHold ==
  /\ Len(open) <= MaxPositions
  /\ \A c \in Candidates : OfFamily(open, Family[c]) <= MaxFamily

\* There is room for a ticket's position on its day.
HasRoom(t) ==
  /\ Len(OpenOn(ticket[t].day)) < MaxPositions
  /\ OfFamily(OpenOn(ticket[t].day), Family[ticket[t].cand]) < MaxFamily

RoomForApproved == \A t \in Traders : Fresh(t) => HasRoom(t)

RoomInv == ~strayed => PositionsHold /\ RoomForApproved

LEMMA RoomInNone ==
  ASSUME NEW f
  PROVE  Len(<<>>) < MaxPositions /\ OfFamily(<<>>, f) < MaxFamily
BY FamilyOfNone, RiskAssumption

\* A step that keeps the positions of its day, or empties the tracker, leaves
\* room where there was some.
OpenKeptOrEmptied == \A e \in Days : OpenOn(e)' = OpenOn(e) \/ OpenOn(e)' = <<>>

LEMMA RoomStays ==
  ASSUME Typed, NEW u \in Traders, ticket'[u] = ticket[u], HasRoom(u), OpenKeptOrEmptied
  PROVE  HasRoom(u)'
<1>1. PICK e \in Days : e = ticket[u].day
  BY DEF Typed, TypeOK, Tickets
<1>2. HasRoom(u)' = (/\ Len(OpenOn(e)') < MaxPositions
                     /\ OfFamily(OpenOn(e)', Family[ticket[u].cand]) < MaxFamily)
  BY <1>1 DEF HasRoom, OpenOn
<1>3. OpenOn(e)' = OpenOn(e) \/ OpenOn(e)' = <<>>
  BY DEF OpenKeptOrEmptied
<1>4. /\ Len(OpenOn(e)) < MaxPositions
      /\ OfFamily(OpenOn(e), Family[ticket[u].cand]) < MaxFamily
  BY <1>1 DEF HasRoom
<1> QED
  BY <1>2, <1>3, <1>4, RoomInNone

LEMMA PositionsStay ==
  ASSUME PositionsHold, open' = open \/ open' = <<>>
  PROVE  PositionsHold'
<1>1. CASE open' = open
  BY <1>1 DEF PositionsHold
<1>2. CASE open' = <<>>
  <2>1. \A c \in Candidates : OfFamily(<<>>, Family[c]) < MaxFamily
    BY RoomInNone
  <2>2. Len(<<>>) <= MaxPositions /\ \A c \in Candidates : OfFamily(<<>>, Family[c]) <= MaxFamily
    BY FamilyOfNone, RiskAssumption
  <2> QED
    BY <1>2, <2>2 DEF PositionsHold, OfFamily
<1> QED
  BY <1>1, <1>2

\* A new ticket for one trader.
LEMMA OneTicketHasRoom ==
  ASSUME Typed, RoomForApproved, OpenKeptOrEmptied, NEW t \in Traders, NEW new,
         ticket' = [ticket EXCEPT ![t] = new], Fresh(t)' => HasRoom(t)'
  PROVE  RoomForApproved'
<1>1. ASSUME NEW u \in Traders, Fresh(u)', u # t
      PROVE  HasRoom(u)'
  <2>1. ticket'[u] = ticket[u]
    BY <1>1 DEF Typed, TypeOK
  <2>2. HasRoom(u)
    BY <1>1, <2>1 DEF Fresh, Underway, RoomForApproved
  <2> QED
    BY <2>1, <2>2, RoomStays
<1> QED
  BY <1>1 DEF RoomForApproved

LEMMA SameTicketsHaveRoom ==
  ASSUME Typed, RoomForApproved, OpenKeptOrEmptied, UNCHANGED ticket
  PROVE  RoomForApproved'
<1>1. ASSUME NEW u \in Traders, Fresh(u)'
      PROVE  HasRoom(u)'
  <2>1. HasRoom(u) /\ ticket'[u] = ticket[u]
    BY <1>1 DEF Fresh, Underway, RoomForApproved
  <2> QED
    BY <2>1, RoomStays
<1> QED
  BY <1>1 DEF RoomForApproved

LEMMA SameOpen ==
  ASSUME UNCHANGED session, open' = open \/ open' = <<>>
  PROVE  OpenKeptOrEmptied
BY DEF OpenKeptOrEmptied, OpenOn

LEMMA AskedOpen ==
  ASSUME NEW d \in Days, session' = d, open' = OpenOn(d)
  PROVE  OpenKeptOrEmptied /\ (open' = open \/ open' = <<>>)
BY DEF OpenKeptOrEmptied, OpenOn

\* The positions after one more.
LEMMA OneMorePosition ==
  ASSUME NEW s \in Seq(Candidates), NEW c \in Candidates,
         Len(s) < MaxPositions, OfFamily(s, Family[c]) < MaxFamily,
         \A e \in Candidates : OfFamily(s, Family[e]) <= MaxFamily
  PROVE  /\ Len(Append(s, c)) <= MaxPositions
         /\ \A e \in Candidates : OfFamily(Append(s, c), Family[e]) <= MaxFamily
<1>1. Len(Append(s, c)) = Len(s) + 1 /\ Len(s) \in Nat
  OBVIOUS
<1>2. ASSUME NEW e \in Candidates
      PROVE  OfFamily(Append(s, c), Family[e]) <= MaxFamily
  <2>1. /\ OfFamily(s, Family[e]) \in Nat
        /\ OfFamily(Append(s, c), Family[e]) =
             IF Family[c] = Family[e] THEN OfFamily(s, Family[e]) + 1 ELSE OfFamily(s, Family[e])
    BY FamilyOfAppend
  <2> QED
    BY <2>1, RiskAssumption
<1> QED
  BY <1>1, <1>2, RiskAssumption

LEMMA RoomInit == Init => RoomInv
<1> SUFFICES ASSUME Init PROVE RoomInv
  OBVIOUS
<1>1. PositionsHold
  <2>1. open = <<>> /\ MaxPositions \in Nat /\ MaxFamily \in Nat
    BY RiskAssumption DEF Init
  <2>2. \A c \in Candidates : OfFamily(<<>>, Family[c]) = 0
    BY FamilyOfNone
  <2> QED
    BY <2>1, <2>2 DEF PositionsHold
<1>2. RoomForApproved
  BY DEF Init, RoomForApproved, Fresh, Underway, NoTicket
<1> QED
  BY <1>1, <1>2 DEF RoomInv

LEMMA RoomStep == Typed /\ Typed' /\ RoomInv /\ [Next]_vars => RoomInv'
<1> SUFFICES ASSUME Typed, Typed', RoomInv, [Next]_vars, ~strayed'
             PROVE  PositionsHold' /\ RoomForApproved'
  BY DEF RoomInv
<1>0. ~strayed
  BY DEF Next, FirewallApproves, FirewallRefuses, Check, Guard, RecordTrade, RecordLoss,
         ClosePositions, Tick, vars, tracker
<1>1. PositionsHold /\ RoomForApproved
  BY <1>0 DEF RoomInv
<1>2. Today \in Days
  BY DayOfTime DEF Typed, TypeOK, Today
<1>3. ASSUME NEW t \in Traders, NEW c \in Candidates, FirewallApproves(t, c)
      PROVE  PositionsHold' /\ RoomForApproved'
  <2>1. UNCHANGED <<session, open>>
    BY <1>3 DEF FirewallApproves, tracker
  <2>2. PICK new : /\ new.day = Today /\ new.cand = c
                   /\ ticket' = [ticket EXCEPT ![t] = new]
    BY <1>3 DEF FirewallApproves
  <2>3. Len(open) < MaxPositions /\ OfFamily(open, Family[c]) < MaxFamily
    BY <1>3 DEF FirewallApproves, Passes, EnvelopeApproved
  <2>4. HasRoom(t)'
    <3>1. ticket'[t] = new
      BY <2>2 DEF Typed, TypeOK
    <3>2. OpenOn(Today) = open \/ OpenOn(Today) = <<>>
      BY DEF OpenOn
    <3>3. Len(OpenOn(Today)) < MaxPositions /\ OfFamily(OpenOn(Today), Family[c]) < MaxFamily
      BY <2>3, <3>2, RoomInNone
    <3>4. HasRoom(t)' = (/\ Len(OpenOn(Today)) < MaxPositions
                         /\ OfFamily(OpenOn(Today), Family[c]) < MaxFamily)
      BY <2>1, <2>2, <3>1 DEF HasRoom, OpenOn
    <3> QED
      BY <3>3, <3>4
  <2>5. OpenKeptOrEmptied
    BY <2>1, SameOpen
  <2> QED
    BY <1>1, <2>1, <2>2, <2>4, <2>5, PositionsStay, OneTicketHasRoom
<1>4. CASE FirewallRefuses
  <2>1. UNCHANGED <<session, open, ticket>>
    BY <1>4 DEF FirewallRefuses, tracker
  <2> QED
    BY <1>1, <2>1, SameOpen, PositionsStay, SameTicketsHaveRoom
<1>5. ASSUME NEW t \in Traders, NEW c \in Candidates, Check(t, c)
      PROVE  PositionsHold' /\ RoomForApproved'
  <2>1. session' = Today /\ open' = OpenOn(Today)
    BY <1>5 DEF Check
  <2>2. OpenKeptOrEmptied /\ (open' = open \/ open' = <<>>)
    BY <1>2, <2>1, AskedOpen
  <2>3. PositionsHold'
    BY <1>1, <2>2, PositionsStay
  <2>4. CASE UNCHANGED ticket
    BY <1>1, <2>2, <2>3, <2>4, SameTicketsHaveRoom
  <2> DEFINE new == [pc |-> "approved", cand |-> c, day |-> Today, contracts |-> 1, fresh |-> TRUE]
  <2>5. CASE CheckPasses(c) /\ ticket' = [ticket EXCEPT ![t] = new]
    <3>1. ticket'[t] = new
      BY <2>5 DEF Typed, TypeOK
    <3>2. OfFamily(OpenOn(Today), Family[c]) \in Nat
      BY <1>2, TrackerTyped, FamilyOfAppend DEF Typed
    <3>3. Len(OpenOn(Today)) < MaxPositions /\ OfFamily(OpenOn(Today), Family[c]) < MaxFamily
      BY <2>5, <3>2, RiskAssumption DEF CheckPasses
    <3>4. HasRoom(t)' = (/\ Len(OpenOn(Today)) < MaxPositions
                         /\ OfFamily(OpenOn(Today), Family[c]) < MaxFamily)
      BY <2>1, <3>1 DEF HasRoom, OpenOn
    <3>5. HasRoom(t)'
      BY <3>3, <3>4
    <3> HIDE DEF new
    <3> QED
      BY <1>1, <2>2, <2>3, <2>5, <3>5, OneTicketHasRoom
  <2> QED
    BY <1>5, <2>4, <2>5 DEF Check
<1>6. ASSUME NEW t \in Traders, Guard(t)
      PROVE  PositionsHold' /\ RoomForApproved'
  <2>1. UNCHANGED <<session, open>>
    BY <1>6 DEF Guard, tracker
  <2>2. OpenKeptOrEmptied
    BY <2>1, SameOpen
  <2>3. ticket[t] \in Tickets /\ Underway(t)
    BY <1>6 DEF Guard, Underway, Typed, TypeOK
  <2>4. PICK new : /\ ticket' = [ticket EXCEPT ![t] = new]
                   /\ \/ new.pc = "idle"
                      \/ /\ new.day = ticket[t].day /\ new.cand = ticket[t].cand
                         /\ new.fresh = ticket[t].fresh
    BY <1>6, <2>3 DEF Guard, NoTicket, Tickets
  <2>5. ticket'[t] = new
    BY <2>4 DEF Typed, TypeOK
  <2>6. ASSUME Fresh(t)' PROVE HasRoom(t)'
    <3>1. new.day = ticket[t].day /\ new.cand = ticket[t].cand /\ new.fresh = ticket[t].fresh
      BY <2>4, <2>5, <2>6 DEF Fresh, Underway
    <3>2. HasRoom(t)
      BY <1>1, <2>3, <2>5, <2>6, <3>1 DEF RoomForApproved, Fresh
    <3> QED
      BY <2>1, <2>5, <3>1, <3>2 DEF HasRoom, OpenOn
  <2> QED
    BY <1>1, <2>1, <2>2, <2>4, <2>6, PositionsStay, OneTicketHasRoom
<1>7. ASSUME NEW t \in Traders, RecordTrade(t)
      PROVE  PositionsHold' /\ RoomForApproved'
  <2> DEFINE d == ticket[t].day
             c == ticket[t].cand
  <2>1. ticket[t] \in Tickets /\ d \in Days /\ c \in Candidates /\ Underway(t)
    BY <1>7 DEF RecordTrade, Underway, Typed, TypeOK, Tickets
  <2>2. strayed' = (strayed \/ ~ticket[t].fresh \/ d < session)
    BY <1>7 DEF RecordTrade
  <2>3. HasRoom(t)
    BY <1>1, <2>1, <2>2 DEF RoomForApproved, Fresh
  <2>4. OpenOn(d) \in Seq(Candidates)
    BY <2>1, TrackerTyped DEF Typed
  <2>5. \A e \in Candidates : OfFamily(OpenOn(d), Family[e]) <= MaxFamily
    <3>1. OpenOn(d) = open \/ OpenOn(d) = <<>>
      BY DEF OpenOn
    <3>2. \A e \in Candidates : OfFamily(<<>>, Family[e]) <= MaxFamily
      BY FamilyOfNone, RiskAssumption
    <3> QED
      BY <1>1, <3>1, <3>2 DEF PositionsHold
  <2>6. open' = Append(OpenOn(d), c)
    BY <1>7 DEF RecordTrade
  <2>7. Len(OpenOn(d)) < MaxPositions /\ OfFamily(OpenOn(d), Family[c]) < MaxFamily
    BY <2>3 DEF HasRoom
  <2>8. /\ Len(open') <= MaxPositions
        /\ \A e \in Candidates : OfFamily(open', Family[e]) <= MaxFamily
    <3> HIDE DEF c, d
    <3> QED BY <2>1, <2>4, <2>5, <2>6, <2>7, OneMorePosition
  <2>9. PositionsHold'
    BY <2>8 DEF PositionsHold, OfFamily
  <2>10. \A u \in Traders : ~Fresh(u)'
    BY <1>7 DEF RecordTrade, Fresh, Underway, NoTicket, Typed, TypeOK, Tickets
  <2> QED
    BY <2>9, <2>10 DEF RoomForApproved
<1>8. ASSUME NEW d \in Days, RecordLoss(d)
      PROVE  PositionsHold' /\ RoomForApproved'
  <2>1. session' = d /\ open' = OpenOn(d) /\ UNCHANGED ticket
    BY <1>8 DEF RecordLoss
  <2> QED
    BY <1>1, <2>1, AskedOpen, PositionsStay, SameTicketsHaveRoom
<1>9. CASE ClosePositions
  <2>1. open' = <<>> /\ UNCHANGED <<session, ticket>>
    BY <1>9 DEF ClosePositions
  <2> QED
    BY <1>1, <2>1, SameOpen, PositionsStay, SameTicketsHaveRoom
<1>10. CASE UNCHANGED <<session, open, ticket>>
  BY <1>1, <1>10, SameOpen, PositionsStay, SameTicketsHaveRoom
<1> QED
  BY <1>3, <1>4, <1>5, <1>6, <1>7, <1>8, <1>9, <1>10 DEF Next, Tick, vars, tracker

\* The positions open at once stay within the limits, in all and per family.
THEOREM ConcentrationAlwaysHolds == Spec => []ConcentrationHolds
<1> DEFINE Inv == Typed /\ RoomInv
<1>1. Init => Inv
  BY TypedInit, RoomInit
<1>2. Inv /\ [Next]_vars => Inv'
  BY TypedStep, RoomStep
<1>3. Inv => ConcentrationHolds
  <2> SUFFICES ASSUME Inv, ~strayed PROVE ConcentrationHolds
    BY DEF ConcentrationHolds
  <2>1. open \in Seq(Candidates) /\ PositionsHold
    BY DEF Typed, TypeOK, RoomInv
  <2>2. \A i \in DOMAIN open : open[i] \in Candidates
    BY <2>1
  <2> QED
    BY <2>1, <2>2 DEF ConcentrationHolds, PositionsHold
<1> QED
  BY <1>1, <1>2, <1>3, PTL DEF Spec
=============================================================================
