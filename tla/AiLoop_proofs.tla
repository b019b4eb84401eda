---------------------------- MODULE AiLoop_proofs ----------------------------
(***************************************************************************)
(* Theorems about PaperTrading and about AiLoop, which extends it, for     *)
(* every set of orders, sizes, prices and marks, any fee, cash and exit    *)
(* policies, and anything the agent answers.                               *)
(*                                                                         *)
(* PaperTrading: the type invariant, that the account lists the positions  *)
(* that hold contracts, that a refused close is found at a restart, and    *)
(* that the ledger explains the cash.  Each order with its position is     *)
(* consistent on its own (OrderFits, PositionFits), a position the account *)
(* refused to close is closed (RefusedAreClosed), so that no later close   *)
(* takes it off the list, and what one order gains the ledger gains        *)
(* (TotalChanges, by induction on the number of orders).                   *)
(*                                                                         *)
(* AiLoop: the hard floors are obeyed, fills become positions, the journal *)
(* tells what the account booked, and the primary runs its own system.     *)
(* Inv has a part per theorem over what all of them need: the records fit  *)
(* together (Kept) and at most one position is open (OneOpen).             *)
(***************************************************************************)
EXTENDS AiLoop, Sequences, FiniteSetTheorems, WellFoundedInduction, TLAPS

OrderRecords == [status : OrderStatuses, want : Nat, limit : Nat, filled : Nat, cost : Nat]
PositionRecords == [status : PositionStatuses, opened : Nat, open : Nat, entry : Nat, realized : Int]

\* What a fill can rely on.
OrderFits(x) ==
  /\ x \in OrderRecords
  /\ x.filled <= x.want
  /\ x.status = "FILLED" <=> x.want > 0 /\ x.filled = x.want
  /\ x.status \in {"ACKNOWLEDGED", "PARTIALLY_FILLED"} => x.want > 0
  /\ x.status \in {"FILLED", "PARTIALLY_FILLED"} => x.filled > 0

\* A position of an order that has filled so many contracts.
PositionFits(p, filled) ==
  /\ p \in PositionRecords
  /\ p.open <= p.opened /\ p.opened <= filled
  /\ p.status \in {"OPEN", "PARTIALLY_REDUCED"} <=> p.open > 0

RefusedAreClosed == \A o \in refused : o \in Orders /\ positions[o].status \in {"CLOSED", "SETTLED"}

OrdersFit ==
  /\ orders = [o \in Orders |-> orders[o]]
  /\ \A o \in Orders : OrderFits(orders[o])

PositionsFit ==
  /\ positions = [o \in Orders |-> positions[o]]
  /\ \A o \in Orders : PositionFits(positions[o], orders[o].filled)

Typed ==
  /\ OrdersFit /\ PositionsFit
  /\ cash \in Nat /\ openIds \subseteq Orders /\ blocked \in BOOLEAN

LEMMA TypedIsTypeOK == Typed => TypeOK
<1> SUFFICES ASSUME Typed PROVE TypeOK
  OBVIOUS
<1>1. ASSUME NEW o \in Orders
      PROVE  /\ orders[o].status \in OrderStatuses
             /\ orders[o].filled \in 0 .. orders[o].want
             /\ orders[o].status = "FILLED" <=>
                  orders[o].want > 0 /\ orders[o].filled = orders[o].want
  BY DEF Typed, OrdersFit, OrderFits, OrderRecords
<1>2. ASSUME NEW o \in Orders
      PROVE  /\ positions[o].status \in PositionStatuses
             /\ positions[o].open \in 0 .. positions[o].opened
             /\ positions[o].opened \in 0 .. orders[o].filled
  <2>1. OrderFits(orders[o]) /\ PositionFits(positions[o], orders[o].filled)
    BY DEF Typed, OrdersFit, PositionsFit
  <2> QED
    BY <2>1 DEF OrderFits, OrderRecords, PositionFits, PositionRecords
<1> QED
  BY <1>1, <1>2 DEF TypeOK, Typed

LEMMA TypedInit == Init => Typed
<1> SUFFICES ASSUME Init PROVE Typed
  OBVIOUS
<1>1. OrderFits(NoOrder)
  BY DEF OrderFits, NoOrder, OrderRecords, OrderStatuses
<1>2. PositionFits(NoPosition, 0) /\ NoOrder.filled = 0
  BY DEF PositionFits, NoPosition, PositionRecords, PositionStatuses, NoOrder
<1> QED
  BY <1>1, <1>2, PaperAssumption DEF Init, Typed, OrdersFit, PositionsFit

-----------------------------------------------------------------------------
(* One order, or one position, changes. *)

LEMMA OrderChanges ==
  ASSUME Typed, NEW o \in Orders, NEW x, OrderFits(x), orders[o].filled <= x.filled,
         orders' = [orders EXCEPT ![o] = x], positions' = positions
  PROVE  OrdersFit' /\ PositionsFit'
<1>1. OrdersFit'
  BY DEF Typed, OrdersFit
<1>2. ASSUME NEW v \in Orders PROVE PositionFits(positions[v], orders'[v].filled)
  <2>1. orders[v].filled <= orders'[v].filled /\ orders[v].filled \in Nat /\ orders'[v].filled \in Nat
    BY DEF Typed, OrdersFit, OrderFits, OrderRecords
  <2> QED
    BY <2>1 DEF Typed, PositionsFit, PositionFits, PositionRecords
<1>3. PositionsFit'
  BY <1>2 DEF Typed, PositionsFit
<1> QED
  BY <1>1, <1>3

LEMMA PositionChanges ==
  ASSUME Typed, NEW o \in Orders, NEW p, PositionFits(p, orders[o].filled),
         positions' = [positions EXCEPT ![o] = p], orders' = orders
  PROVE  OrdersFit' /\ PositionsFit'
BY DEF Typed, OrdersFit, PositionsFit

\* A fill of an order that is not complete.
LEMMA FillFits ==
  ASSUME NEW x, OrderFits(x), x.status \in {"ACKNOWLEDGED", "PARTIALLY_FILLED"},
         NEW price \in Nat, NEW q \in FillSizes(x)
  PROVE  /\ OrderFits(AfterFill(x, q, price)) /\ x.filled <= AfterFill(x, q, price).filled
         /\ q \in Nat
<1> DEFINE y == AfterFill(x, q, price)
           f == x.filled + q
           c == x.cost + q * price
           s == IF x.filled + q >= x.want THEN "FILLED" ELSE "PARTIALLY_FILLED"
<1>1. /\ x \in OrderRecords /\ x.want \in Nat /\ x.filled \in Nat /\ x.cost \in Nat
      /\ x.filled < x.want
  BY DEF OrderFits, OrderRecords
<1>2. q \in Nat /\ q > 0 /\ x.filled + q <= x.want
  BY <1>1 DEF FillSizes, Remaining
<1>3. c \in Nat
  <2>1. q * price \in Nat
    BY <1>2
  <2> QED
    BY <1>1, <2>1
<1>4. f \in Nat /\ s \in OrderStatuses /\ x.filled <= f
  BY <1>1, <1>2 DEF OrderStatuses
<1>5. y = [x EXCEPT !.filled = f, !.cost = c, !.status = s]
  BY DEF AfterFill
<1> HIDE DEF c, f, s, y
<1>6. y \in OrderRecords /\ y.filled = f /\ y.want = x.want /\ y.status = s
  BY <1>1, <1>3, <1>4, <1>5 DEF OrderRecords
<1>7. OrderFits(y)
  BY <1>1, <1>2, <1>6 DEF OrderFits, f, s
<1> QED
  BY <1>2, <1>4, <1>6, <1>7 DEF y

\* An offer of a fill at a price, to an order that is working.
LEMMA OfferFits ==
  ASSUME Typed, NEW o \in Orders, NEW x, OrderFits(x), orders[o].filled <= x.filled,
         x.status \in {"ACKNOWLEDGED", "PARTIALLY_FILLED"},
         NEW price \in Prices, MaybeFill(o, x, price), positions' = positions
  PROVE  OrdersFit' /\ PositionsFit' /\ cash' \in Nat
<1>1. price \in Nat
  BY PaperAssumption
<1>2. CASE orders' = [orders EXCEPT ![o] = x] /\ UNCHANGED cash
  BY <1>2, OrderChanges DEF Typed
<1>3. ASSUME NEW q \in FillSizes(x), FillAccepted(q * price + q * Fee),
             cash' = cash - (q * price + q * Fee),
             orders' = [orders EXCEPT ![o] = AfterFill(x, q, price)]
      PROVE  OrdersFit' /\ PositionsFit' /\ cash' \in Nat
  <2>1. /\ OrderFits(AfterFill(x, q, price)) /\ x.filled <= AfterFill(x, q, price).filled
        /\ q \in Nat
    BY <1>1, FillFits
  <2>2. orders[o].filled <= AfterFill(x, q, price).filled
    BY <2>1 DEF Typed, OrdersFit, OrderFits, OrderRecords
  <2>3. q * price \in Nat /\ q * Fee \in Nat
    BY <1>1, <2>1, PaperAssumption
  <2>4. cash' \in Nat
    BY <1>3, <2>3 DEF FillAccepted, Typed
  <2> QED
    BY <1>3, <2>1, <2>2, <2>4, OrderChanges
<1> QED
  BY <1>2, <1>3 DEF MaybeFill

\* What a reduction or a close books is a whole number.
LEMMA PnlIsWhole ==
  ASSUME Typed, NEW o \in Orders, NEW n \in Nat, NEW price \in Nat
  PROVE  Pnl(o, n, price) \in Int
<1>1. price \in Int /\ positions[o].entry \in Int
  BY DEF Typed, PositionsFit, PositionFits, PositionRecords
<1>2. \A a, b \in Int : (a - b) * n \in Int
  OBVIOUS
<1> QED
  BY <1>1, <1>2 DEF Pnl

\* No status may become OPEN again: what on_order_state hears of a position it
\* opened is lost.
LEMMA NothingReopens == \A p, x : Updated(p, x) = p
BY DEF Updated, PositionMoves

\* Fewer contracts, and something earned or lost.
LEMMA Lessened ==
  ASSUME NEW p, NEW f, PositionFits(p, f), NEW k \in Nat, k <= p.open, NEW g \in Int,
         NEW s \in {"PARTIALLY_REDUCED", "CLOSED"}, s = "PARTIALLY_REDUCED" <=> k > 0
  PROVE  PositionFits([p EXCEPT !.status = s, !.open = k, !.realized = @ + g], f)
<1> DEFINE r == [p EXCEPT !.status = s, !.open = k, !.realized = @ + g]
           h == p.realized + g
<1>1. /\ p \in PositionRecords /\ p.open \in Nat /\ p.opened \in Nat
      /\ h \in Int /\ s \in PositionStatuses
  BY DEF PositionFits, PositionRecords, PositionStatuses
<1>2. r = [p EXCEPT !.status = s, !.open = k, !.realized = h]
  OBVIOUS
<1> HIDE DEF h, r
<1>3. r \in PositionRecords /\ r.open = k /\ r.opened = p.opened /\ r.status = s
  BY <1>1, <1>2 DEF PositionRecords
<1>4. PositionFits(r, f)
  BY <1>1, <1>3 DEF PositionFits
<1> QED
  BY <1>4 DEF r

\* What Next does, and what the loop does: it closes at the price it keeps for a
\* position, which is not among Marks when no quote has replaced it.
PaperStep ==
  \/ Next
  \/ \E o \in Orders, m \in Nat :
       Close(o, m) \/ \E cut \in 1 .. positions[o].open : Reduce(o, cut, m)

LEMMA NextIsPaperStep == [Next]_vars => [PaperStep]_vars
BY DEF PaperStep

LEMMA MarksAreWhole == Marks \subseteq Nat
BY PaperAssumption

LEMMA TypedStep == Typed /\ [PaperStep]_vars => Typed'
<1> SUFFICES ASSUME Typed, [PaperStep]_vars PROVE Typed'
  OBVIOUS
<1>1. ASSUME NEW o \in Orders, NEW n \in Contracts, NEW limit \in Prices, Submit(o, n, limit)
      PROVE  Typed'
  <2> DEFINE asked == [NoOrder EXCEPT !.want = n, !.limit = limit]
             As(status) == [asked EXCEPT !.status = status]
  <2>1. n \in Nat /\ n > 0 /\ limit \in Nat
    BY PaperAssumption
  <2>2. ASSUME NEW s \in {"REJECTED", "EXPIRED", "ACKNOWLEDGED"}
        PROVE  OrderFits(As(s)) /\ As(s).status = s /\ As(s).filled = 0
    <3>1. /\ asked \in OrderRecords
          /\ asked.want = n /\ asked.limit = limit /\ asked.filled = 0 /\ asked.cost = 0
      BY <2>1 DEF NoOrder, OrderRecords, OrderStatuses
    <3> HIDE DEF asked
    <3>2. As(s) \in OrderRecords /\ As(s).status = s /\ As(s).want = n /\ As(s).filled = 0
      BY <3>1 DEF OrderRecords, OrderStatuses
    <3> HIDE DEF As
    <3> QED
      BY <2>1, <3>2 DEF OrderFits
  <2>3. orders[o].filled = 0 /\ UNCHANGED <<positions, openIds, blocked>>
    BY <1>1 DEF Submit, NoOrder
  <2>4. \/ (orders' = [orders EXCEPT ![o] = As("REJECTED")] \/ orders' = [orders EXCEPT ![o] = As("EXPIRED")])
           /\ UNCHANGED cash
        \/ MaybeFill(o, As("ACKNOWLEDGED"), limit)
    BY <1>1 DEF Submit
  <2> HIDE DEF As, asked
  <2>5. OrdersFit' /\ PositionsFit' /\ cash' \in Nat
    BY <2>2, <2>3, <2>4, OrderChanges, OfferFits DEF Typed
  <2> QED
    BY <2>3, <2>5 DEF Typed
<1>2. ASSUME NEW o \in Orders, NEW price \in Prices, OnQuote(o, price) PROVE Typed'
  <2>1. OrderFits(orders[o]) /\ Working(o) /\ orders[o].filled <= orders[o].filled
    BY <1>2 DEF OnQuote, Typed, OrdersFit, OrderFits, OrderRecords
  <2> DEFINE x == [orders[o] EXCEPT !.status = "EXPIRED"]
  <2>2. OrderFits(x) /\ x.filled = orders[o].filled
    BY <2>1 DEF OrderFits, OrderRecords, OrderStatuses, Working
  <2>3. \/ orders' = [orders EXCEPT ![o] = x] /\ UNCHANGED cash
        \/ MaybeFill(o, orders[o], price)
    BY <1>2 DEF OnQuote
  <2>4. UNCHANGED <<positions, openIds, blocked>>
    BY <1>2 DEF OnQuote
  <2> HIDE DEF x
  <2>5. OrdersFit' /\ PositionsFit' /\ cash' \in Nat
    BY <2>1, <2>2, <2>3, <2>4, OrderChanges, OfferFits DEF Typed, Working
  <2> QED
    BY <2>4, <2>5 DEF Typed
<1>3. ASSUME NEW o \in Orders, Cancel(o) PROVE Typed'
  <2> DEFINE x == [orders[o] EXCEPT !.status = "CANCELED"]
  <2>1. OrderFits(orders[o]) /\ Working(o) /\ orders[o].filled <= orders[o].filled
    BY <1>3 DEF Cancel, Typed, OrdersFit, OrderFits, OrderRecords
  <2>2. OrderFits(x) /\ x.filled = orders[o].filled
    BY <2>1 DEF OrderFits, OrderRecords, OrderStatuses, Working
  <2>3. orders' = [orders EXCEPT ![o] = x] /\ UNCHANGED <<positions, account>>
    BY <1>3 DEF Cancel
  <2> HIDE DEF x
  <2> QED
    BY <2>1, <2>2, <2>3, OrderChanges DEF Typed, account
<1>4. ASSUME NEW o \in Orders, OnOrderState(o) PROVE Typed'
  <2> DEFINE x == orders[o]
             p == [status |-> "OPEN", opened |-> x.filled, open |-> x.filled,
                   entry |-> Entry(x), realized |-> 0]
  <2>1. x.filled \in Nat /\ x.cost \in Nat /\ x.filled > 0
    BY <1>4 DEF OnOrderState, Typed, OrdersFit, OrderFits, OrderRecords
  <2>2. x.cost \div x.filled \in Nat
    BY <2>1
  <2>3. PositionFits(p, x.filled)
    BY <2>1, <2>2 DEF PositionFits, PositionRecords, PositionStatuses, Entry
  <2>4. \/ positions' = [positions EXCEPT ![o] = p] /\ openIds' = openIds \cup {o}
        \/ UNCHANGED <<positions, openIds>>
    BY <1>4, NothingReopens DEF OnOrderState, Typed, PositionsFit
  <2>5. UNCHANGED <<orders, cash, blocked>>
    BY <1>4 DEF OnOrderState
  <2> HIDE DEF p
  <2>6. CASE positions' = [positions EXCEPT ![o] = p] /\ openIds' = openIds \cup {o}
    BY <2>3, <2>5, <2>6, PositionChanges DEF Typed
  <2>7. CASE UNCHANGED <<positions, openIds>>
    BY <2>5, <2>7 DEF Typed, OrdersFit, PositionsFit
  <2> QED
    BY <2>4, <2>6, <2>7
<1>5. ASSUME NEW o \in Orders, Settle(o) PROVE Typed'
  <2> DEFINE p == [positions[o] EXCEPT !.status = "SETTLED"]
  <2>1. PositionFits(positions[o], orders[o].filled) /\ positions[o].status = "CLOSED"
    BY <1>5 DEF Settle, PositionMoves, Typed, PositionsFit
  <2>2. PositionFits(p, orders[o].filled)
    BY <2>1 DEF PositionFits, PositionRecords, PositionStatuses
  <2>3. positions' = [positions EXCEPT ![o] = p] /\ UNCHANGED <<orders, account>>
    BY <1>5 DEF Settle
  <2> HIDE DEF p
  <2> QED
    BY <2>2, <2>3, PositionChanges DEF Typed, account
<1>6. ASSUME NEW o \in Orders, NEW price \in Nat, Close(o, price) PROVE Typed'
  <2> DEFINE n == positions[o].open
             p == [positions[o] EXCEPT !.status = "CLOSED", !.open = 0,
                                       !.realized = @ + Pnl(o, n, price)]
  <2>1. PositionFits(positions[o], orders[o].filled)
    BY DEF Typed, PositionsFit
  <2>2. n \in Nat /\ Pnl(o, n, price) \in Int
    BY <2>1, PnlIsWhole DEF PositionFits, PositionRecords
  <2>3. PositionFits(p, orders[o].filled)
    <3>1. 0 \in Nat /\ 0 <= positions[o].open /\ ~(0 > 0)
      BY <2>2
    <3>2. ("CLOSED" = "PARTIALLY_REDUCED") <=> (0 > 0)
      BY <3>1
    <3> QED
      BY <2>1, <2>2, <3>1, <3>2, Lessened
  <2>4. positions' = [positions EXCEPT ![o] = p] /\ orders' = orders /\ blocked' = blocked
    BY <1>6 DEF Close
  <2>5. cash' \in Nat
    BY <1>6, <2>2 DEF Close, Bookable, Typed
  <2>6. openIds' \subseteq Orders
    BY <1>6 DEF Close, Typed
  <2> HIDE DEF p
  <2> QED
    BY <2>3, <2>4, <2>5, <2>6, PositionChanges DEF Typed
<1>7. ASSUME NEW o \in Orders, NEW price \in Nat, NEW cut \in 1 .. positions[o].open,
             Reduce(o, cut, price)
      PROVE  Typed'
  <2> DEFINE p == [positions[o] EXCEPT !.status = "PARTIALLY_REDUCED", !.open = @ - cut,
                                       !.realized = @ + Pnl(o, cut, price)]
  <2>1. PositionFits(positions[o], orders[o].filled) /\ cut < positions[o].open
        /\ orders[o].filled \in Nat /\ cut \in Nat
    BY <1>7 DEF Reduce, Typed, PositionsFit, OrdersFit, OrderFits, OrderRecords,
                PositionFits, PositionRecords
  <2>2. Pnl(o, cut, price) \in Int
    BY <2>1, PnlIsWhole
  <2>3. PositionFits(p, orders[o].filled)
    <3>1. positions[o].open - cut \in Nat /\ positions[o].open - cut > 0
          /\ positions[o].open - cut <= positions[o].open
      BY <2>1 DEF PositionFits, PositionRecords
    <3> QED
      BY <2>1, <2>2, <3>1, Lessened
  <2>4. positions' = [positions EXCEPT ![o] = p] /\ UNCHANGED <<orders, openIds, blocked>>
    BY <1>7 DEF Reduce
  <2>5. cash' \in Nat
    BY <1>7, <2>2 DEF Reduce, Bookable, Typed
  <2> HIDE DEF p
  <2> QED
    BY <2>3, <2>4, <2>5, PositionChanges DEF Typed
<1>8. CASE RestartWithNewBook \/ RestartWithBook
  <2>1. OrdersFit' /\ PositionsFit'
    BY <1>8 DEF RestartWithNewBook, RestartWithBook, Typed, OrdersFit, PositionsFit
  <2>2. cash' \in Nat /\ openIds' \subseteq Orders /\ blocked' \in BOOLEAN
    BY <1>8, PaperAssumption
       DEF RestartWithNewBook, RestartWithBook, Registered, OpenPositions, Reconciles, Typed
  <2> QED
    BY <2>1, <2>2 DEF Typed
<1>9. CASE UNCHANGED vars
  BY <1>9 DEF vars, account, Typed, OrdersFit, PositionsFit
<1> QED
  BY <1>1, <1>2, <1>3, <1>4, <1>5, <1>6, <1>7, <1>8, <1>9,
     MarksAreWhole DEF PaperStep, Next

LEMMA AlwaysTyped == Spec => []Typed
BY TypedInit, TypedStep, NextIsPaperStep, PTL DEF Spec

\* TypeOK: whatever is filled, reduced, closed, refused and restarted.
THEOREM TypeCorrect == Spec => []TypeOK
BY AlwaysTyped, TypedIsTypeOK, PTL

-----------------------------------------------------------------------------
(* The account and the positions. *)

BookInv == BookListsOpenPositions /\ RefusedAreClosed

\* The positions that hold contracts are the ones that are open by their status.
LEMMA OpenByStatus ==
  ASSUME Typed
  PROVE  \A o \in Orders : o \in OpenPositions <=> positions[o].status \in {"OPEN", "PARTIALLY_REDUCED"}
BY DEF Typed, PositionsFit, PositionFits, OpenPositions

LEMMA BookStep == Typed /\ Typed' /\ BookInv /\ [PaperStep]_vars => BookInv'
<1> SUFFICES ASSUME Typed, Typed', BookInv, [PaperStep]_vars PROVE BookInv'
  OBVIOUS
<1>1. \A o \in Orders : o \in OpenPositions <=> positions[o].status \in {"OPEN", "PARTIALLY_REDUCED"}
  BY OpenByStatus
<1>2. \A o \in Orders : o \in OpenPositions' <=> positions'[o].status \in {"OPEN", "PARTIALLY_REDUCED"}
  BY DEF Typed, PositionsFit, PositionFits, OpenPositions
<1>3. OpenPositions \subseteq Orders /\ OpenPositions' \subseteq Orders
  BY DEF OpenPositions
<1>4. ASSUME UNCHANGED <<positions, openIds, refused>> PROVE BookInv'
  BY <1>4 DEF BookInv, BookListsOpenPositions, RefusedAreClosed, OpenPositions
<1>5. ASSUME NEW o \in Orders, OnOrderState(o) PROVE BookInv'
  <2>1. CASE positions[o] = NoPosition /\ openIds' = openIds \cup {o} /\ refused' = refused
             /\ positions'[o].status = "OPEN" /\ \A v \in Orders \ {o} : positions'[v] = positions[v]
    <3>1. OpenPositions' = OpenPositions \cup {o}
      BY <1>1, <1>2, <1>3, <2>1
    <3>2. o \notin refused
      BY <2>1 DEF BookInv, RefusedAreClosed, NoPosition
    <3> QED
      BY <2>1, <3>1, <3>2 DEF BookInv, BookListsOpenPositions, RefusedAreClosed
  <2>2. CASE UNCHANGED <<positions, openIds, refused>>
    BY <1>4, <2>2
  <2> QED
    BY <1>5, <2>1, <2>2, NothingReopens DEF OnOrderState, Typed, PositionsFit
<1>6. ASSUME NEW o \in Orders, Settle(o) PROVE BookInv'
  <2>1. /\ positions[o].status = "CLOSED" /\ positions'[o].status = "SETTLED"
        /\ \A v \in Orders \ {o} : positions'[v] = positions[v]
        /\ UNCHANGED <<openIds, refused>>
    BY <1>6 DEF Settle, account, PositionMoves, Typed, PositionsFit, PositionFits, PositionRecords
  <2>2. OpenPositions' = OpenPositions
    BY <1>1, <1>2, <1>3, <2>1
  <2> QED
    BY <2>1, <2>2 DEF BookInv, BookListsOpenPositions, RefusedAreClosed
<1>7. ASSUME NEW o \in Orders, NEW price \in Nat, Close(o, price) PROVE BookInv'
  <2>1. /\ positions[o].status \in {"OPEN", "PARTIALLY_REDUCED"} /\ positions'[o].status = "CLOSED"
        /\ \A v \in Orders \ {o} : positions'[v] = positions[v]
    BY <1>7 DEF Close, PositionMoves, Typed, PositionsFit, PositionFits, PositionRecords
  <2>2. OpenPositions' = OpenPositions \ {o} /\ o \in OpenPositions
    BY <1>1, <1>2, <1>3, <2>1
  <2>3. o \notin refused
    BY <2>1 DEF BookInv, RefusedAreClosed
  <2>4. \/ openIds' = openIds \ {o} /\ refused' = refused
        \/ openIds' = openIds /\ refused' = refused \cup {o}
    BY <1>7 DEF Close
  <2> QED
    BY <2>1, <2>2, <2>3, <2>4 DEF BookInv, BookListsOpenPositions, RefusedAreClosed
<1>8. ASSUME NEW o \in Orders, NEW price \in Nat, NEW cut \in 1 .. positions[o].open,
             Reduce(o, cut, price)
      PROVE  BookInv'
  <2>1. /\ positions[o].status \in {"OPEN", "PARTIALLY_REDUCED"}
        /\ positions'[o].status = "PARTIALLY_REDUCED"
        /\ \A v \in Orders \ {o} : positions'[v] = positions[v]
        /\ UNCHANGED <<openIds, refused>>
    BY <1>8 DEF Reduce, PositionMoves, Typed, PositionsFit, PositionFits, PositionRecords
  <2>2. OpenPositions' = OpenPositions
    BY <1>1, <1>2, <1>3, <2>1
  <2> QED
    BY <2>1, <2>2 DEF BookInv, BookListsOpenPositions, RefusedAreClosed
<1>9. CASE RestartWithNewBook \/ RestartWithBook
  BY <1>9 DEF RestartWithNewBook, RestartWithBook, Registered, OpenPositions,
              BookInv, BookListsOpenPositions, RefusedAreClosed
<1>10. ASSUME NEW o \in Orders, NEW n \in Contracts, NEW limit \in Prices, Submit(o, n, limit)
       PROVE  BookInv'
  BY <1>4, <1>10 DEF Submit
<1>11. ASSUME NEW o \in Orders, (\E price \in Prices : OnQuote(o, price)) \/ Cancel(o) PROVE BookInv'
  BY <1>4, <1>11 DEF OnQuote, Cancel, account
<1>12. CASE UNCHANGED vars
  BY <1>4, <1>12 DEF vars, account
<1> QED
  BY <1>5, <1>6, <1>7, <1>8, <1>9, <1>10, <1>11, <1>12,
     MarksAreWhole DEF PaperStep, Next

LEMMA BookInit == Init => BookInv
BY DEF Init, BookInv, BookListsOpenPositions, RefusedAreClosed, OpenPositions, NoPosition

LEMMA AlwaysBook == Spec => []BookInv
BY BookInit, BookStep, NextIsPaperStep, AlwaysTyped, PTL DEF Spec

\* BookListsOpenPositions: for any orders and marks, across refusals and restarts.
THEOREM BookAlwaysLists == Spec => []BookListsOpenPositions
BY AlwaysBook, PTL DEF BookInv

\* RefusalIsCaught: a position whose close was refused stays on the list and
\* holds nothing, so a restart on the same book finds it.
THEOREM RefusalAlwaysCaught == Spec => RefusalIsCaught
<1>1. Typed /\ BookInv => (RestartWithBook /\ refused # {} => blocked')
  <2> SUFFICES ASSUME Typed, BookInv, RestartWithBook, refused # {} PROVE blocked'
    OBVIOUS
  <2>1. PICK o \in refused : o \in Orders /\ positions[o].status \in {"CLOSED", "SETTLED"}
    BY DEF BookInv, RefusedAreClosed
  <2>2. o \in openIds /\ o \notin OpenPositions
    BY <2>1, OpenByStatus DEF BookInv, BookListsOpenPositions
  <2>3. o \in openIds'
    BY <2>2 DEF RestartWithBook, Registered
  <2> QED
    BY <2>2, <2>3 DEF RestartWithBook, Reconciles
<1>2. Typed /\ BookInv /\ [Next]_vars => [RestartWithBook /\ refused # {} => blocked']_vars
  BY <1>1
<1>3. Spec => [][RestartWithBook /\ refused # {} => blocked']_vars
  BY <1>2, AlwaysTyped, AlwaysBook, PTL DEF Spec
<1> QED
  BY <1>3 DEF RefusalIsCaught

-----------------------------------------------------------------------------
(* The ledger. *)

\* Induction, over a set of numbers.
LEMMA Induction ==
  ASSUME NEW S, 0 \in S, \A n \in Nat : n \in S => n + 1 \in S
  PROVE  \A n \in Nat : n \in S
<1> DEFINE rest == Nat \ S
<1> SUFFICES ASSUME rest # {} PROVE FALSE
  OBVIOUS
<1>1. PICK m \in rest : \A n \in rest : <<n, m>> \notin OpToRel(<, Nat)
  <2> HIDE DEF rest
  <2>1. rest \in SUBSET Nat
    BY DEF rest
  <2> QED
    BY <2>1, WFMin, NatLessThanWellFounded
<1>2. \A n \in rest : ~(n < m)
  BY <1>1 DEF OpToRel
<1>3. m - 1 \in Nat /\ m - 1 \in S
  BY <1>2
<1> QED
  BY <1>3

\* The sum of g over a set, by the sums h of smaller sets.
AnyOf(s) == CHOOSE x \in s : TRUE
SumOf(g, h, s) == IF s = {} THEN 0 ELSE g[AnyOf(s)] + h[s \ {AnyOf(s)}]
IsSum(h, g, S) == h = [s \in SUBSET S |-> SumOf(g, h, s)]
Sums(h, g, S) == \A s \in SUBSET S : h[s] = SumOf(g, h, s)

LEMMA OneLess ==
  ASSUME NEW S, IsFiniteSet(S), NEW s \in SUBSET S, s # {}
  PROVE  /\ AnyOf(s) \in s /\ s \ {AnyOf(s)} \in SUBSET S
         /\ Cardinality(s) \in Nat /\ Cardinality(s \ {AnyOf(s)}) = Cardinality(s) - 1
<1> DEFINE x == AnyOf(s)
<1>1. x \in s
  BY DEF AnyOf
<1> HIDE DEF x
<1>2. IsFiniteSet(s)
  BY FS_Subset
<1> QED
  BY <1>1, <1>2, FS_RemoveElement, FS_CardinalityType DEF x

\* There are such sums: of the sets of up to n members, for every n.
LEMMA SumExists ==
  ASSUME NEW S, IsFiniteSet(S), NEW g
  PROVE  \E h : IsSum(h, g, S)
<1> DEFINE Upto(h, n) == \A s \in SUBSET S : Cardinality(s) <= n => h[s] = SumOf(g, h, s)
           Defined == {n \in Nat : \E h : Upto(h, n)}
<1>0. \A s \in SUBSET S : Cardinality(s) \in Nat /\ Cardinality(s) <= Cardinality(S) /\ (Cardinality(s) = 0 <=> s = {})
  BY FS_Subset, FS_CardinalityType, FS_EmptySet
<1>1. 0 \in Defined
  <2> DEFINE h == [s \in SUBSET S |-> 0]
  <2>1. Upto(h, 0)
    BY <1>0 DEF SumOf
  <2> HIDE DEF Upto, h
  <2> QED
    BY <2>1
<1>2. ASSUME NEW n \in Nat, n \in Defined PROVE n + 1 \in Defined
  <2>1. PICK h : Upto(h, n)
    BY <1>2
  <2> DEFINE k == [s \in SUBSET S |-> IF Cardinality(s) <= n THEN h[s] ELSE SumOf(g, h, s)]
  <2>2. \A s \in SUBSET S : Cardinality(s) <= n + 1 => k[s] = SumOf(g, k, s)
    <3> TAKE s \in SUBSET S
    <3> HAVE Cardinality(s) <= n + 1
    <3>1. k[s] = SumOf(g, h, s)
      BY <2>1
    <3>2. CASE s = {}
      BY <3>1, <3>2 DEF SumOf
    <3>3. CASE s # {}
      <4> DEFINE r == s \ {AnyOf(s)}
      <4>1. r \in SUBSET S /\ Cardinality(r) <= n
        BY <3>3, OneLess
      <4>2. k[r] = h[r]
        <5> HIDE DEF r
        <5> QED
          BY <4>1
      <4> HIDE DEF k
      <4> QED
        BY <3>1, <3>3, <4>2 DEF SumOf
    <3> QED
      BY <3>2, <3>3
  <2>3. Upto(k, n + 1)
    BY <2>2
  <2> HIDE DEF Upto, k
  <2> QED
    BY <2>3
<1>3. Cardinality(S) \in Nat
  BY FS_CardinalityType
<1>4. Cardinality(S) \in Defined
  <2> HIDE DEF Defined
  <2> QED
    BY <1>1, <1>2, <1>3, Induction
<1>5. PICK h : Upto(h, Cardinality(S))
  BY <1>4
<1>6. \A s \in SUBSET S : h[s] = SumOf(g, h, s)
  BY <1>0, <1>5
<1> DEFINE k == [s \in SUBSET S |-> h[s]]
<1>7. \A s \in SUBSET S : k[s] = SumOf(g, k, s)
  <2> TAKE s \in SUBSET S
  <2>1. CASE s = {}
    BY <1>6, <2>1 DEF SumOf
  <2>2. CASE s # {}
    <3>1. s \ {AnyOf(s)} \in SUBSET S
      OBVIOUS
    <3>2. k[s \ {AnyOf(s)}] = h[s \ {AnyOf(s)}] /\ k[s] = h[s]
      BY <3>1
    <3> HIDE DEF k
    <3> QED
      BY <1>6, <2>2, <3>2 DEF SumOf
  <2> QED
    BY <2>1, <2>2
<1>8. k = [s \in SUBSET S |-> SumOf(g, k, s)]
  <2>1. k = [s \in SUBSET S |-> k[s]]
    OBVIOUS
  <2> HIDE DEF k
  <2> QED
    BY <1>7, <2>1
<1>9. IsSum(k, g, S)
  BY <1>8 DEF IsSum
<1> HIDE DEF k
<1> QED
  BY <1>9

\* Total unfolds one order at a time.
LEMMA TotalSums ==
  ASSUME NEW g
  PROVE  \E h : Sums(h, g, Orders) /\ Total(g) = h[Orders]
<1> DEFINE Fits(h) == h = [S \in SUBSET Orders |->
                             IF S = {} THEN 0
                             ELSE LET o == CHOOSE x \in S : TRUE IN g[o] + h[S \ {o}]]
           sum == CHOOSE h : Fits(h)
<1>1. Total(g) = sum[Orders]
  BY DEF Total
<1>2. \A h : Fits(h) <=> IsSum(h, g, Orders)
  BY DEF SumOf, AnyOf, IsSum
<1>3. \E h : Fits(h)
  <2>0. IsFiniteSet(Orders)
    BY PaperAssumption
  <2>1. PICK h : IsSum(h, g, Orders)
    BY <2>0, SumExists
  <2>2. Fits(h)
    BY <1>2, <2>1
  <2> HIDE DEF Fits
  <2> QED
    BY <2>2
<1> HIDE DEF Fits
<1>4. Fits(sum)
  BY <1>3
<1> HIDE DEF sum
<1>5. Sums(sum, g, Orders)
  <2>1. sum = [s \in SUBSET Orders |-> SumOf(g, sum, s)]
    BY <1>2, <1>4 DEF IsSum
  <2> QED
    BY <2>1 DEF Sums
<1> QED
  BY <1>1, <1>5

\* What holds of a set when it holds of the set without one member holds of Orders.
LEMMA OneByOne ==
  ASSUME NEW T, \A s \in SUBSET Orders : s = {} \/ s \ {AnyOf(s)} \in T => s \in T
  PROVE  Orders \in T
<1> DEFINE Upto == {n \in Nat : \A s \in SUBSET Orders : Cardinality(s) = n => s \in T}
<1>1. IsFiniteSet(Orders)
  BY PaperAssumption
<1>2. \A s \in SUBSET Orders : Cardinality(s) \in Nat
  BY <1>1, FS_Subset, FS_CardinalityType
<1>3. 0 \in Upto
  BY <1>1, FS_Subset, FS_EmptySet
<1>4. ASSUME NEW n \in Nat, n \in Upto PROVE n + 1 \in Upto
  <2> SUFFICES ASSUME NEW s \in SUBSET Orders, Cardinality(s) = n + 1 PROVE s \in T
    OBVIOUS
  <2>1. CASE s = {}
    BY <2>1
  <2>2. CASE s # {}
    <3>1. s \ {AnyOf(s)} \in SUBSET Orders /\ Cardinality(s \ {AnyOf(s)}) = n
      BY <1>1, <2>2, OneLess
    <3> QED
      BY <1>4, <3>1
  <2> QED
    BY <2>1, <2>2
<1>5. Cardinality(Orders) \in Upto
  <2> HIDE DEF Upto
  <2> QED
    BY <1>2, <1>3, <1>4, Induction
<1> QED
  BY <1>5

LEMMA TotalIsWhole ==
  ASSUME NEW g \in [Orders -> Int]
  PROVE  Total(g) \in Int
<1>1. PICK h : Sums(h, g, Orders) /\ Total(g) = h[Orders]
  BY TotalSums
<1> DEFINE T == {s \in SUBSET Orders : h[s] \in Int}
<1>2. ASSUME NEW s \in SUBSET Orders, s = {} \/ s \ {AnyOf(s)} \in T PROVE s \in T
  <2>1. h[s] = SumOf(g, h, s)
    BY <1>1 DEF Sums
  <2>2. CASE s = {}
    BY <2>1, <2>2 DEF SumOf
  <2>3. CASE s # {}
    <3>1. AnyOf(s) \in Orders
      BY <2>3 DEF AnyOf
    <3>2. g[AnyOf(s)] \in Int /\ h[s \ {AnyOf(s)}] \in Int
      BY <1>2, <2>3, <3>1
    <3>3. h[s] = g[AnyOf(s)] + h[s \ {AnyOf(s)}]
      BY <2>1, <2>3 DEF SumOf
    <3> QED
      BY <3>2, <3>3
  <2> QED
    BY <2>2, <2>3
<1>3. Orders \in T
  <2> HIDE DEF T
  <2> QED
    BY <1>2, OneByOne
<1> QED
  BY <1>1, <1>3

LEMMA TotalOfNothing ==
  ASSUME NEW g, \A o \in Orders : g[o] = 0
  PROVE  Total(g) = 0
<1>1. PICK h : Sums(h, g, Orders) /\ Total(g) = h[Orders]
  BY TotalSums
<1> DEFINE T == {s \in SUBSET Orders : h[s] = 0}
<1>2. ASSUME NEW s \in SUBSET Orders, s = {} \/ s \ {AnyOf(s)} \in T PROVE s \in T
  <2>1. s # {} => g[AnyOf(s)] = 0
    BY DEF AnyOf
  <2> QED
    BY <1>1, <1>2, <2>1 DEF Sums, SumOf
<1>3. Orders \in T
  <2> HIDE DEF T
  <2> QED
    BY <1>2, OneByOne
<1> QED
  BY <1>1, <1>3

\* Two sums of functions that differ at one order.
LEMMA TotalChanges ==
  ASSUME NEW g \in [Orders -> Int], NEW k \in [Orders -> Int], NEW o \in Orders,
         \A v \in Orders \ {o} : k[v] = g[v]
  PROVE  Total(k) = Total(g) + k[o] - g[o]
<1>1. PICK h : Sums(h, g, Orders) /\ Total(g) = h[Orders]
  BY TotalSums
<1>2. PICK j : Sums(j, k, Orders) /\ Total(k) = j[Orders]
  BY TotalSums
<1> DEFINE Differ(s) == h[s] \in Int /\ j[s] = h[s] + (IF o \in s THEN k[o] - g[o] ELSE 0)
           T == {s \in SUBSET Orders : Differ(s)}
<1>3. ASSUME NEW s \in SUBSET Orders, s = {} \/ s \ {AnyOf(s)} \in T PROVE s \in T
  <2>1. h[s] = SumOf(g, h, s) /\ j[s] = SumOf(k, j, s)
    BY <1>1, <1>2 DEF Sums
  <2>2. CASE s = {}
    BY <2>1, <2>2 DEF SumOf
  <2>3. CASE s # {}
    <3> DEFINE a == AnyOf(s)
               r == s \ {a}
    <3>1. a \in s
      BY <2>3 DEF AnyOf
    <3>2. Differ(r)
      BY <1>3, <2>3
    <3>3. h[s] = g[a] + h[r] /\ j[s] = k[a] + j[r]
      BY <2>1, <2>3 DEF SumOf
    <3>4. a \in Orders /\ a \notin r /\ (o \in s <=> o = a \/ o \in r)
      BY <3>1
    <3> HIDE DEF a, r
    <3>5. g[a] \in Int /\ k[a] \in Int /\ g[o] \in Int /\ k[o] \in Int
      BY <3>4
    <3>6. CASE o = a
      <4>1. o \notin r /\ o \in s
        BY <3>4, <3>6
      <4> QED
        BY <3>2, <3>3, <3>5, <3>6, <4>1
    <3>7. CASE o # a
      <4>1. k[a] = g[a] /\ (o \in s <=> o \in r)
        BY <3>4, <3>7
      <4> QED
        BY <3>2, <3>3, <3>5, <4>1
    <3> QED
      BY <3>6, <3>7
  <2> QED
    BY <2>2, <2>3
<1>4. Orders \in T
  <2> HIDE DEF T
  <2> QED
    BY <1>3, OneByOne
<1> QED
  BY <1>1, <1>2, <1>4

GainOf(p, x) == p.realized - x.cost - x.filled * Fee

LedgerInv == unbooked \in Int /\ LedgerExplainsCash

\* One order or its position changes, and the ledger by as much.
LEMMA OneGains ==
  ASSUME Typed, Typed', NEW o \in Orders, NEW d \in Int,
         \A v \in Orders \ {o} : orders'[v] = orders[v] /\ positions'[v] = positions[v],
         GainOf(positions'[o], orders'[o]) = GainOf(positions[o], orders[o]) + d
  PROVE  Ledger \in Int /\ Ledger' = Ledger + d
<1> DEFINE g == [v \in Orders |-> GainOf(positions[v], orders[v])]
           k == [v \in Orders |-> GainOf(positions'[v], orders'[v])]
<1>1. \A v \in Orders : /\ GainOf(positions[v], orders[v]) \in Int
                        /\ GainOf(positions'[v], orders'[v]) \in Int
  <2> TAKE v \in Orders
  <2>1. \A r, c \in Int, f \in Nat : r - c - f * Fee \in Int
    BY PaperAssumption
  <2>2. /\ positions[v].realized \in Int /\ orders[v].cost \in Int /\ orders[v].filled \in Nat
        /\ positions'[v].realized \in Int /\ orders'[v].cost \in Int /\ orders'[v].filled \in Nat
    BY DEF Typed, OrdersFit, PositionsFit, OrderFits, OrderRecords, PositionFits, PositionRecords
  <2> QED
    BY <2>1, <2>2 DEF GainOf
<1>2. g \in [Orders -> Int] /\ k \in [Orders -> Int]
  BY <1>1
<1>3. \A v \in Orders \ {o} : k[v] = g[v]
  OBVIOUS
<1>4. Ledger = Total(g)
  BY DEF Ledger, Gained, GainOf
<1>5. Ledger' = Total(k)
  BY DEF Ledger, Gained, GainOf
<1>6. k[o] = g[o] + d /\ g[o] \in Int
  BY <1>1
<1> HIDE DEF g, k
<1>7. Total(g) \in Int /\ Total(k) = Total(g) + k[o] - g[o]
  BY <1>2, <1>3, TotalChanges, TotalIsWhole
<1> QED
  BY <1>4, <1>5, <1>6, <1>7

LEMMA SameLedger ==
  ASSUME Typed, orders' = orders, positions' = positions
  PROVE  Ledger' = Ledger
BY DEF Ledger, Gained

\* An offer of a fill to an order that has filled and cost what is stored: the
\* account pays what the order records.
LEMMA OfferExplained ==
  ASSUME Typed, Typed', LedgerInv, NEW o \in Orders, NEW x, OrderFits(x),
         x.status \in {"ACKNOWLEDGED", "PARTIALLY_FILLED"},
         x.filled = orders[o].filled, x.cost = orders[o].cost,
         NEW price \in Prices, MaybeFill(o, x, price), UNCHANGED <<positions, unbooked>>
  PROVE  LedgerInv'
<1>1. x.filled \in Nat /\ x.cost \in Nat /\ price \in Nat /\ positions[o].realized \in Int
  BY PaperAssumption DEF OrderFits, OrderRecords, Typed, PositionsFit, PositionFits, PositionRecords
<1>2. CASE orders' = [orders EXCEPT ![o] = x] /\ UNCHANGED cash
  <2>1. \A v \in Orders : orders'[v] = IF v = o THEN x ELSE orders[v]
    BY <1>2 DEF Typed, OrdersFit
  <2>2. positions[o].realized - x.cost - x.filled * Fee \in Int
    <3>1. x.filled * Fee \in Int
      BY <1>1, PaperAssumption
    <3> QED
      BY <1>1, <3>1
  <2>3. GainOf(positions'[o], orders'[o]) = GainOf(positions[o], orders[o]) + 0
    <3>1. /\ GainOf(positions'[o], orders'[o]) = positions[o].realized - x.cost - x.filled * Fee
          /\ GainOf(positions[o], orders[o]) = positions[o].realized - x.cost - x.filled * Fee
      BY <2>1 DEF GainOf
    <3> QED
      BY <2>2, <3>1
  <2>4. Ledger \in Int /\ Ledger' = Ledger + 0
    BY <2>1, <2>3, OneGains
  <2> QED
    BY <1>2, <2>4 DEF LedgerInv, LedgerExplainsCash
<1>3. ASSUME NEW q \in FillSizes(x), cash' = cash - (q * price + q * Fee),
             orders' = [orders EXCEPT ![o] = AfterFill(x, q, price)]
      PROVE  LedgerInv'
  <2> DEFINE d == 0 - (q * price + q * Fee)
  <2>1. q \in Nat /\ AfterFill(x, q, price).filled = x.filled + q
        /\ AfterFill(x, q, price).cost = x.cost + q * price
    BY <1>1, FillFits DEF AfterFill, OrderFits, OrderRecords
  <2>2. \A v \in Orders : orders'[v] = IF v = o THEN AfterFill(x, q, price) ELSE orders[v]
    BY <1>3 DEF Typed, OrdersFit
  <2>3. \A r, c \in Int, f \in Nat :
          /\ r - (c + q * price) - (f + q) * Fee = r - c - f * Fee + d
          /\ d \in Int
    BY <1>1, <2>1, PaperAssumption
  <2>4. GainOf(positions'[o], orders'[o]) = GainOf(positions[o], orders[o]) + d /\ d \in Int
    <3> HIDE DEF d
    <3> QED
      BY <1>1, <2>1, <2>2, <2>3 DEF GainOf
  <2>5. cash' = cash + d
    <3>1. q * price \in Nat /\ q * Fee \in Nat /\ cash \in Nat
      BY <1>1, <2>1, PaperAssumption DEF Typed
    <3> QED
      BY <1>3, <3>1
  <2> HIDE DEF d
  <2>6. Ledger \in Int /\ Ledger' = Ledger + d
    BY <2>2, <2>4, OneGains
  <2>7. cash \in Int /\ StartingCash \in Int /\ unbooked \in Int /\ unbooked' = unbooked
    BY PaperAssumption DEF Typed, LedgerInv
  <2> QED
    BY <2>4, <2>5, <2>6, <2>7 DEF LedgerInv, LedgerExplainsCash
<1> QED
  BY <1>2, <1>3 DEF MaybeFill

\* A position books so much, and the account does too or the book misses it.
LEMMA BookingExplained ==
  ASSUME Typed, Typed', LedgerInv, NEW o \in Orders, NEW pnl \in Int, orders' = orders,
         \A v \in Orders \ {o} : positions'[v] = positions[v],
         positions'[o].realized = positions[o].realized + pnl,
         \/ cash' = cash + pnl /\ unbooked' = unbooked
         \/ unbooked' = unbooked - pnl /\ cash' = cash
  PROVE  LedgerInv'
<1>1. \A r, c, m \in Int : r + pnl - c - m = r - c - m + pnl
  OBVIOUS
<1>2. positions[o].realized \in Int /\ orders[o].cost \in Int /\ orders[o].filled \in Nat
  BY DEF Typed, OrdersFit, PositionsFit, OrderFits, OrderRecords, PositionFits, PositionRecords
<1>3. GainOf(positions'[o], orders'[o]) = GainOf(positions[o], orders[o]) + pnl
  <2> DEFINE m == orders[o].filled * Fee
  <2>1. m \in Int
    BY <1>2, PaperAssumption
  <2>2. \A p : GainOf(p, orders[o]) = p.realized - orders[o].cost - m
    BY DEF GainOf
  <2> HIDE DEF m
  <2> QED
    BY <1>1, <1>2, <2>1, <2>2
<1>4. Ledger \in Int /\ Ledger' = Ledger + pnl
  BY <1>3, OneGains
<1>5. cash \in Int /\ StartingCash \in Int /\ unbooked \in Int
  BY PaperAssumption DEF Typed, LedgerInv
<1> QED
  BY <1>4, <1>5 DEF LedgerInv, LedgerExplainsCash

\* A position changes and books nothing.
LEMMA NothingBooked ==
  ASSUME Typed, Typed', LedgerInv, NEW o \in Orders, UNCHANGED <<orders, cash, unbooked>>,
         \A v \in Orders \ {o} : positions'[v] = positions[v],
         positions'[o].realized = positions[o].realized
  PROVE  LedgerInv'
<1>1. Gained' = Gained
  BY DEF Gained
<1>2. Ledger' = Ledger
  BY <1>1 DEF Ledger
<1> QED
  BY <1>2 DEF LedgerInv, LedgerExplainsCash

LEMMA LedgerIsWhole == Typed => Ledger \in Int
<1> SUFFICES ASSUME Typed PROVE Ledger \in Int
  OBVIOUS
<1>1. ASSUME NEW v \in Orders PROVE Gained[v] \in Int
  <2>1. \A r, c \in Int, f \in Nat : r - c - f * Fee \in Int
    BY PaperAssumption
  <2> QED
    BY <2>1 DEF Gained, Typed, OrdersFit, PositionsFit, OrderFits, OrderRecords, PositionFits, PositionRecords
<1>2. Gained \in [Orders -> Int]
  <2>1. Gained = [v \in Orders |-> Gained[v]]
    BY DEF Gained
  <2> QED
    BY <1>1, <2>1
<1> QED
  BY <1>2, TotalIsWhole DEF Ledger

LEMMA LedgerInit == Init => LedgerInv
<1> SUFFICES ASSUME Init PROVE LedgerInv
  OBVIOUS
<1>1. \A o \in Orders : Gained[o] = 0
  BY PaperAssumption DEF Init, Gained, NoOrder, NoPosition
<1>2. Ledger = 0
  BY <1>1, TotalOfNothing DEF Ledger
<1> QED
  BY <1>2, PaperAssumption DEF Init, LedgerInv, LedgerExplainsCash

LEMMA LedgerStep == Typed /\ Typed' /\ LedgerInv /\ [PaperStep]_vars => LedgerInv'
<1> SUFFICES ASSUME Typed, Typed', LedgerInv, [PaperStep]_vars PROVE LedgerInv'
  OBVIOUS
<1>1. ASSUME UNCHANGED <<orders, positions, cash, unbooked>> PROVE LedgerInv'
  BY <1>1, SameLedger DEF LedgerInv, LedgerExplainsCash
<1>2. ASSUME NEW o \in Orders, NEW x, x.filled = orders[o].filled, x.cost = orders[o].cost,
             orders' = [orders EXCEPT ![o] = x], UNCHANGED <<positions, cash, unbooked>>
      PROVE  LedgerInv'
  <2>1. \A v \in Orders : orders'[v] = IF v = o THEN x ELSE orders[v]
    BY <1>2 DEF Typed, OrdersFit
  <2>2. Gained' = Gained
    BY <1>2, <2>1 DEF Gained
  <2>3. Ledger' = Ledger
    BY <2>2 DEF Ledger
  <2> QED
    BY <1>2, <2>3 DEF LedgerInv, LedgerExplainsCash
<1>3. ASSUME NEW o \in Orders, NEW n \in Contracts, NEW limit \in Prices, Submit(o, n, limit)
      PROVE  LedgerInv'
  <2> DEFINE asked == [NoOrder EXCEPT !.want = n, !.limit = limit]
             As(status) == [asked EXCEPT !.status = status]
  <2>1. n \in Nat /\ n > 0 /\ limit \in Nat
    BY PaperAssumption
  <2>2. ASSUME NEW s \in {"REJECTED", "EXPIRED", "ACKNOWLEDGED"}
        PROVE  /\ OrderFits(As(s)) /\ As(s).status = s
               /\ As(s).filled = 0 /\ As(s).cost = 0
    <3>1. /\ asked \in OrderRecords
          /\ asked.want = n /\ asked.limit = limit /\ asked.filled = 0 /\ asked.cost = 0
      BY <2>1 DEF NoOrder, OrderRecords, OrderStatuses
    <3> HIDE DEF asked
    <3>2. /\ As(s) \in OrderRecords /\ As(s).status = s /\ As(s).want = n
          /\ As(s).filled = 0 /\ As(s).cost = 0
      BY <3>1 DEF OrderRecords, OrderStatuses
    <3> HIDE DEF As
    <3> QED
      BY <2>1, <3>2 DEF OrderFits
  <2>3. orders[o].filled = 0 /\ orders[o].cost = 0 /\ UNCHANGED <<positions, unbooked>>
    BY <1>3 DEF Submit, NoOrder
  <2>4. \/ (orders' = [orders EXCEPT ![o] = As("REJECTED")] \/ orders' = [orders EXCEPT ![o] = As("EXPIRED")])
           /\ UNCHANGED cash
        \/ MaybeFill(o, As("ACKNOWLEDGED"), limit)
    BY <1>3 DEF Submit
  <2> HIDE DEF As, asked
  <2>5. CASE MaybeFill(o, As("ACKNOWLEDGED"), limit)
    BY <2>2, <2>3, <2>5, OfferExplained
  <2> QED
    BY <1>2, <2>2, <2>3, <2>4, <2>5
<1>4. ASSUME NEW o \in Orders, NEW price \in Prices, OnQuote(o, price) PROVE LedgerInv'
  <2>1. /\ OrderFits(orders[o]) /\ orders[o].status \in {"ACKNOWLEDGED", "PARTIALLY_FILLED"}
        /\ UNCHANGED <<positions, unbooked>>
    BY <1>4 DEF OnQuote, Working, Typed, OrdersFit
  <2> DEFINE x == [orders[o] EXCEPT !.status = "EXPIRED"]
  <2>2. x.filled = orders[o].filled /\ x.cost = orders[o].cost
    BY <2>1 DEF OrderFits, OrderRecords
  <2>3. \/ orders' = [orders EXCEPT ![o] = x] /\ UNCHANGED cash
        \/ MaybeFill(o, orders[o], price)
    BY <1>4 DEF OnQuote
  <2> HIDE DEF x
  <2>4. CASE MaybeFill(o, orders[o], price)
    BY <2>1, <2>4, OfferExplained
  <2> QED
    BY <1>2, <2>1, <2>2, <2>3, <2>4
<1>5. ASSUME NEW o \in Orders, Cancel(o) PROVE LedgerInv'
  <2> DEFINE x == [orders[o] EXCEPT !.status = "CANCELED"]
  <2>1. x.filled = orders[o].filled /\ x.cost = orders[o].cost
    BY DEF Typed, OrdersFit, OrderFits, OrderRecords
  <2>2. orders' = [orders EXCEPT ![o] = x] /\ UNCHANGED <<positions, cash, unbooked>>
    BY <1>5 DEF Cancel, account
  <2> HIDE DEF x
  <2> QED
    BY <1>2, <2>1, <2>2
<1>6. ASSUME NEW o \in Orders, OnOrderState(o) PROVE LedgerInv'
  <2>1. UNCHANGED <<orders, cash, unbooked>>
    BY <1>6 DEF OnOrderState
  <2>2. /\ positions'[o].realized = positions[o].realized
        /\ \A v \in Orders \ {o} : positions'[v] = positions[v]
    BY <1>6, NothingReopens DEF OnOrderState, NoPosition, Typed, PositionsFit
  <2> QED
    BY <2>1, <2>2, NothingBooked
<1>7. ASSUME NEW o \in Orders, Settle(o) PROVE LedgerInv'
  <2>1. UNCHANGED <<orders, cash, unbooked>>
    BY <1>7 DEF Settle, account
  <2>2. /\ positions'[o].realized = positions[o].realized
        /\ \A v \in Orders \ {o} : positions'[v] = positions[v]
    BY <1>7 DEF Settle, Typed, PositionsFit, PositionFits, PositionRecords
  <2> QED
    BY <2>1, <2>2, NothingBooked
<1>8. ASSUME NEW o \in Orders, NEW price \in Nat, Close(o, price) PROVE LedgerInv'
  <2> DEFINE pnl == Pnl(o, positions[o].open, price)
  <2>1. pnl \in Int
    <3>1. positions[o].open \in Nat
      BY DEF Typed, PositionsFit, PositionFits, PositionRecords
    <3> QED
      BY <3>1, PnlIsWhole
  <2>2. /\ positions' = [positions EXCEPT ![o].status = "CLOSED", ![o].open = 0,
                                          ![o].realized = @ + pnl]
        /\ \/ cash' = cash + pnl /\ unbooked' = unbooked
           \/ unbooked' = unbooked - pnl /\ cash' = cash
        /\ orders' = orders
    BY <1>8 DEF Close
  <2> HIDE DEF pnl
  <2>3. /\ positions'[o].realized = positions[o].realized + pnl
        /\ \A v \in Orders \ {o} : positions'[v] = positions[v]
    BY <2>2 DEF Typed, PositionsFit, PositionFits, PositionRecords
  <2> QED
    BY <2>1, <2>2, <2>3, BookingExplained
<1>9. ASSUME NEW o \in Orders, NEW price \in Nat, NEW cut \in 1 .. positions[o].open,
             Reduce(o, cut, price)
      PROVE  LedgerInv'
  <2> DEFINE pnl == Pnl(o, cut, price)
  <2>1. pnl \in Int
    <3>1. cut \in Nat
      BY DEF Typed, PositionsFit, PositionFits, PositionRecords
    <3> QED
      BY <3>1, PnlIsWhole
  <2>2. /\ positions' = [positions EXCEPT ![o].status = "PARTIALLY_REDUCED", ![o].open = @ - cut,
                                          ![o].realized = @ + pnl]
        /\ \/ cash' = cash + pnl /\ unbooked' = unbooked
           \/ unbooked' = unbooked - pnl /\ cash' = cash
        /\ orders' = orders
    BY <1>9 DEF Reduce
  <2> HIDE DEF pnl
  <2>3. /\ positions'[o].realized = positions[o].realized + pnl
        /\ \A v \in Orders \ {o} : positions'[v] = positions[v]
    BY <2>2 DEF Typed, PositionsFit, PositionFits, PositionRecords
  <2> QED
    BY <2>1, <2>2, <2>3, BookingExplained
<1>10. CASE RestartWithNewBook
  <2>1. Ledger' = Ledger /\ Ledger \in Int
    BY <1>10, SameLedger, LedgerIsWhole DEF RestartWithNewBook
  <2>2. cash' = StartingCash /\ unbooked' = -Ledger
    BY <1>10 DEF RestartWithNewBook
  <2> QED
    BY <2>1, <2>2, PaperAssumption DEF LedgerInv, LedgerExplainsCash
<1>11. CASE RestartWithBook
  BY <1>1, <1>11 DEF RestartWithBook
<1>12. CASE UNCHANGED vars
  BY <1>1, <1>12 DEF vars, account
<1> QED
  BY <1>3, <1>4, <1>5, <1>6, <1>7, <1>8, <1>9, <1>10, <1>11, <1>12,
     MarksAreWhole DEF PaperStep, Next

\* LedgerExplainsCash: for any set of orders, fees, fills, refusals and restarts.
THEOREM LedgerAlwaysExplains == Spec => []LedgerExplainsCash
<1>1. Spec => []LedgerInv
  BY LedgerInit, LedgerStep, NextIsPaperStep, AlwaysTyped, PTL DEF Spec
<1> QED
  BY <1>1, PTL DEF LedgerInv

-----------------------------------------------------------------------------
(* The loop over the account. *)

\* A contract costs at least 1, and an order that has filled says so.
OrderBought(x) ==
  /\ x \in OrderRecords
  /\ x.filled <= x.cost
  /\ x.filled > 0 => x.status \in {"FILLED", "PARTIALLY_FILLED"}

\* An order that filled in one piece at its limit.
FilledAt(x, limit) == x.limit = limit /\ x.cost = x.filled * limit

\* So a position has an entry price its gains can be compared with.
PositionHeld(p) ==
  /\ p \in PositionRecords
  /\ p.status \in {"OPEN", "PARTIALLY_REDUCED"} <=> p.open > 0
  /\ p.status = "none" => p = NoPosition
  /\ p.status # "none" => p.entry > 0 /\ p.opened > 0

Kept ==
  /\ orders = [o \in Orders |-> orders[o]]
  /\ \A o \in Orders : OrderBought(orders[o])
  /\ positions = [o \in Orders |-> positions[o]]
  /\ \A o \in Orders : PositionHeld(positions[o])
  /\ told \in [Orders -> Nat] /\ \A o \in Orders : told[o] = positions[o].opened
  /\ mark \in [Orders -> Nat]
  /\ input \in Inputs

IsOpen(o) == positions[o].open > 0

OneOpen ==
  /\ \A o, v \in Orders : IsOpen(o) /\ IsOpen(v) => o = v
  /\ pc = "open" => \A o \in Orders : ~IsOpen(o)

\* Only the order just submitted has fills that are not in a position.
FillsInv ==
  /\ \A o \in Orders : positions[o].opened # orders[o].filled =>
       pc = "open" /\ positions[o] = NoPosition
  /\ \A o, v \in Orders :
       positions[o].opened # orders[o].filled /\ positions[v].opened # orders[v].filled => o = v

\* Until the position is managed the floors of the tick are those of its input.
FloorInv ==
  /\ due \subseteq Orders
  /\ pc = "manage" => due = {o \in Orders : IsOpen(o) /\ Floor(o, input)}
  /\ pc # "manage" => \A o \in due : positions[o].open = 0 /\ positions[o].status # "none"

\* The account lists what is open, and a refused close is a close.
ListInv ==
  /\ \A o \in Orders : IsOpen(o) => o \in openIds
  /\ \A o \in refused : o \in Orders /\ positions[o].status = "CLOSED"

EventsInv ==
  \A o \in Orders :
    /\ Event("closed", o) \in events => positions[o].status = "CLOSED"
    /\ positions[o].status = "CLOSED" => (Event("closed", o) \in events <=> o \notin openIds)
    /\ Event("submitted", o) \in events => orders[o].status # "none"
    /\ orders[o].status # "none" =>
         (Event("submitted", o) \in events <=> orders[o].status # "ACKNOWLEDGED")
    /\ Event("opened", o) \in events <=> positions[o].status # "none"
    /\ Event("reduced", o) \in events => positions[o].status \in {"PARTIALLY_REDUCED", "CLOSED"}

Inv == Kept /\ OneOpen /\ FillsInv /\ FloorInv /\ ListInv /\ EventsInv

USE DEF IsOpen

LEMMA InvInit == LoopInit => Inv
<1> SUFFICES ASSUME LoopInit PROVE Inv
  OBVIOUS
<1>1. Init
  BY DEF LoopInit
<1>2. OrderBought(NoOrder) /\ NoOrder.filled = 0 /\ NoOrder.status = "none"
  BY DEF OrderBought, OrderRecords, NoOrder, OrderStatuses
<1>3. PositionHeld(NoPosition) /\ NoPosition.opened = 0 /\ NoPosition.open = 0
      /\ NoPosition.status = "none"
  BY DEF PositionHeld, PositionRecords, NoPosition, PositionStatuses
<1>4. \A o \in Orders : orders[o] = NoOrder /\ positions[o] = NoPosition /\ told[o] = 0
  BY <1>1 DEF Init
<1>5. Kept
  <2>1. Quiet \in Inputs
    BY LoopAssumption DEF Quiet, Inputs
  <2>2. mark \in [Orders -> Nat] /\ input \in Inputs
    BY <2>1 DEF LoopInit
  <2>3. orders = [o \in Orders |-> orders[o]] /\ positions = [o \in Orders |-> positions[o]]
        /\ told \in [Orders -> Nat]
    BY <1>1 DEF Init
  <2> QED
    BY <1>2, <1>3, <1>4, <2>2, <2>3 DEF Kept
<1>6. OneOpen /\ FillsInv
  BY <1>2, <1>3, <1>4 DEF OneOpen, FillsInv
<1>7. FloorInv /\ EventsInv
  BY <1>2, <1>3, <1>4 DEF LoopInit, FloorInv, EventsInv
<1>8. ListInv
  BY <1>1, <1>3, <1>4 DEF ListInv, Init
<1> QED
  BY <1>5, <1>6, <1>7, <1>8 DEF Inv

-----------------------------------------------------------------------------
(* What the calls on the paper account do. *)

LEMMA PricesAreNatural == Marks \subseteq Nat /\ Prices \subseteq Nat \ {0} /\ Contracts \subseteq Nat \ {0} /\ Fee \in Nat
BY LoopAssumption DEF PaperAssumption

\* A position is reduced or closed at a mark.
LEMMA MarkIsNatural ==
  ASSUME Kept, NEW o \in Orders, NEW in \in Inputs
  PROVE  EffectiveMark(o, in) \in Nat
BY PricesAreNatural DEF Kept, Inputs, EffectiveMark

LEMMA GainIsWhole ==
  ASSUME Kept, NEW o \in Orders, NEW n \in Nat, NEW m \in Nat
  PROVE  Pnl(o, n, m) \in Int
<1>1. positions[o].entry \in Int
  BY DEF Kept, PositionHeld, PositionRecords
<1>2. \A a, b \in Int : (a - b) * n \in Int
  OBVIOUS
<1> QED
  BY <1>1, <1>2 DEF Pnl

\* o's position is p, and the others are left.
Replaced(o, p) ==
  /\ positions' = [v \in Orders |-> IF v = o THEN p ELSE positions[v]]
  /\ orders' = orders

LEMMA Closes ==
  ASSUME Kept, NEW o \in Orders, NEW m \in Nat, Close(o, m)
  PROVE  \E p : /\ Replaced(o, p) /\ PositionHeld(p) /\ p.status = "CLOSED" /\ p.open = 0
                /\ p.opened = positions[o].opened /\ positions[o].open > 0
                /\ positions[o].status # "CLOSED" /\ told' = told
                /\ \/ openIds' = openIds \ {o} /\ refused' = refused
                   \/ openIds' = openIds /\ refused' = refused \cup {o}
<1> DEFINE g == positions[o].realized + Pnl(o, positions[o].open, m)
           p == [positions[o] EXCEPT !.status = "CLOSED", !.open = 0, !.realized = g]
<1>1. PositionHeld(positions[o]) /\ positions[o].status \in {"OPEN", "PARTIALLY_REDUCED"}
  BY DEF Kept, Close, PositionMoves
<1>2. g \in Int
  BY <1>1, GainIsWhole DEF PositionHeld, PositionRecords
<1>3. Replaced(o, p)
  BY DEF Replaced, Close, Kept
<1> HIDE DEF g
<1>4. /\ p \in PositionRecords /\ p.status = "CLOSED" /\ p.open = 0
      /\ p.opened = positions[o].opened /\ p.entry = positions[o].entry
  BY <1>1, <1>2 DEF PositionHeld, PositionRecords, PositionStatuses
<1> HIDE DEF p
<1>5. PositionHeld(p)
  BY <1>1, <1>4 DEF PositionHeld
<1>6. /\ told' = told
      /\ \/ openIds' = openIds \ {o} /\ refused' = refused
         \/ openIds' = openIds /\ refused' = refused \cup {o}
  BY DEF Close
<1>7. positions[o].open > 0 /\ positions[o].status # "CLOSED"
  BY <1>1 DEF PositionHeld
<1> QED
  BY <1>3, <1>4, <1>5, <1>6, <1>7

LEMMA Reduces ==
  ASSUME Kept, NEW o \in Orders, NEW m \in Nat, NEW cut \in Nat, cut > 0, Reduce(o, cut, m)
  PROVE  \E p : /\ Replaced(o, p) /\ PositionHeld(p) /\ p.status = "PARTIALLY_REDUCED"
                /\ p.open > 0 /\ p.opened = positions[o].opened /\ positions[o].open > 0
                /\ positions[o].status # "CLOSED"
                /\ told' = told /\ openIds' = openIds /\ refused' = refused
<1> DEFINE g == positions[o].realized + Pnl(o, cut, m)
           k == positions[o].open - cut
           p == [positions[o] EXCEPT !.status = "PARTIALLY_REDUCED", !.open = k, !.realized = g]
<1>1. PositionHeld(positions[o]) /\ positions[o].status \in {"OPEN", "PARTIALLY_REDUCED"}
  BY DEF Kept, Reduce, PositionMoves
<1>2. g \in Int /\ k \in Nat /\ k > 0
  BY <1>1, GainIsWhole DEF PositionHeld, PositionRecords, Reduce
<1>3. Replaced(o, p)
  BY DEF Replaced, Reduce, Kept
<1> HIDE DEF g, k
<1>4. /\ p \in PositionRecords /\ p.status = "PARTIALLY_REDUCED" /\ p.open = k
      /\ p.opened = positions[o].opened /\ p.entry = positions[o].entry
  BY <1>1, <1>2 DEF PositionHeld, PositionRecords, PositionStatuses
<1> HIDE DEF p
<1>5. PositionHeld(p)
  BY <1>1, <1>2, <1>4 DEF PositionHeld
<1>6. told' = told /\ openIds' = openIds /\ refused' = refused
  BY DEF Reduce
<1>7. positions[o].open > 0 /\ positions[o].status # "CLOSED"
  BY <1>1 DEF PositionHeld
<1> QED
  BY <1>2, <1>3, <1>4, <1>5, <1>6, <1>7

LEMMA Submits ==
  ASSUME Kept, NEW o \in Orders, NEW n \in Contracts, NEW limit \in Prices,
         Submit(o, n, limit)
  PROVE  \E x : /\ orders' = [v \in Orders |-> IF v = o THEN x ELSE orders[v]]
                /\ OrderBought(x) /\ x.status # "none" /\ FilledAt(x, limit)
                /\ orders[o] = NoOrder
                /\ UNCHANGED <<positions, told, openIds, refused>>
<1> DEFINE asked == [NoOrder EXCEPT !.want = n, !.limit = limit]
           As(status) == [asked EXCEPT !.status = status]
<1>1. n \in Nat /\ n > 0 /\ limit \in Nat /\ limit > 0
  BY PricesAreNatural
<1>2. /\ asked \in OrderRecords /\ asked.want = n /\ asked.limit = limit
      /\ asked.filled = 0 /\ asked.cost = 0
  BY <1>1 DEF NoOrder, OrderRecords, OrderStatuses
<1>3. /\ orders[o] = NoOrder /\ UNCHANGED <<positions, told, openIds, refused>>
      /\ \/ orders' = [orders EXCEPT ![o] = As("REJECTED")]
         \/ orders' = [orders EXCEPT ![o] = As("EXPIRED")]
         \/ MaybeFill(o, As("ACKNOWLEDGED"), limit)
  BY DEF Submit
<1> HIDE DEF asked
<1>4. ASSUME NEW s \in {"REJECTED", "EXPIRED", "ACKNOWLEDGED"}
      PROVE  /\ As(s) \in OrderRecords /\ As(s).status = s
             /\ As(s).filled = 0 /\ As(s).cost = 0 /\ As(s).want = n
             /\ As(s).limit = limit
  BY <1>2 DEF OrderRecords, OrderStatuses
<1> HIDE DEF As
<1>5. ASSUME NEW s \in {"REJECTED", "EXPIRED", "ACKNOWLEDGED"}
      PROVE  OrderBought(As(s)) /\ As(s).status # "none" /\ FilledAt(As(s), limit)
  BY <1>1, <1>4 DEF OrderBought, FilledAt
<1>6. ASSUME NEW q \in FillSizes(As("ACKNOWLEDGED"))
      PROVE  /\ OrderBought(AfterFill(As("ACKNOWLEDGED"), q, limit))
             /\ AfterFill(As("ACKNOWLEDGED"), q, limit).status # "none"
             /\ FilledAt(AfterFill(As("ACKNOWLEDGED"), q, limit), limit)
  <2> DEFINE x == As("ACKNOWLEDGED")
             f == x.filled + q
             c == x.cost + q * limit
             s == IF x.filled + q >= x.want THEN "FILLED" ELSE "PARTIALLY_FILLED"
             y == AfterFill(x, q, limit)
  <2>1. x \in OrderRecords /\ x.filled = 0 /\ x.cost = 0 /\ x.want = n /\ x.limit = limit
    BY <1>4
  <2>2. q \in Nat /\ q > 0
    BY <1>1, <2>1 DEF FillSizes, Remaining
  <2>3. q * limit \in Nat /\ q <= q * limit
    BY <1>1, <2>2
  <2>4. f \in Nat /\ c \in Nat /\ f <= c /\ s \in {"FILLED", "PARTIALLY_FILLED"}
        /\ c = f * limit
    BY <2>1, <2>2, <2>3
  <2>5. y = [x EXCEPT !.filled = f, !.cost = c, !.status = s]
    BY DEF AfterFill
  <2> HIDE DEF x, f, c, s, y
  <2>6. y \in OrderRecords /\ y.filled = f /\ y.cost = c /\ y.status = s /\ y.limit = limit
    BY <2>1, <2>4, <2>5 DEF OrderRecords, OrderStatuses
  <2>7. OrderBought(y) /\ y.status # "none" /\ FilledAt(y, limit)
    BY <2>4, <2>6 DEF OrderBought, FilledAt
  <2> QED
    BY <2>7 DEF x, y
<1>7. PICK x : orders' = [orders EXCEPT ![o] = x] /\ OrderBought(x) /\ x.status # "none"
               /\ FilledAt(x, limit)
  BY <1>3, <1>5, <1>6 DEF MaybeFill
<1>8. orders' = [v \in Orders |-> IF v = o THEN x ELSE orders[v]]
  BY <1>7 DEF Kept
<1> QED
  BY <1>3, <1>7, <1>8

-----------------------------------------------------------------------------
(* The management of the open position. *)

\* A stop is not hidden by a target: no gain is at least half of the entry and a
\* loss of 35 hundredths of it at once.
LEMMA StopIsNotTarget ==
  ASSUME Kept, NEW o \in Orders, IsOpen(o), NEW m \in Nat, StopReached(o, m)
  PROVE  ~TargetReached(o, m)
<1>1. positions[o].entry \in Nat /\ positions[o].entry > 0
  BY DEF Kept, PositionHeld, PositionRecords, NoPosition
<1>2. Gain(o, m) \in Int
  BY <1>1 DEF Gain
<1> QED
  BY <1>1, <1>2 DEF TargetReached, StopReached, AtLeast

\* The floors are the hard signals: a hard signal is not hidden by one looked for
\* earlier, but for the end of the day, which a target or a trail hides.
LEMMA FloorsAreTheHardSignals ==
  ASSUME Kept, NEW o \in Orders, IsOpen(o), NEW in \in Inputs
  PROVE  NeedsForcedClose(o, in) <=> Floor(o, in)
<1> DEFINE m == EffectiveMark(o, in)
           ras == in.ras /\ policy[o] \in RasPolicies
<1>1. m \in Nat
  BY MarkIsNatural
<1>2. StopReached(o, m) => ~TargetReached(o, m)
  BY <1>1, StopIsNotTarget
<1>3. Floor(o, in) <=> \/ in.emergency \/ in.expired \/ ras
                       \/ StopReached(o, m)
                       \/ in.late /\ ~(TargetReached(o, m) \/ TrailReached(o, m))
  BY DEF Floor, HidesTheClose
<1>4. /\ in.emergency \in BOOLEAN /\ in.expired \in BOOLEAN /\ in.ras \in BOOLEAN
      /\ in.late \in BOOLEAN
  BY DEF Inputs
<1>5. CASE in.emergency \/ in.expired \/ ras
  <2>1. Signal(o, in) \in {"emergency_exit", "expiration_settlement", "structural_ras_exit"}
    BY <1>4, <1>5 DEF Signal
  <2> QED
    BY <1>3, <1>5, <2>1 DEF NeedsForcedClose, HardSignals
<1>6. CASE ~(in.emergency \/ in.expired \/ ras) /\ TargetReached(o, m)
  <2>1. Signal(o, in) = "target"
    BY <1>4, <1>6 DEF Signal
  <2> QED
    BY <1>2, <1>3, <1>6, <2>1 DEF NeedsForcedClose, HardSignals
<1>7. CASE ~(in.emergency \/ in.expired \/ ras) /\ StopReached(o, m)
  <2>1. Signal(o, in) = "stop"
    BY <1>2, <1>4, <1>7 DEF Signal
  <2> QED
    BY <1>3, <1>7, <2>1 DEF NeedsForcedClose, HardSignals
<1>8. CASE /\ ~(in.emergency \/ in.expired \/ ras)
           /\ ~TargetReached(o, m) /\ ~StopReached(o, m) /\ TrailReached(o, m)
  <2>1. Signal(o, in) = "trail"
    BY <1>4, <1>8 DEF Signal
  <2> QED
    BY <1>3, <1>8, <2>1 DEF NeedsForcedClose, HardSignals
<1>9. CASE /\ ~(in.emergency \/ in.expired \/ ras)
           /\ ~TargetReached(o, m) /\ ~StopReached(o, m) /\ ~TrailReached(o, m)
  <2>1. Signal(o, in) = IF in.late THEN "eod" ELSE ""
    BY <1>4, <1>9 DEF Signal
  <2> QED
    BY <1>3, <1>4, <1>9, <2>1 DEF NeedsForcedClose, HardSignals
<1> QED
  BY <1>5, <1>6, <1>7, <1>8, <1>9

\* What a managed position keeps: the records, the fills and the submissions.
LEMMA Managed ==
  ASSUME Inv, pc = "manage", pc' \in {"enter", "idle"}, NEW o \in Orders, NEW p, Replaced(o, p),
         PositionHeld(p), p.opened = positions[o].opened, IsOpen(o), p.status # "none",
         told' = told, mark' \in [Orders -> Nat], input' = Quiet,
         due' = due, o \in due => p.open = 0
  PROVE  Kept' /\ OneOpen' /\ FillsInv' /\ FloorInv'
<1>1. /\ orders' = orders
      /\ positions'[o] = p /\ \A v \in Orders \ {o} : positions'[v] = positions[v]
  BY DEF Replaced
<1>2. Kept'
  <2>1. Quiet \in Inputs
    BY LoopAssumption DEF Quiet, Inputs
  <2>2. positions' = [v \in Orders |-> positions'[v]]
    BY DEF Replaced
  <2> QED
    BY <1>1, <2>1, <2>2 DEF Inv, Kept
<1>3. OneOpen'
  BY <1>1 DEF Inv, OneOpen
<1>4. FillsInv'
  <2>1. \A v \in Orders : positions'[v].opened = positions[v].opened
    BY <1>1
  <2>2. \A v \in Orders : positions[v].opened = orders[v].filled
    BY DEF Inv, FillsInv
  <2> QED
    BY <1>1, <2>1, <2>2 DEF FillsInv
<1>5. FloorInv'
  <2>1. due = {v \in Orders : IsOpen(v) /\ Floor(v, input)}
    BY DEF Inv, FloorInv
  <2>2. \A v \in due : v = o
    BY <2>1 DEF Inv, OneOpen
  <2> QED
    BY <1>1, <2>1, <2>2 DEF FloorInv
<1> QED
  BY <1>2, <1>3, <1>4, <1>5

LEMMA CloseStep ==
  ASSUME Inv, pc = "manage", NEW o \in Orders, NEW m \in Nat, CloseIt(o, m),
         mark' \in [Orders -> Nat], input' = Quiet, due' = due
  PROVE  Inv'
<1>1. PICK p : /\ Replaced(o, p) /\ PositionHeld(p) /\ p.status = "CLOSED" /\ p.open = 0
               /\ p.opened = positions[o].opened /\ positions[o].open > 0
               /\ positions[o].status # "CLOSED" /\ told' = told
               /\ \/ openIds' = openIds \ {o} /\ refused' = refused
                  \/ openIds' = openIds /\ refused' = refused \cup {o}
  BY Closes DEF CloseIt, Inv
<1>2. /\ positions'[o] = p /\ \A v \in Orders \ {o} : positions'[v] = positions[v]
      /\ orders' = orders
  BY <1>1 DEF Replaced
<1>3. pc' \in {"enter", "idle"}
  BY DEF CloseIt
<1>4. Kept' /\ OneOpen' /\ FillsInv' /\ FloorInv'
  BY <1>1, <1>3, Managed
<1>5. o \in openIds /\ o \notin refused
  BY <1>1 DEF Inv, ListInv
<1>6. ListInv'
  BY <1>1, <1>2, <1>5 DEF Inv, ListInv
<1>7. EventsInv'
  <2>1. \/ openIds' = openIds \ {o} /\ events' = events \cup {Event("closed", o)}
        \/ openIds' = openIds /\ events' = events
    BY <1>1, <1>5 DEF CloseIt, Booked
  <2>2. Event("closed", o) \notin events
    BY <1>1 DEF Inv, EventsInv
  <2>3. ASSUME NEW v \in Orders
        PROVE  /\ Event("submitted", v) \in events' <=> Event("submitted", v) \in events
               /\ Event("opened", v) \in events' <=> Event("opened", v) \in events
               /\ Event("reduced", v) \in events' <=> Event("reduced", v) \in events
               /\ v # o => (Event("closed", v) \in events' <=> Event("closed", v) \in events)
               /\ v # o => (v \in openIds' <=> v \in openIds)
    BY <2>1 DEF Event
  <2>4. Event("closed", o) \in events' <=> o \notin openIds'
    BY <1>5, <2>1, <2>2
  <2>5. positions[o].status # "none"
    BY <1>1 DEF Inv, Kept, PositionHeld, NoPosition
  <2> QED
    BY <1>1, <1>2, <2>3, <2>4, <2>5 DEF Inv, EventsInv
<1> QED
  BY <1>4, <1>6, <1>7 DEF Inv

LEMMA ReduceStep ==
  ASSUME Inv, pc = "manage", NEW o \in Orders, NEW m \in Nat, NEW cut \in Nat, cut > 0,
         Reduce(o, cut, m), o \notin due,
         pc' \in {"enter", "idle"}, events' \in {events, events \cup {Event("reduced", o)}},
         mark' \in [Orders -> Nat], input' = Quiet, due' = due
  PROVE  Inv'
<1>1. PICK p : /\ Replaced(o, p) /\ PositionHeld(p) /\ p.status = "PARTIALLY_REDUCED"
               /\ p.open > 0 /\ p.opened = positions[o].opened /\ positions[o].open > 0
               /\ positions[o].status # "CLOSED"
               /\ told' = told /\ openIds' = openIds /\ refused' = refused
  BY Reduces DEF Inv
<1>2. /\ positions'[o] = p /\ \A v \in Orders \ {o} : positions'[v] = positions[v]
      /\ orders' = orders
  BY <1>1 DEF Replaced
<1>3. Kept' /\ OneOpen' /\ FillsInv' /\ FloorInv'
  BY <1>1, Managed
<1>4. ListInv'
  BY <1>1, <1>2 DEF Inv, ListInv
<1>5. EventsInv'
  <2>1. \A v \in Orders : /\ Event("submitted", v) \in events' <=> Event("submitted", v) \in events
                          /\ Event("closed", v) \in events' <=> Event("closed", v) \in events
                          /\ Event("opened", v) \in events' <=> Event("opened", v) \in events
    BY DEF Event
  <2>2. \A v \in Orders \ {o} :
          Event("reduced", v) \in events' <=> Event("reduced", v) \in events
    BY DEF Event
  <2>3. positions[o].status # "none"
    BY <1>1 DEF Inv, Kept, PositionHeld, NoPosition
  <2> QED
    BY <1>1, <1>2, <2>1, <2>2, <2>3 DEF Inv, EventsInv
<1> QED
  BY <1>3, <1>4, <1>5 DEF Inv

LEMMA ManageStep == ASSUME Inv, NEW o \in Orders, Manage(o) PROVE Inv'
<1> DEFINE m == EffectiveMark(o, input)
<1>1. pc = "manage" /\ IsOpen(o) /\ input \in Inputs /\ input' = Quiet /\ due' = due
  BY DEF Manage, Inv, Kept, OpenPositions
<1>2. m \in Nat
  BY <1>1, MarkIsNatural DEF Inv
<1>3. mark' \in [Orders -> Nat]
  BY <1>2 DEF Manage, Inv, Kept
<1>4. o \in due => NeedsForcedClose(o, input)
  BY <1>1, FloorsAreTheHardSignals DEF Inv, FloorInv
<1> HIDE DEF m
<1>5. CASE CloseIt(o, m)
  BY <1>1, <1>2, <1>3, <1>5, CloseStep
<1>6. CASE ~NeedsForcedClose(o, input) /\ ReduceIt(o, m)
  <2>1. PICK cut \in 1 .. positions[o].open :
          \/ CloseIt(o, m)
          \/ /\ Reduce(o, cut, m)
             /\ pc' \in {"enter", "idle"}
             /\ events' \in {events, events \cup {Event("reduced", o)}}
    BY <1>6 DEF ReduceIt
  <2>2. cut \in Nat /\ cut > 0
    BY DEF Inv, Kept, PositionHeld, PositionRecords
  <2> QED
    BY <1>1, <1>2, <1>3, <1>4, <1>6, <2>1, <2>2, CloseStep, ReduceStep
<1>7. CASE ~NeedsForcedClose(o, input) /\ pc' = "enter" /\ UNCHANGED <<vars, events>>
  <2>1. due = {}
    BY <1>1, <1>4, <1>7 DEF Inv, FloorInv, OneOpen
  <2>2. Kept'
    <3>1. Quiet \in Inputs
      BY LoopAssumption DEF Quiet, Inputs
    <3> QED
      BY <1>1, <1>3, <1>7, <3>1 DEF Inv, Kept, vars, account
  <2>3. OneOpen' /\ FillsInv'
    BY <1>1, <1>7 DEF Inv, OneOpen, FillsInv, vars, account
  <2>4. FloorInv' /\ ListInv' /\ EventsInv'
    BY <1>1, <1>7, <2>1 DEF Inv, FloorInv, ListInv, EventsInv, vars, account
  <2> QED
    BY <2>2, <2>3, <2>4 DEF Inv
<1> QED
  BY <1>5, <1>6, <1>7 DEF Manage, m

-----------------------------------------------------------------------------
(* The other steps. *)

LEMMA TickStep == ASSUME Inv, NEW in \in Inputs, Tick(in) PROVE Inv'
<1>1. pc = "idle" /\ UNCHANGED <<vars, deployment, policy, mark, peak, events>>
  BY DEF Tick
<1>2. /\ OpenPositions = {o \in Orders : IsOpen(o)}
      /\ due' = {o \in OpenPositions : Floor(o, in)}
      /\ \/ OpenPositions = {} /\ pc' = "enter" /\ input' = Quiet
         \/ pc' = "manage" /\ input' = in
  BY DEF Tick, OpenPositions
<1>3. Kept'
  <2>1. Quiet \in Inputs
    BY LoopAssumption DEF Quiet, Inputs
  <2> QED
    BY <1>1, <1>2, <2>1 DEF Inv, Kept, vars, account
<1>4. OneOpen' /\ FillsInv' /\ ListInv' /\ EventsInv'
  BY <1>1, <1>2 DEF Inv, OneOpen, FillsInv, ListInv, EventsInv, vars, account
<1>5. FloorInv'
  <2>1. \A o \in Orders : Floor(o, in)' <=> Floor(o, in)
    BY <1>1 DEF vars, account, Floor, StopReached, AtLeast, Gain, HidesTheClose,
                EffectiveMark, TargetReached, TrailReached, NewPeak
  <2> QED
    BY <1>1, <1>2, <2>1 DEF FloorInv, vars, account
<1> QED
  BY <1>3, <1>4, <1>5 DEF Inv

LEMMA SelectStep ==
  ASSUME Inv, NEW o \in Orders, NEW n \in Contracts, NEW limit \in Prices, NEW p \in Policies,
         Select(o, n, limit, p)
  PROVE  Inv'
<1>1. PICK x : /\ orders' = [v \in Orders |-> IF v = o THEN x ELSE orders[v]]
               /\ OrderBought(x) /\ x.status # "none"
               /\ orders[o] = NoOrder
               /\ UNCHANGED <<positions, told, openIds, refused>>
  BY Submits DEF Select, Inv
<1>2. orders'[o] = x /\ \A v \in Orders \ {o} : orders'[v] = orders[v]
  BY <1>1
<1>3. /\ pc = "enter" /\ \A v \in Orders : ~IsOpen(v)
      /\ UNCHANGED <<input, mark, due>>
  BY DEF Select, Flat, OpenPositions
<1>4. \/ pc' = "open" /\ x.filled > 0 /\ x.status # "ACKNOWLEDGED"
         /\ events' = events \cup {Event("submitted", o)}
      \/ pc' = "idle" /\ x.filled = 0 /\ x.status # "ACKNOWLEDGED"
         /\ events' = events \cup {Event("submitted", o)}
      \/ pc' = "idle" /\ x.filled = 0 /\ x.status = "ACKNOWLEDGED" /\ events' = events
  BY <1>1, <1>2 DEF Select, OrderBought, OrderRecords
<1>5. Kept'
  BY <1>1, <1>2, <1>3 DEF Inv, Kept
<1>6. OneOpen' /\ FloorInv' /\ ListInv'
  BY <1>1, <1>3, <1>4 DEF Inv, OneOpen, FloorInv, ListInv
<1>7. FillsInv'
  <2>1. \A v \in Orders : positions[v].opened = orders[v].filled
    BY <1>3 DEF Inv, FillsInv
  <2>2. orders[o].filled = 0
    BY <1>1 DEF NoOrder
  <2>3. positions[o] = NoPosition
    BY <2>1, <2>2 DEF Inv, Kept, PositionHeld
  <2> QED
    BY <1>1, <1>2, <1>4, <2>1, <2>2, <2>3 DEF FillsInv
<1>8. EventsInv'
  <2>1. Event("submitted", o) \notin events
    BY <1>1 DEF Inv, EventsInv, NoOrder
  <2>2. \A v \in Orders :
          /\ Event("closed", v) \in events' <=> Event("closed", v) \in events
          /\ Event("opened", v) \in events' <=> Event("opened", v) \in events
          /\ Event("reduced", v) \in events' <=> Event("reduced", v) \in events
          /\ v # o => (Event("submitted", v) \in events' <=> Event("submitted", v) \in events)
    BY <1>4 DEF Event
  <2>3. Event("submitted", o) \in events' <=> x.status # "ACKNOWLEDGED"
    BY <1>4, <2>1
  <2> QED
    BY <1>1, <1>2, <2>2, <2>3 DEF Inv, EventsInv
<1> QED
  BY <1>5, <1>6, <1>7, <1>8 DEF Inv

LEMMA OpenStep == ASSUME Inv, NEW o \in Orders, Open(o) PROVE Inv'
<1>1. /\ pc = "open" /\ pc' = "idle" /\ orders[o].filled > 0 /\ told[o] = 0
      /\ UNCHANGED <<input, due>>
  BY DEF Open
<1>2. OrderBought(orders[o]) /\ orders[o].filled \in Nat /\ orders[o].cost \in Nat
  BY DEF Inv, Kept, OrderBought, OrderRecords
<1>3. positions[o].opened = 0 /\ positions[o] = NoPosition
  BY <1>1, <1>2 DEF Inv, Kept, FillsInv
<1>4. /\ OnOrderState(o) /\ mark' = [mark EXCEPT ![o] = Entry(orders[o])]
      /\ events' = events \cup {Event("opened", o)}
  BY <1>1, <1>2 DEF Open, Reportable, OrderBought
<1> DEFINE x == orders[o]
           p == [status |-> "OPEN", opened |-> x.filled, open |-> x.filled,
                 entry |-> Entry(x), realized |-> 0]
<1>5. /\ Replaced(o, p) /\ told' = [told EXCEPT ![o] = x.filled]
      /\ openIds' = openIds \cup {o} /\ refused' = refused
  BY <1>3, <1>4 DEF OnOrderState, Replaced, Inv, Kept
<1>6. Entry(x) \in Nat /\ Entry(x) > 0
  <2>1. \A c, f \in Nat : f > 0 /\ f <= c => c \div f \in Nat /\ c \div f > 0
    OBVIOUS
  <2> QED
    BY <1>1, <1>2, <2>1 DEF Entry, OrderBought
<1>7. PositionHeld(p) /\ p.open > 0 /\ p.status = "OPEN" /\ p.opened = x.filled
  BY <1>1, <1>2, <1>6 DEF PositionHeld, PositionRecords, PositionStatuses
<1> HIDE DEF p
<1>8. /\ positions'[o] = p /\ \A v \in Orders \ {o} : positions'[v] = positions[v]
      /\ orders' = orders
  BY <1>5 DEF Replaced
<1>9. Kept'
  <2>1. mark' \in [Orders -> Nat] /\ told' \in [Orders -> Nat]
    BY <1>2, <1>4, <1>5, <1>6 DEF Inv, Kept
  <2>2. \A v \in Orders : told'[v] = positions'[v].opened
    BY <1>5, <1>7, <1>8 DEF Inv, Kept
  <2>3. positions' = [v \in Orders |-> positions'[v]]
    BY <1>5 DEF Replaced
  <2> QED
    BY <1>1, <1>7, <1>8, <2>1, <2>2, <2>3 DEF Inv, Kept
<1>10. OneOpen'
  BY <1>1, <1>8 DEF Inv, OneOpen
<1>11. FillsInv'
  <2>1. positions[o].opened # orders[o].filled
    BY <1>1, <1>3
  <2> QED
    BY <1>7, <1>8, <2>1 DEF Inv, FillsInv
<1>12. FloorInv'
  <2>1. o \notin due
    BY <1>1, <1>3 DEF Inv, FloorInv, NoPosition
  <2> QED
    BY <1>1, <1>8, <2>1 DEF Inv, FloorInv
<1>13. ListInv'
  <2>1. o \notin refused
    BY <1>3 DEF Inv, ListInv, NoPosition
  <2> QED
    BY <1>5, <1>8, <2>1 DEF Inv, ListInv
<1>14. EventsInv'
  <2>1. Event("closed", o) \notin events /\ Event("reduced", o) \notin events
    BY <1>3 DEF Inv, EventsInv, NoPosition
  <2>2. \A v \in Orders : /\ Event("closed", v) \in events' <=> Event("closed", v) \in events
                          /\ Event("submitted", v) \in events' <=> Event("submitted", v) \in events
                          /\ Event("reduced", v) \in events' <=> Event("reduced", v) \in events
                          /\ v # o => (Event("opened", v) \in events' <=> Event("opened", v) \in events)
    BY <1>4 DEF Event
  <2>3. Event("opened", o) \in events'
    BY <1>4
  <2> QED
    BY <1>5, <1>7, <1>8, <2>1, <2>2, <2>3 DEF Inv, EventsInv
<1> QED
  BY <1>9, <1>10, <1>11, <1>12, <1>13, <1>14 DEF Inv

LEMMA RestartStep == ASSUME Inv, Restart PROVE Inv'
<1>1. /\ pc = "idle" /\ due' = {}
      /\ UNCHANGED <<orders, positions, refused, told, pc, input, mark, events>>
      /\ openIds' = openIds \cup {o \in Orders : IsOpen(o)}
  BY DEF Restart, RestartWithBook, Registered, OpenPositions
<1>2. openIds' = openIds
  BY <1>1 DEF Inv, ListInv
<1> QED
  BY <1>1, <1>2 DEF Inv, Kept, OneOpen, FillsInv, FloorInv, ListInv, EventsInv

\* Steps that change nothing Inv is about but the stage.
LEMMA StageStep ==
  ASSUME Inv, UNCHANGED <<vars, input, policy, mark, peak, events, due>>,
         pc' = pc \/ (pc = "enter" /\ pc' = "idle")
  PROVE  Inv'
<1>1. Kept' /\ OneOpen' /\ FillsInv' /\ ListInv' /\ EventsInv'
  BY DEF Inv, Kept, OneOpen, FillsInv, ListInv, EventsInv, vars, account
<1>2. FloorInv'
  <2>1. \A o \in Orders : Floor(o, input)' <=> Floor(o, input)
    BY DEF vars, account, Floor, StopReached, AtLeast, Gain, HidesTheClose,
           EffectiveMark, TargetReached, TrailReached, NewPeak
  <2> QED
    BY <2>1 DEF Inv, FloorInv, vars, account
<1> QED
  BY <1>1, <1>2 DEF Inv

LEMMA InvStep == Inv /\ [LoopNext]_loopVars => Inv'
<1> SUFFICES ASSUME Inv, [LoopNext]_loopVars PROVE Inv'
  OBVIOUS
<1>1. ASSUME NEW in \in Inputs, Tick(in) PROVE Inv'
  BY <1>1, TickStep
<1>2. ASSUME NEW o \in Orders, Manage(o) \/ Open(o) PROVE Inv'
  BY <1>2, ManageStep, OpenStep
<1>3. ASSUME NEW o \in Orders, NEW n \in Contracts, NEW limit \in Prices, NEW p \in Policies,
             Select(o, n, limit, p)
      PROVE  Inv'
  BY <1>3, SelectStep
<1>4. CASE NoEntry
  BY <1>4, StageStep DEF NoEntry
<1>5. CASE Restart
  BY <1>5, RestartStep
<1>6. CASE Deploy
  BY <1>6, StageStep DEF Deploy, loop
<1>7. CASE UNCHANGED loopVars
  BY <1>7, StageStep DEF loopVars, loop
<1> QED
  BY <1>1, <1>2, <1>3, <1>4, <1>5, <1>6, <1>7 DEF LoopNext

LEMMA AlwaysInv == LoopSpec => []Inv
BY InvInit, InvStep, PTL DEF LoopSpec

\* FloorsAreObeyed: for any marks and policies, anything the agent answers and
\* whatever the account refuses.  A floor is an emergency, an expiration, a
\* structural exit, a stop, and an end of the day with neither a target nor a
\* trail reached.
THEOREM FloorsAlwaysObeyed == LoopSpec => []FloorsAreObeyed
<1>1. Inv => FloorsAreObeyed
  BY DEF Inv, FloorInv, FloorsAreObeyed
<1> QED
  BY <1>1, AlwaysInv, PTL

\* The agent is overridden exactly by the floors: no signal looked for earlier
\* hides an emergency, an expiration, a structural exit or a stop, and an end of
\* the day is hidden by a target or a trail and by nothing else; it is then that
\* the agent may hold a position overnight (evaluate_exit, decide_position).
THEOREM AgentIsOverriddenByFloors ==
  LoopSpec => [](\A o \in OpenPositions, in \in Inputs :
                   NeedsForcedClose(o, in) <=> Floor(o, in))
<1>1. Inv => \A o \in OpenPositions, in \in Inputs : NeedsForcedClose(o, in) <=> Floor(o, in)
  BY FloorsAreTheHardSignals DEF Inv, OpenPositions
<1> QED
  BY <1>1, AlwaysInv, PTL

\* FillsBecomePositions: for any orders, sizes and partial fills.
THEOREM FillsAlwaysBecomePositions == LoopSpec => []FillsBecomePositions
<1>1. Inv => FillsBecomePositions
  BY DEF Inv, FillsInv, FillsBecomePositions
<1> QED
  BY <1>1, AlwaysInv, PTL

\* JournalTellsPositions: whatever the account refuses.  Closes, submissions and
\* openings have their events exactly; of reductions it says only that those that
\* are told of were made.
THEOREM JournalAlwaysTells == LoopSpec => []JournalTellsPositions
<1>1. Inv => JournalTellsPositions
  BY DEF Inv, EventsInv, JournalTellsPositions
<1> QED
  BY <1>1, AlwaysInv, PTL

-----------------------------------------------------------------------------
(* The account under the loop. *)

LEMMA LoopIsPaperStep == Inv /\ [LoopNext]_loopVars => [PaperStep]_vars
<1> SUFFICES ASSUME Inv, [LoopNext]_loopVars PROVE [PaperStep]_vars
  OBVIOUS
<1>1. CASE UNCHANGED vars
  BY <1>1
<1>2. ASSUME NEW o \in Orders, Manage(o) PROVE [PaperStep]_vars
  <2> DEFINE m == EffectiveMark(o, input)
  <2>1. m \in Nat
    BY MarkIsNatural DEF Inv, Kept
  <2>2. \/ Close(o, m)
        \/ \E cut \in 1 .. positions[o].open : Close(o, m) \/ Reduce(o, cut, m)
        \/ UNCHANGED vars
    BY <1>2 DEF Manage, CloseIt, ReduceIt
  <2> HIDE DEF m
  <2> QED
    BY <2>1, <2>2 DEF PaperStep
<1>3. ASSUME NEW o \in Orders, NEW n \in Contracts, NEW limit \in Prices, NEW p \in Policies,
             Select(o, n, limit, p)
      PROVE  [PaperStep]_vars
  BY <1>3 DEF Select, PaperStep, Next
<1>4. ASSUME NEW o \in Orders, Open(o) PROVE [PaperStep]_vars
  BY <1>1, <1>4 DEF Open, PaperStep, Next
<1>5. CASE Restart
  BY <1>5 DEF Restart, PaperStep, Next
<1>6. CASE (\E in \in Inputs : Tick(in)) \/ NoEntry \/ Deploy \/ UNCHANGED loopVars
  BY <1>1, <1>6 DEF Tick, NoEntry, Deploy, loopVars
<1> QED
  BY <1>2, <1>3, <1>4, <1>5, <1>6 DEF LoopNext

LEMMA LoopPaperInit == LoopInit => Typed /\ BookInv /\ LedgerInv
BY TypedInit, BookInit, LedgerInit DEF LoopInit

LEMMA LoopAlwaysPaper == LoopSpec => [](Typed /\ BookInv /\ LedgerInv)
BY LoopPaperInit, AlwaysInv, LoopIsPaperStep, TypedStep, BookStep, LedgerStep, PTL DEF LoopSpec

\* LedgerExplainsCash and BookListsOpenPositions, of the account the loop trades
\* on: whatever the agent answers, and whichever exception ends a tick.
THEOREM LoopKeepsTheBook == LoopSpec => [](LedgerExplainsCash /\ BookListsOpenPositions)
BY LoopAlwaysPaper, PTL DEF LedgerInv, BookInv

-----------------------------------------------------------------------------
(* The types of the loop. *)

LoopTyped ==
  /\ pc \in {"idle", "manage", "enter", "open"}
  /\ policy \in [Orders -> Policies \cup {"target_and_stop"}]
  /\ events \subseteq {"submitted", "opened", "reduced", "closed"} \X Orders

\* An order of the loop fills in one piece, at its limit, so a position is
\* marked at one of the prices until a quote replaces it.
PricesInv ==
  /\ \A o \in Orders : orders[o].filled > 0 =>
       orders[o].limit \in Prices /\ orders[o].cost = orders[o].filled * orders[o].limit
  /\ \A o \in Orders : mark[o] \in Marks \cup Prices \cup {0}

LEMMA LoopTypedStep == LoopTyped /\ [LoopNext]_loopVars => LoopTyped'
<1> SUFFICES ASSUME LoopTyped, [LoopNext]_loopVars PROVE LoopTyped'
  OBVIOUS
<1>1. ASSUME NEW o \in Orders, NEW e \in {"submitted", "opened", "reduced", "closed"}
      PROVE  Event(e, o) \in {"submitted", "opened", "reduced", "closed"} \X Orders
  BY DEF Event
<1>2. ASSUME NEW in \in Inputs, Tick(in) PROVE LoopTyped'
  BY <1>2 DEF Tick, LoopTyped
<1>3. ASSUME NEW o \in Orders, Manage(o) PROVE LoopTyped'
  <2>1. /\ pc' \in {"idle", "enter"} /\ policy' = policy
        /\ \/ events' = events
           \/ events' = events \cup {Event("closed", o)}
           \/ events' = events \cup {Event("reduced", o)}
    BY <1>3 DEF Manage, CloseIt, ReduceIt
  <2> QED
    BY <1>1, <2>1 DEF LoopTyped
<1>4. ASSUME NEW o \in Orders, NEW n \in Contracts, NEW limit \in Prices, NEW p \in Policies,
             Select(o, n, limit, p)
      PROVE  LoopTyped'
  <2>1. /\ pc' \in {"idle", "open"} /\ policy' = [policy EXCEPT ![o] = p]
        /\ events' = events \/ events' = events \cup {Event("submitted", o)}
    BY <1>4 DEF Select
  <2> QED
    BY <1>1, <2>1 DEF LoopTyped
<1>5. ASSUME NEW o \in Orders, Open(o) PROVE LoopTyped'
  <2>1. /\ pc' = "idle" /\ policy' = policy
        /\ events' = events \/ events' = events \cup {Event("opened", o)}
    BY <1>5 DEF Open
  <2> QED
    BY <1>1, <2>1 DEF LoopTyped
<1>6. CASE NoEntry \/ Restart \/ Deploy \/ UNCHANGED loopVars
  BY <1>6 DEF NoEntry, Restart, Deploy, loopVars, loop, LoopTyped
<1> QED
  BY <1>2, <1>3, <1>4, <1>5, <1>6 DEF LoopNext

\* What a fill in one piece costs is the price of one contract that many times.
LEMMA EntryIsLimit ==
  ASSUME NEW x, x.limit \in Nat, x.filled \in Nat, x.filled > 0, x.cost = x.filled * x.limit
  PROVE  Entry(x) = x.limit
<1> DEFINE q == x.filled
           l == x.limit
<1>1. \A a \in Nat \ {0}, b \in Nat : (a * b) \div a = b
  <2> SUFFICES ASSUME NEW a \in Nat \ {0}, NEW b \in Nat PROVE (a * b) \div a = b
    OBVIOUS
  <2> DEFINE d == (a * b) \div a
  <2>1. a * b \in Nat
    OBVIOUS
  <2>2. d \in Int /\ a * d <= a * b /\ a * b < a * (d + 1)
    BY <2>1
  <2> HIDE DEF d
  <2>3. d <= b
    BY <2>2
  <2>4. b < d + 1
    BY <2>2
  <2> QED
    BY <2>2, <2>3, <2>4 DEF d
<1> QED
  BY <1>1 DEF Entry

LEMMA PricesInit == LoopInit => PricesInv
BY DEF LoopInit, Init, PricesInv, NoOrder

LEMMA PricesStep == Inv /\ PricesInv /\ [LoopNext]_loopVars => PricesInv'
<1> SUFFICES ASSUME Inv, PricesInv, [LoopNext]_loopVars PROVE PricesInv'
  OBVIOUS
<1>1. ASSUME orders' = orders, mark' = mark PROVE PricesInv'
  BY <1>1 DEF PricesInv
<1>2. mark \in [Orders -> Nat]
  BY DEF Inv, Kept
<1>3. ASSUME NEW o \in Orders, Manage(o) PROVE PricesInv'
  <2>1. orders' = orders /\ mark' = [mark EXCEPT ![o] = EffectiveMark(o, input)]
    BY <1>3 DEF Manage, CloseIt, ReduceIt, Close, Reduce, vars
  <2>2. EffectiveMark(o, input) \in Marks \cup Prices \cup {0}
    BY DEF EffectiveMark, PricesInv, Inv, Kept, Inputs
  <2> QED
    BY <1>2, <2>1, <2>2 DEF PricesInv
<1>4. ASSUME NEW o \in Orders, NEW n \in Contracts, NEW limit \in Prices, NEW p \in Policies,
             Select(o, n, limit, p)
      PROVE  PricesInv'
  <2>1. PICK x : /\ orders' = [v \in Orders |-> IF v = o THEN x ELSE orders[v]]
                 /\ FilledAt(x, limit)
    BY <1>4, Submits DEF Select, Inv
  <2>2. mark' = mark
    BY <1>4 DEF Select
  <2> QED
    BY <2>1, <2>2 DEF PricesInv, FilledAt
<1>5. ASSUME NEW o \in Orders, Open(o) PROVE PricesInv'
  <2>1. /\ orders' = orders /\ orders[o].filled > 0
        /\ mark' = mark \/ mark' = [mark EXCEPT ![o] = Entry(orders[o])]
    BY <1>5 DEF Open, OnOrderState, vars
  <2>2. /\ orders[o].filled \in Nat /\ orders[o].limit \in Nat /\ orders[o].limit \in Prices
        /\ orders[o].cost = orders[o].filled * orders[o].limit
    BY <2>1 DEF PricesInv, Inv, Kept, OrderBought, OrderRecords
  <2>3. Entry(orders[o]) \in Prices
    BY <2>1, <2>2, EntryIsLimit
  <2> QED
    BY <1>2, <2>1, <2>3 DEF PricesInv
<1>6. CASE (\E in \in Inputs : Tick(in)) \/ NoEntry \/ Restart \/ Deploy \/ UNCHANGED loopVars
  BY <1>1, <1>6 DEF Tick, NoEntry, Restart, RestartWithBook, Deploy, loopVars, vars, loop
<1> QED
  BY <1>3, <1>4, <1>5, <1>6 DEF LoopNext

LEMMA OneOpenAtMost == Inv => Cardinality(OpenPositions) <= 1
<1> SUFFICES ASSUME Inv PROVE Cardinality(OpenPositions) <= 1
  OBVIOUS
<1>1. CASE OpenPositions = {}
  BY <1>1, FS_EmptySet
<1>2. CASE OpenPositions # {}
  <2>1. PICK o : o \in OpenPositions
    BY <1>2
  <2>2. OpenPositions = {o}
    BY <2>1 DEF OpenPositions, Inv, OneOpen
  <2>3. Cardinality({o}) = 1
    BY FS_Singleton
  <2> QED
    BY <2>2, <2>3
<1> QED
  BY <1>1, <1>2

-----------------------------------------------------------------------------
(* The deployment. *)

PointerTyped ==
  /\ pointer \in [current : Cutover!Manifests, history : Seq(Cutover!Manifests)]
  /\ cutover \in [phase : {"active", "rolled_back"}, primary : Cutover!Systems,
                  manifest : Cutover!Manifests, rollback : Cutover!Manifests, agent : BOOLEAN]
  /\ rollbacks \in Nat

\* The controller before and after its rollback, and what the pointer serves.
CutoverInv ==
  /\ PointerTyped
  /\ rollbacks = 0 => /\ cutover.manifest.system = "system_b" /\ cutover.primary = "system_b"
                      /\ cutover.rollback.system = "system_a"
  /\ rollbacks = 1 => cutover.manifest.system = "system_a" /\ cutover.primary = "system_a"
  /\ rollbacks <= 1 /\ ~direct => pointer.current.system = cutover.primary

LEMMA Activating ==
  ASSUME PointerTyped, NEW m \in Cutover!Manifests
  PROVE  /\ Cutover!Activated(m) \in
              [current : Cutover!Manifests, history : Seq(Cutover!Manifests)]
         /\ Cutover!Activated(m).current = m
BY DEF PointerTyped, Cutover!Activated

\* Freezing and thawing change the manifest that serves, not its system.
LEMMA Refreezing ==
  ASSUME PointerTyped, NEW b \in BOOLEAN
  PROVE  /\ [pointer.current EXCEPT !.frozen = b] \in Cutover!Manifests
         /\ [pointer.current EXCEPT !.frozen = b].system = pointer.current.system
<1>1. pointer.current \in Cutover!Manifests
  BY DEF PointerTyped
<1> QED
  BY <1>1 DEF Cutover!Manifests

LEMMA CutoverStep == CutoverInv /\ [Cutover!Next]_deployment => CutoverInv'
<1> SUFFICES ASSUME CutoverInv, [Cutover!Next]_deployment PROVE CutoverInv'
  OBVIOUS
<1> USE DEF CutoverInv, PointerTyped, Cutover!Manifests, Cutover!Systems
<1>1. ASSUME NEW r \in Releases, Cutover!Release(r) PROVE CutoverInv'
  BY <1>1 DEF Cutover!Release, Cutover!Activated
<1>2. CASE Cutover!Freeze
  <2> DEFINE m == [pointer.current EXCEPT !.frozen = TRUE]
  <2>1. m \in Cutover!Manifests /\ m.system = pointer.current.system
    BY Refreezing
  <2>2. pointer' = [pointer EXCEPT !.current = m] /\ UNCHANGED <<cutover, rollbacks, direct>>
    BY <1>2 DEF Cutover!Freeze
  <2> HIDE DEF m, Cutover!Manifests
  <2> QED
    BY <2>1, <2>2
<1>3. CASE Cutover!Thaw
  <2> DEFINE m == [pointer.current EXCEPT !.frozen = FALSE]
  <2>1. m \in Cutover!Manifests /\ m.system = pointer.current.system
    BY Refreezing
  <2>2. pointer' = Cutover!Activated(m) /\ UNCHANGED <<cutover, rollbacks, direct>>
    BY <1>3 DEF Cutover!Thaw
  <2> HIDE DEF m, Cutover!Manifests
  <2> QED
    BY <2>1, <2>2, Activating
<1>4. CASE Cutover!RollbackDeployment
  <2> DEFINE target == Cutover!Last(pointer.history)
             rest == Cutover!Front(pointer.history)
  <2>1. pointer.history \in Seq(Cutover!Manifests) /\ pointer.history # <<>>
    BY <1>4 DEF Cutover!RollbackDeployment
  <2>2. /\ target \in Cutover!Manifests
        /\ rest \in Seq(Cutover!Manifests)
    <3> HIDE DEF Cutover!Manifests
    <3> QED
      BY <2>1 DEF Cutover!Last, Cutover!Front
  <2>3. /\ pointer' = [current |-> IF target.frozen THEN pointer.current ELSE target,
                       history |-> rest]
        /\ direct' = TRUE
        /\ UNCHANGED <<cutover, rollbacks>>
    BY <1>4 DEF Cutover!RollbackDeployment
  <2> HIDE DEF target, rest
  <2> QED
    BY <2>2, <2>3
<1>5. ASSUME NEW on \in BOOLEAN, Cutover!SetAgentAuthority(on) PROVE CutoverInv'
  BY <1>5 DEF Cutover!SetAgentAuthority
<1>6. CASE Cutover!RollbackToSystemA
  <2> HIDE DEF Cutover!Manifests
  <2>1. /\ pointer' = Cutover!Activated(cutover.rollback)
        /\ cutover' = [cutover EXCEPT !.phase = "rolled_back", !.primary = "system_a",
                                      !.manifest = cutover.rollback,
                                      !.rollback = cutover.manifest]
        /\ rollbacks' = rollbacks + 1 /\ direct' = direct
    BY <1>6 DEF Cutover!RollbackToSystemA, Cutover!RollbackTarget
  <2>2. cutover.rollback \in Cutover!Manifests
    OBVIOUS
  <2>3. /\ pointer' \in [current : Cutover!Manifests, history : Seq(Cutover!Manifests)]
        /\ pointer'.current = cutover.rollback
    BY <2>1, <2>2, Activating
  <2>4. /\ cutover'.primary = "system_a" /\ cutover'.manifest = cutover.rollback
        /\ cutover' \in [phase : {"active", "rolled_back"}, primary : Cutover!Systems,
                          manifest : Cutover!Manifests, rollback : Cutover!Manifests,
                          agent : BOOLEAN]
    BY <2>1
  <2>5. rollbacks' \in Nat /\ rollbacks' # 0 /\ (rollbacks' = 1 => rollbacks = 0)
    BY <2>1
  <2> QED
    BY <2>1, <2>3, <2>4, <2>5
<1>7. CASE UNCHANGED deployment
  BY <1>7 DEF deployment
<1> QED
  BY <1>1, <1>2, <1>3, <1>4, <1>5, <1>6, <1>7 DEF Cutover!Next, Cutover!RehearseRollback

LEMMA CutoverInit == LoopInit => CutoverInv
<1> SUFFICES ASSUME LoopInit PROVE CutoverInv
  OBVIOUS
<1> USE DEF Cutover!Manifests, Cutover!Systems
<1>1. /\ Cutover!SystemA \in Cutover!Manifests /\ Cutover!SystemA.system = "system_a"
      /\ Cutover!SystemB \in Cutover!Manifests /\ Cutover!SystemB.system = "system_b"
  BY DEF Cutover!SystemA, Cutover!SystemB
<1>2. \E a \in BOOLEAN :
        cutover = [phase |-> "active", primary |-> "system_b", manifest |-> Cutover!SystemB,
                   rollback |-> Cutover!SystemA, agent |-> a]
  BY DEF LoopInit, Cutover!Init
<1>3. <<Cutover!SystemA>> \in Seq(Cutover!Manifests)
  BY <1>1
<1>4. PointerTyped
  BY <1>1, <1>2, <1>3 DEF LoopInit, Cutover!Init, PointerTyped
<1> QED
  BY <1>1, <1>2, <1>4 DEF LoopInit, Cutover!Init, CutoverInv

LEMMA LoopIsCutoverStep == [LoopNext]_loopVars => [Cutover!Next]_deployment
BY DEF LoopNext, loopVars, deployment, Tick, Manage, Select, NoEntry, Open, Restart, Deploy

LEMMA AlwaysCutover == LoopSpec => []CutoverInv
BY CutoverInit, LoopIsCutoverStep, CutoverStep, PTL DEF LoopSpec

\* PrimaryRunsItsSystem: for any releases, and through restarts of the loop.
THEOREM PrimaryAlwaysRunsItsSystem == LoopSpec => []PrimaryRunsItsSystem
<1>1. CutoverInv => PrimaryRunsItsSystem
  BY DEF CutoverInv, PointerTyped, PrimaryRunsItsSystem, Cutover!PrimaryRunsItsSystem
<1> QED
  BY <1>1, AlwaysCutover, PTL

\* The bounds on the history of deployments and on rollbacks.
DeploymentBounds ==
  /\ Len(pointer.history) <= MaxHistory /\ rollbacks <= MaxRollbacks /\ direct \in BOOLEAN

LEMMA BoundsInit == LoopInit => DeploymentBounds
<1> SUFFICES ASSUME LoopInit PROVE DeploymentBounds
  OBVIOUS
<1>1. MaxHistory \in Nat \ {0} /\ MaxRollbacks \in Nat
  BY LoopAssumption DEF Cutover!DeploymentAssumption
<1>2. pointer.history = <<Cutover!SystemA>> /\ rollbacks = 0 /\ direct = FALSE
  BY DEF LoopInit, Cutover!Init
<1>3. Len(pointer.history) = 1
  BY <1>2
<1>4. Len(pointer.history) <= MaxHistory /\ rollbacks <= MaxRollbacks
  BY <1>1, <1>2, <1>3
<1>5. direct \in BOOLEAN
  BY <1>2
<1> QED
  BY <1>4, <1>5 DEF DeploymentBounds

LEMMA BoundsStep == CutoverInv /\ DeploymentBounds /\ [Cutover!Next]_deployment => DeploymentBounds'
<1> SUFFICES ASSUME CutoverInv, DeploymentBounds, [Cutover!Next]_deployment PROVE DeploymentBounds'
  OBVIOUS
<1>1. MaxHistory \in Nat /\ MaxRollbacks \in Nat
  BY LoopAssumption DEF Cutover!DeploymentAssumption
<1>2. pointer.history \in Seq(Cutover!Manifests) /\ pointer = [current |-> pointer.current, history |-> pointer.history]
  BY DEF CutoverInv, PointerTyped
<1>3. rollbacks \in Nat
  BY DEF CutoverInv, PointerTyped
<1>4. ASSUME NEW m, pointer' = Cutover!Activated(m), Len(pointer.history) < MaxHistory
      PROVE  Len(pointer'.history) <= MaxHistory
  <2>1. pointer'.history = Append(pointer.history, pointer.current)
    BY <1>4 DEF Cutover!Activated
  <2>2. pointer.current \in Cutover!Manifests
    BY DEF CutoverInv, PointerTyped
  <2>3. Len(pointer'.history) = Len(pointer.history) + 1 /\ Len(pointer.history) \in Nat
    <3> HIDE DEF Cutover!Manifests
    <3> QED
      BY <1>2, <2>1, <2>2
  <2> QED
    BY <1>1, <1>4, <2>3
<1>5. ASSUME NEW r \in Releases, Cutover!Release(r) PROVE DeploymentBounds'
  BY <1>4, <1>5 DEF Cutover!Release, Cutover!Room, DeploymentBounds
<1>6. CASE Cutover!Freeze
  <2>1. pointer'.history = pointer.history /\ rollbacks' = rollbacks /\ direct' = direct
    BY <1>2, <1>6 DEF Cutover!Freeze
  <2> QED
    BY <2>1 DEF DeploymentBounds
<1>7. CASE Cutover!Thaw
  BY <1>4, <1>7 DEF Cutover!Thaw, Cutover!Room, DeploymentBounds
<1>8. CASE Cutover!RollbackDeployment
  <2>1. /\ pointer.history # <<>>
        /\ pointer'.history = Cutover!Front(pointer.history)
        /\ rollbacks' = rollbacks /\ direct' = TRUE
    BY <1>8 DEF Cutover!RollbackDeployment
  <2>2. Len(Cutover!Front(pointer.history)) = Len(pointer.history) - 1
    <3>1. Len(pointer.history) \in Nat \ {0}
      BY <1>2, <2>1
    <3> QED
      BY <3>1 DEF Cutover!Front
  <2>3. Len(pointer.history) \in Nat
    BY <1>2
  <2> QED
    BY <1>1, <2>1, <2>2, <2>3 DEF DeploymentBounds
<1>9. ASSUME NEW on \in BOOLEAN, Cutover!SetAgentAuthority(on) PROVE DeploymentBounds'
  BY <1>9 DEF Cutover!SetAgentAuthority, DeploymentBounds
<1>10. CASE Cutover!RollbackToSystemA
  <2>1. /\ rollbacks < MaxRollbacks /\ rollbacks' = rollbacks + 1 /\ direct' = direct
        /\ Len(pointer.history) < MaxHistory /\ pointer' = Cutover!Activated(cutover.rollback)
    BY <1>10 DEF Cutover!RollbackToSystemA, Cutover!Room, Cutover!RollbackTarget
  <2>2. Len(pointer'.history) <= MaxHistory
    BY <1>4, <2>1
  <2> QED
    BY <1>1, <1>3, <2>1, <2>2 DEF DeploymentBounds
<1>11. CASE UNCHANGED deployment
  BY <1>11 DEF deployment, DeploymentBounds
<1> QED
  BY <1>5, <1>6, <1>7, <1>8, <1>9, <1>10, <1>11 DEF Cutover!Next, Cutover!RehearseRollback

\* LoopTypeOK: the types of both layers, that at most one position is open, and
\* that a position is marked at a quote or at the price it was bought for.
THEOREM LoopTypeCorrect == LoopSpec => []LoopTypeOK
<1>1. LoopInit => LoopTyped
  BY DEF LoopInit, LoopTyped
<1>2. LoopSpec => []LoopTyped
  BY <1>1, LoopTypedStep, PTL DEF LoopSpec
<1>3. LoopSpec => []PricesInv
  BY PricesInit, PricesStep, AlwaysInv, PTL DEF LoopSpec
<1>4. LoopSpec => []DeploymentBounds
  BY BoundsInit, BoundsStep, LoopIsCutoverStep, AlwaysCutover, PTL DEF LoopSpec
<1>5. CutoverInv /\ DeploymentBounds => Cutover!TypeOK
  BY LoopAssumption DEF CutoverInv, PointerTyped, DeploymentBounds, Cutover!TypeOK,
                        Cutover!DeploymentAssumption
<1>6. Inv /\ Typed /\ LoopTyped /\ PricesInv /\ Cutover!TypeOK => LoopTypeOK
  BY TypedIsTypeOK, OneOpenAtMost DEF Inv, Kept, FloorInv, LoopTyped, PricesInv, LoopTypeOK
<1> QED
  BY <1>2, <1>3, <1>4, <1>5, <1>6, AlwaysInv, AlwaysCutover, LoopAlwaysPaper, PTL

=============================================================================
