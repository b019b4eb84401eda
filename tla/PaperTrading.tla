---------------------------- MODULE PaperTrading ----------------------------
(***************************************************************************)
(* Paper trading on one account: the simulator fills limit orders and      *)
(* debits the account, the position manager turns fills into positions and *)
(* books what they earn, and restart_runtime rebuilds all three from       *)
(* stored orders and positions.  Each call updates several stores one      *)
(* after the other, and a later store may refuse after an earlier one has  *)
(* been written: nothing is rolled back.                                   *)
(*                                                                         *)
(* Orders are buys, as every intent the code creates is, and a position    *)
(* belongs to one order.  The draw that decides on a fill and its size is  *)
(* a choice.  An exception the caller sees leaves what had been stored.    *)
(***************************************************************************)
EXTENDS Integers, FiniteSets

CONSTANTS
  Orders,        \* order ids; each is submitted once
  Credit,        \* those whose candidate is opened for a net credit
  Contracts,     \* sizes asked for
  Prices,        \* limit and market prices
  Marks,         \* prices positions are reduced and closed at
  Fee,           \* fee_per_contract
  StartingCash,
  MaxRestarts    \* bound

VARIABLES
  orders,     \* simulator: order id -> its OrderState
  positions,  \* manager: order id -> the PositionState opened for it
  cash, openIds, blocked,  \* the PaperAccount
  told,       \* history: contracts filled when on_order_state last heard of it
  refused,    \* history: positions the account refused to book the close of
  unbooked,   \* history: what orders and positions record and this book missed
  restarts

account == <<cash, openIds, blocked>>
vars == <<orders, positions, account, told, refused, unbooked, restarts>>

OrderStatuses == {"none", "ACKNOWLEDGED", "PARTIALLY_FILLED", "FILLED",
                  "CANCELED", "REJECTED", "EXPIRED"}
Terminal == {"FILLED", "CANCELED", "REJECTED", "EXPIRED"}
NoOrder == [status |-> "none", want |-> 0, limit |-> 0, filled |-> 0, cost |-> 0]

PositionStatuses == {"none", "OPEN", "PARTIALLY_REDUCED", "CLOSED", "SETTLED"}
NoPosition == [status |-> "none", opened |-> 0, open |-> 0, entry |-> 0, realized |-> 0]

\* positions/state_machine.py, over the statuses the manager stores.
PositionMoves ==
  {<<"OPEN", "PARTIALLY_REDUCED">>, <<"PARTIALLY_REDUCED", "PARTIALLY_REDUCED">>,
   <<"OPEN", "CLOSED">>, <<"PARTIALLY_REDUCED", "CLOSED">>, <<"CLOSED", "SETTLED">>}

\* A price is a multiple of every size, so the average of fills is exact.
ASSUME PaperAssumption ==
  /\ IsFiniteSet(Orders) /\ Credit \subseteq Orders
  /\ Contracts \subseteq Nat \ {0} /\ IsFiniteSet(Contracts)
  /\ Prices \subseteq Nat \ {0} /\ Marks \subseteq Nat
  /\ \A p \in Prices, n \in Contracts : \A k \in 1 .. n : p % k = 0
  /\ Fee \in Nat /\ StartingCash \in Nat /\ MaxRestarts \in Nat

Init ==
  /\ orders = [o \in Orders |-> NoOrder]
  /\ positions = [o \in Orders |-> NoPosition]
  /\ cash = StartingCash /\ openIds = {} /\ blocked = FALSE
  /\ told = [o \in Orders |-> 0]
  /\ refused = {}
  /\ unbooked = 0
  /\ restarts = 0

-----------------------------------------------------------------------------
(* The simulator. *)

\* Mutant: a fill asks for the whole order again.
WholeOrder(order) == order.want

Remaining(order) == order.want - order.filled

\* All that remains, or half of it when partial fills are allowed.
FillSizes(order) ==
  {Remaining(order)} \cup (IF Remaining(order) > 1 THEN {Remaining(order) \div 2} ELSE {})

\* IsolatedAccountBook.apply_fill raises for a blocked account and for one
\* that cannot pay.
FillAccepted(due) == ~blocked /\ cash >= due

AfterFill(order, q, price) ==
  [order EXCEPT !.filled = @ + q, !.cost = @ + q * price,
                !.status = IF order.filled + q >= order.want
                             THEN "FILLED" ELSE "PARTIALLY_FILLED"]

\* _maybe_fill: outside the limit, by the draw, or because apply_fill raises,
\* the order stays as it is; else the account pays and the order is updated.
MaybeFill(o, order, price) ==
  \/ /\ orders' = [orders EXCEPT ![o] = order]
     /\ UNCHANGED cash
  \/ /\ price <= order.limit
     /\ \E q \in FillSizes(order) :
          /\ FillAccepted(q * price + q * Fee)
          /\ cash' = cash - (q * price + q * Fee)
          /\ orders' = [orders EXCEPT ![o] = AfterFill(order, q, price)]

\* submit: rejected for a blocked account, expired, or acknowledged and
\* offered a fill at its own limit, all in one call.
Submit(o, n, limit) ==
  LET order == [NoOrder EXCEPT !.want = n, !.limit = limit]
      As(status) == [order EXCEPT !.status = status]
  IN  /\ orders[o] = NoOrder
      /\ \/ /\ blocked
            /\ orders' = [orders EXCEPT ![o] = As("REJECTED")]
            /\ UNCHANGED cash
         \/ /\ ~blocked
            /\ orders' = [orders EXCEPT ![o] = As("EXPIRED")]
            /\ UNCHANGED cash
         \/ ~blocked /\ MaybeFill(o, As("ACKNOWLEDGED"), limit)
      /\ UNCHANGED <<positions, openIds, blocked, told, refused, unbooked, restarts>>

Working(o) == orders[o].status \in {"ACKNOWLEDGED", "PARTIALLY_FILLED"}

\* Mutant: the status is looked at only when it is updated, after the debit.
OnQuoteUnguarded(o, price) ==
  /\ orders[o] # NoOrder
  /\ \/ Working(o) /\ MaybeFill(o, orders[o], price)
     \/ /\ ~Working(o)
        /\ \E q \in FillSizes(orders[o]) \ {0} :
             /\ FillAccepted(q * price + q * Fee)
             /\ cash' = cash - (q * price + q * Fee)
        /\ UNCHANGED orders
  /\ UNCHANGED <<positions, openIds, blocked, told, refused, unbooked, restarts>>

\* on_quote: a terminal order stays, an expired one ends, another may fill.
OnQuote(o, price) ==
  /\ Working(o)
  /\ \/ /\ orders' = [orders EXCEPT ![o].status = "EXPIRED"]
        /\ UNCHANGED cash
     \/ MaybeFill(o, orders[o], price)
  /\ UNCHANGED <<positions, openIds, blocked, told, refused, unbooked, restarts>>

Cancel(o) ==
  /\ Working(o)
  /\ orders' = [orders EXCEPT ![o].status = "CANCELED"]
  /\ UNCHANGED <<positions, account, told, refused, unbooked, restarts>>

-----------------------------------------------------------------------------
(* The position manager. *)

Entry(order) == order.cost \div order.filled

\* on_order_state told of more contracts than it opened asks the state machine
\* for a move to OPEN, and raises when there is none.
Updated(p, order) ==
  IF order.filled > p.opened /\ <<p.status, "OPEN">> \in PositionMoves
    THEN [p EXCEPT !.status = "OPEN", !.opened = order.filled, !.open = order.filled,
                   !.entry = Entry(order)]
    ELSE p

\* on_order_state opens a position and lists it, or updates the one it opened.
OnOrderState(o) ==
  LET order == orders[o]
  IN  /\ order.status \in {"FILLED", "PARTIALLY_FILLED"}
      /\ told' = [told EXCEPT ![o] = order.filled]
      /\ \/ /\ positions[o] = NoPosition
            /\ positions' = [positions EXCEPT ![o] =
                 [status |-> "OPEN", opened |-> order.filled, open |-> order.filled,
                  entry |-> Entry(order), realized |-> 0]]
            /\ openIds' = openIds \cup {o}
         \/ /\ positions[o] # NoPosition
            /\ positions' = [positions EXCEPT ![o] = Updated(@, order)]
            /\ UNCHANGED openIds
      /\ UNCHANGED <<orders, cash, blocked, refused, unbooked, restarts>>

\* The P&L reduce and close book for n contracts.
Pnl(o, n, mark) == (mark - positions[o].entry) * n

\* A PaperAccount with negative cash raises when it is made.
Bookable(pnl) == cash + pnl >= 0

\* reduce: the position first, then the account's cash.
Reduce(o, cut, mark) ==
  LET pnl == Pnl(o, cut, mark)
  IN  /\ <<positions[o].status, "PARTIALLY_REDUCED">> \in PositionMoves
      /\ cut < positions[o].open
      /\ positions' = [positions EXCEPT ![o].status = "PARTIALLY_REDUCED",
                         ![o].open = @ - cut, ![o].realized = @ + pnl]
      /\ \/ Bookable(pnl) /\ cash' = cash + pnl /\ UNCHANGED unbooked
         \/ ~Bookable(pnl) /\ unbooked' = unbooked - pnl /\ UNCHANGED cash
      /\ UNCHANGED <<orders, openIds, blocked, told, refused, restarts>>

\* close: the position is closed, then the account books it and takes it off
\* its list, or refuses both.
Close(o, mark) ==
  LET pnl == Pnl(o, positions[o].open, mark)
  IN  /\ <<positions[o].status, "CLOSED">> \in PositionMoves
      /\ positions' = [positions EXCEPT ![o].status = "CLOSED",
                         ![o].open = 0, ![o].realized = @ + pnl]
      /\ \/ /\ Bookable(pnl)
            /\ cash' = cash + pnl /\ openIds' = openIds \ {o}
            /\ UNCHANGED <<refused, unbooked>>
         \/ /\ ~Bookable(pnl)
            /\ refused' = refused \cup {o} /\ unbooked' = unbooked - pnl
            /\ UNCHANGED <<cash, openIds>>
      /\ UNCHANGED <<orders, blocked, told, restarts>>

Settle(o) ==
  /\ <<positions[o].status, "SETTLED">> \in PositionMoves
  /\ positions' = [positions EXCEPT ![o].status = "SETTLED"]
  /\ UNCHANGED <<orders, account, told, refused, unbooked, restarts>>

-----------------------------------------------------------------------------
(* Restart. *)

OpenPositions == {o \in Orders : positions[o].open > 0}

\* Mutant: the open positions are not listed in the new book.
NothingRegistered(ids) == ids

\* restart_runtime re-registers the open positions.
Registered(ids) == ids \cup OpenPositions

\* Mutant: only a position missing from the list is a discrepancy.
MissingOnly(ids) == OpenPositions \subseteq ids

\* reconcile_account: no open position is missing from the list or orphaned on it.
Reconciles(ids) == ids = OpenPositions

\* The sum of what a function says of each order.
Total(gain) ==
  LET sum[S \in SUBSET Orders] ==
        IF S = {} THEN 0
        ELSE LET o == CHOOSE x \in S : TRUE IN gain[o] + sum[S \ {o}]
  IN  sum[Orders]

\* What orders and positions say the account has gained.
Gained == [o \in Orders |-> positions[o].realized - orders[o].cost - orders[o].filled * Fee]
Ledger == Total(Gained)

\* restart_runtime without an account book makes one with the starting cash.
RestartWithNewBook ==
  /\ restarts < MaxRestarts
  /\ restarts' = restarts + 1
  /\ cash' = StartingCash
  /\ openIds' = Registered({})
  /\ blocked' = ~Reconciles(openIds')
  /\ refused' = {}
  /\ unbooked' = -Ledger
  /\ UNCHANGED <<orders, positions, told>>

RestartWithBook ==
  /\ restarts < MaxRestarts
  /\ restarts' = restarts + 1
  /\ openIds' = Registered(openIds)
  /\ blocked' = (blocked \/ ~Reconciles(openIds'))
  /\ UNCHANGED <<orders, positions, cash, told, refused, unbooked>>

Next ==
  \/ \E o \in Orders :
       \/ \E n \in Contracts, limit \in Prices : Submit(o, n, limit)
       \/ \E price \in Prices : OnQuote(o, price)
       \/ Cancel(o) \/ OnOrderState(o) \/ Settle(o)
       \/ \E mark \in Marks : Close(o, mark)
       \/ \E mark \in Marks, cut \in 1 .. positions[o].open : Reduce(o, cut, mark)
  \/ RestartWithNewBook \/ RestartWithBook

Spec == Init /\ [][Next]_vars

-----------------------------------------------------------------------------
(* Properties. *)

\* Types, and no order is ever filled beyond what it asked for.
TypeOK ==
  /\ \A o \in Orders :
       /\ orders[o].status \in OrderStatuses
       /\ orders[o].filled \in 0 .. orders[o].want
       /\ orders[o].status = "FILLED" <=> orders[o].want > 0 /\ orders[o].filled = orders[o].want
       /\ positions[o].status \in PositionStatuses
       /\ positions[o].open \in 0 .. positions[o].opened
       /\ positions[o].opened \in 0 .. orders[o].filled
  /\ cash \in Nat /\ openIds \subseteq Orders /\ blocked \in BOOLEAN

\* Through partial fills, cancellations, reductions, refusals and restarts the
\* account's cash is what the recorded orders and positions add up to: no fill
\* is paid for and not recorded, none is recorded and not paid for, and no P&L
\* is booked twice (_maybe_fill, apply_fill, realize_pnl, close_position).
LedgerExplainsCash == cash = StartingCash + Ledger + unbooked

\* The account lists exactly the positions that hold contracts, but for those
\* whose closing P&L it refused (register_position, close_position, restart).
BookListsOpenPositions == openIds = OpenPositions \cup refused

\* A close the account refused is found when the runtime restarts on the same
\* book, and the account takes no further entry (reconcile_account).
RefusalIsCaught ==
  [][RestartWithBook /\ refused # {} => blocked']_vars

-----------------------------------------------------------------------------
(* What the documentation says, and the code does not do. *)

\* contracts/positions.py, profit_ratio.
Gain(o, mark) ==
  IF o \in Credit THEN positions[o].entry - mark ELSE mark - positions[o].entry

\* profit_ratio: "signed so positive is always profit", "Every consumer of a
\* profit ratio must come through here": a close books a profit when the ratio
\* is one.
CloseBooksTheGain ==
  [][\A o \in Orders, mark \in Marks :
       Close(o, mark) => (positions'[o].realized > positions[o].realized <=> Gain(o, mark) > 0)]_vars
=============================================================================
