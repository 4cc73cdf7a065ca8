------------------------------- MODULE BookOps -------------------------------
(***************************************************************************)
(* The data of one order book and the pure operations on it: OrderBook     *)
(* (src/engine/order_book.cpp), OrderIndex (order_index.hpp) and           *)
(* MatchingEngine (matching_engine.cpp).                                   *)
(*                                                                         *)
(* A book is a record                                                      *)
(*   orders : for each side the map price -> list (buy_orders_ and         *)
(*            sell_orders_); only the prices that have a map entry are in  *)
(*            the domain, and a list is the sequence of its node addresses *)
(*   heap   : what the live list nodes hold, by address                    *)
(*   index  : order_index_, order id -> [side, price_level, position]      *)
(*   incoming, fills, reports : the local Order of submitOrderInternal and *)
(*            the MatchResult of the call that holds book_mutex_           *)
(* The two mirrored halves of submitOrderInternal are one operation here,  *)
(* parameterised by the side of the incoming order.                        *)
(***************************************************************************)
EXTENDS Integers, Sequences, FiniteSets, FiniteSetsExt, SequencesExt, Functions

CONSTANTS OrderId,      \* order ids clients use
          Symbol,       \* trading symbols
          MaxPrice,     \* largest price a message can carry
          MaxQty,       \* largest quantity a message can carry
          MaxTime,      \* largest client supplied timestamp
          Client,       \* client ids of sessions
          Node,         \* addresses of std::list nodes
          NoOrder       \* "no call in progress"

ASSUME BoundsAssumption == MaxPrice \in Nat /\ MaxQty \in Nat /\ MaxTime \in Nat

Side == {"Buy", "Sell"}
OrderType == {"Limit", "Market"}
OrderStatus == {"New", "PartiallyFilled", "Filled", "Cancelled", "Rejected"}
Price == 0..MaxPrice
Quantity == 0..MaxQty
Timestamp == 0..MaxTime

Order == [order_id : OrderId, symbol : Symbol, side : Side, type : OrderType,
          price : Price, quantity : Quantity, remaining_quantity : Quantity,
          timestamp : Timestamp, client_id : Client]

ASSUME NoOrderAssumption == NoOrder \notin Order

ModifyRequest == [order_id : OrderId, price : Price, quantity : Quantity,
                  timestamp : Timestamp]

OrderIndexEntry == [side : Side, price_level : Price, position : Node]

Fill == [trade_id : Nat, buy_order_id : OrderId, sell_order_id : OrderId,
         price : Price, quantity : Quantity]

ExecutionReport == [order_id : OrderId, side : Side, status : OrderStatus,
                    price : Price, quantity : Quantity,
                    remaining_quantity : Quantity, last_qty : Quantity,
                    last_px : Nat, client_id : Client]

EmptyMap == [x \in {} |-> x]

EmptyBook == [orders |-> [s \in Side |-> EmptyMap], heap |-> EmptyMap,
              index |-> EmptyMap, incoming |-> NoOrder,
              fills |-> <<>>, reports |-> <<>>]
-----------------------------------------------------------------------------
(* Maps and lists. *)

\* f is a map from some elements of S to elements of T.
IsMap(f, S, T) == DOMAIN f \subseteq S /\ f \in [DOMAIN f -> T]

\* The map f with the entry for x set to v.
Put(f, x, v) == [y \in DOMAIN f \cup {x} |-> IF y = x THEN v ELSE f[y]]

\* The map f without the entry for x.
Drop(f, x) == Restrict(f, DOMAIN f \ {x})

\* list::erase(position): the list without the node n.
Unlink(q, n) == RemoveAt(q, CHOOSE i \in DOMAIN q : q[i] = n)

\* Mutant: an emptied level stays in the map.
SetLevelKept(levels, p, q) == [levels EXCEPT ![p] = q]

\* The levels of one side after level p is left with the list q: an empty
\* level is erased from the map.
SetLevel(levels, p, q) == IF q = <<>> THEN Drop(levels, p) ELSE [levels EXCEPT ![p] = q]

Opposite(s) == IF s = "Buy" THEN "Sell" ELSE "Buy"

\* Mutant: both maps have the default order std::less.
BestPriceAscending(levels, s) == Min(DOMAIN levels)

\* begin()->first of a side's map: bids are sorted descending, asks ascending.
BestPrice(levels, s) == IF s = "Buy" THEN Max(DOMAIN levels) ELSE Min(DOMAIN levels)

\* Mutants: the break compares with <= and >=; the sell loop has no break.
CrossesStrictly(o, p) ==
    \/ o.type = "Market"
    \/ o.side = "Buy"  /\ o.price > p
    \/ o.side = "Sell" /\ o.price < p
CrossesBuysOnly(o, p) == o.type = "Market" \/ o.side = "Sell" \/ o.price >= p

\* The loop of submitOrderInternal does not break at price p of the other side.
Crosses(o, p) ==
    \/ o.type = "Market"
    \/ o.side = "Buy"  /\ o.price >= p
    \/ o.side = "Sell" /\ o.price <= p
-----------------------------------------------------------------------------
(* matchOrders and the matching loop. *)

\* The report pushed for one party of a trade; o already has its new remainder.
TradeReport(o, qty, px) ==
    [order_id |-> o.order_id, side |-> o.side,
     status |-> IF o.remaining_quantity = 0 THEN "Filled" ELSE "PartiallyFilled",
     price |-> o.price, quantity |-> o.quantity,
     remaining_quantity |-> o.remaining_quantity,
     last_qty |-> qty, last_px |-> px, client_id |-> o.client_id]

\* The report of an order that is not traded any further by this call.
PlainReport(o, status) ==
    [order_id |-> o.order_id, side |-> o.side, status |-> status,
     price |-> o.price, quantity |-> o.quantity,
     remaining_quantity |-> o.remaining_quantity,
     last_qty |-> 0, last_px |-> 0, client_id |-> o.client_id]

\* The price of a trade: the limit of the party with the older timestamp, the
\* buyer's on a tie.
ExecPrice(buy, sell) == IF sell.timestamp < buy.timestamp THEN sell.price ELSE buy.price

\* Both loop conditions hold: something is left to trade, the other side has a
\* level, and its best price is not beyond the limit.
CanMatch(b) ==
    LET levels == b.orders[Opposite(b.incoming.side)]
    IN  /\ b.incoming.remaining_quantity > 0
        /\ DOMAIN levels # {}
        /\ Crosses(b.incoming, BestPrice(levels, Opposite(b.incoming.side)))

\* The resting order the next iteration of the inner loop trades with.
FrontNode(b) ==
    LET s == Opposite(b.incoming.side)
    IN  Head(b.orders[s][BestPrice(b.orders[s], s)])

\* Mutant: the quantity of the incoming order is not limited by the resting one.
MatchQtyIncoming(b) == b.incoming.remaining_quantity

\* The quantity the next iteration trades.
MatchQty(b) ==
    LET left == b.incoming.remaining_quantity
        rest == b.heap[FrontNode(b)].remaining_quantity
    IN  IF left <= rest THEN left ELSE rest

\* MatchingEngine::matchOrders on the incoming order and the front order, with
\* tid the number TradeIDGenerator hands out; nothing happens on quantity 0.
matchOrders(b, tid) ==
    LET qty  == MatchQty(b)
        n    == FrontNode(b)
        inc  == [b.incoming EXCEPT !.remaining_quantity = @ - qty]
        rest == [b.heap[n] EXCEPT !.remaining_quantity = @ - qty]
        buy  == IF inc.side = "Buy" THEN inc ELSE rest
        sell == IF inc.side = "Buy" THEN rest ELSE inc
        px   == ExecPrice(buy, sell)
    IN  IF qty = 0 THEN b
        ELSE [b EXCEPT !.incoming = inc,
                       !.heap[n] = rest,
                       !.fills = Append(@, [trade_id |-> tid,
                                            buy_order_id |-> buy.order_id,
                                            sell_order_id |-> sell.order_id,
                                            price |-> px, quantity |-> qty]),
                       !.reports = @ \o <<TradeReport(buy, qty, px), TradeReport(sell, qty, px)>>]

\* Mutant: order_index_.remove is not called.
PopFrontOnly(b, s, p) ==
    [b EXCEPT !.heap = Drop(@, Head(b.orders[s][p])),
              !.orders[s] = SetLevel(@, p, Tail(b.orders[s][p]))]

\* pop_front of level p on side s with its index entry, and the level when it empties.
PopFront(b, s, p) ==
    LET n == Head(b.orders[s][p])
    IN  [b EXCEPT !.index = Drop(@, b.heap[n].order_id),
                  !.heap = Drop(@, n),
                  !.orders[s] = SetLevel(@, p, Tail(b.orders[s][p]))]

\* One iteration of the inner loop of submitOrderInternal.
MatchOnce(b, tid) ==
    LET s == Opposite(b.incoming.side)
        m == matchOrders(b, tid)
    IN  IF m.heap[FrontNode(b)].remaining_quantity = 0
        THEN PopFront(m, s, BestPrice(b.orders[s], s))
        ELSE m

\* Mutant: the index entry is only inserted for an order that has not traded.
RestNewOnly(b, n) ==
    LET o == b.incoming
        levels == b.orders[o.side]
        q == IF o.price \in DOMAIN levels THEN levels[o.price] ELSE <<>>
        m == [b EXCEPT !.orders[o.side] = Put(@, o.price, Append(q, n)),
                       !.heap = Put(@, n, o),
                       !.incoming = NoOrder]
    IN  IF o.remaining_quantity < o.quantity THEN m
        ELSE [m EXCEPT !.index = Put(@, o.order_id, [side |-> o.side, price_level |-> o.price, position |-> n]),
                       !.reports = Append(@, PlainReport(o, "New"))]

\* push_back of the incoming order at its own price, in the new node n.
Rest(b, n) ==
    LET o == b.incoming
        levels == b.orders[o.side]
        q == IF o.price \in DOMAIN levels THEN levels[o.price] ELSE <<>>
    IN  [b EXCEPT !.orders[o.side] = Put(@, o.price, Append(q, n)),
                  !.heap = Put(@, n, o),
                  !.index = Put(@, o.order_id, [side |-> o.side, price_level |-> o.price, position |-> n]),
                  !.incoming = NoOrder,
                  !.reports = IF o.remaining_quantity = o.quantity
                              THEN Append(@, PlainReport(o, "New")) ELSE @]

\* Mutant: an unfilled market order ends without a report.
ExpireSilently(b) == [b EXCEPT !.incoming = NoOrder]

\* The remainder of a market order is cancelled.
Expire(b) ==
    [b EXCEPT !.incoming = NoOrder,
              !.reports = Append(@, PlainReport(b.incoming, "Cancelled"))]
-----------------------------------------------------------------------------
(* cancelOrder and modifyOrder, once the index entry e has been found. *)

\* Erase through the entry's iterator, if its level is still in the map.
EraseEntry(b, e) ==
    LET levels == b.orders[e.side]
    IN  IF e.price_level \in DOMAIN levels
        THEN [b EXCEPT !.orders[e.side] = SetLevel(@, e.price_level, Unlink(levels[e.price_level], e.position)),
                       !.heap = Drop(@, e.position)]
        ELSE b

CancelFound(b, id) ==
    LET e == b.index[id]
    IN  [EraseEntry(b, e) EXCEPT
            !.index = Drop(@, id),
            !.reports = Append(@, [order_id |-> id, side |-> e.side, status |-> "Cancelled",
                                   price |-> e.price_level, quantity |-> 0,
                                   remaining_quantity |-> 0, last_qty |-> 0, last_px |-> 0,
                                   client_id |-> b.heap[e.position].client_id])]

\* The order leaves the book and becomes the incoming order of a new submission.
ModifyFound(b, req) ==
    LET e == b.index[req.order_id]
    IN  [EraseEntry(b, e) EXCEPT
            !.index = Drop(@, req.order_id),
            !.incoming = [b.heap[e.position] EXCEPT !.price = req.price,
                                                    !.quantity = req.quantity,
                                                    !.remaining_quantity = req.quantity,
                                                    !.timestamp = req.timestamp]]

\* What queryOrder reads through the index.
queryOrder(b, id) == IF id \in DOMAIN b.index THEN b.heap[b.index[id].position] ELSE NoOrder
=============================================================================
