------------------------------ MODULE OrderBook ------------------------------
(***************************************************************************)
(* One OrderBook object as a state machine.  Every public operation runs   *)
(* under book_mutex_, so calls do not interleave on one book; inside a     *)
(* call each iteration of the matching loop is a step of its own, because  *)
(* the trade ids it draws come from a generator other books use too.       *)
(* The log_func a caller passes runs under the mutex before anything else  *)
(* and does not touch the book; it is part of the caller.                  *)
(* The caller is unrestricted: it may submit an order id twice, as the     *)
(* replay of a log or a caller without a risk check can.                   *)
(***************************************************************************)
EXTENDS BookOps

CONSTANTS OrderInput,   \* the orders a caller submits
          ModifyInput,  \* the modify requests a caller sends
          MaxTrades     \* bound: no call starts after this many trades

ASSUME InputAssumption ==
    /\ OrderInput \subseteq {o \in Order : o.remaining_quantity = o.quantity}
    /\ ModifyInput \subseteq ModifyRequest
    /\ MaxTrades \in Nat

VARIABLES book,     \* the book, see BookOps
          pc,       \* "idle": mutex free; "matching", "done": inside a call
          counter   \* TradeIDGenerator::counter_

vars == <<book, pc, counter>>

Init == book = EmptyBook /\ pc = "idle" /\ counter = 1

\* The mutex is free.  Two bounds: trades, and list nodes to allocate.
Enter ==
    /\ pc = "idle"
    /\ counter <= MaxTrades
    /\ Node \ DOMAIN book.heap # {}
-----------------------------------------------------------------------------
submitOrder(o) ==
    /\ Enter
    /\ book' = [book EXCEPT !.incoming = o]
    /\ pc' = "matching"
    /\ UNCHANGED counter

\* One iteration of the inner matching loop; next_id() only when it trades.
MatchStep ==
    /\ pc = "matching"
    /\ CanMatch(book)
    /\ book' = MatchOnce(book, counter)
    /\ counter' = IF MatchQty(book) = 0 THEN counter ELSE counter + 1
    /\ UNCHANGED pc

\* The loop is over and the whole quantity was traded.
FinishFilled ==
    /\ pc = "matching"
    /\ book.incoming.remaining_quantity = 0
    /\ book' = [book EXCEPT !.incoming = NoOrder]
    /\ pc' = "done"
    /\ UNCHANGED counter

\* The loop is over and a limit order keeps a remainder: it rests in node n.
FinishRest(n) ==
    /\ pc = "matching"
    /\ ~CanMatch(book)
    /\ book.incoming.remaining_quantity > 0
    /\ book.incoming.type = "Limit"
    /\ n \notin DOMAIN book.heap
    /\ book' = Rest(book, n)
    /\ pc' = "done"
    /\ UNCHANGED counter

\* The loop is over and a market order keeps a remainder: it expires.
FinishExpire ==
    /\ pc = "matching"
    /\ ~CanMatch(book)
    /\ book.incoming.remaining_quantity > 0
    /\ book.incoming.type = "Market"
    /\ book' = Expire(book)
    /\ pc' = "done"
    /\ UNCHANGED counter

cancelOrder(id) ==
    /\ Enter
    /\ book' = IF id \in DOMAIN book.index THEN CancelFound(book, id) ELSE book
    /\ pc' = "done"
    /\ UNCHANGED counter

modifyOrder(req) ==
    /\ Enter
    /\ IF req.order_id \in DOMAIN book.index
       THEN book' = ModifyFound(book, req) /\ pc' = "matching"
       ELSE book' = book /\ pc' = "done"
    /\ UNCHANGED counter

\* Mutant: one MatchResult is used for all calls.
ReturnShared ==
    /\ pc = "done"
    /\ pc' = "idle"
    /\ UNCHANGED <<book, counter>>

\* The mutex is released and the MatchResult handed to the caller.
Return ==
    /\ pc = "done"
    /\ book' = [book EXCEPT !.fills = <<>>, !.reports = <<>>]
    /\ pc' = "idle"
    /\ UNCHANGED counter

Next ==
    \/ \E o \in OrderInput : submitOrder(o)
    \/ \E id \in OrderId : cancelOrder(id)
    \/ \E req \in ModifyInput : modifyOrder(req)
    \/ MatchStep
    \/ FinishFilled
    \/ \E n \in Node : FinishRest(n)
    \/ FinishExpire
    \/ Return

Spec == Init /\ [][Next]_vars
-----------------------------------------------------------------------------
(* Types. *)

IsBook(b) ==
    /\ b = [orders |-> b.orders, heap |-> b.heap, index |-> b.index,
            incoming |-> b.incoming, fills |-> b.fills, reports |-> b.reports]
    /\ DOMAIN b.orders = Side
    /\ b.orders = [s \in Side |-> b.orders[s]]
    /\ \A s \in Side : IsMap(b.orders[s], Price, Seq(Node))
    /\ IsMap(b.heap, Node, Order)
    /\ IsMap(b.index, OrderId, OrderIndexEntry)
    /\ b.incoming \in Order \cup {NoOrder}
    /\ b.fills \in Seq(Fill)
    /\ b.reports \in Seq(ExecutionReport)

\* Type invariant of the book, the call in progress and the generator; a call
\* in progress has an incoming order exactly while it matches.
TypeOK ==
    /\ IsBook(book)
    /\ pc \in {"idle", "matching", "done"}
    /\ (pc = "matching") <=> (book.incoming # NoOrder)
    /\ counter \in Nat \ {0}
-----------------------------------------------------------------------------
(* Safety. *)

\* Node n is linked in the list of price p on side s.
LinkedAt(n, s, p) ==
    /\ p \in DOMAIN book.orders[s]
    /\ \E i \in DOMAIN book.orders[s][p] : book.orders[s][p][i] = n

\* A price has a map entry only while orders wait there, and the orders in its
\* list are live, belong to that side and price and have something left to
\* trade: what begin(), front() and the erase-when-empty code of
\* submitOrderInternal, cancelOrder and modifyOrder rely on.
LevelsWellFormed ==
    \A s \in Side : \A p \in DOMAIN book.orders[s] :
        /\ book.orders[s][p] # <<>>
        /\ \A i \in DOMAIN book.orders[s][p] :
              LET n == book.orders[s][p][i]
              IN  /\ n \in DOMAIN book.heap
                  /\ book.heap[n].side = s
                  /\ book.heap[n].price = p
                  /\ book.heap[n].remaining_quantity > 0

\* order_index_ never holds a dangling iterator: every entry points at a live
\* node of its own id, in the list its side and price_level name.  This is
\* what cancelOrder, modifyOrder and queryOrder dereference, and it holds even
\* when an order id is submitted twice.
IndexSound ==
    \A id \in DOMAIN book.index :
        LET e == book.index[id]
        IN  /\ LinkedAt(e.position, e.side, e.price_level)
            /\ e.position \in DOMAIN book.heap
            /\ book.heap[e.position].order_id = id

\* The best bid is below the best ask whenever the mutex is free, and even in
\* the middle of a call: a limit order rests only after it has traded with
\* every price it crosses.
NotCrossed ==
    \A p \in DOMAIN book.orders["Buy"], q \in DOMAIN book.orders["Sell"] : p < q

\* total[k] is the quantity of the first k fills.
RunningTotal(total, fills) ==
    /\ total[0] = 0
    /\ \A k \in DOMAIN fills : total[k] = total[k - 1] + fills[k].quantity

\* What the fills of a call add up to is what the incoming order has lost, and
\* each fill is reported to a buyer and a seller with its quantity: a trade is
\* never created, lost or counted twice by the loop.
TradesConserved ==
    pc = "matching" =>
        /\ \E total \in [0..Len(book.fills) -> Quantity] :
              /\ RunningTotal(total, book.fills)
              /\ total[Len(book.fills)] = book.incoming.quantity - book.incoming.remaining_quantity
        /\ Len(book.reports) = 2 * Len(book.fills)
        /\ \A k \in DOMAIN book.fills :
              /\ book.reports[2*k - 1].order_id = book.fills[k].buy_order_id
              /\ book.reports[2*k].order_id = book.fills[k].sell_order_id
              /\ book.reports[2*k - 1].last_qty = book.fills[k].quantity
              /\ book.reports[2*k].last_qty = book.fills[k].quantity
=============================================================================
