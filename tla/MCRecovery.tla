----------------------------- MODULE MCRecovery -----------------------------
(* Instance of Recovery: the workloads mix two books, partial fills, market *)
(* orders, cancels and modifies that trade.                                 *)
EXTENDS Recovery

Submit(id, sym, side, type, price, qty) ==
    [type |-> "Submit", symbol |-> sym, order_id |-> id,
     order |-> [order_id |-> id, symbol |-> sym, side |-> side, type |-> type, price |-> price,
                quantity |-> qty, remaining_quantity |-> qty, timestamp |-> id, client_id |-> id]]
Cancel(id, sym) == [type |-> "Cancel", symbol |-> sym, order_id |-> id]
Modify(id, sym, price, qty) ==
    [type |-> "Modify", symbol |-> sym, order_id |-> id, price |-> price, quantity |-> qty, timestamp |-> 4]

\* A buy order in book A, then anything that meets it or goes past it.
MCWorkload ==
    {<<Submit(1, "A", "Buy", "Limit", 1, 2), second, third>> :
        second \in {Submit(2, "A", "Sell", "Market", 1, 1), Submit(2, "A", "Sell", "Limit", 1, 2),
                    Submit(2, "A", "Sell", "Limit", 2, 2), Submit(2, "A", "Buy", "Limit", 2, 1),
                    Submit(2, "B", "Buy", "Limit", 1, 1), Cancel(1, "A")},
        third \in {Submit(3, "A", "Sell", "Limit", 1, 2), Submit(3, "A", "Buy", "Market", 1, 2),
                   Submit(3, "B", "Sell", "Market", 1, 1), Modify(1, "A", 2, 1),
                   Modify(2, "A", 1, 1), Cancel(1, "A")}}

\* Two books that trade at the same time.
MCTwoBooks == {
    <<Submit(1, "A", "Buy", "Limit", 1, 1), Submit(2, "B", "Buy", "Limit", 1, 1),
      Submit(3, "A", "Sell", "Limit", 1, 1), Submit(4, "B", "Sell", "Limit", 1, 1)>>}
=============================================================================
