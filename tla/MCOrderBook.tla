----------------------------- MODULE MCOrderBook -----------------------------
(* Instance of OrderBook with unrestricted callers: order ids may repeat.  *)
EXTENDS OrderBook, TLC

MCOrderInput ==
    {[order_id |-> id, symbol |-> "AAPL", side |-> s, type |-> t, price |-> p,
      quantity |-> q, remaining_quantity |-> q, timestamp |-> 1, client_id |-> 1] :
        id \in OrderId, s \in Side, t \in OrderType, p \in 1..MaxPrice, q \in 1..MaxQty}

\* A modify is not validated: price and quantity 0 are possible.
MCModifyInput ==
    {[order_id |-> id, price |-> p, quantity |-> q, timestamp |-> 1] :
        id \in OrderId, p \in Price, q \in Quantity}

MCSymmetry == Permutations(Node)
=============================================================================
