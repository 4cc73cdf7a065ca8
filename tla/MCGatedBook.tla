----------------------------- MODULE MCGatedBook -----------------------------
(* Instance of GatedBook: ids in 1..n, the timestamp of an order grows with *)
(* its id while orders reach the book in any order.                         *)
EXTENDS GatedBook, TLC

CONSTANTS MCTypes,        \* order types and prices the clients use
          MCPrices,
          MCModifyPrices, \* prices and quantities the modify requests carry
          MCModifyQtys

MCOrderInput ==
    {[order_id |-> id, symbol |-> "AAPL", side |-> s, type |-> t, price |-> p,
      quantity |-> q, remaining_quantity |-> q, timestamp |-> id, client_id |-> id] :
        id \in OrderId, s \in Side, t \in MCTypes, p \in MCPrices, q \in 1..MaxQty}

MCModifyInput ==
    {[order_id |-> id, price |-> p, quantity |-> q, timestamp |-> MaxTime] :
        id \in OrderId, p \in MCModifyPrices, q \in MCModifyQtys}

MCSymmetry == Permutations(Node)
=============================================================================
