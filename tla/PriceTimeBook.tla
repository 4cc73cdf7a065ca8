---------------------------- MODULE PriceTimeBook ----------------------------
(***************************************************************************)
(* What a book promises its users, without price levels, list nodes or an  *)
(* index: the orders that rest, in the order they arrived, and price-time  *)
(* priority as a condition on who trades next.  The README of the program: *)
(* "applying Price-Time Priority (FIFO) matching".                         *)
(***************************************************************************)
EXTENDS BookOps

VARIABLES resting,   \* Seq(Order), in order of arrival
          incoming,  \* the order being matched, or NoOrder
          reports,   \* what the call in progress reports
          pc

ptVars == <<resting, incoming, reports, pc>>

PTInit == resting = <<>> /\ incoming = NoOrder /\ reports = <<>> /\ pc = "idle"

\* A whole new order starts to match.
Enters ==
    /\ pc = "idle" /\ pc' = "matching"
    /\ incoming' \in Order
    /\ incoming'.remaining_quantity = incoming'.quantity
    /\ UNCHANGED reports

Accept == Enters /\ UNCHANGED resting

\* Positions of the orders the incoming order may trade with.
Eligible ==
    {i \in DOMAIN resting : resting[i].side = Opposite(incoming.side)
                            /\ Crosses(incoming, resting[i].price)}

\* Position i is served before position j: better price, or earlier arrival.
Precedes(i, j) ==
    LET p == resting[i].price
        q == resting[j].price
    IN  \/ p = q /\ i < j
        \/ incoming.side = "Buy" /\ p < q
        \/ incoming.side = "Sell" /\ p > q

\* A trade of the incoming order o with the resting order r: what is left of
\* each, and a report to each.
Deal(o, r) ==
    LET qty  == Min({o.remaining_quantity, r.remaining_quantity})
        inc  == [o EXCEPT !.remaining_quantity = @ - qty]
        rest == [r EXCEPT !.remaining_quantity = @ - qty]
        buy  == IF inc.side = "Buy" THEN inc ELSE rest
        sell == IF inc.side = "Buy" THEN rest ELSE inc
        px   == ExecPrice(buy, sell)
    IN  [inc |-> inc, rest |-> rest,
         reports |-> <<TradeReport(buy, qty, px), TradeReport(sell, qty, px)>>]

\* The orders that rest after the one at position i is left as rest.
Left(i, rest) ==
    IF rest.remaining_quantity = 0 THEN RemoveAt(resting, i) ELSE [resting EXCEPT ![i] = rest]

\* The incoming order trades with the eligible order that precedes all others.
Trade ==
    /\ pc = "matching"
    /\ incoming.remaining_quantity > 0
    /\ \E i \in Eligible :
          /\ \A j \in Eligible \ {i} : Precedes(i, j)
          /\ LET deal == Deal(incoming, resting[i])
             IN  /\ incoming' = deal.inc
                 /\ resting' = Left(i, deal.rest)
                 /\ reports' = reports \o deal.reports
    /\ UNCHANGED pc

\* Nothing is left of the order, or nothing is left to trade with.
Settle ==
    /\ pc = "matching" /\ pc' = "done"
    /\ incoming' = NoOrder
    /\ \/ /\ incoming.remaining_quantity = 0
          /\ UNCHANGED <<resting, reports>>
       \/ /\ incoming.remaining_quantity > 0 /\ Eligible = {}
          /\ incoming.type = "Limit"
          /\ resting' = Append(resting, incoming)
          /\ reports' = IF incoming.remaining_quantity = incoming.quantity
                        THEN Append(reports, PlainReport(incoming, "New")) ELSE reports
       \/ /\ incoming.remaining_quantity > 0 /\ Eligible = {}
          /\ incoming.type = "Market"
          /\ reports' = Append(reports, PlainReport(incoming, "Cancelled"))
          /\ UNCHANGED resting

\* A cancel removes the order with that id and reports it to the order's owner.
Cancel(i) ==
    /\ pc = "idle" /\ pc' = "done"
    /\ resting' = RemoveAt(resting, i)
    /\ Len(reports') = 1
    /\ reports'[1].order_id = resting[i].order_id
    /\ reports'[1].status = "Cancelled"
    /\ reports'[1].client_id = resting[i].client_id
    /\ UNCHANGED incoming

\* A modify gives up the order's place and sends it through matching again,
\* with the same id, side, type and owner.
Modify(i) ==
    /\ Enters
    /\ \A f \in {"order_id", "symbol", "side", "type", "client_id"} : incoming'[f] = resting[i][f]
    /\ resting' = RemoveAt(resting, i)

\* The request names an order that does not rest.
Refuse == pc = "idle" /\ pc' = "done" /\ UNCHANGED <<resting, incoming, reports>>

Reply == pc = "done" /\ pc' = "idle" /\ reports' = <<>> /\ UNCHANGED <<resting, incoming>>

PTNext ==
    \/ Accept
    \/ Trade
    \/ Settle
    \/ \E i \in DOMAIN resting : Cancel(i) \/ Modify(i)
    \/ Refuse
    \/ Reply

PTSpec == PTInit /\ [][PTNext]_ptVars
=============================================================================
