--------------------------- MODULE OrderBookProofs ---------------------------
(***************************************************************************)
(* Proofs about OrderBook, for every set of ids, nodes and inputs and      *)
(* every bound: the type invariant, the structural invariant of lists and  *)
(* index, that the book is never crossed and that trades are conserved;    *)
(* and about GatedBook: that the index is complete behind the duplicate    *)
(* check, that limits are respected, that the book implements price-time   *)
(* priority, and that the reports tell the owners the truth.               *)
(***************************************************************************)
EXTENDS GatedBook, BookOpsProofs

(* The inductive invariant. *)

\* The inductive invariant: types, structure and the uncrossed book together.
\* NotCrossed alone is not inductive: that a resting order crosses nothing
\* rests on its level being the one its price names.
IInv ==
    /\ Good(book)
    /\ pc \in {"idle", "matching", "done"}
    /\ (pc = "matching") <=> (book.incoming # NoOrder)
    /\ counter \in Nat \ {0}

\* The inductive invariant implies the properties the model checker checks.
LEMMA IInvImplies ==
  ASSUME IInv
  PROVE  TypeOK /\ LevelsWellFormed /\ IndexSound /\ NotCrossed
  <1>1. Struct(book.orders, book.heap, book.index) /\ Uncrossed(book.orders) /\ BookTyped(book)
    BY DEF IInv, Good
  <1>2. \A s \in Side : IsMap(book.orders[s], Price, Seq(Node))
    BY <1>1 DEF Struct, ListsTyped
  <1>3. \A s \in Side : \A p \in DOMAIN book.orders[s] :
            /\ book.orders[s][p] \in Seq(Node)
            /\ DOMAIN book.orders[s][p] = 1..Len(book.orders[s][p])
    BY <1>2 DEF IsMap
  <1>4. TypeOK
    <2>1. DOMAIN book.orders = Side /\ book.orders = [s \in Side |-> book.orders[s]]
      BY <1>1 DEF Struct, ListsTyped
    <2> QED BY <1>1, <1>2, <2>1 DEF TypeOK, IsBook, IInv, Struct, ListsTyped, BookTyped
  <1>5. LevelsWellFormed
    BY <1>1, <1>3 DEF LevelsWellFormed, Struct, ListsLive
  <1>7. IndexSound
    <2> SUFFICES ASSUME NEW id \in DOMAIN book.index
                 PROVE  /\ LinkedAt(book.index[id].position, book.index[id].side, book.index[id].price_level)
                        /\ book.index[id].position \in DOMAIN book.heap
                        /\ book.heap[book.index[id].position].order_id = id
      BY DEF IndexSound
    <2>1. book.index[id].side \in Side
      BY <1>1 DEF Struct, ListsTyped, IsMap, OrderIndexEntry
    <2> QED BY <1>1, <1>3, <2>1 DEF Struct, EntriesValid, LinkedAt
  <1>8. NotCrossed
    BY <1>1 DEF NotCrossed, Uncrossed
  <1> QED BY <1>4, <1>5, <1>7, <1>8

\* The empty book is good.
LEMMA InitGood == Init => IInv
  BY EmptyGood DEF Init, IInv, EmptyBook

-----------------------------------------------------------------------------
(* The theorems. *)

\* Every step of the book keeps the inductive invariant.
LEMMA NextKeepsIInv == IInv /\ [Next]_vars => IInv'
  <1> SUFFICES ASSUME IInv, [Next]_vars PROVE IInv'
    OBVIOUS
  <1>1. /\ Good(book) /\ BookTyped(book)
        /\ (pc = "matching") <=> (book.incoming # NoOrder)
        /\ pc \in {"idle", "matching", "done"} /\ counter \in Nat \ {0}
    BY DEF IInv, Good
  <1>2. pc = "matching" => book.incoming \in Order
    BY <1>1 DEF BookTyped
  <1>3. \A o \in Order : o # NoOrder
    BY NoOrderAssumption
  <1>4. /\ book.fills \in Seq(Fill) /\ book.reports \in Seq(ExecutionReport)
        /\ book.incoming \in Order \cup {NoOrder}
    BY <1>1 DEF BookTyped
  <1>5. ASSUME NEW o \in OrderInput, submitOrder(o) PROVE IInv'
    <2>1. o \in Order
      BY InputAssumption
    <2>2. Renewed(book, o, book.fills, book.reports, book')
      BY <1>1, <1>4, <1>5, <2>1 DEF submitOrder, BookTyped, Renewed
    <2>3. Good(book') /\ book'.incoming = o
      BY <1>1, <2>2, ResultGood
    <2> QED BY <1>1, <1>3, <1>5, <2>1, <2>3 DEF IInv, submitOrder
  <1>6. ASSUME MatchStep PROVE IInv'
    <2>1. book.incoming \in Order /\ CanMatch(book) /\ book' = MatchOnce(book, counter) /\ counter \in Nat
      BY <1>1, <1>2, <1>6 DEF MatchStep
    <2>2. Good(book') /\ book'.incoming \in Order
      BY <1>1, <2>1, MatchOnceGood
    <2>3. counter' \in Nat \ {0}
      BY <1>1, <1>6 DEF MatchStep
    <2> QED BY <1>1, <1>3, <1>6, <2>2, <2>3 DEF IInv, MatchStep
  <1>7. ASSUME FinishFilled PROVE IInv'
    <2>1. Renewed(book, NoOrder, book.fills, book.reports, book')
      BY <1>1, <1>4, <1>7 DEF FinishFilled, BookTyped, Renewed
    <2>2. Good(book') /\ book'.incoming = NoOrder
      BY <1>1, <2>1, ResultGood
    <2> QED BY <1>1, <1>7, <2>2 DEF IInv, FinishFilled
  <1>8. ASSUME NEW n \in Node, FinishRest(n) PROVE IInv'
    <2>1. Good(book') /\ book'.incoming = NoOrder
      BY <1>1, <1>2, <1>8, RestGood DEF FinishRest
    <2> QED BY <1>1, <1>8, <2>1 DEF IInv, FinishRest
  <1>9. ASSUME FinishExpire PROVE IInv'
    <2> DEFINE rs == Append(book.reports, PlainReport(book.incoming, "Cancelled"))
    <2>1. PlainReport(book.incoming, "Cancelled") \in ExecutionReport
      <3>1. 0 \in Quantity /\ 0 \in Nat
        BY BoundsAssumption DEF Quantity
      <3> QED BY <1>2, <1>9, <3>1, ReportTyped DEF FinishExpire, OrderStatus
    <2>2. rs \in Seq(ExecutionReport)
      BY <1>4, <2>1
    <2>3. Renewed(book, NoOrder, book.fills, rs, book')
      BY <1>1, <1>4, <1>9, <2>2 DEF FinishExpire, Expire, BookTyped, Renewed
    <2>4. Good(book') /\ book'.incoming = NoOrder
      BY <1>1, <2>3, ResultGood
    <2> QED BY <1>1, <1>9, <2>4 DEF IInv, FinishExpire
  <1>10. ASSUME NEW id \in OrderId, cancelOrder(id) PROVE IInv'
    <2>1. Good(book') /\ book'.incoming = book.incoming
      BY <1>1, <1>10, CancelGood DEF cancelOrder
    <2> QED BY <1>1, <1>10, <2>1 DEF IInv, cancelOrder, Enter
  <1>11. ASSUME NEW req \in ModifyInput, modifyOrder(req) PROVE IInv'
    <2>1. req.price \in Price /\ req.quantity \in Quantity /\ req.timestamp \in Timestamp
      BY InputAssumption DEF ModifyRequest
    <2>2. CASE req.order_id \in DOMAIN book.index
      <3>1. Good(book') /\ book'.incoming \in Order
        BY <1>1, <1>11, <2>1, <2>2, ModifyGood DEF modifyOrder
      <3> QED BY <1>1, <1>3, <1>11, <2>2, <3>1 DEF IInv, modifyOrder
    <2>3. CASE req.order_id \notin DOMAIN book.index
      BY <1>1, <1>11, <2>3 DEF IInv, modifyOrder, Enter
    <2> QED BY <2>2, <2>3
  <1>12. ASSUME Return PROVE IInv'
    <2>1. Renewed(book, book.incoming, <<>>, <<>>, book')
      <3>1. <<>> \in Seq(Fill) /\ <<>> \in Seq(ExecutionReport)
        OBVIOUS
      <3>2. book' = [book EXCEPT !.incoming = book.incoming, !.fills = <<>>, !.reports = <<>>]
        BY <1>1, <1>12 DEF Return, BookTyped
      <3> QED BY <1>4, <3>1, <3>2 DEF Renewed
    <2>2. Good(book') /\ book'.incoming = book.incoming
      BY <1>1, <2>1, ResultGood
    <2> QED BY <1>1, <1>12, <2>2 DEF IInv, Return
  <1>13. ASSUME UNCHANGED vars PROVE IInv'
    BY <1>13 DEF IInv, vars
  <1> QED BY <1>5, <1>6, <1>7, <1>8, <1>9, <1>10, <1>11, <1>12, <1>13 DEF Next

\* The inductive invariant holds in every reachable state.
THEOREM Inductive == Spec => []IInv
  <1>1. Init => IInv
    BY InitGood
  <1>2. IInv /\ [Next]_vars => IInv'
    BY NextKeepsIInv
  <1> QED BY <1>1, <1>2, PTL DEF Spec

\* The types are right in every reachable state of a book, whatever orders,
\* cancels and modifies its callers send.
THEOREM TypeCorrect == Spec => []TypeOK
  <1>1. IInv => TypeOK
    BY IInvImplies
  <1> QED BY <1>1, Inductive, PTL

\* No iterator in order_index_ ever dangles, even when callers repeat order ids:
\* cancelOrder and modifyOrder never touch freed memory.
THEOREM MemorySafe == Spec => []IndexSound
  <1>1. IInv => IndexSound
    BY IInvImplies
  <1> QED BY <1>1, Inductive, PTL

\* Every bid in the book is below every ask, in every reachable state.
THEOREM NeverCrossed == Spec => []NotCrossed
  <1>1. IInv => NotCrossed
    BY IInvImplies
  <1> QED BY <1>1, Inductive, PTL

\* No list holds a dead, misplaced or exhausted order, and no level is empty.
THEOREM LevelsAlwaysWellFormed == Spec => []LevelsWellFormed
  <1>1. IInv => LevelsWellFormed
    BY IInvImplies
  <1> QED BY <1>1, Inductive, PTL
-----------------------------------------------------------------------------
(* What a call trades adds up. *)

\* What TradesConserved says of a book that is being matched.
Conserved(b) ==
    /\ \E total \in [0..Len(b.fills) -> Quantity] :
          /\ RunningTotal(total, b.fills)
          /\ total[Len(b.fills)] = b.incoming.quantity - b.incoming.remaining_quantity
    /\ Len(b.reports) = 2 * Len(b.fills)
    /\ \A k \in DOMAIN b.fills :
          /\ b.reports[2*k - 1].order_id = b.fills[k].buy_order_id
          /\ b.reports[2*k].order_id = b.fills[k].sell_order_id
          /\ b.reports[2*k - 1].last_qty = b.fills[k].quantity
          /\ b.reports[2*k].last_qty = b.fills[k].quantity

\* A call starts with an empty result: TradesConserved alone would not survive
\* the next call.
CallInv == (pc = "idle" => book.fills = <<>> /\ book.reports = <<>>) /\ TradesConserved

\* A call that starts to match has traded nothing.
LEMMA FreshConserved ==
  ASSUME NEW b, b.fills = <<>>, b.reports = <<>>, b.incoming \in Order,
         b.incoming.remaining_quantity = b.incoming.quantity
  PROVE  Conserved(b)
  <1>1. b.incoming.quantity \in Nat /\ 0 \in Quantity
    BY BoundsAssumption DEF Order, Quantity
  <1>2. Len(b.fills) = 0 /\ Len(b.reports) = 0 /\ DOMAIN b.fills = {}
    OBVIOUS
  <1> DEFINE z == [k \in 0..0 |-> 0]
  <1>3. z \in [0..Len(b.fills) -> Quantity] /\ z[0] = 0
    BY <1>1, <1>2
  <1>4. RunningTotal(z, b.fills) /\ z[Len(b.fills)] = b.incoming.quantity - b.incoming.remaining_quantity
    BY <1>1, <1>2, <1>3 DEF RunningTotal
  <1> HIDE DEF z
  <1> QED BY <1>2, <1>3, <1>4 DEF Conserved

\* Of w, r are left, and t is what is gone; then q more go.
LEMMA RemainderSum ==
  ASSUME NEW w \in Nat, NEW r \in Nat, NEW q \in Nat, NEW r2 \in Nat, NEW t \in Nat, NEW max \in Nat,
         w <= max, r2 = r - q, t = w - r
  PROVE  w - r2 = t + q /\ w - r2 \in 0..max
  OBVIOUS

\* A trade adds its quantity to the total and one report for each party.
LEMMA TradeConserved ==
  ASSUME NEW b, Good(b), b.incoming \in Order, CanMatch(b), Conserved(b), NEW tid \in Nat,
         NEW c, c = MatchOnce(b, tid)
  PROVE  Conserved(c)
  <1>1. b.fills \in Seq(Fill) /\ b.reports \in Seq(ExecutionReport)
    BY DEF Good, BookTyped
  <1>2. PICK n \in Nat : n = Len(b.fills)
    BY <1>1
  <1>3. PICK q \in Nat : q = MatchQty(b)
    BY PartiesOfTrade, BoundsAssumption DEF Quantity
  <1>4. PICK f : f = FillOf(b, tid)
    OBVIOUS
  <1>5. PICK x, y : x = TradeReport(Buyer(b), MatchQty(b), TradePrice(b)) /\ y = TradeReport(Seller(b), MatchQty(b), TradePrice(b))
    OBVIOUS
  <1>6. /\ c.incoming = IncAfter(b) /\ c.fills = Append(b.fills, f) /\ c.reports = b.reports \o <<x, y>>
    <2>1. ReportsOf(b) = <<x, y>>
      BY <1>5 DEF ReportsOf
    <2>2. /\ c.incoming = IncAfter(b) /\ c.fills = Append(b.fills, FillOf(b, tid))
          /\ c.reports = b.reports \o ReportsOf(b)
      BY MatchShape, ZenonT(60)
    <2> QED BY <1>4, <2>1, <2>2
  <1>7. /\ f.quantity = q /\ f.buy_order_id = x.order_id /\ f.sell_order_id = y.order_id
        /\ x.last_qty = q /\ y.last_qty = q
    BY <1>3, <1>4, <1>5 DEF FillOf, TradeReport
  <1>8. /\ Len(c.fills) = n + 1 /\ DOMAIN c.fills = 1..(n + 1) /\ c.fills[n + 1] = f
        /\ \A k \in 1..n : c.fills[k] = b.fills[k]
    BY <1>1, <1>2, <1>6
  <1>9. Len(b.reports) = 2 * n
    BY <1>2 DEF Conserved
  <1>10. /\ Len(c.reports) = 2 * n + 2 /\ c.reports[2*n + 1] = x /\ c.reports[2*n + 2] = y
         /\ \A k \in 1..(2 * n) : c.reports[k] = b.reports[k]
    <2>1. x \in ExecutionReport /\ y \in ExecutionReport
      BY <1>5, TradeTyped
    <2> DEFINE l == 2 * n
    <2>2. l \in Nat /\ l = Len(b.reports)
      BY <1>2, <1>9
    <2> HIDE DEF l
    <2>3. /\ Len(c.reports) = l + 2 /\ c.reports[l + 1] = x /\ c.reports[l + 2] = y
          /\ \A k \in 1..l : c.reports[k] = b.reports[k]
      BY <1>1, <1>6, <2>1, <2>2, ConcatTwo
    <2> QED BY <2>3 DEF l
  <1>11. PICK r \in Nat, r2 \in Nat, w \in Nat :
            /\ r = b.incoming.remaining_quantity /\ w = b.incoming.quantity /\ w <= MaxQty
            /\ r2 = c.incoming.remaining_quantity /\ w = c.incoming.quantity /\ r2 = r - q
    <2>1. /\ c.incoming \in Order /\ c.incoming.remaining_quantity = b.incoming.remaining_quantity - MatchQty(b)
          /\ c.incoming["quantity"] = b.incoming["quantity"]
      BY <1>6, PartiesOfTrade
    <2>2. /\ b.incoming.remaining_quantity \in Nat /\ b.incoming.quantity \in Nat /\ b.incoming.quantity <= MaxQty
          /\ c.incoming.remaining_quantity \in Nat
      BY <2>1, BoundsAssumption DEF Order, Quantity
    <2> QED BY <1>3, <2>1, <2>2
  <1>12. PICK total \in [0..n -> Quantity] : RunningTotal(total, b.fills) /\ total[n] = w - r
    BY <1>2, <1>11 DEF Conserved
  <1> DEFINE new == [k \in 0..(n + 1) |-> IF k <= n THEN total[k] ELSE w - r2]
  <1>13. total[n] \in Nat /\ w - r2 = total[n] + q /\ w - r2 \in Quantity
    <2>1. total[n] \in Quantity
      BY <1>12
    <2>2. total[n] \in Nat /\ MaxQty \in Nat
      BY <2>1, BoundsAssumption DEF Quantity
    <2>3. PICK t \in Nat : t = total[n]
      BY <2>2
    <2>4. t = w - r
      BY <1>12, <2>3
    <2>5. w - r2 = t + q /\ w - r2 \in 0..MaxQty
      <3>1. r2 = r - q /\ w <= MaxQty
        BY <1>11
      <3> QED BY <2>2, <2>4, <3>1, RemainderSum
    <2> QED BY <2>2, <2>3, <2>5 DEF Quantity
  <1>14. new \in [0..(n + 1) -> Quantity]
    BY <1>12, <1>13
  <1>15. new[0] = total[0] /\ new[n + 1] = w - r2 /\ \A k \in 0..n : new[k] = total[k]
    OBVIOUS
  <1> HIDE DEF new
  <1>16. RunningTotal(new, c.fills)
    <2>1. new[0] = 0
      BY <1>12, <1>15 DEF RunningTotal
    <2>2. ASSUME NEW k \in 1..(n + 1) PROVE new[k] = new[k - 1] + c.fills[k].quantity
      <3>1. CASE k = n + 1
        <4>1. new[k - 1] = total[n] /\ new[k] = w - r2 /\ c.fills[k].quantity = q
          BY <1>7, <1>8, <1>15, <3>1
        <4> QED BY <1>13, <4>1
      <3>2. CASE k # n + 1
        <4>1. k \in 1..n /\ k \in 0..n /\ k - 1 \in 0..n /\ DOMAIN b.fills = 1..n
          BY <1>1, <1>2, <3>2
        <4>2. total[k] = total[k - 1] + b.fills[k].quantity
          BY <1>12, <4>1 DEF RunningTotal
        <4> QED BY <1>8, <1>15, <4>1, <4>2
      <3> QED BY <3>1, <3>2
    <2> QED BY <1>8, <2>1, <2>2 DEF RunningTotal
  <1>17. ASSUME NEW k \in 1..(n + 1)
         PROVE  /\ c.reports[2*k - 1].order_id = c.fills[k].buy_order_id
                /\ c.reports[2*k].order_id = c.fills[k].sell_order_id
                /\ c.reports[2*k - 1].last_qty = c.fills[k].quantity
                /\ c.reports[2*k].last_qty = c.fills[k].quantity
    <2>1. CASE k = n + 1
      <3>1. 2*k - 1 = 2*n + 1 /\ 2*k = 2*n + 2
        BY <2>1
      <3> QED BY <1>7, <1>8, <1>10, <2>1, <3>1
    <2>2. CASE k # n + 1
      <3>1. k \in 1..n /\ 2*k - 1 \in 1..(2*n) /\ 2*k \in 1..(2*n) /\ DOMAIN b.fills = 1..n
        BY <1>1, <1>2, <2>2
      <3>2. /\ b.reports[2*k - 1].order_id = b.fills[k].buy_order_id
            /\ b.reports[2*k].order_id = b.fills[k].sell_order_id
            /\ b.reports[2*k - 1].last_qty = b.fills[k].quantity
            /\ b.reports[2*k].last_qty = b.fills[k].quantity
        BY <3>1 DEF Conserved
      <3> QED BY <1>8, <1>10, <3>1, <3>2
    <2> QED BY <2>1, <2>2
  <1>18. new[Len(c.fills)] = c.incoming.quantity - c.incoming.remaining_quantity
    BY <1>8, <1>11, <1>15
  <1>19. new \in [0..Len(c.fills) -> Quantity] /\ Len(c.reports) = 2 * Len(c.fills)
    BY <1>8, <1>10, <1>14
  <1> QED BY <1>8, <1>16, <1>17, <1>18, <1>19 DEF Conserved

\* Every step keeps CallInv.
LEMMA NextKeepsCallInv ==
  ASSUME IInv, CallInv, [Next]_vars
  PROVE  CallInv'
  <1>0. /\ Good(book) /\ BookTyped(book) /\ counter \in Nat
        /\ (pc = "matching") <=> (book.incoming # NoOrder)
        /\ pc = "matching" => book.incoming \in Order /\ Conserved(book)
        /\ pc = "idle" => book.fills = <<>> /\ book.reports = <<>>
    BY DEF IInv, Good, BookTyped, CallInv, TradesConserved, Conserved
  <1>1. ASSUME pc' = "matching", Conserved(book') PROVE CallInv'
    BY <1>1 DEF CallInv, TradesConserved, Conserved
  <1>2. ASSUME pc' = "done" PROVE CallInv'
    BY <1>2 DEF CallInv, TradesConserved
  <1>3. ASSUME NEW o \in OrderInput, submitOrder(o) PROVE CallInv'
    <2>1. o \in Order /\ o.remaining_quantity = o.quantity
      BY InputAssumption
    <2>2. pc = "idle" /\ pc' = "matching" /\ book' = [book EXCEPT !.incoming = o]
      BY <1>3 DEF submitOrder, Enter
    <2>3. book'.fills = <<>> /\ book'.reports = <<>> /\ book'.incoming = o
      BY <1>0, <2>2 DEF BookTyped
    <2> QED BY <1>1, <2>1, <2>2, <2>3, FreshConserved
  <1>4. ASSUME MatchStep PROVE CallInv'
    <2>1. pc = "matching" /\ pc' = "matching" /\ CanMatch(book) /\ book' = MatchOnce(book, counter)
      BY <1>4 DEF MatchStep
    <2> QED BY <1>0, <1>1, <2>1, TradeConserved
  <1>5. ASSUME NEW req \in ModifyInput, modifyOrder(req) PROVE CallInv'
    <2>1. req \in ModifyRequest
      BY InputAssumption
    <2>2. CASE req.order_id \in DOMAIN book.index
      <3>1. pc = "idle" /\ pc' = "matching" /\ book' = ModifyFound(book, req)
        BY <1>5, <2>2 DEF modifyOrder, Enter
      <3>2. book'.fills = <<>> /\ book'.reports = <<>> /\ book'.incoming = ModifiedOrder(book, req)
        BY <1>0, <2>2, <3>1, ModifyShape
      <3>3. book.heap[book.index[req.order_id].position] \in Order
        BY <1>0, <2>2, EraseShape
      <3>4. book'.incoming \in Order /\ book'.incoming.remaining_quantity = book'.incoming.quantity
        BY <2>1, <3>2, <3>3 DEF ModifiedOrder, Order, ModifyRequest
      <3> QED BY <1>1, <3>1, <3>2, <3>4, FreshConserved
    <2>3. CASE req.order_id \notin DOMAIN book.index
      BY <1>2, <1>5, <2>3 DEF modifyOrder
    <2> QED BY <2>2, <2>3
  <1>6. ASSUME Return PROVE CallInv'
    <2>1. pc' = "idle" /\ book'.fills = <<>> /\ book'.reports = <<>>
      BY <1>0, <1>6 DEF Return, BookTyped
    <2> QED BY <2>1 DEF CallInv, TradesConserved
  <1>7. ASSUME UNCHANGED vars PROVE CallInv'
    BY <1>7 DEF CallInv, TradesConserved, vars
  <1>8. ASSUME FinishFilled \/ FinishExpire \/ (\E n \in Node : FinishRest(n)) \/ (\E id \in OrderId : cancelOrder(id))
        PROVE  CallInv'
    BY <1>2, <1>8 DEF FinishFilled, FinishExpire, FinishRest, cancelOrder
  <1> QED BY <1>3, <1>4, <1>5, <1>6, <1>7, <1>8 DEF Next

\* No trade is created, lost or counted twice by the matching loop: the fills
\* of a call add up to what the incoming order has lost, and each is reported
\* to both parties, whatever orders and requests callers send.
THEOREM FillsAddUp == Spec => []TradesConserved
  <1>1. Init => CallInv
    BY DEF Init, EmptyBook, CallInv, TradesConserved
  <1>2. IInv /\ CallInv /\ [Next]_vars => CallInv'
    BY NextKeepsCallInv
  <1>3. CallInv => TradesConserved
    BY DEF CallInv
  <1> QED BY <1>1, <1>2, <1>3, Inductive, PTL DEF Spec
-----------------------------------------------------------------------------
(* The book behind the risk check: module GatedBook. *)

\* The duplicate check of validate_order makes every id belong to one order,
\* which waits for a worker, is being matched, rests in the book, or is gone.
OneOwner ==
    /\ accepted \subseteq OrderInput
    /\ \A o \in accepted : o.order_id \in seen_order_ids
    /\ \A o1, o2 \in accepted : o1.order_id = o2.order_id => o1 = o2
    /\ \A n \in DOMAIN book.heap :
          /\ book.heap[n].order_id \in seen_order_ids
          /\ \A o \in accepted : o.order_id # book.heap[n].order_id
    /\ pc = "matching" =>
          /\ book.incoming.order_id \in seen_order_ids
          /\ \A o \in accepted : o.order_id # book.incoming.order_id
          /\ \A n \in DOMAIN book.heap : book.heap[n].order_id # book.incoming.order_id

GatedInv == IInv /\ CallInv /\ OneOwner /\ IndexComplete /\ LimitsRespected

\* Behind the risk check the book is still a book: its steps are steps of OrderBook.
LEMMA GatedStepIsStep ==
  ASSUME accepted \subseteq OrderInput, [GatedNext]_gatedVars
  PROVE  [Next]_vars
  <1>1. ASSUME NEW o \in accepted, WorkOrder(o) PROVE Next
    BY <1>1 DEF WorkOrder, Next
  <1>2. ASSUME BookStep \/ Deliver \/ \E n \in Node : RestStep(n) PROVE Next
    BY <1>2 DEF BookStep, Deliver, RestStep, Next
  <1>3. ASSUME \/ \E s \in Symbol : Register(s)
               \/ \E o \in OrderInput : ProcessOrder(o)
               \/ UNCHANGED gatedVars
        PROVE  UNCHANGED vars
    BY <1>3 DEF Register, ProcessOrder, gatedVars
  <1> QED BY <1>1, <1>2, <1>3 DEF GatedNext

\* A node leaves the book with its index entry, the others keep theirs.
LEMMA IndexAfterDrop ==
  ASSUME IndexComplete, NEW n \in DOMAIN book.heap, NEW id, id = book.heap[n].order_id,
         book'.heap = Drop(book.heap, n), book'.index = Drop(book.index, id)
  PROVE  /\ IndexComplete'
         /\ DOMAIN book'.heap = DOMAIN book.heap \ {n}
         /\ \A m \in DOMAIN book'.heap : book'.heap[m] = book.heap[m] /\ book'.heap[m].order_id # id
  <1>2. /\ DOMAIN book'.heap = DOMAIN book.heap \ {n}
        /\ \A m \in DOMAIN book.heap \ {n} : book'.heap[m] = book.heap[m]
    <2>1. /\ DOMAIN Drop(book.heap, n) = DOMAIN book.heap \ {n}
          /\ \A m \in DOMAIN book.heap \ {n} : Drop(book.heap, n)[m] = book.heap[m]
      BY DEF Drop, Restrict
    <2> QED BY <2>1
  <1>3. /\ DOMAIN book'.index = DOMAIN book.index \ {id}
        /\ \A x \in DOMAIN book.index \ {id} : book'.index[x] = book.index[x]
    <2>1. /\ DOMAIN Drop(book.index, id) = DOMAIN book.index \ {id}
          /\ \A x \in DOMAIN book.index \ {id} : Drop(book.index, id)[x] = book.index[x]
      BY DEF Drop, Restrict
    <2> QED BY <2>1
  <1>4. \A m \in DOMAIN book'.heap : book'.heap[m] = book.heap[m] /\ book'.heap[m].order_id # id
    BY <1>2 DEF IndexComplete
  <1> QED BY <1>2, <1>3, <1>4 DEF IndexComplete

\* The reports of a trade respect both limits, the incoming order's when it
\* has one.
LEMMA TradeWithinLimits ==
  ASSUME NEW b, Good(b), b.incoming \in Order, CanMatch(b), b.incoming.type = "Limit"
  PROVE  /\ Buyer(b).side = "Buy" /\ Seller(b).side = "Sell"
         /\ TradePrice(b) <= Buyer(b).price /\ TradePrice(b) >= Seller(b).price
  <1> DEFINE n == FrontNode(b)
  <1>1. /\ b.heap[n] \in Order /\ b.heap[n].side = Opposite(b.incoming.side)
        /\ Crosses(b.incoming, b.heap[n].price)
    BY PartiesOfTrade
  <1>2. \A f \in {"order_id", "symbol", "side", "type", "price", "quantity", "timestamp", "client_id"} :
            IncAfter(b)[f] = b.incoming[f] /\ RestAfter(b)[f] = b.heap[n][f]
    BY PartiesOfTrade
  <1>3. /\ IncAfter(b).side = b.incoming.side /\ IncAfter(b).price = b.incoming.price
        /\ RestAfter(b).side = b.heap[n].side /\ RestAfter(b).price = b.heap[n].price
    BY <1>2
  <1>4. /\ b.incoming.side \in Side /\ b.incoming.price \in Nat /\ b.heap[n].price \in Nat
    BY <1>1, BoundsAssumption DEF Order, Price
  <1> HIDE DEF n
  <1>5. CASE b.incoming.side = "Buy"
    <2>1. Buyer(b) = IncAfter(b) /\ Seller(b) = RestAfter(b) /\ b.heap[n].side = "Sell"
      BY <1>1, <1>3, <1>5 DEF Buyer, Seller, Opposite
    <2>2. b.incoming.price >= b.heap[n].price
      BY <1>1, <1>5 DEF Crosses
    <2> QED BY <1>3, <1>4, <1>5, <2>1, <2>2 DEF TradePrice, ExecPrice
  <1>6. CASE b.incoming.side = "Sell"
    <2>1. Buyer(b) = RestAfter(b) /\ Seller(b) = IncAfter(b) /\ b.heap[n].side = "Buy"
      BY <1>1, <1>3, <1>6 DEF Buyer, Seller, Opposite
    <2>2. b.incoming.price <= b.heap[n].price
      BY <1>1, <1>6 DEF Crosses
    <2> QED BY <1>3, <1>4, <1>6, <2>1, <2>2 DEF TradePrice, ExecPrice
  <1> QED BY <1>4, <1>5, <1>6 DEF Side

\* Every step of the book keeps LimitsRespected.
LEMMA NextKeepsLimits ==
  ASSUME IInv, CallInv, LimitsRespected, [Next]_vars
  PROVE  LimitsRespected'
  <1>0. /\ Good(book) /\ BookTyped(book) /\ counter \in Nat
        /\ pc = "matching" => book.incoming \in Order
        /\ pc = "idle" => book.reports = <<>>
    BY DEF IInv, Good, BookTyped, CallInv
  <1>1. ASSUME pc' # "matching" PROVE LimitsRespected'
    BY <1>1 DEF LimitsRespected
  <1>2. ASSUME book'.reports = <<>> PROVE LimitsRespected'
    BY <1>2 DEF LimitsRespected
  <1>3. ASSUME NEW o \in OrderInput, submitOrder(o) PROVE LimitsRespected'
    <2>1. book'.reports = <<>>
      BY <1>0, <1>3 DEF submitOrder, Enter, BookTyped
    <2> QED BY <1>2, <2>1
  <1>4. ASSUME MatchStep PROVE LimitsRespected'
    <2>1. pc = "matching" /\ CanMatch(book) /\ book' = MatchOnce(book, counter) /\ book.incoming \in Order
      BY <1>0, <1>4 DEF MatchStep
    <2>2. PICK x, y : x = TradeReport(Buyer(book), MatchQty(book), TradePrice(book))
                      /\ y = TradeReport(Seller(book), MatchQty(book), TradePrice(book))
      OBVIOUS
    <2>3. book'.incoming = IncAfter(book) /\ book'.reports = book.reports \o ReportsOf(book)
      BY <1>0, <2>1, MatchShape
    <2>4. book'.reports = book.reports \o <<x, y>>
      BY <2>2, <2>3 DEF ReportsOf
    <2>5. book'.incoming["type"] = book.incoming["type"]
      BY <1>0, <2>1, <2>3, PartiesOfTrade
    <2>6. CASE book.incoming.type = "Limit"
      <3>1. /\ Buyer(book).side = "Buy" /\ Seller(book).side = "Sell"
            /\ TradePrice(book) <= Buyer(book).price /\ TradePrice(book) >= Seller(book).price
        BY <1>0, <2>1, <2>6, TradeWithinLimits
      <3>2. x.side = "Buy" /\ x.last_px <= x.price /\ y.side = "Sell" /\ y.last_px >= y.price
        BY <2>2, <3>1 DEF TradeReport
      <3>3. PICK l \in Nat : l = Len(book.reports)
        BY <1>0 DEF BookTyped
      <3>4. /\ Len(book'.reports) = l + 2 /\ book'.reports[l + 1] = x /\ book'.reports[l + 2] = y
            /\ \A k \in 1..l : book'.reports[k] = book.reports[k]
            /\ book'.reports \in Seq(ExecutionReport)
        <4>1. x \in ExecutionReport /\ y \in ExecutionReport
          BY <1>0, <2>1, <2>2, TradeTyped
        <4>2. book.reports \in Seq(ExecutionReport)
          BY <1>0 DEF BookTyped
        <4> QED BY <2>4, <3>3, <4>1, <4>2, ConcatTwo
      <3>5. DOMAIN book'.reports = 1..(l + 2) /\ DOMAIN book.reports = 1..l
        BY <1>0, <3>3, <3>4 DEF BookTyped
      <3>6. \A k \in 1..(l + 2) : k \in 1..l \/ k = l + 1 \/ k = l + 2
        BY <3>3
      <3> SUFFICES ASSUME NEW k \in 1..(l + 2), book'.reports[k].last_qty > 0
                   PROVE  IF book'.reports[k].side = "Buy" THEN book'.reports[k].last_px <= book'.reports[k].price
                          ELSE book'.reports[k].last_px >= book'.reports[k].price
        BY <3>5 DEF LimitsRespected
      <3>7. CASE k \in 1..l
        BY <2>1, <2>6, <3>4, <3>5, <3>7 DEF LimitsRespected
      <3>8. CASE k = l + 1
        BY <3>2, <3>4, <3>8
      <3>9. CASE k = l + 2
        BY <3>2, <3>4, <3>9
      <3> QED BY <3>6, <3>7, <3>8, <3>9
    <2>7. CASE book.incoming.type # "Limit"
      BY <2>5, <2>7 DEF LimitsRespected
    <2> QED BY <2>6, <2>7
  <1>5. ASSUME NEW req \in ModifyInput, modifyOrder(req) PROVE LimitsRespected'
    <2>1. CASE req.order_id \in DOMAIN book.index
      <3>1. pc = "idle" /\ book' = ModifyFound(book, req)
        BY <1>5, <2>1 DEF modifyOrder, Enter
      <3>2. book'.reports = <<>>
        BY <1>0, <2>1, <3>1, ModifyShape
      <3> QED BY <1>2, <3>2
    <2>2. CASE req.order_id \notin DOMAIN book.index
      BY <1>1, <1>5, <2>2 DEF modifyOrder
    <2> QED BY <2>1, <2>2
  <1>6. ASSUME FinishFilled \/ FinishExpire \/ (\E n \in Node : FinishRest(n)) \/ (\E id \in OrderId : cancelOrder(id))
               \/ Return
        PROVE  LimitsRespected'
    BY <1>1, <1>6 DEF FinishFilled, FinishExpire, FinishRest, cancelOrder, Return
  <1>7. ASSUME UNCHANGED vars PROVE LimitsRespected'
    BY <1>7 DEF LimitsRespected, vars
  <1> QED BY <1>3, <1>4, <1>5, <1>6, <1>7 DEF Next

\* Every step keeps the ids apart and the index complete.
LEMMA GatedStepKeeps ==
  ASSUME IInv, CallInv, OneOwner, IndexComplete, [GatedNext]_gatedVars
  PROVE  OneOwner' /\ IndexComplete'
  <1>0. /\ Good(book) /\ BookTyped(book) /\ counter \in Nat
        /\ pc = "matching" => book.incoming \in Order
        /\ IsMap(book.heap, Node, Order) /\ IsMap(book.index, OrderId, OrderIndexEntry)
    BY DEF IInv, Good, BookTyped, Struct, ListsTyped
  \* Steps that leave the lists and the index alone.
  <1>1. ASSUME book'.heap = book.heap, book'.index = book.index
        PROVE  IndexComplete'
    BY <1>1 DEF IndexComplete
  <1>2. ASSUME UNCHANGED <<accepted, seen_order_ids>>, book'.heap = book.heap, book'.index = book.index,
               pc' # "matching"
        PROVE  OneOwner' /\ IndexComplete'
    BY <1>1, <1>2 DEF OneOwner
  <1>3. ASSUME NEW s \in Symbol, Register(s) PROVE OneOwner' /\ IndexComplete'
    BY <1>1, <1>3 DEF Register, register_symbol, vars, OneOwner
  <1>4. ASSUME NEW o \in OrderInput, ProcessOrder(o) PROVE OneOwner' /\ IndexComplete'
    <2>1. UNCHANGED <<book, pc>>
      BY <1>4 DEF ProcessOrder, vars
    <2>2. CASE Verdict(o) = "Accepted"
      <3>1. accepted' = accepted \cup {o} /\ seen_order_ids' = seen_order_ids \cup {o.order_id}
        BY <1>4, <2>2 DEF ProcessOrder, validate_order
      <3>2. o.order_id \notin seen_order_ids
        BY <2>2 DEF Verdict
      <3> QED BY <1>1, <2>1, <3>1, <3>2 DEF OneOwner
    <2>3. CASE Verdict(o) # "Accepted"
      <3>1. UNCHANGED <<accepted, seen_order_ids>>
        BY <1>4, <2>3 DEF ProcessOrder, validate_order
      <3> QED BY <1>1, <2>1, <3>1 DEF OneOwner
    <2> QED BY <2>2, <2>3
  <1>5. ASSUME NEW o \in accepted, WorkOrder(o) PROVE OneOwner' /\ IndexComplete'
    <2>1. accepted' = accepted \ {o} /\ UNCHANGED seen_order_ids /\ book' = [book EXCEPT !.incoming = o]
      BY <1>5 DEF WorkOrder, submitOrder, riskVars
    <2>2. book'.heap = book.heap /\ book'.index = book.index /\ book'.incoming = o
      BY <1>0, <2>1 DEF BookTyped
    <2> QED BY <1>1, <2>1, <2>2 DEF OneOwner
  \* A node is unlinked; its order is gone or becomes the incoming order.
  <1>6. ASSUME NEW n \in DOMAIN book.heap, NEW id, id = book.heap[n].order_id,
               book'.heap = Drop(book.heap, n), book'.index = Drop(book.index, id),
               UNCHANGED <<accepted, seen_order_ids>>,
               pc' = "matching" => \/ pc = "matching" /\ book'.incoming.order_id = book.incoming.order_id
                                   \/ book'.incoming.order_id = id
        PROVE  OneOwner' /\ IndexComplete'
    <2>1. /\ IndexComplete' /\ DOMAIN book'.heap = DOMAIN book.heap \ {n}
          /\ \A m \in DOMAIN book'.heap : book'.heap[m] = book.heap[m] /\ book'.heap[m].order_id # id
      BY <1>6, IndexAfterDrop
    <2> QED BY <1>6, <2>1 DEF OneOwner
  <1>7. ASSUME NEW id \in OrderId, cancelOrder(id), UNCHANGED <<accepted, seen_order_ids>>
        PROVE  OneOwner' /\ IndexComplete'
    <2>1. pc' = "done"
      BY <1>7 DEF cancelOrder
    <2>2. CASE id \in DOMAIN book.index
      <3>1. book' = CancelFound(book, id)
        BY <1>7, <2>2 DEF cancelOrder
      <3>2. PICK n : n = book.index[id].position
        OBVIOUS
      <3>3. n \in DOMAIN book.heap /\ book.heap[n].order_id = id
        BY <1>0, <2>2, <3>2, EraseShape
      <3>4. book'.heap = Drop(book.heap, n) /\ book'.index = Drop(book.index, id)
        BY <1>0, <2>2, <3>1, <3>2, CancelShape
      <3> QED BY <1>6, <1>7, <2>1, <3>3, <3>4
    <2>3. CASE id \notin DOMAIN book.index
      <3>1. book' = book
        BY <1>7, <2>3 DEF cancelOrder
      <3> QED BY <1>2, <1>7, <2>1, <3>1
    <2> QED BY <2>2, <2>3
  <1>8. ASSUME NEW req \in ModifyInput, modifyOrder(req), UNCHANGED <<accepted, seen_order_ids>>
        PROVE  OneOwner' /\ IndexComplete'
    <2>1. CASE req.order_id \in DOMAIN book.index
      <3>1. book' = ModifyFound(book, req)
        BY <1>8, <2>1 DEF modifyOrder
      <3>2. PICK n, id : id = req.order_id /\ n = book.index[id].position
        OBVIOUS
      <3>3. n \in DOMAIN book.heap /\ book.heap[n].order_id = id /\ book.heap[n] \in Order
        BY <1>0, <2>1, <3>2, EraseShape
      <3>4. /\ book'.heap = Drop(book.heap, n) /\ book'.index = Drop(book.index, id)
            /\ book'.incoming = ModifiedOrder(book, req)
        BY <1>0, <2>1, <3>1, <3>2, ModifyShape
      <3>5. book'.incoming.order_id = id
        BY <3>2, <3>3, <3>4 DEF ModifiedOrder, Order
      <3> QED BY <1>6, <1>8, <3>3, <3>4, <3>5
    <2>2. CASE req.order_id \notin DOMAIN book.index
      <3>1. book' = book /\ pc' = "done"
        BY <1>8, <2>2 DEF modifyOrder
      <3> QED BY <1>2, <1>8, <3>1
    <2> QED BY <2>1, <2>2
  <1>9. ASSUME MatchStep, UNCHANGED <<accepted, seen_order_ids>>
        PROVE  OneOwner' /\ IndexComplete'
    <2>1. /\ pc = "matching" /\ pc' = pc /\ CanMatch(book) /\ book' = MatchOnce(book, counter)
          /\ book.incoming \in Order
      BY <1>0, <1>9 DEF MatchStep
    <2>2. PICK n : n = FrontNode(book)
      OBVIOUS
    <2>3. /\ n \in DOMAIN book.heap /\ RestAfter(book)["order_id"] = book.heap[n]["order_id"]
          /\ IncAfter(book)["order_id"] = book.incoming["order_id"]
      BY <1>0, <2>1, <2>2, PartiesOfTrade
    <2>4. /\ book'.incoming = IncAfter(book)
          /\ RestAfter(book).remaining_quantity = 0 =>
                book'.heap = Drop(book.heap, n) /\ book'.index = Drop(book.index, book.heap[n].order_id)
          /\ RestAfter(book).remaining_quantity # 0 =>
                book'.heap = [book.heap EXCEPT ![n] = RestAfter(book)] /\ book'.index = book.index
      BY <1>0, <2>1, <2>2, MatchShape
    <2>5. book'.incoming.order_id = book.incoming.order_id /\ RestAfter(book).order_id = book.heap[n].order_id
      BY <2>3, <2>4
    <2>6. CASE RestAfter(book).remaining_quantity = 0
      BY <1>6, <1>9, <2>1, <2>3, <2>4, <2>5, <2>6
    <2>7. CASE RestAfter(book).remaining_quantity # 0
      <3>1. book'.index = book.index /\ book'.heap = [book.heap EXCEPT ![n] = RestAfter(book)]
        BY <2>4, <2>7
      <3>2. /\ DOMAIN book'.heap = DOMAIN book.heap
            /\ \A m \in DOMAIN book.heap : book'.heap[m].order_id = book.heap[m].order_id
        BY <2>3, <2>5, <3>1
      <3>3. IndexComplete'
        BY <3>1, <3>2 DEF IndexComplete
      <3> QED BY <1>9, <2>1, <2>5, <3>2, <3>3 DEF OneOwner
    <2> QED BY <2>6, <2>7
  <1>10. ASSUME NEW n \in Node, RestStep(n) PROVE OneOwner' /\ IndexComplete'
    <2>1. /\ pc = "matching" /\ pc' = "done" /\ n \notin DOMAIN book.heap /\ book' = Rest(book, n)
          /\ UNCHANGED <<accepted, seen_order_ids>> /\ book.incoming \in Order
      BY <1>0, <1>10 DEF RestStep, FinishRest, riskVars
    <2>2. PICK o, e : o = book.incoming /\ e = [side |-> o.side, price_level |-> o.price, position |-> n]
      OBVIOUS
    <2>3. book'.heap = Put(book.heap, n, o) /\ book'.index = Put(book.index, o.order_id, e)
      BY <1>0, <2>1, <2>2, RestShape
    <2>4. o \in Order /\ o.order_id \in OrderId /\ e \in OrderIndexEntry /\ e.position = n
      BY <2>1, <2>2 DEF Order, OrderIndexEntry
    <2>5. /\ DOMAIN book'.heap = DOMAIN book.heap \cup {n} /\ book'.heap[n] = o
          /\ \A m \in DOMAIN book.heap : book'.heap[m] = book.heap[m]
      BY <2>1, <2>3 DEF Put
    <2>6. /\ DOMAIN book'.index = DOMAIN book.index \cup {o.order_id} /\ book'.index[o.order_id] = e
          /\ \A x \in DOMAIN book.index \ {o.order_id} : book'.index[x] = book.index[x]
      BY <2>3 DEF Put
    <2>7. IndexComplete'
      BY <2>1, <2>2, <2>4, <2>5, <2>6 DEF IndexComplete, OneOwner
    <2> QED BY <2>1, <2>2, <2>5, <2>7 DEF OneOwner
  <1>11. ASSUME FinishFilled \/ FinishExpire \/ Return, UNCHANGED <<accepted, seen_order_ids>>
         PROVE  OneOwner' /\ IndexComplete'
    <2>1. book'.heap = book.heap /\ book'.index = book.index /\ pc' # "matching"
      BY <1>0, <1>11 DEF FinishFilled, FinishExpire, Expire, Return, BookTyped
    <2> QED BY <1>2, <1>11, <2>1
  <1>12. ASSUME UNCHANGED gatedVars PROVE OneOwner' /\ IndexComplete'
    BY <1>12 DEF gatedVars, vars, riskVars, OneOwner, IndexComplete
  <1>13. ASSUME BookStep \/ Deliver PROVE OneOwner' /\ IndexComplete'
    <2>1. UNCHANGED <<accepted, seen_order_ids>>
      BY <1>13 DEF BookStep, Deliver, riskVars
    <2> QED BY <1>7, <1>8, <1>9, <1>11, <1>13, <2>1 DEF BookStep, Deliver
  <1> QED BY <1>3, <1>4, <1>5, <1>10, <1>12, <1>13 DEF GatedNext

\* The invariant of the gated book is inductive.
THEOREM GatedInvariant == GatedSpec => []GatedInv
  <1>1. GatedInit => GatedInv
    <2> SUFFICES ASSUME GatedInit PROVE GatedInv
      OBVIOUS
    <2>1. IInv
      BY InitGood DEF GatedInit
    <2>2. book.heap = EmptyMap /\ book.fills = <<>> /\ book.reports = <<>> /\ pc = "idle" /\ accepted = {}
      BY DEF GatedInit, Init, EmptyBook
    <2>3. DOMAIN book.heap = {}
      BY <2>2 DEF EmptyMap
    <2> QED BY <2>1, <2>2, <2>3 DEF GatedInv, CallInv, TradesConserved, OneOwner, IndexComplete, LimitsRespected
  <1>2. GatedInv /\ [GatedNext]_gatedVars => GatedInv'
    <2> SUFFICES ASSUME GatedInv, [GatedNext]_gatedVars PROVE GatedInv'
      OBVIOUS
    <2>1. [Next]_vars
      BY GatedStepIsStep DEF GatedInv, OneOwner
    <2>2. IInv' /\ CallInv'
      BY <2>1, NextKeepsIInv, NextKeepsCallInv DEF GatedInv
    <2>3. LimitsRespected'
      BY <2>1, NextKeepsLimits DEF GatedInv
    <2>4. OneOwner' /\ IndexComplete'
      BY GatedStepKeeps DEF GatedInv
    <2> QED BY <2>2, <2>3, <2>4 DEF GatedInv
  <1> QED BY <1>1, <1>2, PTL DEF GatedSpec

\* Every order in the book can be found through order_index_: with the
\* duplicate check in front no order becomes impossible to cancel or modify.
THEOREM EveryOrderIndexed == GatedSpec => []IndexComplete
  <1>1. GatedInv => IndexComplete
    BY DEF GatedInv
  <1> QED BY <1>1, GatedInvariant, PTL

\* Two limit orders never trade beyond either limit, also after a modify that
\* nobody checked.
THEOREM TradesWithinLimits == GatedSpec => []LimitsRespected
  <1>1. GatedInv => LimitsRespected
    BY DEF GatedInv
  <1> QED BY <1>1, GatedInvariant, PTL
-----------------------------------------------------------------------------
(* The history of arrivals, and what it says of the lists. *)

\* The nodes of every list stand in it in the order they stand in the history a.
InOrderOf(O, a) ==
    \A s \in Side : \A p \in DOMAIN O[s] : \A k, l \in 1..Len(O[s][p]) :
        k < l => \A i, j \in 1..Len(a) : a[i] = O[s][p][k] /\ a[j] = O[s][p][l] => i < j

\* The history a holds each node of the heap H once.
Lists(a, H) ==
    /\ a \in Seq(Node)
    /\ \A i, j \in 1..Len(a) : a[i] = a[j] => i = j
    /\ \A i \in 1..Len(a) : a[i] \in DOMAIN H
    /\ \A n \in DOMAIN H : \E i \in 1..Len(a) : a[i] = n

\* The history holds the live nodes, and every list is in its order: what ties
\* first-in-first-out lists to the arrival of orders.
TimeInv == Lists(arrival, book.heap) /\ InOrderOf(book.orders, arrival)

\* A list without one of its elements keeps the others in order.
LEMMA ErasedInOrder ==
  ASSUME NEW O, NEW H, NEW X, Struct(O, H, X), NEW s, NEW p, NEW k, NEW q, NEW O2, NEW H2, NEW X2,
         Erased(O, H, X, s, p, k, q, O2, H2, X2), NEW a, InOrderOf(O, a)
  PROVE  InOrderOf(O2, a)
  <1>1. /\ s \in Side /\ p \in DOMAIN O[s] /\ k \in 1..Len(O[s][p])
        /\ q \in Seq(Node) /\ Len(q) = Len(O[s][p]) - 1
        /\ \A j \in 1..Len(q) : q[j] = O[s][p][IF j < k THEN j ELSE j + 1]
        /\ O2 = [O EXCEPT ![s] = SetLevel(O[s], p, q)]
    BY DEF Erased
  <1>2. IsMap(O[s], Price, Seq(Node)) /\ O[s][p] \in Seq(Node)
    BY <1>1 DEF Struct, ListsTyped, IsMap
  <1> DEFINE L == SetLevel(O[s], p, q)
  <1>3. /\ DOMAIN L = IF q = <<>> THEN DOMAIN O[s] \ {p} ELSE DOMAIN O[s]
        /\ q # <<>> => L[p] = q
        /\ \A y \in DOMAIN O[s] \ {p} : L[y] = O[s][y]
    <2>1. p \in DOMAIN O[s] /\ q \in Seq(Node)
      BY <1>1
    <2>2. CASE q = <<>>
      BY <2>1, <2>2 DEF SetLevel, Drop, Restrict
    <2>3. CASE q # <<>>
      BY <1>2, <2>1, <2>3 DEF SetLevel, IsMap
    <2> QED BY <2>2, <2>3
  <1>4. O2[s] = L /\ \A t \in Side \ {s} : O2[t] = O[t]
    BY <1>1 DEF Struct, ListsTyped
  <1> HIDE DEF L
  <1> SUFFICES ASSUME NEW t \in Side, NEW y \in DOMAIN O2[t], NEW c \in 1..Len(O2[t][y]), NEW d \in 1..Len(O2[t][y]), c < d,
                      NEW i \in 1..Len(a), NEW j \in 1..Len(a), a[i] = O2[t][y][c], a[j] = O2[t][y][d]
               PROVE  i < j
    BY DEF InOrderOf
  <1>5. CASE t = s /\ y = p
    <2>1. O2[t][y] = q
      BY <1>3, <1>4, <1>5
    <2>2. PICK c2, d2 \in 1..Len(O[s][p]) : c2 < d2 /\ q[c] = O[s][p][c2] /\ q[d] = O[s][p][d2]
      <3> DEFINE c1 == IF c < k THEN c ELSE c + 1
                 d1 == IF d < k THEN d ELSE d + 1
      <3>1. c \in 1..Len(q) /\ d \in 1..Len(q) /\ Len(O[s][p]) \in Nat /\ Len(q) \in Nat /\ k \in Nat
        BY <1>1, <1>2, <2>1
      <3>2. c1 \in 1..Len(O[s][p]) /\ d1 \in 1..Len(O[s][p]) /\ c1 < d1
        <4>1. PICK N \in Nat, M \in Nat : N = Len(O[s][p]) /\ M = Len(q)
          BY <3>1
        <4>2. c \in 1..M /\ d \in 1..M /\ c < d /\ M = N - 1 /\ k \in Nat
          BY <1>1, <3>1, <4>1
        <4>3. c1 \in 1..N /\ d1 \in 1..N /\ c1 < d1
          BY <4>2
        <4> QED BY <4>1, <4>3
      <3>3. q[c] = O[s][p][c1] /\ q[d] = O[s][p][d1]
        BY <1>1, <3>1
      <3> HIDE DEF c1, d1
      <3> QED BY <3>2, <3>3
    <2>3. a[i] = O[s][p][c2] /\ a[j] = O[s][p][d2]
      BY <2>1, <2>2
    <2>4. \A x, z \in 1..Len(a) : a[x] = O[s][p][c2] /\ a[z] = O[s][p][d2] => x < z
      <3>1. \A x, z \in 1..Len(O[s][p]) : x < z =>
                \A u, v \in 1..Len(a) : a[u] = O[s][p][x] /\ a[v] = O[s][p][z] => u < v
        BY <1>1, Zenon DEF InOrderOf
      <3> QED BY <2>2, <3>1
    <2> QED BY <2>3, <2>4
  <1>6. CASE ~(t = s /\ y = p)
    <2>1. y \in DOMAIN O[t] /\ O2[t][y] = O[t][y]
      BY <1>3, <1>4, <1>6
    <2> QED BY <2>1 DEF InOrderOf
  <1> QED BY <1>5, <1>6

\* A history without a node that is gone keeps the order of the others.
LEMMA DroppedInOrder ==
  ASSUME NEW O, NEW a, InOrderOf(O, a), a \in Seq(Node), NEW i \in 1..Len(a), NEW a2, a2 = RemoveAt(a, i)
  PROVE  InOrderOf(O, a2)
  <1>1. /\ Len(a2) = Len(a) - 1 /\ Len(a) \in Nat /\ i \in Nat
        /\ \A j \in 1..(Len(a) - 1) : a2[j] = a[IF j < i THEN j ELSE j + 1]
    BY RemoveAtSeq
  <1> SUFFICES ASSUME NEW t \in Side, NEW y \in DOMAIN O[t], NEW c \in 1..Len(O[t][y]), NEW d \in 1..Len(O[t][y]), c < d,
                      NEW x \in 1..Len(a2), NEW z \in 1..Len(a2), a2[x] = O[t][y][c], a2[z] = O[t][y][d]
               PROVE  x < z
    BY DEF InOrderOf
  <1> DEFINE x1 == IF x < i THEN x ELSE x + 1
             z1 == IF z < i THEN z ELSE z + 1
  <1>2. x1 \in 1..Len(a) /\ z1 \in 1..Len(a) /\ a2[x] = a[x1] /\ a2[z] = a[z1] /\ (x1 < z1 => x < z)
    <2>1. x \in 1..(Len(a) - 1) /\ z \in 1..(Len(a) - 1)
      BY <1>1
    <2>2. x1 \in 1..Len(a) /\ z1 \in 1..Len(a) /\ (x1 < z1 => x < z)
      BY <1>1, <2>1
    <2>3. a2[x] = a[x1] /\ a2[z] = a[z1]
      BY <1>1, <2>1
    <2> QED BY <2>2, <2>3
  <1> HIDE DEF x1, z1
  <1>3. x1 < z1
    BY <1>2 DEF InOrderOf
  <1> QED BY <1>2, <1>3

\* A node that joins a list and the history at their ends is last in both.
LEMMA PushedInOrder ==
  ASSUME NEW O, NEW H, NEW X, Struct(O, H, X), NEW o, NEW n, NEW q, NEW O2, NEW H2, NEW X2,
         Pushed(O, H, X, o, n, q, O2, H2, X2), NEW a, InOrderOf(O, a), Lists(a, H)
  PROVE  InOrderOf(O2, Append(a, n)) /\ Lists(Append(a, n), H2)
  <1>1. /\ o \in Order /\ n \in Node /\ n \notin DOMAIN H
        /\ q = IF o.price \in DOMAIN O[o.side] THEN O[o.side][o.price] ELSE <<>>
        /\ O2 = [O EXCEPT ![o.side] = Put(O[o.side], o.price, Append(q, n))]
        /\ H2 = Put(H, n, o)
    BY DEF Pushed
  <1> DEFINE s == o.side
             p == o.price
             L == Put(O[s], p, Append(q, n))
             b == Append(a, n)
             N == Len(a)
  <1>2. s \in Side /\ p \in Price /\ IsMap(O[s], Price, Seq(Node))
    BY <1>1 DEF Order, Struct, ListsTyped
  <1>3. q \in Seq(Node) /\ Len(q) \in Nat /\ Append(q, n) \in Seq(Node)
    BY <1>1, <1>2 DEF IsMap
  <1>4. /\ DOMAIN L = DOMAIN O[s] \cup {p} /\ L[p] = Append(q, n)
        /\ \A y \in DOMAIN O[s] \ {p} : L[y] = O[s][y]
    BY DEF Put
  <1>5. O2[s] = L /\ \A t \in Side \ {s} : O2[t] = O[t]
    BY <1>1, <1>2 DEF Struct, ListsTyped
  <1>6. /\ a \in Seq(Node) /\ N \in Nat /\ b \in Seq(Node) /\ Len(b) = N + 1 /\ b[N + 1] = n
        /\ \A i \in 1..N : b[i] = a[i] /\ b[i] # n
    BY <1>1 DEF Lists
  <1>7. DOMAIN H2 = DOMAIN H \cup {n}
    BY <1>1 DEF Put
  <1> HIDE DEF L, b, N
  <1>8. Lists(b, H2)
    <2>1. \A i \in 1..(N + 1) : i \in 1..N \/ i = N + 1
      BY <1>6
    <2>2. \A i, j \in 1..Len(b) : b[i] = b[j] => i = j
      BY <1>6, <2>1 DEF Lists, N
    <2>3. \A i \in 1..Len(b) : b[i] \in DOMAIN H2
      BY <1>6, <1>7, <2>1 DEF Lists, N
    <2>4. \A m \in DOMAIN H2 : \E i \in 1..Len(b) : b[i] = m
      <3>1. ASSUME NEW m \in DOMAIN H PROVE \E i \in 1..(N + 1) : b[i] = m
        <4>1. PICK i \in 1..N : a[i] = m
          BY DEF Lists, N
        <4> QED BY <1>6, <4>1
      <3>2. N + 1 \in 1..(N + 1)
        BY <1>6
      <3> QED BY <1>6, <1>7, <3>1, <3>2
    <2> QED BY <1>6, <2>2, <2>3, <2>4 DEF Lists
  <1>9. ASSUME NEW t \in Side, NEW y \in DOMAIN O2[t], NEW c \in 1..Len(O2[t][y]), NEW d \in 1..Len(O2[t][y]), c < d,
               NEW i \in 1..(N + 1), NEW j \in 1..(N + 1), b[i] = O2[t][y][c], b[j] = O2[t][y][d]
        PROVE  i < j
    \* Among the old nodes nothing changes.
    <2>1. ASSUME y \in DOMAIN O[t], c \in 1..Len(O[t][y]), d \in 1..Len(O[t][y]),
                 O2[t][y][c] = O[t][y][c], O2[t][y][d] = O[t][y][d]
          PROVE  i < j
      <3>1. O[t][y][c] \in DOMAIN H /\ O[t][y][d] \in DOMAIN H
        BY <2>1 DEF Struct, ListsLive
      <3>2. b[i] # n /\ b[j] # n
        BY <1>1, <1>9, <2>1, <3>1
      <3>3. i \in 1..N /\ j \in 1..N
        BY <1>6, <3>2
      <3> QED BY <1>6, <1>9, <2>1, <3>3 DEF InOrderOf, N
    <2>2. CASE t = s /\ y = p
      <3>1. O2[t][y] = Append(q, n)
        BY <1>4, <1>5, <2>2
      <3>2. c \in 1..Len(q) /\ (d \in 1..Len(q) \/ d = Len(q) + 1)
        BY <1>3, <1>9, <3>1
      <3>3. p \in DOMAIN O[s] /\ q = O[s][p]
        BY <1>1, <3>2
      <3>4. CASE d \in 1..Len(q)
        <4>0. Append(q, n)[c] = q[c] /\ Append(q, n)[d] = q[d]
          BY <1>1, <1>3, <3>2, <3>4
        <4>1. O2[t][y][c] = q[c] /\ O2[t][y][d] = q[d]
          BY <3>1, <4>0
        <4> QED BY <2>1, <2>2, <3>2, <3>3, <3>4, <4>1
      <3>5. CASE d = Len(q) + 1
        <4>0. Append(q, n)[Len(q) + 1] = n /\ Append(q, n)[c] = q[c]
          BY <1>1, <1>3, <3>2
        <4>1. b[j] = n /\ b[i] = q[c]
          BY <1>9, <3>1, <3>5, <4>0
        <4>2. j = N + 1
          <5>1. j \in 1..N \/ j = N + 1
            BY <1>6
          <5> QED BY <1>6, <4>1, <5>1
        <4>3. b[i] = q[c]
          BY <4>1
        <4>4. q[c] \in DOMAIN H
          BY <1>2, <3>2, <3>3 DEF Struct, ListsLive
        <4>5. i # N + 1
          BY <1>1, <1>6, <4>3, <4>4
        <4> QED BY <1>6, <4>2, <4>5
      <3> QED BY <3>2, <3>4, <3>5
    <2>3. CASE ~(t = s /\ y = p)
      <3>1. y \in DOMAIN O[t] /\ O2[t][y] = O[t][y]
        BY <1>4, <1>5, <2>3
      <3> QED BY <1>9, <2>1, <3>1
    <2> QED BY <2>2, <2>3
  <1>10. InOrderOf(O2, b)
    BY <1>6, <1>9 DEF InOrderOf
  <1> QED BY <1>8, <1>10 DEF b

\* The orders of the nodes of history a.
RestIn(a, H) == [i \in DOMAIN a |-> H[a[i]]]

\* The orders of a history are the orders its nodes hold.
LEMMA RestInTyped ==
  ASSUME NEW a, NEW H, Lists(a, H), IsMap(H, Node, Order), NEW R, R = RestIn(a, H)
  PROVE  /\ R \in Seq(Order) /\ Len(R) = Len(a) /\ Len(a) \in Nat
         /\ DOMAIN R = 1..Len(a) /\ DOMAIN a = 1..Len(a)
         /\ \A i \in 1..Len(a) : a[i] \in DOMAIN H /\ R[i] = H[a[i]] /\ R[i] \in Order
  <1>1. a \in Seq(Node) /\ \A i \in 1..Len(a) : a[i] \in DOMAIN H
    BY DEF Lists
  <1>2. \A n \in DOMAIN H : H[n] \in Order
    BY DEF IsMap
  <1>3. DOMAIN a = 1..Len(a) /\ Len(a) \in Nat
    BY <1>1
  <1>4. R = [i \in 1..Len(a) |-> H[a[i]]]
    BY <1>3 DEF RestIn
  <1>5. R \in [1..Len(a) -> Order]
    BY <1>1, <1>2, <1>4
  <1>6. R \in Seq(Order) /\ Len(R) = Len(a)
    BY <1>3, <1>5, SeqDef, LenProperties
  <1> QED BY <1>1, <1>2, <1>3, <1>4, <1>5, <1>6

\* A history and a heap lose the same node.
LEMMA RestInDrop ==
  ASSUME NEW a, NEW H, Lists(a, H), IsMap(H, Node, Order), NEW i \in 1..Len(a), NEW n, n = a[i],
         NEW a2, a2 = RemoveAt(a, i), NEW H2, H2 = Drop(H, n)
  PROVE  Lists(a2, H2) /\ RestIn(a2, H2) = RemoveAt(RestIn(a, H), i)
  <1>1. a \in Seq(Node) /\ n \in DOMAIN H
    BY DEF Lists
  <1>2. /\ a2 \in Seq(Node) /\ Len(a2) = Len(a) - 1 /\ Len(a) \in Nat /\ i \in Nat
        /\ \A j \in 1..(Len(a) - 1) : a2[j] = a[IF j < i THEN j ELSE j + 1]
    <2>1. i \in Nat /\ Len(a) \in Nat
      BY <1>1
    <2>2. /\ RemoveAt(a, i) \in Seq(Node) /\ Len(RemoveAt(a, i)) = Len(a) - 1
          /\ \A j \in 1..(Len(a) - 1) : RemoveAt(a, i)[j] = a[IF j < i THEN j ELSE j + 1]
      BY <1>1, RemoveAtList
    <2> QED BY <2>1, <2>2
  <1>3. IsMap(H2, Node, Order) /\ DOMAIN H2 = DOMAIN H \ {n} /\ \A m \in DOMAIN H2 : H2[m] = H[m]
    BY DEF Drop, Restrict, IsMap
  <1> DEFINE at(j) == IF j < i THEN j ELSE j + 1
  <1>4. \A j \in 1..Len(a2) : at(j) \in 1..Len(a) /\ at(j) # i /\ a2[j] = a[at(j)]
    BY <1>2
  <1>5. \A j, k \in 1..Len(a2) : at(j) = at(k) => j = k
    BY <1>2
  <1>6. \A k \in 1..Len(a) : k # i => \E j \in 1..Len(a2) : at(j) = k
    <2> SUFFICES ASSUME NEW k \in 1..Len(a), k # i PROVE \E j \in 1..Len(a2) : at(j) = k
      OBVIOUS
    <2>1. CASE k < i
      BY <1>2, <2>1
    <2>2. CASE k > i
      <3>1. k - 1 \in 1..Len(a2) /\ at(k - 1) = k
        BY <1>2, <2>2
      <3> QED BY <3>1
    <2> QED BY <1>2, <2>1, <2>2
  <1> HIDE DEF at
  <1>7. \A x, y \in 1..Len(a) : a[x] = a[y] => x = y
    BY DEF Lists
  <1>8. Lists(a2, H2)
    <2>1. \A j, k \in 1..Len(a2) : a2[j] = a2[k] => j = k
      BY <1>4, <1>5, <1>7
    <2>2. \A j \in 1..Len(a2) : a2[j] \in DOMAIN H2
      BY <1>3, <1>4, <1>7 DEF Lists
    <2>3. ASSUME NEW m \in DOMAIN H2 PROVE \E j \in 1..Len(a2) : a2[j] = m
      <3>1. PICK k \in 1..Len(a) : a[k] = m
        BY <1>3 DEF Lists
      <3>2. k # i
        BY <1>3, <3>1
      <3>3. PICK j \in 1..Len(a2) : at(j) = k
        BY <1>6, <3>2
      <3> QED BY <1>4, <3>1, <3>3
    <2> QED BY <1>2, <2>1, <2>2, <2>3 DEF Lists
  <1>9. PICK R, R2, S : R = RestIn(a, H) /\ R2 = RestIn(a2, H2) /\ S = RemoveAt(R, i)
    OBVIOUS
  <1>10. R \in Seq(Order) /\ Len(R) = Len(a) /\ \A k \in 1..Len(a) : R[k] = H[a[k]]
    BY <1>9, RestInTyped
  <1>11. R2 \in Seq(Order) /\ Len(R2) = Len(a2) /\ \A j \in 1..Len(a2) : a2[j] \in DOMAIN H2 /\ R2[j] = H2[a2[j]]
    BY <1>3, <1>8, <1>9, RestInTyped
  <1>12. /\ S \in Seq(Order) /\ Len(S) = Len(R) - 1
         /\ \A j \in 1..(Len(R) - 1) : S[j] = R[IF j < i THEN j ELSE j + 1]
    <2>1. R \in Seq(Order) /\ i \in 1..Len(R)
      BY <1>10
    <2>2. /\ RemoveAt(R, i) \in Seq(Order) /\ Len(RemoveAt(R, i)) = Len(R) - 1
          /\ \A j \in 1..(Len(R) - 1) : RemoveAt(R, i)[j] = R[IF j < i THEN j ELSE j + 1]
      BY <2>1, RemoveAtSeq
    <2> QED BY <1>9, <2>2
  <1>13. \A j \in 1..Len(a2) : S[j] = R[at(j)]
    BY <1>2, <1>10, <1>12 DEF at
  <1>14. \A j \in 1..Len(a2) : R2[j] = S[j]
    BY <1>3, <1>4, <1>10, <1>11, <1>13
  <1>15. R2 = S
    BY <1>2, <1>10, <1>11, <1>12, <1>14, SeqEqual
  <1> QED BY <1>8, <1>9, <1>15

\* An order of the history changes in place.
LEMMA RestInUpdate ==
  ASSUME NEW a, NEW H, Lists(a, H), IsMap(H, Node, Order), NEW i \in 1..Len(a), NEW n, n = a[i],
         NEW r \in Order, NEW H2, H2 = [H EXCEPT ![n] = r]
  PROVE  Lists(a, H2) /\ RestIn(a, H2) = [RestIn(a, H) EXCEPT ![i] = r]
  <1>1. DOMAIN H2 = DOMAIN H /\ n \in DOMAIN H /\ H2[n] = r /\ \A m \in DOMAIN H \ {n} : H2[m] = H[m]
    BY DEF Lists
  <1>2. Lists(a, H2)
    BY <1>1 DEF Lists
  <1>3. /\ DOMAIN a = 1..Len(a)
        /\ \A x, y \in 1..Len(a) : a[x] = a[y] => x = y
        /\ \A x \in 1..Len(a) : a[x] \in DOMAIN H
    BY DEF Lists
  <1>4. \A x \in 1..Len(a) : H2[a[x]] = IF x = i THEN r ELSE H[a[x]]
    BY <1>1, <1>3
  <1>5. RestIn(a, H2) = [x \in 1..Len(a) |-> IF x = i THEN r ELSE H[a[x]]]
    BY <1>3, <1>4 DEF RestIn
  <1>6. RestIn(a, H) = [x \in 1..Len(a) |-> H[a[x]]]
    BY <1>3 DEF RestIn
  <1> QED BY <1>2, <1>5, <1>6

\* A new node brings its order behind all others.
LEMMA RestInPush ==
  ASSUME NEW a, NEW H, Lists(a, H), IsMap(H, Node, Order), NEW n \in Node, n \notin DOMAIN H,
         NEW o \in Order, NEW H2, H2 = Put(H, n, o), Lists(Append(a, n), H2)
  PROVE  RestIn(Append(a, n), H2) = Append(RestIn(a, H), o)
  <1>1. PICK a2, R, R2 : a2 = Append(a, n) /\ R = RestIn(a, H) /\ R2 = RestIn(a2, H2)
    OBVIOUS
  <1>2. a \in Seq(Node) /\ Len(a) \in Nat /\ Len(a2) = Len(a) + 1 /\ a2[Len(a) + 1] = n
        /\ \A i \in 1..Len(a) : a2[i] = a[i]
    BY <1>1 DEF Lists
  <1>3. IsMap(H2, Node, Order) /\ H2[n] = o /\ \A m \in DOMAIN H : H2[m] = H[m]
    BY DEF Put, IsMap
  <1>4. R \in Seq(Order) /\ Len(R) = Len(a) /\ \A k \in 1..Len(a) : a[k] \in DOMAIN H /\ R[k] = H[a[k]]
    BY <1>1, RestInTyped
  <1>5. R2 \in Seq(Order) /\ Len(R2) = Len(a2) /\ \A k \in 1..Len(a2) : R2[k] = H2[a2[k]]
    <2>1. Lists(a2, H2)
      BY <1>1
    <2>2. R2 = RestIn(a2, H2) /\ IsMap(H2, Node, Order)
      BY <1>1, <1>3
    <2> QED BY <2>1, <2>2, RestInTyped
  <1>6. PICK S : S = Append(R, o)
    OBVIOUS
  <1>7. /\ S \in Seq(Order) /\ Len(S) = Len(a) + 1 /\ S[Len(a) + 1] = o
        /\ \A k \in 1..Len(a) : S[k] = R[k]
    BY <1>4, <1>6
  <1>8. \A k \in 1..(Len(a) + 1) : R2[k] = S[k]
    <2> SUFFICES ASSUME NEW k \in 1..(Len(a) + 1) PROVE R2[k] = S[k]
      OBVIOUS
    <2>1. CASE k = Len(a) + 1
      BY <1>2, <1>3, <1>5, <1>7, <2>1
    <2>2. CASE k # Len(a) + 1
      <3>1. k \in 1..Len(a)
        BY <1>2, <2>2
      <3>2. R2[k] = H2[a[k]] /\ S[k] = H[a[k]] /\ a[k] \in DOMAIN H
        BY <1>2, <1>4, <1>5, <1>7, <3>1
      <3> QED BY <1>3, <3>2
    <2> QED BY <2>1, <2>2
  <1>9. R2 = S
    BY <1>2, <1>5, <1>7, <1>8, SeqEqual
  <1> QED BY <1>1, <1>6, <1>9

\* The history of a step that frees no node.
LEMMA HistorySame ==
  ASSUME TimeInv, Track \/ arrival' = arrival, DOMAIN book'.heap = DOMAIN book.heap, book'.orders = book.orders
  PROVE  arrival' = arrival /\ TimeInv'
  <1>1. arrival \in Seq(Node) /\ \A i \in DOMAIN arrival : arrival[i] \in DOMAIN book.heap
    BY DEF TimeInv, Lists
  <1>2. {i \in DOMAIN arrival : arrival[i] \notin DOMAIN book'.heap} = {}
    BY <1>1
  <1>3. arrival' = arrival
    BY <1>2 DEF Track
  <1> QED BY <1>3 DEF TimeInv, Lists, InOrderOf

\* The history of a step that frees one node.
LEMMA HistoryDrop ==
  ASSUME Good(book), TimeInv, Track, NEW n \in DOMAIN book.heap, book'.heap = Drop(book.heap, n),
         InOrderOf(book'.orders, arrival)
  PROVE  /\ TimeInv'
         /\ \E i \in 1..Len(arrival) : /\ arrival[i] = n
                                       /\ RestIn(arrival, book.heap)' = RemoveAt(RestIn(arrival, book.heap), i)
  <1>1. Lists(arrival, book.heap) /\ IsMap(book.heap, Node, Order) /\ arrival \in Seq(Node)
    BY DEF TimeInv, Lists, Good, Struct, ListsTyped
  <1>2. PICK i \in 1..Len(arrival) : arrival[i] = n
    BY <1>1 DEF Lists
  <1>3. DOMAIN book'.heap = DOMAIN book.heap \ {n}
    <2>1. DOMAIN Drop(book.heap, n) = DOMAIN book.heap \ {n}
      BY DEF Drop, Restrict
    <2> QED BY <2>1
  <1>4. {k \in DOMAIN arrival : arrival[k] \notin DOMAIN book'.heap} = {i}
    <2>1. DOMAIN arrival = 1..Len(arrival)
      BY <1>1
    <2>2. /\ \A k \in 1..Len(arrival) : arrival[k] \in DOMAIN book.heap
          /\ \A k, l \in 1..Len(arrival) : arrival[k] = arrival[l] => k = l
      BY <1>1 DEF Lists
    <2>3. \A k \in 1..Len(arrival) : arrival[k] \notin DOMAIN book'.heap <=> k = i
      BY <1>2, <1>3, <2>2
    <2> QED BY <1>2, <2>1, <2>3
  <1>5. arrival' = RemoveAt(arrival, i)
    <2>1. {i} # {} /\ (CHOOSE k \in {i} : TRUE) = i
      OBVIOUS
    <2> QED BY <1>4, <2>1 DEF Track
  <1>6. Lists(arrival', book'.heap) /\ RestIn(arrival', book'.heap) = RemoveAt(RestIn(arrival, book.heap), i)
    BY <1>1, <1>2, <1>5, RestInDrop
  <1>7. InOrderOf(book'.orders, arrival')
    BY <1>1, <1>5, DroppedInOrder
  <1>8. TimeInv'
    BY <1>6, <1>7 DEF TimeInv
  <1>9. RestIn(arrival, book.heap)' = RestIn(arrival', book'.heap)
    OBVIOUS
  <1> QED BY <1>2, <1>6, <1>8, <1>9

-----------------------------------------------------------------------------
(* The book is a price-time book: PriceTimeBook in terms of lists and heap. *)

\* What the refinement puts for resting.
Resting == RestIn(arrival, book.heap)

\* PriceTimeBook's Eligible for orders R and incoming order inc.
EligibleIn(R, inc) == {i \in DOMAIN R : R[i].side = Opposite(inc.side) /\ Crosses(inc, R[i].price)}

\* PriceTimeBook's Precedes.
Served(R, inc, i, j) ==
    \/ R[i].price = R[j].price /\ i < j
    \/ inc.side = "Buy" /\ R[i].price < R[j].price
    \/ inc.side = "Sell" /\ R[i].price > R[j].price

\* The eligible positions, in the terms of this module.
LEMMA EligibleSame == PTB!Eligible = EligibleIn(Resting, book.incoming)
  BY DEF PTB!Eligible, EligibleIn, Resting, RestIn, PTB!Opposite, Opposite, PTB!Crosses, Crosses

\* Who is served first, in the terms of this module.
LEMMA PrecedesSame == \A i, j : PTB!Precedes(i, j) <=> Served(Resting, book.incoming, i, j)
  BY DEF PTB!Precedes, Served, Resting, RestIn

\* The operators of BookOps that PriceTimeBook uses are those of the book.
LEMMA OperatorsSame ==
  /\ \A s, i : PTB!RemoveAt(s, i) = RemoveAt(s, i)
  /\ \A S : PTB!Min(S) = Min(S)
  /\ \A x, y : PTB!ExecPrice(x, y) = ExecPrice(x, y)
  /\ \A o, q, p : PTB!TradeReport(o, q, p) = TradeReport(o, q, p)
  /\ \A o, st : PTB!PlainReport(o, st) = PlainReport(o, st)
  BY DEF PTB!RemoveAt, RemoveAt, PTB!Min, Min, PTB!TradeReport, TradeReport, PTB!PlainReport, PlainReport, PTB!ExecPrice, ExecPrice

\* The parts of a trade step of the price-time book.
LEMMA TradeParts ==
  ASSUME pc = "matching", pc' = pc, NEW i \in PTB!Eligible, i \in DOMAIN arrival,
         book.incoming.remaining_quantity > 0,
         \A j \in PTB!Eligible \ {i} : PTB!Precedes(i, j),
         NEW deal, deal = PTB!Deal(book.incoming, book.heap[arrival[i]]),
         book'.incoming = deal.inc,
         Resting' = PTB!Left(i, deal.rest),
         book'.reports = book.reports \o deal.reports
  PROVE  PTB!Trade
  BY DEF PTB!Trade, Resting, RestIn

\* The quantity of a deal is the one matchOrders computes.
LEMMA DealQuantity ==
  ASSUME NEW o \in Order, NEW r \in Order, NEW q,
         q = IF o.remaining_quantity <= r.remaining_quantity THEN o.remaining_quantity ELSE r.remaining_quantity
  PROVE  PTB!Min({o.remaining_quantity, r.remaining_quantity}) = q
  <1>1. o.remaining_quantity \in Nat /\ r.remaining_quantity \in Nat
    BY BoundsAssumption DEF Order, Quantity
  <1>2. Min({o.remaining_quantity, r.remaining_quantity}) = q
    BY <1>1 DEF Min
  <1> QED BY <1>2, OperatorsSame

\* A live order is linked in the level its own side and price name.
LEMMA LinkedInLevel ==
  ASSUME Good(book), IndexComplete, NEW n \in DOMAIN book.heap,
         NEW s, s = book.heap[n].side, NEW p, p = book.heap[n].price
  PROVE  /\ s \in Side /\ p \in DOMAIN book.orders[s]
         /\ \E k \in 1..Len(book.orders[s][p]) : book.orders[s][p][k] = n
  <1>1. Struct(book.orders, book.heap, book.index)
    BY DEF Good
  <1>2. PICK id, e : id = book.heap[n].order_id /\ e = book.index[id]
    OBVIOUS
  <1>3. id \in DOMAIN book.index /\ e.position = n
    BY <1>2 DEF IndexComplete
  <1>4. e \in OrderIndexEntry
    BY <1>1, <1>2, <1>3 DEF Struct, ListsTyped, IsMap
  <1>5. e.side \in Side /\ e.price_level \in DOMAIN book.orders[e.side]
    BY <1>1, <1>2, <1>3, <1>4 DEF Struct, EntriesValid, OrderIndexEntry
  <1>6. PICK k \in 1..Len(book.orders[e.side][e.price_level]) : book.orders[e.side][e.price_level][k] = n
    <2>1. \E k \in 1..Len(book.orders[book.index[id].side][book.index[id].price_level]) :
             book.orders[book.index[id].side][book.index[id].price_level][k] = book.index[id].position
      BY <1>1, <1>3, Zenon DEF Struct, EntriesValid
    <2> QED BY <1>2, <1>3, <2>1
  <1>7. book.heap[n].side = e.side /\ book.heap[n].price = e.price_level
    <2>1. ListsLive(book.orders, book.heap)
      BY <1>1 DEF Struct
    <2> QED BY <1>5, <1>6, <2>1, LiveAt
  <1> QED BY <1>5, <1>6, <1>7

\* The resting orders are the orders of the live nodes.
LEMMA RestingTyped ==
  ASSUME Good(book), TimeInv
  PROVE  /\ DOMAIN Resting = 1..Len(arrival) /\ Len(arrival) \in Nat
         /\ \A i \in 1..Len(arrival) : /\ arrival[i] \in DOMAIN book.heap
                                       /\ Resting[i] = book.heap[arrival[i]] /\ Resting[i] \in Order
  <1>1. Lists(arrival, book.heap) /\ IsMap(book.heap, Node, Order)
    BY DEF TimeInv, Good, Struct, ListsTyped
  <1>2. PICK R : R = Resting
    OBVIOUS
  <1>3. R = RestIn(arrival, book.heap)
    BY <1>2 DEF Resting
  <1> QED BY <1>1, <1>2, <1>3, RestInTyped

\* The order at the front of the best level, which the loop of
\* submitOrderInternal takes, precedes every other eligible order.
LEMMA FrontServedFirst ==
  ASSUME Good(book), IndexComplete, TimeInv, book.incoming \in Order, CanMatch(book)
  PROVE  \E i \in EligibleIn(Resting, book.incoming) :
            /\ i \in 1..Len(arrival) /\ arrival[i] = FrontNode(book)
            /\ \A j \in EligibleIn(Resting, book.incoming) \ {i} : Served(Resting, book.incoming, i, j)
  <1>0. PICK n, o, R : n = FrontNode(book) /\ o = book.incoming /\ R = Resting
    OBVIOUS
  <1>1. PICK s : s = Opposite(o.side)
    OBVIOUS
  <1>2. PICK p : p = BestPrice(book.orders[s], s)
    OBVIOUS
  <1>3. /\ s \in Side /\ p \in DOMAIN book.orders[s] /\ 1 \in 1..Len(book.orders[s][p])
        /\ n = book.orders[s][p][1] /\ n \in DOMAIN book.heap
    BY <1>0, <1>1, <1>2, FrontFacts
  <1>4. book.heap[n].side = s /\ book.heap[n].price = p /\ Crosses(o, p)
    BY <1>0, <1>1, <1>2, PartiesOfTrade
  <1>5. PICK i \in 1..Len(arrival) : arrival[i] = n
    BY <1>3 DEF TimeInv, Lists
  <1>6. /\ DOMAIN R = 1..Len(arrival) /\ Len(arrival) \in Nat
        /\ \A j \in 1..Len(arrival) : /\ arrival[j] \in DOMAIN book.heap
                                      /\ R[j] = book.heap[arrival[j]] /\ R[j] \in Order
    BY <1>0, RestingTyped
  <1>7. i \in EligibleIn(R, o)
    BY <1>1, <1>4, <1>5, <1>6 DEF EligibleIn
  <1>8. ASSUME NEW j \in EligibleIn(R, o) \ {i} PROVE Served(R, o, i, j)
    <2>1. PICK m, q : m = arrival[j] /\ q = R[j].price
      OBVIOUS
    <2>2. /\ j \in 1..Len(arrival) /\ m \in DOMAIN book.heap /\ R[j] = book.heap[m]
          /\ book.heap[m].side = s /\ book.heap[m].price = q
      BY <1>1, <1>6, <2>1 DEF EligibleIn
    <2>3. q \in DOMAIN book.orders[s] /\ \E k \in 1..Len(book.orders[s][q]) : book.orders[s][q][k] = m
      BY <2>2, LinkedInLevel
    <2>4. DOMAIN book.orders[s] \subseteq Price
      BY <1>3 DEF Good, Struct, ListsTyped, IsMap
    <2>5. /\ s = "Buy" => q <= p
          /\ s = "Sell" => p <= q
      BY <1>2, <1>3, <2>3, <2>4, BestPriceIsBest
    <2>6. R[i].price = p /\ p \in Int /\ q \in Int
      BY <1>3, <1>4, <1>5, <1>6, <2>3, <2>4 DEF Price
    <2>7. CASE p = q
      <3>1. PICK k \in 1..Len(book.orders[s][p]) : book.orders[s][p][k] = m
        BY <2>3, <2>7
      <3>2. m # n
        BY <1>5, <2>1, <2>2 DEF TimeInv, Lists
      <3>3. 1 < k
        BY <1>3, <3>1, <3>2
      <3>4. \A x, y \in 1..Len(book.orders[s][p]) : x < y =>
               \A u, v \in 1..Len(arrival) :
                  arrival[u] = book.orders[s][p][x] /\ arrival[v] = book.orders[s][p][y] => u < v
        BY <1>3, Zenon DEF TimeInv, InOrderOf
      <3>5. i < j
        BY <1>3, <1>5, <2>1, <2>2, <3>1, <3>3, <3>4
      <3> QED BY <2>1, <2>6, <2>7, <3>5 DEF Served
    <2>8. CASE p # q
      <3>1. o.side \in {"Buy", "Sell"}
        BY <1>0 DEF Order, Side
      <3> QED BY <1>1, <2>1, <2>5, <2>6, <2>8, <3>1 DEF Served, Opposite
    <2> QED BY <2>7, <2>8
  <1> QED BY <1>0, <1>5, <1>7, <1>8

\* When the loop is over with a remainder, no eligible order is left.
LEMMA NothingEligible ==
  ASSUME Good(book), IndexComplete, TimeInv, book.incoming \in Order, ~CanMatch(book),
         book.incoming.remaining_quantity > 0
  PROVE  EligibleIn(Resting, book.incoming) = {}
  <1> SUFFICES ASSUME NEW j \in EligibleIn(Resting, book.incoming) PROVE FALSE
    OBVIOUS
  <1>0. PICK o, R : o = book.incoming /\ R = Resting
    OBVIOUS
  <1>1. PICK s : s = Opposite(o.side)
    OBVIOUS
  <1>2. PICK p : p = BestPrice(book.orders[s], s)
    OBVIOUS
  <1>3. /\ DOMAIN R = 1..Len(arrival)
        /\ \A i \in 1..Len(arrival) : arrival[i] \in DOMAIN book.heap /\ R[i] = book.heap[arrival[i]]
    BY <1>0, RestingTyped
  <1>4. PICK m : m = arrival[j]
    OBVIOUS
  <1>5. PICK q : q = R[j].price
    OBVIOUS
  <1>6. /\ m \in DOMAIN book.heap /\ book.heap[m].side = s /\ book.heap[m].price = q /\ Crosses(o, q)
    BY <1>0, <1>1, <1>3, <1>4, <1>5 DEF EligibleIn
  <1>7. s \in Side /\ q \in DOMAIN book.orders[s]
    BY <1>6, LinkedInLevel
  <1>8. DOMAIN book.orders[s] \subseteq Price /\ Price \subseteq Int
    BY <1>7 DEF Good, Struct, ListsTyped, IsMap, Price
  <1>9. /\ p \in DOMAIN book.orders[s]
        /\ s = "Buy" => q <= p
        /\ s = "Sell" => p <= q
    BY <1>2, <1>7, <1>8, BestPriceIsBest
  <1>10. o.side \in {"Buy", "Sell"} /\ o.price \in Int
    BY <1>0 DEF Order, Side, Price
  <1>11. Crosses(o, p)
    <2>1. p \in Int /\ q \in Int
      BY <1>7, <1>8, <1>9
    <2>2. CASE o.side = "Buy"
      <3>1. s = "Sell"
        BY <1>1, <2>2 DEF Opposite
      <3> QED BY <1>6, <1>9, <1>10, <2>1, <2>2, <3>1 DEF Crosses
    <2>3. CASE o.side = "Sell"
      <3>1. s = "Buy"
        BY <1>1, <2>3 DEF Opposite
      <3> QED BY <1>6, <1>9, <1>10, <2>1, <2>3, <3>1 DEF Crosses
    <2> QED BY <1>10, <2>2, <2>3
  <1> QED BY <1>0, <1>1, <1>2, <1>7, <1>11 DEF CanMatch

\* The orders that rest stay the same.
LEMMA SameResting ==
  ASSUME arrival' = arrival, book'.heap = book.heap
  PROVE  Resting' = Resting
  BY DEF Resting, RestIn

\* Steps outside the book leave the price-time book alone.
LEMMA PTStutter ==
  ASSUME UNCHANGED <<book, pc, arrival>>
  PROVE  UNCHANGED PTB!ptVars
  BY DEF PTB!ptVars

\* A worker takes up an accepted order: PriceTimeBook's Accept.
LEMMA StepAccept ==
  ASSUME GatedInv, TimeInv, NEW o \in accepted, WorkOrder(o)
  PROVE  TimeInv' /\ PTB!Accept
  <1>1. BookTyped(book) /\ pc = "idle" /\ pc' = "matching" /\ book' = [book EXCEPT !.incoming = o] /\ arrival' = arrival
    BY DEF GatedInv, IInv, Good, WorkOrder, submitOrder, Enter
  <1>2. book'.heap = book.heap /\ book'.orders = book.orders /\ book'.reports = book.reports /\ book'.incoming = o
    BY <1>1 DEF BookTyped
  <1>3. o \in Order /\ o.remaining_quantity = o.quantity
    BY InputAssumption DEF GatedInv, OneOwner
  <1>4. TimeInv'
    BY <1>1, <1>2, HistorySame
  <1>5. Resting' = Resting
    BY <1>1, <1>2, SameResting
  <1>6. book'.incoming \in PTB!Order
    BY <1>2, <1>3 DEF PTB!Order, Order, PTB!Side, Side, PTB!OrderType, OrderType, PTB!Price, Price, PTB!Quantity, Quantity, PTB!Timestamp, Timestamp
  <1>7. PTB!Accept
    BY <1>1, <1>2, <1>3, <1>5, <1>6 DEF PTB!Accept, PTB!Enters, Resting, RestIn
  <1> QED BY <1>4, <1>7

\* A request for an order that does not rest: Refuse.
LEMMA StepRefuse ==
  ASSUME TimeInv, Track, pc = "idle", pc' = "done", book' = book
  PROVE  TimeInv' /\ PTB!Refuse
  <1>1. arrival' = arrival /\ TimeInv'
    BY HistorySame
  <1>2. Resting' = Resting
    BY <1>1, SameResting
  <1> QED BY <1>1, <1>2 DEF PTB!Refuse, Resting, RestIn

\* The result is handed over: Reply.
LEMMA StepReply ==
  ASSUME GatedInv, TimeInv, Deliver
  PROVE  TimeInv' /\ PTB!Reply
  <1>1. BookTyped(book) /\ pc = "done" /\ pc' = "idle" /\ arrival' = arrival
        /\ book' = [book EXCEPT !.fills = <<>>, !.reports = <<>>]
    BY DEF GatedInv, IInv, Good, Deliver, Return
  <1>2. book'.heap = book.heap /\ book'.orders = book.orders /\ book'.reports = <<>> /\ book'.incoming = book.incoming
    BY <1>1 DEF BookTyped
  <1>4. TimeInv'
    BY <1>1, <1>2, HistorySame
  <1>5. Resting' = Resting
    BY <1>1, <1>2, SameResting
  <1> QED BY <1>1, <1>2, <1>4, <1>5 DEF PTB!Reply, Resting, RestIn

\* The order at the front of the best level trades: the one PTB!Trade demands.
LEMMA StepTrade ==
  ASSUME GatedInv, TimeInv, MatchStep, Track
  PROVE  TimeInv' /\ PTB!Trade
  <1>1. /\ Good(book) /\ IndexComplete /\ counter \in Nat /\ book.incoming \in Order
        /\ pc = "matching" /\ pc' = pc /\ CanMatch(book) /\ book' = MatchOnce(book, counter)
    BY DEF GatedInv, IInv, Good, BookTyped, MatchStep
  <1>2. PICK i \in EligibleIn(Resting, book.incoming) :
            /\ i \in 1..Len(arrival) /\ arrival[i] = FrontNode(book)
            /\ \A j \in EligibleIn(Resting, book.incoming) \ {i} : Served(Resting, book.incoming, i, j)
    BY <1>1, FrontServedFirst
  <1>3. i \in PTB!Eligible /\ \A j \in PTB!Eligible \ {i} : PTB!Precedes(i, j)
    BY <1>2, EligibleSame, PrecedesSame
  <1>4. PICK n, o, r, inc, rest, q :
           /\ n = FrontNode(book) /\ o = book.incoming /\ r = book.heap[n]
           /\ inc = IncAfter(book) /\ rest = RestAfter(book) /\ q = MatchQty(book)
    OBVIOUS
  <1>5. /\ n \in DOMAIN book.heap /\ r \in Order /\ r.remaining_quantity > 0 /\ inc \in Order /\ rest \in Order
        /\ q \in Quantity
    BY <1>1, <1>4, PartiesOfTrade
  <1>6. PICK buy, sell, px : buy = Buyer(book) /\ sell = Seller(book) /\ px = TradePrice(book)
    OBVIOUS
  <1>7. PTB!Deal(o, r) = [inc |-> inc, rest |-> rest, reports |-> <<TradeReport(buy, q, px), TradeReport(sell, q, px)>>]
    <2>1. o \in Order /\ o.remaining_quantity > 0
      BY <1>1, <1>4 DEF CanMatch
    <2>2. q = IF o.remaining_quantity <= r.remaining_quantity THEN o.remaining_quantity ELSE r.remaining_quantity
      BY <1>4 DEF MatchQty
    <2>3. inc = [o EXCEPT !.remaining_quantity = @ - q] /\ rest = [r EXCEPT !.remaining_quantity = @ - q]
      BY <1>4, Zenon DEF IncAfter, RestAfter
    <2>4. buy = (IF inc.side = "Buy" THEN inc ELSE rest) /\ sell = (IF inc.side = "Buy" THEN rest ELSE inc)
      BY <1>4, <1>6 DEF Buyer, Seller
    <2>5. px = ExecPrice(buy, sell)
      BY <1>6 DEF TradePrice
    <2>6. PTB!Min({o.remaining_quantity, r.remaining_quantity}) = q
      BY <1>5, <2>1, <2>2, DealQuantity
    <2> QED BY <2>3, <2>4, <2>5, <2>6, OperatorsSame, Zenon DEF PTB!Deal
  <1>8. PICK deal : deal = PTB!Deal(o, r)
    OBVIOUS
  <1>9. deal.inc = inc /\ deal.rest = rest /\ deal.reports = <<TradeReport(buy, q, px), TradeReport(sell, q, px)>>
    BY <1>7, <1>8
  <1>10. /\ book'.incoming = inc /\ book'.reports = book.reports \o deal.reports
         /\ rest.remaining_quantity = 0 => book'.heap = Drop(book.heap, n)
         /\ rest.remaining_quantity # 0 => book'.heap = [book.heap EXCEPT ![n] = rest]
    <2>1. /\ book'.incoming = IncAfter(book) /\ book'.reports = book.reports \o ReportsOf(book)
          /\ RestAfter(book).remaining_quantity = 0 => book'.heap = Drop(book.heap, n)
          /\ RestAfter(book).remaining_quantity # 0 => book'.heap = [book.heap EXCEPT ![n] = RestAfter(book)]
      BY <1>1, <1>4, MatchShape
    <2>2. ReportsOf(book) = deal.reports
      BY <1>4, <1>6, <1>9 DEF ReportsOf
    <2> QED BY <1>4, <2>1, <2>2
  <1>11. TimeInv' /\ Resting' = PTB!Left(i, deal.rest)
    <2>0. [book.heap[FrontNode(book)] EXCEPT !.remaining_quantity = @ - MatchQty(book)] = rest
      BY <1>4, Zenon DEF RestAfter
    <2>00. /\ Struct(book.orders, book.heap, book.index) /\ IsMap(book.heap, Node, Order)
           /\ Lists(arrival, book.heap) /\ InOrderOf(book.orders, arrival)
      BY <1>1 DEF Good, Struct, ListsTyped, TimeInv
    <2>1. CASE rest.remaining_quantity = 0
      <3>1. PICK s, p : Erased(book.orders, book.heap, book.index, s, p, 1, Tail(book.orders[s][p]),
                               book'.orders, book'.heap, book'.index)
        BY <1>1, <2>0, <2>1, MatchOnceLists
      <3>2. InOrderOf(book'.orders, arrival)
        BY <2>00, <3>1, ErasedInOrder
      <3>3. /\ TimeInv'
            /\ \E k \in 1..Len(arrival) : /\ arrival[k] = n
                                          /\ RestIn(arrival, book.heap)' = RemoveAt(RestIn(arrival, book.heap), k)
        BY <1>1, <1>5, <1>10, <2>1, <3>2, HistoryDrop
      <3>4. Resting' = RemoveAt(Resting, i)
        BY <1>2, <1>4, <2>00, <3>3 DEF Lists, Resting
      <3>5. PTB!Left(i, deal.rest) = PTB!RemoveAt(Resting, i)
        BY <1>9, <2>1 DEF PTB!Left, Resting, RestIn
      <3> QED BY <3>3, <3>4, <3>5, OperatorsSame
    <2>2. CASE rest.remaining_quantity # 0
      <3>1. book'.orders = book.orders
        BY <1>1, <2>0, <2>2, MatchOnceLists
      <3>2. book'.heap = [book.heap EXCEPT ![n] = rest] /\ DOMAIN book'.heap = DOMAIN book.heap
        BY <1>10, <2>2
      <3>3. arrival' = arrival /\ TimeInv'
        BY <3>1, <3>2, HistorySame
      <3>4. RestIn(arrival, book'.heap) = [RestIn(arrival, book.heap) EXCEPT ![i] = rest]
        BY <1>2, <1>4, <1>5, <2>00, <3>2, RestInUpdate
      <3>5. Resting' = [Resting EXCEPT ![i] = rest]
        <4>1. Resting' = RestIn(arrival', book'.heap)
          BY DEF Resting
        <4> QED BY <3>3, <3>4, <4>1 DEF Resting
      <3>6. PTB!Left(i, deal.rest) = [Resting EXCEPT ![i] = rest]
        BY <1>9, <2>2 DEF PTB!Left, Resting, RestIn
      <3> QED BY <3>3, <3>5, <3>6
    <2> QED BY <2>1, <2>2
  <1>12. /\ i \in DOMAIN arrival /\ book.incoming.remaining_quantity > 0
         /\ deal = PTB!Deal(book.incoming, book.heap[arrival[i]]) /\ book'.incoming = deal.inc
    <2>1. i \in DOMAIN arrival
      BY <1>2 DEF TimeInv, Lists
    <2> QED BY <1>1, <1>2, <1>4, <1>8, <1>9, <1>10, <2>1 DEF CanMatch
  <1>13. PTB!Trade
    BY <1>1, <1>3, <1>10, <1>11, <1>12, TradeParts
  <1> QED BY <1>11, <1>13

\* The call ends and nothing rests that did not rest before.
LEMMA StepEnd ==
  ASSUME GatedInv, TimeInv, FinishFilled \/ FinishExpire, Track
  PROVE  TimeInv' /\ PTB!Settle
  <1>1. Good(book) /\ IndexComplete /\ BookTyped(book) /\ pc = "matching" /\ pc' = "done" /\ book.incoming \in Order
    BY DEF GatedInv, IInv, Good, BookTyped, FinishFilled, FinishExpire
  <1>2. /\ book'.heap = book.heap /\ book'.orders = book.orders /\ book'.incoming = NoOrder
        /\ \/ book.incoming.remaining_quantity = 0 /\ book'.reports = book.reports
           \/ /\ ~CanMatch(book) /\ book.incoming.remaining_quantity > 0 /\ book.incoming.type = "Market"
              /\ book'.reports = Append(book.reports, PlainReport(book.incoming, "Cancelled"))
    BY <1>1 DEF FinishFilled, FinishExpire, Expire, BookTyped
  <1>3. arrival' = arrival /\ TimeInv'
    BY <1>2, HistorySame
  <1>4. Resting' = Resting
    BY <1>2, <1>3, SameResting
  <1>5. CASE book.incoming.remaining_quantity = 0 /\ book'.reports = book.reports
    BY <1>1, <1>2, <1>3, <1>4, <1>5 DEF PTB!Settle, Resting, RestIn
  <1>6. CASE /\ ~CanMatch(book) /\ book.incoming.remaining_quantity > 0 /\ book.incoming.type = "Market"
             /\ book'.reports = Append(book.reports, PlainReport(book.incoming, "Cancelled"))
    <2>1. PTB!Eligible = {}
      BY <1>1, <1>6, NothingEligible, EligibleSame
    <2>2. book'.reports = Append(book.reports, PTB!PlainReport(book.incoming, "Cancelled"))
      BY <1>6, OperatorsSame
    <2> QED BY <1>1, <1>2, <1>3, <1>4, <1>6, <2>1, <2>2 DEF PTB!Settle, Resting, RestIn
  <1> QED BY <1>2, <1>5, <1>6

\* The remainder of the incoming order rests behind all others.
LEMMA StepRest ==
  ASSUME GatedInv, TimeInv, NEW n \in Node, RestStep(n)
  PROVE  TimeInv' /\ PTB!Settle
  <1>1. /\ Good(book) /\ IndexComplete /\ pc = "matching" /\ pc' = "done" /\ book.incoming \in Order
        /\ ~CanMatch(book) /\ book.incoming.remaining_quantity > 0 /\ book.incoming.type = "Limit"
        /\ n \notin DOMAIN book.heap /\ book' = Rest(book, n) /\ arrival' = Append(arrival, n)
    BY DEF GatedInv, IInv, Good, BookTyped, RestStep, FinishRest
  <1>2. PICK o : o = book.incoming
    OBVIOUS
  <1>3. /\ Struct(book.orders, book.heap, book.index) /\ IsMap(book.heap, Node, Order)
        /\ Lists(arrival, book.heap) /\ InOrderOf(book.orders, arrival)
    BY <1>1 DEF Good, Struct, ListsTyped, TimeInv
  <1>4. /\ book'.incoming = NoOrder
        /\ \E list : Pushed(book.orders, book.heap, book.index, o, n, list, book'.orders, book'.heap, book'.index)
    BY <1>1, <1>2, RestLists
  <1>5. InOrderOf(book'.orders, Append(arrival, n)) /\ Lists(Append(arrival, n), book'.heap)
    BY <1>3, <1>4, PushedInOrder
  <1>6. TimeInv'
    BY <1>1, <1>5 DEF TimeInv
  <1>7. /\ book'.heap = Put(book.heap, n, o)
        /\ book'.reports = IF o.remaining_quantity = o.quantity
                           THEN Append(book.reports, PlainReport(o, "New")) ELSE book.reports
    <2>1. book'.heap = Put(book.heap, n, o)
      BY <1>4 DEF Pushed
    <2>2. PICK e : e = [side |-> o.side, price_level |-> o.price, position |-> n]
      OBVIOUS
    <2>3. /\ book'.index = Put(book.index, o.order_id, e)
          /\ book'.reports = IF o.remaining_quantity = o.quantity
                             THEN Append(book.reports, PlainReport(o, "New")) ELSE book.reports
      BY <1>1, <1>2, <2>2, RestShape
    <2> QED BY <2>1, <2>3
  <1>8. RestIn(Append(arrival, n), book'.heap) = Append(RestIn(arrival, book.heap), o)
    BY <1>1, <1>2, <1>3, <1>5, <1>7, RestInPush
  <1>9. Resting' = Append(Resting, o)
    BY <1>1, <1>8 DEF Resting
  <1>10. PTB!Eligible = {}
    BY <1>1, NothingEligible, EligibleSame
  <1>11. PlainReport(o, "New") = PTB!PlainReport(o, "New")
    BY OperatorsSame
  <1>12. PTB!Settle
    BY <1>1, <1>2, <1>4, <1>7, <1>9, <1>10, <1>11 DEF PTB!Settle, Resting, RestIn
  <1> QED BY <1>6, <1>12

\* The lists and the history without an order that is erased.
LEMMA StepErase ==
  ASSUME Good(book), TimeInv, Track, NEW id \in DOMAIN book.index, NEW n, n = book.index[id].position,
         book'.heap = Drop(book.heap, n), book'.orders = EraseEntry(book, book.index[id]).orders
  PROVE  /\ TimeInv'
         /\ \E i \in DOMAIN arrival : arrival[i] = n /\ Resting' = RemoveAt(Resting, i)
  <1>1. /\ Struct(book.orders, book.heap, book.index) /\ InOrderOf(book.orders, arrival)
        /\ DOMAIN arrival = 1..Len(arrival)
    BY DEF Good, TimeInv, Lists
  <1>2. PICK e, r : e = book.index[id] /\ r = EraseEntry(book, e)
    OBVIOUS
  <1>3. PICK k, list : Erased(book.orders, book.heap, book.index, e.side, e.price_level, k, list,
                              r.orders, r.heap, Drop(book.index, id))
    BY <1>2, EraseLists
  <1>4. InOrderOf(book'.orders, arrival)
    BY <1>1, <1>2, <1>3, ErasedInOrder
  <1>5. n \in DOMAIN book.heap
    BY EraseShape
  <1>6. /\ TimeInv'
        /\ \E i \in 1..Len(arrival) : /\ arrival[i] = n
                                      /\ RestIn(arrival, book.heap)' = RemoveAt(RestIn(arrival, book.heap), i)
    BY <1>4, <1>5, HistoryDrop
  <1> QED BY <1>1, <1>6 DEF Resting

\* cancelOrder is Cancel, or Refuse.
LEMMA StepCancel ==
  ASSUME GatedInv, TimeInv, Track, NEW id \in OrderId, cancelOrder(id)
  PROVE  TimeInv' /\ PTB!PTNext
  <1>1. Good(book) /\ pc = "idle" /\ pc' = "done" /\ book.reports = <<>>
    BY DEF GatedInv, IInv, CallInv, cancelOrder, Enter
  <1>2. CASE id \in DOMAIN book.index
    <2>1. PICK n, r : n = book.index[id].position /\ r = CancelReport(book, id)
      OBVIOUS
    <2>2. book' = CancelFound(book, id)
      BY <1>2 DEF cancelOrder
    <2>3. /\ book'.heap = Drop(book.heap, n) /\ book'.orders = EraseEntry(book, book.index[id]).orders
          /\ book'.reports = Append(book.reports, r) /\ book'.incoming = book.incoming
      BY <1>1, <1>2, <2>1, <2>2, CancelShape
    <2>4. PICK i \in DOMAIN arrival : TimeInv' /\ arrival[i] = n /\ Resting' = RemoveAt(Resting, i)
      BY <1>1, <1>2, <2>1, <2>3, StepErase
    <2>5. book.heap[n].order_id = id
      BY <1>1, <1>2, <2>1, EraseShape
    <2>6. r.order_id = id /\ r.status = "Cancelled" /\ r.client_id = book.heap[n].client_id
      BY <2>1 DEF CancelReport
    <2>7. Len(book'.reports) = 1 /\ book'.reports[1] = r
      BY <1>1, <2>3
    <2>8. Resting' = PTB!RemoveAt(Resting, i)
      BY <2>4, OperatorsSame
    <2>9. PTB!Cancel(i)
      BY <1>1, <2>3, <2>4, <2>5, <2>6, <2>7, <2>8 DEF PTB!Cancel, Resting, RestIn
    <2> QED BY <2>4, <2>9 DEF PTB!PTNext
  <1>3. CASE id \notin DOMAIN book.index
    <2>1. book' = book
      BY <1>3 DEF cancelOrder
    <2> QED BY <1>1, <2>1, StepRefuse DEF PTB!PTNext
  <1> QED BY <1>2, <1>3

\* modifyOrder is Modify, or Refuse.
LEMMA StepModify ==
  ASSUME GatedInv, TimeInv, Track, NEW req \in ModifyInput, modifyOrder(req)
  PROVE  TimeInv' /\ PTB!PTNext
  <1>1. Good(book) /\ pc = "idle" /\ req \in ModifyRequest
    BY InputAssumption DEF GatedInv, IInv, modifyOrder, Enter
  <1>2. CASE req.order_id \in DOMAIN book.index
    <2>1. PICK n, id : id = req.order_id /\ n = book.index[id].position
      OBVIOUS
    <2>2. book' = ModifyFound(book, req) /\ pc' = "matching"
      BY <1>2 DEF modifyOrder
    <2>3. /\ book'.heap = Drop(book.heap, n) /\ book'.orders = EraseEntry(book, book.index[id]).orders
          /\ book'.reports = book.reports /\ book'.incoming = ModifiedOrder(book, req)
      BY <1>1, <1>2, <2>1, <2>2, ModifyShape
    <2>4. PICK i \in DOMAIN arrival : TimeInv' /\ arrival[i] = n /\ Resting' = RemoveAt(Resting, i)
      BY <1>1, <1>2, <2>1, <2>3, StepErase
    <2>5. PICK o \in Order : o = book.heap[n]
      BY <1>1, <1>2, <2>1, EraseShape
    <2>6. /\ book'.incoming = [o EXCEPT !.price = req.price, !.quantity = req.quantity,
                                        !.remaining_quantity = req.quantity, !.timestamp = req.timestamp]
      BY <2>1, <2>3, <2>5, Zenon DEF ModifiedOrder
    <2>7. /\ book'.incoming \in Order /\ book'.incoming.remaining_quantity = book'.incoming.quantity
          /\ \A f \in {"order_id", "symbol", "side", "type", "client_id"} : book'.incoming[f] = o[f]
      BY <1>1, <2>5, <2>6 DEF Order, ModifyRequest
    <2>8. book'.incoming \in PTB!Order
      BY <2>7 DEF PTB!Order, Order, PTB!Side, Side, PTB!OrderType, OrderType, PTB!Price, Price,
                  PTB!Quantity, Quantity, PTB!Timestamp, Timestamp
    <2>9. Resting' = PTB!RemoveAt(Resting, i) /\ Resting[i] = o
      BY <2>4, <2>5, OperatorsSame DEF Resting, RestIn
    <2>10. PTB!Enters
      BY <1>1, <2>2, <2>3, <2>7, <2>8 DEF PTB!Enters
    <2>11. PTB!Modify(i)
      BY <2>4, <2>7, <2>9, <2>10 DEF PTB!Modify, Resting, RestIn
    <2> QED BY <2>4, <2>11 DEF PTB!PTNext
  <1>3. CASE req.order_id \notin DOMAIN book.index
    <2>1. book' = book /\ pc' = "done"
      BY <1>3 DEF modifyOrder
    <2> QED BY <1>1, <2>1, StepRefuse DEF PTB!PTNext
  <1> QED BY <1>2, <1>3

\* Every step of the book behind the risk check is a step of the price-time
\* book, or leaves it alone.
LEMMA StepRefines ==
  ASSUME GatedInv, TimeInv, [GatedNext]_gatedVars
  PROVE  TimeInv' /\ [PTB!PTNext]_PTB!ptVars
  <1>1. ASSUME UNCHANGED <<book, pc, arrival>> PROVE TimeInv' /\ UNCHANGED PTB!ptVars
    BY <1>1, HistorySame, PTStutter
  <1>2. ASSUME \/ \E s \in Symbol : Register(s)
               \/ \E o \in OrderInput : ProcessOrder(o)
               \/ UNCHANGED gatedVars
        PROVE  TimeInv' /\ UNCHANGED PTB!ptVars
    BY <1>1, <1>2 DEF Register, ProcessOrder, gatedVars, vars
  <1>3. ASSUME NEW o \in accepted, WorkOrder(o) PROVE TimeInv' /\ PTB!PTNext
    BY <1>3, StepAccept DEF PTB!PTNext
  <1>4. ASSUME BookStep PROVE TimeInv' /\ PTB!PTNext
    BY <1>4, StepCancel, StepModify, StepTrade, StepEnd DEF BookStep, PTB!PTNext
  <1>5. ASSUME NEW n \in Node, RestStep(n) PROVE TimeInv' /\ PTB!PTNext
    BY <1>5, StepRest DEF PTB!PTNext
  <1>6. ASSUME Deliver PROVE TimeInv' /\ PTB!PTNext
    BY <1>6, StepReply DEF PTB!PTNext
  <1> QED BY <1>2, <1>3, <1>4, <1>5, <1>6 DEF GatedNext

\* The empty book is an empty price-time book.
LEMMA StartRefines == GatedInit => TimeInv /\ PTB!PTInit
  <1> SUFFICES ASSUME GatedInit PROVE TimeInv /\ PTB!PTInit
    OBVIOUS
  <1>1. book = EmptyBook /\ pc = "idle" /\ arrival = <<>>
    BY DEF GatedInit, Init
  <1>2. book.heap = EmptyMap /\ book.incoming = NoOrder /\ book.reports = <<>> /\ book.orders = [s \in Side |-> EmptyMap]
    BY <1>1 DEF EmptyBook
  <1>3. DOMAIN EmptyMap = {}
    BY DEF EmptyMap
  <1>4. TimeInv
    BY <1>1, <1>2, <1>3 DEF TimeInv, Lists, InOrderOf
  <1>5. Resting = <<>>
    BY <1>1 DEF Resting, RestIn
  <1> QED BY <1>1, <1>2, <1>4, <1>5 DEF PTB!PTInit, Resting, RestIn

\* The book with its maps, lists and index is a price-time priority book: every
\* step of submitOrder's loop trades with the eligible order of the best price
\* that arrived first, and cancels and modifies take exactly the order they
\* name out of the queue.
THEOREM BookIsPriceTime == GatedSpec => PriceTimePriority
  <1>1. GatedInit => TimeInv /\ PTB!PTInit
    BY StartRefines
  <1>2. GatedInv /\ TimeInv /\ [GatedNext]_gatedVars => TimeInv' /\ [PTB!PTNext]_PTB!ptVars
    BY StepRefines
  <1> QED BY <1>1, <1>2, GatedInvariant, PTL DEF GatedSpec, PriceTimePriority, PTB!PTSpec

-----------------------------------------------------------------------------
(* What the reports tell the owners. *)

\* What the owners know once the reports of the call in progress have reached them.
Known == TellAll(view, book.reports)

\* Map w says of order o that it is open, with what is left of it.
SaysOpen(w, o) ==
    /\ o.order_id \in DOMAIN w
    /\ w[o.order_id].status \in {"New", "PartiallyFilled"}
    /\ w[o.order_id].remaining_quantity = o.remaining_quantity
    /\ w[o.order_id].client_id = o.client_id

\* Map w says of order o, which has traded, what is left of it.
SaysTraded(w, o) ==
    /\ o.order_id \in DOMAIN w
    /\ w[o.order_id].status = IF o.remaining_quantity = 0 THEN "Filled" ELSE "PartiallyFilled"
    /\ w[o.order_id].remaining_quantity = o.remaining_quantity
    /\ w[o.order_id].client_id = o.client_id

\* Map w says that order id has left the book.
SaysOver(w, id) == id \in DOMAIN w /\ w[id].status \in {"Filled", "Cancelled"}

\* Every order that rests is known as it is.
RestingTold(w, H) == \A n \in DOMAIN H : SaysOpen(w, H[n])

\* So is the incoming order, once it has traded.
IncomingTold(w, o) == o.quantity > 0 /\ (o.remaining_quantity # o.quantity => SaysTraded(w, o))

\* An accepted order waits, is being matched, rests or is known to be over.
AllTold(w) ==
    \A id \in seen_order_ids :
        \/ \E o \in accepted : o.order_id = id
        \/ pc = "matching" /\ book.incoming.order_id = id
        \/ \E n \in DOMAIN book.heap : book.heap[n].order_id = id
        \/ SaysOver(w, id)

\* The strengthening of ReportsTruthful, which only speaks of the time between
\* calls: in the middle of a call, what the reports made so far will tell.
TruthInv ==
    /\ view = [id \in DOMAIN view |-> view[id]]
    /\ \A o \in accepted : o.quantity > 0
    /\ RestingTold(Known, book.heap)
    /\ pc = "matching" => IncomingTold(Known, book.incoming)
    /\ AllTold(Known)

\* No reports, no news.
LEMMA TellNothing ==
  ASSUME NEW v, v = [id \in DOMAIN v |-> v[id]]
  PROVE  TellAll(v, <<>>) = v
  <1>1. {(<< >>)[k].order_id : k \in DOMAIN << >>} = {} /\ \A id : On(<< >>, id) = {}
    BY DEF On
  <1> QED BY <1>1 DEF TellAll

\* A nonempty set of positions has a last one.
LEMMA LastOf ==
  ASSUME NEW N \in Nat, NEW S, S \subseteq 1..N, S # {}
  PROVE  Max(S) \in S
  <1> DEFINE D == {d \in Nat : N - d \in S}
  <1>1. D # {} /\ D \subseteq Nat
    <2>1. PICK k \in S : TRUE
      OBVIOUS
    <2>2. k \in 1..N
      OBVIOUS
    <2>3. N - k \in Nat /\ N - (N - k) = k
      BY <2>2
    <2>4. N - k \in D
      BY <2>3
    <2> QED BY <2>4
  <1>2. PICK d \in D : \A e \in D : d <= e
    <2> HIDE DEF D
    <2> QED BY <1>1, LeastNat
  <1>3. N - d \in S
    OBVIOUS
  <1>4. \A k \in S : N - d >= k
    <2> SUFFICES ASSUME NEW k \in S PROVE N - d >= k
      OBVIOUS
    <2>1. k \in 1..N
      OBVIOUS
    <2>2. N - k \in Nat /\ N - (N - k) = k
      BY <2>1
    <2>3. N - k \in D
      BY <2>2
    <2>4. d \in Nat /\ d <= N - k
      BY <1>2, <2>3
    <2> QED BY <2>1, <2>4
  <1> HIDE DEF D
  <1>5. \E k \in S : \A l \in S : k >= l
    BY <1>3, <1>4
  <1> QED BY <1>5 DEF Max

\* One report more replaces what was known of its order.
LEMMA TellOne ==
  ASSUME NEW v, NEW rs \in Seq(ExecutionReport), NEW r \in ExecutionReport
  PROVE  TellAll(v, Append(rs, r)) = Put(TellAll(v, rs), r.order_id, Told(r))
  <1>1. PICK s, N, x : s = Append(rs, r) /\ N = Len(rs) /\ x = r.order_id
    OBVIOUS
  <1>2. /\ N \in Nat /\ DOMAIN rs = 1..N /\ DOMAIN s = 1..(N + 1) /\ s[N + 1] = r
        /\ \A k \in 1..N : s[k] = rs[k]
    BY <1>1
  <1>3. \A k \in 1..(N + 1) : k \in 1..N \/ k = N + 1
    BY <1>2
  <1>4. Max(On(s, x)) = N + 1 /\ N + 1 \in On(s, x)
    <2>1. N + 1 \in On(s, x) /\ On(s, x) \subseteq 1..(N + 1)
      BY <1>1, <1>2 DEF On
    <2>2. \A k \in On(s, x) : N + 1 >= k
      BY <1>2, <2>1
    <2>3. \A k \in On(s, x) : k >= N + 1 => k = N + 1
      BY <1>2, <2>1
    <2> QED BY <2>1, <2>2, <2>3 DEF Max
  <1>5. \A id : id # x => On(s, id) = On(rs, id)
    BY <1>1, <1>2, <1>3 DEF On
  <1>6. {s[k].order_id : k \in DOMAIN s} = {rs[k].order_id : k \in DOMAIN rs} \cup {x}
    BY <1>1, <1>2, <1>3
  <1>7. ASSUME NEW id, id # x, On(rs, id) # {}
        PROVE  rs[Max(On(rs, id))] = s[Max(On(s, id))]
    <2>1. Max(On(rs, id)) \in DOMAIN rs
      <3>0. On(rs, id) \subseteq 1..N
        BY <1>2 DEF On
      <3> QED BY <1>2, <1>7, <3>0, LastOf
    <2> QED BY <1>2, <1>5, <1>7, <2>1
  <1>8. PICK W, W2, P : W = TellAll(v, rs) /\ W2 = TellAll(v, s) /\ P = Put(W, x, Told(r))
    OBVIOUS
  <1>9. /\ DOMAIN W = DOMAIN v \cup {rs[k].order_id : k \in DOMAIN rs}
        /\ \A id \in DOMAIN W : W[id] = IF On(rs, id) = {} THEN v[id] ELSE Told(rs[Max(On(rs, id))])
    BY <1>8 DEF TellAll
  <1>10. /\ DOMAIN W2 = DOMAIN W \cup {x}
         /\ \A id \in DOMAIN W2 : W2[id] = IF On(s, id) = {} THEN v[id] ELSE Told(s[Max(On(s, id))])
    BY <1>6, <1>8, <1>9 DEF TellAll
  <1>11. W2[x] = Told(r)
    BY <1>2, <1>4, <1>10
  <1>12. \A id \in DOMAIN W \ {x} : W2[id] = W[id]
    BY <1>5, <1>7, <1>9, <1>10
  <1>13. W2 = [id \in DOMAIN W \cup {x} |-> W2[id]]
    <2>1. W2 = [id \in DOMAIN W2 |-> W2[id]]
      BY <1>8 DEF TellAll
    <2> QED BY <1>10, <2>1
  <1>14. W2 = P
    BY <1>8, <1>11, <1>12, <1>13 DEF Put
  <1> QED BY <1>1, <1>8, <1>14

\* No client modifies an order to quantity 0: submitOrderInternal then ends
\* the order without a report.
NoZeroModify == \A req \in ModifyInput : req.quantity > 0

\* Orders other than the one a report is about are known as before.
LEMMA OthersKnown ==
  ASSUME NEW w, NEW w2, NEW X, DOMAIN w \subseteq DOMAIN w2, \A id \in DOMAIN w : id \notin X => w2[id] = w[id]
  PROVE  /\ \A o : o.order_id \notin X /\ SaysOpen(w, o) => SaysOpen(w2, o)
         /\ \A id : id \notin X /\ SaysOver(w, id) => SaysOver(w2, id)
  BY DEF SaysOpen, SaysOver

\* The reports of the trade tell both owners what is left.
LEMMA TradeTold ==
  ASSUME GatedInv, MatchStep, UNCHANGED view
  PROVE  LET n == FrontNode(book) IN
         /\ DOMAIN Known \subseteq DOMAIN Known'
         /\ \A id \in DOMAIN Known : id \notin {book.incoming.order_id, book.heap[n].order_id} => Known'[id] = Known[id]
         /\ SaysTraded(Known', IncAfter(book)) /\ SaysTraded(Known', RestAfter(book))
  <1>1. /\ Good(book) /\ OneOwner /\ counter \in Nat /\ book.incoming \in Order /\ pc = "matching"
        /\ CanMatch(book) /\ book' = MatchOnce(book, counter) /\ book.reports \in Seq(ExecutionReport)
    BY DEF GatedInv, IInv, Good, BookTyped, MatchStep
  <1>2. PICK n, q, inc, rest, buy, sell, px :
           /\ n = FrontNode(book) /\ q = MatchQty(book) /\ inc = IncAfter(book) /\ rest = RestAfter(book)
           /\ buy = Buyer(book) /\ sell = Seller(book) /\ px = TradePrice(book)
    OBVIOUS
  <1>3. PICK x, y : x = TradeReport(buy, q, px) /\ y = TradeReport(sell, q, px)
    OBVIOUS
  <1>4. x \in ExecutionReport /\ y \in ExecutionReport
    BY <1>1, <1>2, <1>3, TradeTyped
  <1>5. book'.reports = book.reports \o <<x, y>>
    <2>1. book'.reports = book.reports \o ReportsOf(book)
      BY <1>1, MatchShape
    <2> QED BY <1>2, <1>3, <2>1 DEF ReportsOf
  <1>6. PICK one : one = Append(book.reports, x)
    OBVIOUS
  <1>7. book'.reports = Append(one, y) /\ one \in Seq(ExecutionReport)
    BY <1>1, <1>4, <1>5, <1>6
  <1>8. PICK w, w1, w2 : w = Known /\ w1 = TellAll(view, one) /\ w2 = Known'
    OBVIOUS
  <1>9. w1 = Put(w, x.order_id, Told(x))
    BY <1>1, <1>4, <1>6, <1>8, TellOne DEF Known
  <1>10. w2 = Put(w1, y.order_id, Told(y))
    BY <1>4, <1>7, <1>8, TellOne DEF Known
  <1>11. /\ n \in DOMAIN book.heap /\ inc.order_id = book.incoming.order_id /\ rest.order_id = book.heap[n].order_id
         /\ inc.side = book.incoming.side
    <2>1. \A f \in {"order_id", "symbol", "side", "type", "price", "quantity", "timestamp", "client_id"} :
               IncAfter(book)[f] = book.incoming[f] /\ RestAfter(book)[f] = book.heap[n][f]
      BY <1>1, <1>2, PartiesOfTrade
    <2>2. n \in DOMAIN book.heap
      BY <1>1, <1>2, PartiesOfTrade
    <2> QED BY <1>2, <2>1, <2>2
  <1>12. inc.order_id # rest.order_id
    BY <1>1, <1>11 DEF OneOwner
  <1>13. (buy = inc /\ sell = rest) \/ (buy = rest /\ sell = inc)
    BY <1>2 DEF Buyer, Seller
  <1>14. x.order_id = buy.order_id /\ y.order_id = sell.order_id
    BY <1>3 DEF TradeReport
  <1>15. /\ DOMAIN w2 = DOMAIN w \cup {inc.order_id, rest.order_id}
         /\ w2[buy.order_id] = Told(x) /\ w2[sell.order_id] = Told(y)
         /\ \A id \in DOMAIN w : id \notin {inc.order_id, rest.order_id} => w2[id] = w[id]
    <2>1. /\ DOMAIN w1 = DOMAIN w \cup {x.order_id} /\ w1[x.order_id] = Told(x)
          /\ \A id \in DOMAIN w : id # x.order_id => w1[id] = w[id]
      BY <1>9 DEF Put
    <2>2. /\ DOMAIN w2 = DOMAIN w1 \cup {y.order_id} /\ w2[y.order_id] = Told(y)
          /\ \A id \in DOMAIN w1 : id # y.order_id => w2[id] = w1[id]
      BY <1>10 DEF Put
    <2> QED BY <1>12, <1>13, <1>14, <2>1, <2>2
  <1>16. SaysTraded(w2, buy) /\ SaysTraded(w2, sell)
    <2>1. buy.order_id \in DOMAIN w2 /\ sell.order_id \in DOMAIN w2
      BY <1>13, <1>15
    <2> QED BY <1>3, <1>15, <2>1 DEF SaysTraded, Told, TradeReport
  <1>17. SaysTraded(w2, inc) /\ SaysTraded(w2, rest)
    BY <1>13, <1>16
  <1> QED BY <1>2, <1>8, <1>11, <1>15, <1>17

\* Every step keeps TruthInv.
LEMMA StepTold ==
  ASSUME NoZeroModify, GatedInv, TruthInv, [GatedNext]_gatedVars
  PROVE  TruthInv'
  <1>0. /\ Good(book) /\ OneOwner /\ IndexComplete /\ BookTyped(book)
        /\ pc = "matching" => book.incoming \in Order
        /\ book.reports \in Seq(ExecutionReport) /\ IsMap(book.heap, Node, Order)
        /\ pc = "idle" => book.reports = <<>>
    BY DEF GatedInv, IInv, CallInv, Good, BookTyped, Struct, ListsTyped
  <1>1. PICK w, w2 : w = Known /\ w2 = Known'
    OBVIOUS
  <1>2. /\ view = [id \in DOMAIN view |-> view[id]]
        /\ \A o \in accepted : o.quantity > 0
        /\ RestingTold(w, book.heap) /\ AllTold(w)
        /\ pc = "matching" => IncomingTold(w, book.incoming)
    BY <1>1 DEF TruthInv
  <1>3. ASSUME view' = [id \in DOMAIN view' |-> view'[id]], \A o \in accepted' : o.quantity > 0,
               RestingTold(w2, book'.heap), AllTold(w2)',
               pc' = "matching" => IncomingTold(w2, book'.incoming)
        PROVE  TruthInv'
    BY <1>1, <1>3 DEF TruthInv, AllTold
  <1>4. ASSUME UNCHANGED view, book'.reports = book.reports PROVE w2 = w
    BY <1>1, <1>4 DEF Known
  <1>5. ASSUME UNCHANGED view, NEW r \in ExecutionReport, book'.reports = Append(book.reports, r)
        PROVE  /\ DOMAIN w2 = DOMAIN w \cup {r.order_id} /\ w2[r.order_id] = Told(r)
               /\ \A id \in DOMAIN w : id # r.order_id => w2[id] = w[id]
    <2>1. w2 = Put(w, r.order_id, Told(r))
      BY <1>0, <1>1, <1>5, TellOne DEF Known
    <2> QED BY <2>1 DEF Put
  <1>6. ASSUME NEW s \in Symbol, Register(s) PROVE TruthInv'
    <2>1. UNCHANGED <<book, pc, accepted, view, seen_order_ids>>
      BY <1>6 DEF Register, register_symbol, vars
    <2> QED BY <2>1 DEF TruthInv, AllTold, Known
  <1>7. ASSUME NEW o \in OrderInput, ProcessOrder(o) PROVE TruthInv'
    <2>1. UNCHANGED <<book, pc, view>>
      BY <1>7 DEF ProcessOrder, vars
    <2>2. w2 = w
      BY <1>4, <2>1
    <2>3. CASE Verdict(o) = "Accepted"
      <3>1. accepted' = accepted \cup {o} /\ seen_order_ids' = seen_order_ids \cup {o.order_id}
        BY <1>7, <2>3 DEF ProcessOrder, validate_order
      <3>2. o.quantity \in Nat
        BY InputAssumption, BoundsAssumption DEF Order, Quantity
      <3>3. o.quantity > 0
        BY <2>3, <3>2 DEF Verdict
      <3>4. AllTold(w2)'
        BY <1>2, <2>1, <2>2, <3>1 DEF AllTold
      <3> QED BY <1>2, <1>3, <2>1, <2>2, <3>1, <3>3, <3>4
    <2>4. CASE Verdict(o) # "Accepted"
      <3>1. UNCHANGED <<accepted, seen_order_ids>>
        BY <1>7, <2>4 DEF ProcessOrder, validate_order
      <3>2. AllTold(w2)'
        BY <1>2, <2>1, <2>2, <3>1 DEF AllTold
      <3> QED BY <1>2, <1>3, <2>1, <2>2, <3>1, <3>2
    <2> QED BY <2>3, <2>4
  <1>8. ASSUME NEW o \in accepted, WorkOrder(o) PROVE TruthInv'
    <2>1. /\ accepted' = accepted \ {o} /\ UNCHANGED <<seen_order_ids, view>> /\ pc = "idle" /\ pc' = "matching"
          /\ book' = [book EXCEPT !.incoming = o]
      BY <1>8 DEF WorkOrder, submitOrder, Enter, riskVars
    <2>2. book'.heap = book.heap /\ book'.incoming = o /\ book'.reports = book.reports
      BY <1>0, <2>1 DEF BookTyped
    <2>3. w2 = w
      BY <1>4, <2>1, <2>2
    <2>4. o.remaining_quantity = o.quantity /\ o.quantity > 0
      BY <1>0, <1>2, InputAssumption DEF OneOwner
    <2>5. IncomingTold(w2, book'.incoming)
      BY <2>2, <2>4 DEF IncomingTold
    <2>6. AllTold(w2)'
      BY <1>2, <2>1, <2>2, <2>3 DEF AllTold
    <2> QED BY <1>2, <1>3, <2>1, <2>2, <2>3, <2>5, <2>6
  \* An order leaves the book by a cancel or a modify.
  <1>9. ASSUME NEW n \in DOMAIN book.heap, book'.heap = Drop(book.heap, n), UNCHANGED <<accepted, view, seen_order_ids>>,
               pc = "idle",
               DOMAIN w \subseteq DOMAIN w2, \A id \in DOMAIN w : id # book.heap[n].order_id => w2[id] = w[id],
               \/ pc' = "matching" /\ book'.incoming.order_id = book.heap[n].order_id /\ IncomingTold(w2, book'.incoming)
               \/ pc' = "done" /\ SaysOver(w2, book.heap[n].order_id)
        PROVE  TruthInv'
    <2>1. PICK x : x = book.heap[n].order_id
      OBVIOUS
    <2>2. /\ DOMAIN book'.heap = DOMAIN book.heap \ {n}
          /\ \A m \in DOMAIN book'.heap : book'.heap[m] = book.heap[m]
      <3>1. /\ DOMAIN Drop(book.heap, n) = DOMAIN book.heap \ {n}
            /\ \A m \in DOMAIN book.heap \ {n} : Drop(book.heap, n)[m] = book.heap[m]
        BY DEF Drop, Restrict
      <3> QED BY <1>9, <3>1
    <2>3. \A m \in DOMAIN book'.heap : book'.heap[m].order_id # x
      BY <1>0, <2>1, <2>2 DEF IndexComplete
    <2>4. /\ \A o : o.order_id \notin {x} /\ SaysOpen(w, o) => SaysOpen(w2, o)
          /\ \A id : id \notin {x} /\ SaysOver(w, id) => SaysOver(w2, id)
      BY <1>9, <2>1, OthersKnown
    <2>5. RestingTold(w2, book'.heap)
      BY <1>2, <2>2, <2>3, <2>4 DEF RestingTold
    <2>6. AllTold(w2)'
      <3> SUFFICES ASSUME NEW id \in seen_order_ids
                   PROVE  \/ \E o \in accepted : o.order_id = id
                          \/ pc' = "matching" /\ book'.incoming.order_id = id
                          \/ \E m \in DOMAIN book'.heap : book'.heap[m].order_id = id
                          \/ SaysOver(w2, id)
        BY <1>9 DEF AllTold
      <3>1. CASE id = x
        BY <1>9, <2>1, <3>1
      <3>2. CASE id # x
        <4>1. \/ \E o \in accepted : o.order_id = id
              \/ \E m \in DOMAIN book.heap : book.heap[m].order_id = id
              \/ SaysOver(w, id)
          BY <1>2, <1>9 DEF AllTold
        <4> QED BY <2>1, <2>2, <2>4, <3>2, <4>1
      <3> QED BY <3>1, <3>2
    <2> QED BY <1>2, <1>3, <1>9, <2>5, <2>6
  <1>10. ASSUME NEW id \in OrderId, cancelOrder(id), UNCHANGED <<accepted, view, seen_order_ids>> PROVE TruthInv'
    <2>1. pc = "idle" /\ pc' = "done"
      BY <1>10 DEF cancelOrder, Enter
    <2>2. CASE id \in DOMAIN book.index
      <3>1. book' = CancelFound(book, id)
        BY <1>10, <2>2 DEF cancelOrder
      <3>2. PICK n, r : n = book.index[id].position /\ r = CancelReport(book, id)
        OBVIOUS
      <3>3. n \in DOMAIN book.heap /\ book.heap[n].order_id = id /\ book.heap[n] \in Order
        BY <1>0, <2>2, <3>2, EraseShape
      <3>4. book'.heap = Drop(book.heap, n) /\ book'.reports = Append(book.reports, r)
        BY <1>0, <2>2, <3>1, <3>2, CancelShape
      <3>5. r \in ExecutionReport
        <4>1. IInv'
          BY <1>10, NextKeepsIInv DEF GatedInv, Next
        <4>2. book'.reports \in Seq(ExecutionReport)
          BY <4>1 DEF IInv, Good, BookTyped
        <4>3. book'.reports = Append(<<>>, r)
          BY <1>0, <2>1, <3>4
        <4> QED BY <4>2, <4>3
      <3>6. r.order_id = id /\ r.status = "Cancelled"
        BY <3>2 DEF CancelReport
      <3>7. /\ DOMAIN w2 = DOMAIN w \cup {id} /\ w2[id] = Told(r)
            /\ \A x \in DOMAIN w : x # id => w2[x] = w[x]
        BY <1>5, <1>10, <3>4, <3>5, <3>6
      <3>8. SaysOver(w2, id)
        BY <3>6, <3>7 DEF SaysOver, Told
      <3> QED BY <1>9, <1>10, <2>1, <3>3, <3>4, <3>7, <3>8
    <2>3. CASE id \notin DOMAIN book.index
      <3>1. book' = book
        BY <1>10, <2>3 DEF cancelOrder
      <3>2. w2 = w
        BY <1>4, <1>10, <3>1
      <3>3. AllTold(w2)'
        BY <1>2, <1>10, <2>1, <3>1, <3>2 DEF AllTold
      <3> QED BY <1>2, <1>3, <1>10, <2>1, <3>1, <3>2, <3>3
    <2> QED BY <2>2, <2>3
  <1>11. ASSUME NEW req \in ModifyInput, modifyOrder(req), UNCHANGED <<accepted, view, seen_order_ids>> PROVE TruthInv'
    <2>1. pc = "idle" /\ req \in ModifyRequest /\ req.quantity > 0
      BY <1>11, InputAssumption DEF modifyOrder, Enter, NoZeroModify
    <2>2. CASE req.order_id \in DOMAIN book.index
      <3>1. book' = ModifyFound(book, req) /\ pc' = "matching"
        BY <1>11, <2>2 DEF modifyOrder
      <3>2. PICK n, id : id = req.order_id /\ n = book.index[id].position
        OBVIOUS
      <3>3. n \in DOMAIN book.heap /\ book.heap[n].order_id = id /\ book.heap[n] \in Order
        BY <1>0, <2>2, <3>2, EraseShape
      <3>4. /\ book'.heap = Drop(book.heap, n) /\ book'.reports = book.reports
            /\ book'.incoming = ModifiedOrder(book, req)
        BY <1>0, <2>2, <3>1, <3>2, ModifyShape
      <3>5. /\ book'.incoming.order_id = id /\ book'.incoming.quantity = req.quantity
            /\ book'.incoming.remaining_quantity = req.quantity
        BY <3>2, <3>3, <3>4 DEF ModifiedOrder, Order
      <3>6. w2 = w
        BY <1>4, <1>11, <3>4
      <3>7. IncomingTold(w2, book'.incoming)
        BY <2>1, <3>5 DEF IncomingTold
      <3> QED BY <1>9, <1>11, <2>1, <3>1, <3>3, <3>4, <3>5, <3>6, <3>7
    <2>3. CASE req.order_id \notin DOMAIN book.index
      <3>1. book' = book /\ pc' = "done"
        BY <1>11, <2>3 DEF modifyOrder
      <3>2. w2 = w
        BY <1>4, <1>11, <3>1
      <3>3. AllTold(w2)'
        BY <1>2, <1>11, <2>1, <3>1, <3>2 DEF AllTold
      <3> QED BY <1>2, <1>3, <1>11, <3>1, <3>2, <3>3
    <2> QED BY <2>2, <2>3
  <1>12. ASSUME MatchStep, UNCHANGED <<accepted, view, seen_order_ids>> PROVE TruthInv'
    <2>1. /\ pc = "matching" /\ pc' = pc /\ CanMatch(book) /\ book' = MatchOnce(book, counter) /\ counter \in Nat
          /\ book.incoming \in Order
      BY <1>0, <1>12 DEF MatchStep, GatedInv, IInv
    <2>2. PICK n, inc, rest, x, y : /\ n = FrontNode(book) /\ inc = IncAfter(book) /\ rest = RestAfter(book)
                                    /\ x = book.incoming.order_id /\ y = book.heap[n].order_id
      OBVIOUS
    <2>3. /\ n \in DOMAIN book.heap /\ rest.order_id = y /\ inc.order_id = x /\ inc.quantity = book.incoming.quantity
      <3>1. \A f \in {"order_id", "symbol", "side", "type", "price", "quantity", "timestamp", "client_id"} :
                 IncAfter(book)[f] = book.incoming[f] /\ RestAfter(book)[f] = book.heap[n][f]
        BY <1>0, <2>1, <2>2, PartiesOfTrade
      <3>2. n \in DOMAIN book.heap
        BY <1>0, <2>1, <2>2, PartiesOfTrade
      <3> QED BY <2>2, <3>1, <3>2
    <2>4. /\ book'.incoming = inc
          /\ rest.remaining_quantity = 0 => book'.heap = Drop(book.heap, n)
          /\ rest.remaining_quantity # 0 => book'.heap = [book.heap EXCEPT ![n] = rest]
      BY <1>0, <2>1, <2>2, MatchShape
    <2>5. /\ DOMAIN w \subseteq DOMAIN w2 /\ \A id \in DOMAIN w : id \notin {x, y} => w2[id] = w[id]
          /\ SaysTraded(w2, inc) /\ SaysTraded(w2, rest)
      BY <1>1, <1>12, <2>2, TradeTold
    <2>6. /\ \A o : o.order_id \notin {x, y} /\ SaysOpen(w, o) => SaysOpen(w2, o)
          /\ \A id : id \notin {x, y} /\ SaysOver(w, id) => SaysOver(w2, id)
      BY <2>5, OthersKnown
    <2>7. IncomingTold(w2, book'.incoming)
      BY <1>2, <2>1, <2>3, <2>4, <2>5 DEF IncomingTold
    <2>8. \A m \in DOMAIN book.heap \ {n} : book.heap[m].order_id \notin {x, y}
      BY <1>0, <2>1, <2>2, <2>3 DEF OneOwner, IndexComplete
    <2>9. /\ \A m \in DOMAIN book.heap \ {n} : m \in DOMAIN book'.heap /\ book'.heap[m] = book.heap[m]
          /\ DOMAIN book'.heap \subseteq DOMAIN book.heap
          /\ n \in DOMAIN book'.heap => book'.heap[n] = rest /\ rest.remaining_quantity # 0
          /\ n \notin DOMAIN book'.heap => rest.remaining_quantity = 0
      <3>1. CASE rest.remaining_quantity = 0
        <4>1. /\ DOMAIN Drop(book.heap, n) = DOMAIN book.heap \ {n}
              /\ \A m \in DOMAIN book.heap \ {n} : Drop(book.heap, n)[m] = book.heap[m]
          BY DEF Drop, Restrict
        <4> QED BY <2>4, <3>1, <4>1
      <3>2. CASE rest.remaining_quantity # 0
        BY <2>3, <2>4, <3>2
      <3> QED BY <3>1, <3>2
    <2>10. RestingTold(w2, book'.heap)
      <3> SUFFICES ASSUME NEW m \in DOMAIN book'.heap PROVE SaysOpen(w2, book'.heap[m])
        BY DEF RestingTold
      <3>1. CASE m = n
        <4>1. book'.heap[m] = rest /\ rest.remaining_quantity # 0
          BY <2>9, <3>1
        <4> QED BY <2>5, <4>1 DEF SaysTraded, SaysOpen
      <3>2. CASE m # n
        <4>1. m \in DOMAIN book.heap /\ book'.heap[m] = book.heap[m] /\ SaysOpen(w, book.heap[m])
          BY <1>2, <2>9, <3>2 DEF RestingTold
        <4> QED BY <2>6, <2>8, <3>2, <4>1
      <3> QED BY <3>1, <3>2
    <2>11. AllTold(w2)'
      <3> SUFFICES ASSUME NEW id \in seen_order_ids
                   PROVE  \/ \E o \in accepted : o.order_id = id
                          \/ x = id
                          \/ \E m \in DOMAIN book'.heap : book'.heap[m].order_id = id
                          \/ SaysOver(w2, id)
        BY <1>12, <2>1, <2>3, <2>4 DEF AllTold
      <3>1. CASE id = x
        BY <3>1
      <3>2. CASE id = y
        <4>1. CASE n \in DOMAIN book'.heap
          BY <2>3, <2>9, <3>2, <4>1
        <4>2. CASE n \notin DOMAIN book'.heap
          <5>1. SaysOver(w2, y)
            BY <2>3, <2>5, <2>9, <4>2 DEF SaysTraded, SaysOver
          <5> QED BY <3>2, <5>1
        <4> QED BY <4>1, <4>2
      <3>3. CASE id \notin {x, y}
        <4>1. \/ \E o \in accepted : o.order_id = id
              \/ \E m \in DOMAIN book.heap : book.heap[m].order_id = id
              \/ SaysOver(w, id)
          BY <1>2, <2>2, <3>3 DEF AllTold
        <4>2. ASSUME NEW m \in DOMAIN book.heap, book.heap[m].order_id = id
              PROVE  m \in DOMAIN book'.heap /\ book'.heap[m].order_id = id
          BY <2>2, <2>9, <3>3, <4>2
        <4> QED BY <2>6, <3>3, <4>1, <4>2
      <3> QED BY <3>1, <3>2, <3>3
    <2> QED BY <1>2, <1>3, <1>12, <2>7, <2>10, <2>11
  \* The call ends: what becomes of the incoming order is known.
  <1>13. ASSUME FinishFilled \/ FinishExpire, UNCHANGED <<accepted, view, seen_order_ids>> PROVE TruthInv'
    <2>1. PICK o \in Order : o = book.incoming
      BY <1>0, <1>13 DEF FinishFilled, FinishExpire
    <2>2. /\ book'.heap = book.heap /\ pc = "matching" /\ pc' = "done"
          /\ \/ o.remaining_quantity = 0 /\ book'.reports = book.reports
             \/ book'.reports = Append(book.reports, PlainReport(o, "Cancelled"))
      BY <1>0, <1>13, <2>1 DEF FinishFilled, FinishExpire, Expire, BookTyped
    <2>3. \A n \in DOMAIN book.heap : book.heap[n].order_id # o.order_id
      BY <1>0, <2>1, <2>2 DEF OneOwner
    <2>4. /\ SaysOver(w2, o.order_id) /\ DOMAIN w \subseteq DOMAIN w2
          /\ \A id \in DOMAIN w : id \notin {o.order_id} => w2[id] = w[id]
      <3>1. CASE o.remaining_quantity = 0 /\ book'.reports = book.reports
        <4>1. w2 = w
          BY <1>4, <1>13, <3>1
        <4>2. SaysTraded(w, o)
          BY <1>2, <2>1, <2>2, <3>1 DEF IncomingTold
        <4> QED BY <3>1, <4>1, <4>2 DEF SaysTraded, SaysOver
      <3>2. CASE book'.reports = Append(book.reports, PlainReport(o, "Cancelled"))
        <4>1. PICK r : r = PlainReport(o, "Cancelled")
          OBVIOUS
        <4>2. r.order_id = o.order_id /\ r.status = "Cancelled"
          BY <4>1 DEF PlainReport
        <4>3. r \in ExecutionReport
          <5>1. 0 \in Quantity /\ 0 \in Nat
            BY BoundsAssumption DEF Quantity
          <5> QED BY <4>1, <5>1, ReportTyped DEF OrderStatus
        <4>4. /\ DOMAIN w2 = DOMAIN w \cup {r.order_id} /\ w2[r.order_id] = Told(r)
              /\ \A id \in DOMAIN w : id # r.order_id => w2[id] = w[id]
          BY <1>5, <1>13, <3>2, <4>1, <4>3
        <4> QED BY <4>2, <4>4 DEF SaysOver, Told
      <3> QED BY <2>2, <3>1, <3>2
    <2>5. /\ \A u : u.order_id \notin {o.order_id} /\ SaysOpen(w, u) => SaysOpen(w2, u)
          /\ \A id : id \notin {o.order_id} /\ SaysOver(w, id) => SaysOver(w2, id)
      BY <2>4, OthersKnown
    <2>6. RestingTold(w2, book'.heap)
      BY <1>2, <2>2, <2>3, <2>5 DEF RestingTold
    <2>7. AllTold(w2)'
      BY <1>2, <1>13, <2>1, <2>2, <2>4, <2>5 DEF AllTold
    <2> QED BY <1>2, <1>3, <1>13, <2>2, <2>6, <2>7
  <1>14. ASSUME NEW n \in Node, RestStep(n) PROVE TruthInv'
    <2>1. /\ pc = "matching" /\ pc' = "done" /\ n \notin DOMAIN book.heap /\ book' = Rest(book, n)
          /\ UNCHANGED <<accepted, view, seen_order_ids>> /\ book.incoming \in Order
          /\ book.incoming.remaining_quantity > 0
      BY <1>0, <1>14 DEF RestStep, FinishRest, riskVars
    <2>2. PICK o, e : o = book.incoming /\ e = [side |-> o.side, price_level |-> o.price, position |-> n]
      OBVIOUS
    <2>3. /\ book'.heap = Put(book.heap, n, o) /\ book'.index = Put(book.index, o.order_id, e)
          /\ book'.reports = IF o.remaining_quantity = o.quantity
                             THEN Append(book.reports, PlainReport(o, "New")) ELSE book.reports
      BY <1>0, <2>1, <2>2, RestShape
    <2>4. /\ DOMAIN book'.heap = DOMAIN book.heap \cup {n} /\ book'.heap[n] = o
          /\ \A m \in DOMAIN book.heap : book'.heap[m] = book.heap[m]
      BY <2>1, <2>3 DEF Put
    <2>5. o \in Order /\ \A m \in DOMAIN book.heap : book.heap[m].order_id # o.order_id
      BY <1>0, <2>1, <2>2 DEF OneOwner
    <2>6. /\ SaysOpen(w2, o) /\ DOMAIN w \subseteq DOMAIN w2
          /\ \A id \in DOMAIN w : id \notin {o.order_id} => w2[id] = w[id]
      <3>1. CASE o.remaining_quantity # o.quantity
        <4>1. w2 = w
          BY <1>4, <2>1, <2>3, <3>1
        <4>2. SaysTraded(w, o)
          BY <1>2, <2>1, <2>2, <3>1 DEF IncomingTold
        <4> QED BY <2>1, <2>2, <4>1, <4>2 DEF SaysTraded, SaysOpen
      <3>2. CASE o.remaining_quantity = o.quantity
        <4>1. PICK r : r = PlainReport(o, "New")
          OBVIOUS
        <4>2. r.order_id = o.order_id /\ r.status = "New" /\ r.remaining_quantity = o.remaining_quantity
              /\ r.client_id = o.client_id
          BY <4>1 DEF PlainReport
        <4>3. r \in ExecutionReport
          <5>1. 0 \in Quantity /\ 0 \in Nat
            BY BoundsAssumption DEF Quantity
          <5> QED BY <2>5, <4>1, <5>1, ReportTyped DEF OrderStatus
        <4>4. /\ DOMAIN w2 = DOMAIN w \cup {r.order_id} /\ w2[r.order_id] = Told(r)
              /\ \A id \in DOMAIN w : id # r.order_id => w2[id] = w[id]
          BY <1>5, <2>1, <2>3, <3>2, <4>1, <4>3
        <4> QED BY <4>2, <4>4 DEF SaysOpen, Told
      <3> QED BY <3>1, <3>2
    <2>7. /\ \A u : u.order_id \notin {o.order_id} /\ SaysOpen(w, u) => SaysOpen(w2, u)
          /\ \A id : id \notin {o.order_id} /\ SaysOver(w, id) => SaysOver(w2, id)
      BY <2>6, OthersKnown
    <2>8. RestingTold(w2, book'.heap)
      BY <1>2, <2>4, <2>5, <2>6, <2>7 DEF RestingTold
    <2>9. AllTold(w2)'
      BY <1>2, <2>1, <2>2, <2>4, <2>7 DEF AllTold
    <2> QED BY <1>2, <1>3, <2>1, <2>8, <2>9
  <1>15. ASSUME Deliver PROVE TruthInv'
    <2>1. /\ UNCHANGED <<accepted, seen_order_ids>> /\ pc = "done" /\ pc' = "idle"
          /\ book' = [book EXCEPT !.fills = <<>>, !.reports = <<>>] /\ view' = w
      BY <1>1, <1>15 DEF Deliver, Return, riskVars, Known
    <2>2. book'.heap = book.heap /\ book'.reports = <<>>
      BY <1>0, <2>1 DEF BookTyped
    <2>3. w = [id \in DOMAIN w |-> w[id]]
      BY <1>1 DEF Known, TellAll
    <2>4. w2 = w
      BY <1>1, <2>1, <2>2, <2>3, TellNothing DEF Known
    <2>5. AllTold(w2)'
      BY <1>2, <2>1, <2>2, <2>4 DEF AllTold
    <2> QED BY <1>2, <1>3, <2>1, <2>2, <2>3, <2>4, <2>5
  <1>16. ASSUME UNCHANGED gatedVars PROVE TruthInv'
    BY <1>16 DEF gatedVars, vars, riskVars, TruthInv, AllTold, Known
  <1>17. ASSUME BookStep PROVE TruthInv'
    <2>1. UNCHANGED <<accepted, view, seen_order_ids>>
      BY <1>17 DEF BookStep, riskVars
    <2> QED BY <1>10, <1>11, <1>12, <1>13, <1>17, <2>1 DEF BookStep
  <1> QED BY <1>6, <1>7, <1>8, <1>14, <1>15, <1>16, <1>17 DEF GatedNext

\* Between calls TruthInv says what ReportsTruthful says.
LEMMA TruthImplies ==
  ASSUME GatedInv, TruthInv
  PROVE  ReportsTruthful
  <1> SUFFICES ASSUME pc = "idle", NEW id \in seen_order_ids, ~\E o \in accepted : o.order_id = id,
                      NEW o, o = queryOrder(book, id)
               PROVE  /\ id \in DOMAIN view
                      /\ IF o = NoOrder
                         THEN view[id].status \in {"Filled", "Cancelled"}
                         ELSE /\ view[id].status \in {"New", "PartiallyFilled"}
                              /\ view[id].remaining_quantity = o.remaining_quantity
                              /\ view[id].client_id = o.client_id
    BY DEF ReportsTruthful
  <1>1. Good(book) /\ IndexComplete /\ book.reports = <<>>
    BY DEF GatedInv, IInv, CallInv
  <1>2. Known = view
    BY <1>1, TellNothing DEF Known, TruthInv
  <1>3. CASE id \in DOMAIN book.index
    <2>1. PICK n : n = book.index[id].position
      OBVIOUS
    <2>2. n \in DOMAIN book.heap /\ book.heap[n].order_id = id /\ book.heap[n] \in Order
      BY <1>1, <1>3, <2>1, EraseShape
    <2>3. o = book.heap[n] /\ o # NoOrder
      BY <1>3, <2>1, <2>2, NoOrderAssumption DEF queryOrder
    <2>4. SaysOpen(view, o)
      BY <1>2, <2>2, <2>3 DEF TruthInv, RestingTold
    <2> QED BY <2>2, <2>3, <2>4 DEF SaysOpen
  <1>4. CASE id \notin DOMAIN book.index
    <2>1. o = NoOrder
      BY <1>4 DEF queryOrder
    <2>2. \A n \in DOMAIN book.heap : book.heap[n].order_id # id
      BY <1>1, <1>4 DEF IndexComplete
    <2>3. SaysOver(view, id)
      BY <1>2, <2>2 DEF TruthInv, AllTold
    <2> QED BY <2>1, <2>3 DEF SaysOver
  <1> QED BY <1>3, <1>4

\* Between calls the last report on every accepted order tells its owner what
\* queryOrder would, as long as nobody modifies an order to quantity 0.
THEOREM ReportsTell ==
  ASSUME NoZeroModify
  PROVE  GatedSpec => []ReportsTruthful
  <1>1. GatedInit => TruthInv
    <2> SUFFICES ASSUME GatedInit PROVE TruthInv
      OBVIOUS
    <2>1. book.heap = EmptyMap /\ pc = "idle" /\ accepted = {} /\ seen_order_ids = {} /\ view = EmptyMap
      BY DEF GatedInit, Init, EmptyBook, RiskInit
    <2>2. DOMAIN book.heap = {} /\ view = [id \in DOMAIN view |-> view[id]]
      BY <2>1 DEF EmptyMap
    <2> QED BY <2>1, <2>2 DEF TruthInv, RestingTold, AllTold
  <1>2. GatedInv /\ TruthInv /\ [GatedNext]_gatedVars => TruthInv'
    BY StepTold
  <1>3. GatedInv /\ TruthInv => ReportsTruthful
    BY TruthImplies
  <1> QED BY <1>1, <1>2, <1>3, GatedInvariant, PTL DEF GatedSpec
=============================================================================
