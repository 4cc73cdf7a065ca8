------------------------------ MODULE GatedBook ------------------------------
(***************************************************************************)
(* A book behind the risk check: what Session::process_packet, the thread  *)
(* pool and one OrderBook do together.  An order is validated when its     *)
(* packet is read and matched later, when a worker gets to it; with        *)
(* several workers the accepted orders reach the book in any order.        *)
(* Cancel and modify requests are not validated and keep no trace until    *)
(* they reach the book, so they only appear as calls on it.                *)
(*                                                                         *)
(* view and arrival are history variables: what the execution reports      *)
(* have told the owner of each order, and the list nodes in use in the     *)
(* order they were linked.                                                 *)
(***************************************************************************)
EXTENDS OrderBook, RiskChecker

VARIABLES accepted,  \* orders validated and not yet taken up by a worker
          view,      \* order id -> what the last report on it said
          arrival    \* Seq(Node)

gatedVars == <<vars, riskVars, accepted, view, arrival>>

GatedInit ==
    /\ Init
    /\ RiskInit
    /\ accepted = {} /\ view = EmptyMap /\ arrival = <<>>

Register(s) == register_symbol(s) /\ UNCHANGED <<vars, accepted, view, arrival>>

\* process_packet on an Order message: handed to the pool, or rejected, which
\* is answered to the sender and leaves no other trace.
ProcessOrder(o) ==
    /\ validate_order(o)
    /\ accepted' = IF Verdict(o) = "Accepted" THEN accepted \cup {o} ELSE accepted
    /\ UNCHANGED <<vars, view, arrival>>

\* A worker calls submitOrder for an accepted order.
WorkOrder(o) ==
    /\ submitOrder(o)
    /\ accepted' = accepted \ {o}
    /\ UNCHANGED <<riskVars, view, arrival>>

\* The arrival history follows the list nodes through a step of the book, in
\* which at most one node is freed.
Track ==
    LET gone == {i \in DOMAIN arrival : arrival[i] \notin DOMAIN book'.heap}
    IN  arrival' = IF gone = {} THEN arrival ELSE RemoveAt(arrival, CHOOSE i \in gone : TRUE)

\* What a report says of the state of its order.
Told(r) == [status |-> r.status, remaining_quantity |-> r.remaining_quantity, client_id |-> r.client_id]

\* The reports rs that are about order id.
On(rs, id) == {k \in DOMAIN rs : rs[k].order_id = id}

\* What the owners know when v is what they knew and the reports rs reach them
\* in order: of each order what the last report on it says.
TellAll(v, rs) ==
    [id \in DOMAIN v \cup {rs[k].order_id : k \in DOMAIN rs} |->
        IF On(rs, id) = {} THEN v[id] ELSE Told(rs[Max(On(rs, id))])]

\* The MatchResult is handed over, and its reports are taken in order.  The way
\* from here to the client, where reports of several calls can overtake each
\* other, is not part of this module.
Deliver ==
    /\ Return
    /\ view' = TellAll(view, book.reports)
    /\ UNCHANGED <<riskVars, accepted, arrival>>

BookStep ==
    /\ \/ \E id \in OrderId : cancelOrder(id)
       \/ \E req \in ModifyInput : modifyOrder(req)
       \/ MatchStep
       \/ FinishFilled
       \/ FinishExpire
    /\ Track
    /\ UNCHANGED <<riskVars, accepted, view>>

RestStep(n) ==
    /\ FinishRest(n)
    /\ arrival' = Append(arrival, n)
    /\ UNCHANGED <<riskVars, accepted, view>>

GatedNext ==
    \/ \E s \in Symbol : Register(s)
    \/ \E o \in OrderInput : ProcessOrder(o)
    \/ \E o \in accepted : WorkOrder(o)
    \/ BookStep
    \/ \E n \in Node : RestStep(n)
    \/ Deliver

GatedSpec == GatedInit /\ [][GatedNext]_gatedVars
-----------------------------------------------------------------------------
(* Properties. *)

\* Every order in the book can be found through order_index_, at its own
\* node: no accepted order becomes impossible to cancel or modify.  Rests on
\* the duplicate check of validate_order being the only way in.
IndexComplete ==
    \A n \in DOMAIN book.heap :
        /\ book.heap[n].order_id \in DOMAIN book.index
        /\ book.index[book.heap[n].order_id].position = n

\* Whenever no call is in progress, the last report of an accepted order tells
\* its owner what queryOrder would: the remainder of an order that rests, and
\* Filled or Cancelled for one that has left the book.
ReportsTruthful ==
    pc = "idle" =>
        \A id \in seen_order_ids :
            LET o == queryOrder(book, id)
            IN  \/ \E waiting \in accepted : waiting.order_id = id
                \/ /\ id \in DOMAIN view
                   /\ IF o = NoOrder
                      THEN view[id].status \in {"Filled", "Cancelled"}
                      ELSE /\ view[id].status \in {"New", "PartiallyFilled"}
                           /\ view[id].remaining_quantity = o.remaining_quantity
                           /\ view[id].client_id = o.client_id

\* The book with its levels, lists and index is a price-time priority book.
PTB == INSTANCE PriceTimeBook
         WITH resting <- [i \in DOMAIN arrival |-> book.heap[arrival[i]]],
              incoming <- book.incoming, reports <- book.reports

\* Refinement: every step of the book is a step of PriceTimeBook, so trades go
\* to the best price first and within a price to the order that arrived first.
PriceTimePriority == PTB!PTSpec

\* Two limit orders never trade at a price worse than either limit.
LimitsRespected ==
    \A k \in DOMAIN book.reports :
        LET r == book.reports[k]
        IN  r.last_qty > 0 /\ pc = "matching" /\ book.incoming.type = "Limit"
              => IF r.side = "Buy" THEN r.last_px <= r.price ELSE r.last_px >= r.price
-----------------------------------------------------------------------------
(* Properties the program's documentation states and the code does not have. *)

\* README: "Execution price is dictated by the resting order (which has the
\* older timestamp)".  matchOrders compares the client supplied timestamps, so
\* an incoming order that carries the older one dictates the price.
ExecAtRestingPrice ==
    pc = "matching" =>
        \A k \in DOMAIN book.reports :
            LET r == book.reports[k]
            IN  r.last_qty > 0 /\ r.side # book.incoming.side => r.last_px = r.price

\* README: the RiskChecker "inspects every incoming order prior to submission",
\* among others "Quantity bounds checking (1 to MAX_QUANTITY)".  A modify
\* request re-enters matching with a price and quantity nobody checked.
MatchedWithinLimits ==
    pc = "matching" =>
        /\ book.incoming.price \in 1..MAX_PRICE
        /\ book.incoming.quantity \in 1..MAX_QUANTITY
        /\ book.incoming.price * book.incoming.quantity <= MAX_ORDER_VALUE
=============================================================================
