--------------------------- MODULE RecoveryProofs ---------------------------
(***************************************************************************)
(* Proofs about Recovery, for every set of workers, symbols and requests   *)
(* and any number of crashes: trade numbers are not dealt out twice in one *)
(* life of the program, what is left of the log explains its fills, the    *)
(* calls on a book have the effect they have one after the other, replay   *)
(* makes of the log what the calls in it had made of the books, and the    *)
(* reports of a life without a crash tell the state of every order.        *)
(***************************************************************************)
EXTENDS Recovery, BookOpsProofs, FiniteSetTheorems

Entry == {RequestEntry(r) : r \in Command} \cup {FillEntry(f) : f \in Fill} \cup {Torn}

Started == {"get", "lock", "log", "call", "match"}
Found == {"lock", "log", "call", "match"}

\* What the threads hold: a request while they work on it, on a book that is
\* there once it was asked for, and what is left of a result.
ThreadsTyped ==
    /\ pc = [t \in Thread |-> pc[t]] /\ task = [t \in Thread |-> task[t]]
    /\ result = [t \in Thread |-> result[t]]
    /\ tasks \in Seq(Command)
    /\ \A t \in Thread :
          /\ pc[t] \in Started => task[t] \in Command
          /\ pc[t] \in Found => task[t].symbol \in DOMAIN books
          /\ result[t] = [fills |-> result[t].fills, reports |-> result[t].reports]
          /\ result[t].fills \in Seq(Fill)
          /\ pc[t] = "fills" => result[t].fills # <<>>

LogTyped ==
    /\ log \in Seq(Entry) /\ durable \in Nat /\ durable <= Len(log)
    /\ next \in Nat \ {0}

BooksGood ==
    /\ books = [s \in DOMAIN books |-> books[s]]
    /\ \A s \in DOMAIN books : Good(books[s])

\* f is a fill of this life: of a call that is over, or of one in progress.
Made(f) == f \in trades \/ \E s \in DOMAIN books : \E i \in DOMAIN books[s].fills : f = books[s].fills[i]

\* The generator is ahead of every number it has given to this life; when it
\* is reset there is nothing yet.
Numbered ==
    /\ counter \in Nat \ {0}
    /\ trades \subseteq Fill
    /\ phase = "start" => trades = {} /\ DOMAIN books = {}
    /\ \A f : Made(f) => f.trade_id < counter
    /\ \A f, g : Made(f) /\ Made(g) /\ f.trade_id = g.trade_id => f = g

\* The ids of the orders submitted in the first k entries of the log l, and
\* that none of these entries was cut.
Submitted(l, k) == {l[j].order_id : j \in {i \in 1..k : l[i].type = "Submit"}}
Clean(l, k) == \A j \in 1..k : l[j] # Torn

\* A fill, and all that a book holds, name only orders of the set S.
FillOver(f, S) == f.buy_order_id \in S /\ f.sell_order_id \in S
BookOver(b, S) ==
    /\ \A n \in DOMAIN b.heap : b.heap[n].order_id \in S
    /\ b.incoming # NoOrder => b.incoming.order_id \in S
    /\ \A i \in DOMAIN b.fills : FillOver(b.fills[i], S)

\* Every fill in the log names orders in front of it, ...
LogExplained ==
    \A i \in 1..Len(log) :
        Clean(log, i) /\ log[i].type = "Fill" => FillOver(log[i].fill, Submitted(log, i - 1))

\* ... because the books, the calls that have been logged and the results hold
\* only orders of the log.
LiveExplained ==
    Clean(log, Len(log)) =>
        /\ \A s \in DOMAIN books : BookOver(books[s], Submitted(log, Len(log)))
        /\ \A t \in Thread :
              /\ pc[t] = "call" /\ task[t].type = "Submit" => task[t].order_id \in Submitted(log, Len(log))
              /\ \A i \in DOMAIN result[t].fills : FillOver(result[t].fills[i], Submitted(log, Len(log)))

RecInv == ThreadsTyped /\ LogTyped /\ BooksGood /\ Numbered /\ LogExplained /\ LiveExplained
-----------------------------------------------------------------------------
(* The steps of a call, on one book. *)

\* The fields of a request.
LEMMA CommandFields ==
  ASSUME NEW r \in Command
  PROVE  /\ r.type \in {"Submit", "Cancel", "Modify"} /\ r.symbol \in Symbol /\ r.order_id \in OrderId
         /\ r.type = "Submit" => /\ r.order \in Order /\ r.order.order_id = r.order_id
                                 /\ r.order.remaining_quantity = r.order.quantity
                                 /\ r = [type |-> "Submit", symbol |-> r.symbol, order_id |-> r.order_id,
                                         order |-> r.order]
         /\ r.type = "Modify" => r.price \in Price /\ r.quantity \in Quantity /\ r.timestamp \in Timestamp
  BY DEF Command, Submission, Cancellation, Modification

\* The call begins: nothing is traded yet, and the order it brings, if it is a
\* new one, is the one it names.
LEMMA BeginKept ==
  ASSUME NEW b, Good(b), NEW r \in Command, NEW c, c = Begin(b, r)
  PROVE  /\ Good(c) /\ c.fills = b.fills
         /\ \A S : BookOver(b, S) /\ (r.type = "Submit" => r.order_id \in S) => BookOver(c, S)
  <1>1. BookTyped(b) /\ IsMap(b.heap, Node, Order)
    BY DEF Good, Struct, ListsTyped
  <1>2. CASE r.type = "Submit"
    <2>1. r.order \in Order /\ r.order.order_id = r.order_id
      BY <1>2, CommandFields
    <2>2. c = [b EXCEPT !.incoming = r.order]
      BY <1>2 DEF Begin
    <2>3. Renewed(b, r.order, b.fills, b.reports, c)
      BY <1>1, <2>1, <2>2 DEF Renewed, BookTyped
    <2>4. Good(c)
      BY <2>3, ResultGood
    <2>5. c.heap = b.heap /\ c.fills = b.fills /\ c.incoming = r.order
      BY <1>1, <2>2 DEF BookTyped
    <2> QED BY <1>2, <2>1, <2>4, <2>5 DEF BookOver
  <1>3. CASE r.type # "Submit" /\ r.order_id \notin DOMAIN b.index
    <2>1. c = b
      BY <1>3 DEF Begin
    <2> QED BY <2>1
  <1>4. ASSUME r.order_id \in DOMAIN b.index, NEW n, n = b.index[r.order_id].position,
               c.heap = Drop(b.heap, n), c.fills = b.fills,
               c.incoming = b.incoming \/ c.incoming.order_id = b.heap[n].order_id
        PROVE  \A S : BookOver(b, S) => BookOver(c, S)
    <2>1. n \in DOMAIN b.heap
      BY <1>4, EraseShape
    <2>2. DOMAIN c.heap = DOMAIN b.heap \ {n} /\ \A m \in DOMAIN c.heap : c.heap[m] = b.heap[m]
      BY <1>4 DEF Drop, Restrict
    <2> QED BY <1>4, <2>1, <2>2 DEF BookOver
  <1>5. CASE r.type = "Cancel" /\ r.order_id \in DOMAIN b.index
    <2>1. c = CancelFound(b, r.order_id)
      BY <1>5 DEF Begin
    <2>2. Good(c)
      BY <1>5, <2>1, CancelGood
    <2>3. c.heap = Drop(b.heap, b.index[r.order_id].position) /\ c.fills = b.fills /\ c.incoming = b.incoming
      BY <1>5, <2>1, CancelShape
    <2> QED BY <1>4, <1>5, <2>2, <2>3
  <1>6. CASE r.type = "Modify" /\ r.order_id \in DOMAIN b.index
    <2>1. c = ModifyFound(b, r)
      BY <1>6 DEF Begin
    <2>2. Good(c)
      BY <1>6, <2>1, ModifyGood, CommandFields
    <2>3. /\ c.heap = Drop(b.heap, b.index[r.order_id].position) /\ c.fills = b.fills
          /\ c.incoming = ModifiedOrder(b, r)
      BY <1>6, <2>1, ModifyShape
    <2>4. b.heap[b.index[r.order_id].position] \in Order
      BY <1>6, EraseShape
    <2>5. c.incoming.order_id = b.heap[b.index[r.order_id].position].order_id
      BY <2>3, <2>4 DEF ModifiedOrder, Order
    <2> QED BY <1>4, <1>6, <2>2, <2>3, <2>5
  <1>7. r.type \in {"Submit", "Cancel", "Modify"}
    BY CommandFields
  <1> QED BY <1>2, <1>3, <1>5, <1>6, <1>7

\* One iteration of the matching loop makes one fill, with the number tid,
\* between orders of the book.
LEMMA MatchKept ==
  ASSUME NEW b, Good(b), Matching(b), NEW tid \in Nat, NEW c, c = MatchOnce(b, tid)
  PROVE  /\ Good(c) /\ MatchQty(b) # 0
         /\ c.fills = Append(b.fills, FillOf(b, tid)) /\ FillOf(b, tid) \in Fill
         /\ FillOf(b, tid).trade_id = tid
         /\ \A S : BookOver(b, S) => BookOver(c, S)
  <1>1. b.incoming \in Order /\ b.incoming # NoOrder /\ CanMatch(b)
    BY DEF Matching, Good, BookTyped
  <1>2. Good(c) /\ c.incoming \in Order
    BY <1>1, MatchOnceGood
  <1>3. PICK n : n = FrontNode(b)
    OBVIOUS
  <1>4. /\ n \in DOMAIN b.heap /\ MatchQty(b) \in Quantity /\ MatchQty(b) > 0
        /\ IncAfter(b)["order_id"] = b.incoming["order_id"] /\ RestAfter(b)["order_id"] = b.heap[n]["order_id"]
    BY <1>1, <1>3, PartiesOfTrade
  <1>5. MatchQty(b) # 0
    BY <1>4, BoundsAssumption DEF Quantity
  <1>6. /\ c.incoming = IncAfter(b) /\ c.fills = Append(b.fills, FillOf(b, tid))
        /\ RestAfter(b).remaining_quantity = 0 =>
               c.heap = Drop(b.heap, n) /\ c.index = Drop(b.index, b.heap[n].order_id)
        /\ RestAfter(b).remaining_quantity # 0 =>
               c.heap = [b.heap EXCEPT ![n] = RestAfter(b)] /\ c.index = b.index
    BY <1>1, <1>3, MatchShape
  <1>7. Buyer(b) \in Order /\ Seller(b) \in Order /\ TradePrice(b) \in Price
    BY <1>1, TradeTyped
  <1>8. FillOf(b, tid) \in Fill /\ FillOf(b, tid).trade_id = tid
    BY <1>4, <1>7 DEF FillOf, Fill, Order
  <1>9. ASSUME NEW S, BookOver(b, S) PROVE BookOver(c, S)
    <2>1. IncAfter(b).order_id \in S /\ RestAfter(b).order_id \in S
      BY <1>1, <1>4, <1>9 DEF BookOver
    <2>2. FillOver(FillOf(b, tid), S)
      <3>1. Buyer(b).order_id \in S /\ Seller(b).order_id \in S
        BY <2>1 DEF Buyer, Seller
      <3> QED BY <3>1 DEF FillOver, FillOf
    <2>3. \A m \in DOMAIN c.heap : c.heap[m].order_id \in S
      <3>1. CASE RestAfter(b).remaining_quantity = 0
        <4>1. DOMAIN c.heap \subseteq DOMAIN b.heap /\ \A m \in DOMAIN c.heap : c.heap[m] = b.heap[m]
          BY <1>6, <3>1 DEF Drop, Restrict
        <4> QED BY <1>9, <4>1 DEF BookOver
      <3>2. CASE RestAfter(b).remaining_quantity # 0
        <4>1. /\ DOMAIN c.heap = DOMAIN b.heap
              /\ \A m \in DOMAIN c.heap : c.heap[m] = b.heap[m] \/ c.heap[m] = RestAfter(b)
          BY <1>4, <1>6, <3>2
        <4> QED BY <1>9, <2>1, <4>1 DEF BookOver
      <3> QED BY <3>1, <3>2
    <2>4. \A i \in DOMAIN c.fills : FillOver(c.fills[i], S)
      <3>1. b.fills \in Seq(Fill) /\ \A i \in DOMAIN b.fills : FillOver(b.fills[i], S)
        BY <1>9 DEF BookOver, Good, BookTyped
      <3>2. PICK f : f = FillOf(b, tid)
        OBVIOUS
      <3>3. c.fills = Append(b.fills, f) /\ FillOver(f, S)
        BY <1>6, <2>2, <3>2
      <3>4. PICK l \in Nat : l = Len(b.fills)
        BY <3>1
      <3>5. /\ DOMAIN c.fills = 1..(l + 1) /\ DOMAIN b.fills = 1..l /\ c.fills[l + 1] = f
            /\ \A i \in 1..l : c.fills[i] = b.fills[i]
        BY <3>1, <3>3, <3>4
      <3>6. \A i \in 1..(l + 1) : i \in 1..l \/ i = l + 1
        BY <3>4
      <3> QED BY <3>1, <3>3, <3>5, <3>6
    <2>5. c.incoming.order_id \in S
      BY <1>6, <2>1
    <2> QED BY <2>3, <2>4, <2>5 DEF BookOver
  <1> QED BY <1>2, <1>5, <1>6, <1>8, <1>9

\* The rest of an order is put into the book.
LEMMA RestKept ==
  ASSUME NEW b, Good(b), NEW o \in Order, o = b.incoming, ~CanMatch(b),
         o.remaining_quantity > 0, o.type = "Limit", o # NoOrder,
         NEW n \in Node, n \notin DOMAIN b.heap, NEW d, d = Rest(b, n)
  PROVE  /\ Good(d) /\ d.fills = b.fills /\ d.incoming = NoOrder
         /\ \A S : BookOver(b, S) => \A m \in DOMAIN d.heap : d.heap[m].order_id \in S
  <1>1. Good(d) /\ d.incoming = NoOrder
    BY RestGood
  <1>2. /\ d.fills = b.fills /\ DOMAIN d.heap = DOMAIN b.heap \cup {n} /\ d.heap[n] = o
        /\ \A m \in DOMAIN b.heap \ {n} : d.heap[m] = b.heap[m]
    BY RestHeap
  <1>3. \A m \in DOMAIN d.heap : (m \in DOMAIN b.heap /\ d.heap[m] = b.heap[m]) \/ d.heap[m] = o
    BY <1>2
  <1> QED BY <1>1, <1>2, <1>3 DEF BookOver

\* What is behind the loop of submitOrderInternal.
LEMMA FinishKept ==
  ASSUME NEW b, Good(b), ~Matching(b), Node \ DOMAIN b.heap # {}, NEW d, d = Finish(b)
  PROVE  /\ Good(d) /\ d.fills = b.fills /\ d.incoming = NoOrder
         /\ \A S : BookOver(b, S) => \A n \in DOMAIN d.heap : d.heap[n].order_id \in S
  <1>0. BookTyped(b) /\ (b.incoming = NoOrder \/ b.incoming \in Order)
    BY DEF Good, BookTyped
  <1>1. CASE b.incoming = NoOrder
    <2>1. d = b
      BY <1>1 DEF Finish
    <2> QED BY <1>1, <2>1 DEF BookOver
  <1>2. CASE b.incoming # NoOrder /\ b.incoming.remaining_quantity = 0
    <2>1. d = [b EXCEPT !.incoming = NoOrder]
      BY <1>2 DEF Finish
    <2>2. Renewed(b, NoOrder, b.fills, b.reports, d)
      BY <1>0, <2>1 DEF Renewed, BookTyped
    <2>3. d.heap = b.heap /\ d.fills = b.fills
      BY <1>0, <2>1 DEF BookTyped
    <2> QED BY <2>2, <2>3, ResultGood DEF BookOver
  <1>3. CASE b.incoming # NoOrder /\ b.incoming.remaining_quantity # 0 /\ b.incoming.type = "Limit"
    <2>1. PICK n \in Node : n \notin DOMAIN b.heap /\ d = Rest(b, n)
      <3> DEFINE x == CHOOSE n \in Node : n \notin DOMAIN b.heap
      <3>1. x \in Node /\ x \notin DOMAIN b.heap
        OBVIOUS
      <3>2. d = Rest(b, x)
        BY <1>3 DEF Finish
      <3> HIDE DEF x
      <3> QED BY <3>1, <3>2
    <2>2. ~CanMatch(b) /\ b.incoming \in Order
      BY <1>0, <1>3 DEF Matching
    <2>3. b.incoming.remaining_quantity > 0
      BY <1>3, <2>2, BoundsAssumption DEF Order, Quantity
    <2>4. PICK o \in Order : o = b.incoming
      BY <2>2
    <2> QED BY <1>3, <2>1, <2>2, <2>3, <2>4, RestKept
  <1>4. CASE b.incoming # NoOrder /\ b.incoming.remaining_quantity # 0 /\ b.incoming.type # "Limit"
    <2>1. d = Expire(b) /\ b.incoming \in Order
      BY <1>0, <1>4 DEF Finish
    <2> DEFINE rs == Append(b.reports, PlainReport(b.incoming, "Cancelled"))
    <2>2. rs \in Seq(ExecutionReport)
      <3>1. 0 \in Quantity /\ 0 \in Nat
        BY BoundsAssumption DEF Quantity
      <3>2. PlainReport(b.incoming, "Cancelled") \in ExecutionReport
        BY <2>1, <3>1, ReportTyped DEF OrderStatus
      <3> QED BY <1>0, <3>2 DEF BookTyped
    <2>3. d = [b EXCEPT !.incoming = NoOrder, !.reports = rs]
      BY <1>0, <2>1 DEF Expire, BookTyped
    <2> HIDE DEF rs
    <2>4. Renewed(b, NoOrder, b.fills, rs, d)
      BY <1>0, <2>2, <2>3 DEF Renewed, BookTyped
    <2>5. d.heap = b.heap /\ d.fills = b.fills
      BY <1>0, <2>3 DEF BookTyped
    <2> QED BY <2>4, <2>5, ResultGood DEF BookOver
  <1> QED BY <1>1, <1>2, <1>3, <1>4

\* The result is handed over.
Cleared(d) == [d EXCEPT !.fills = <<>>, !.reports = <<>>]

\* What is left is a good book.
LEMMA ClearKept ==
  ASSUME NEW d, Good(d), d.incoming = NoOrder, NEW c, c = Cleared(d)
  PROVE  Good(c) /\ c.fills = <<>> /\ c.heap = d.heap /\ c.incoming = NoOrder
  <1>1. BookTyped(d)
    BY DEF Good
  <1>2. Renewed(d, NoOrder, <<>>, <<>>, c)
    <2>1. <<>> \in Seq(Fill) /\ <<>> \in Seq(ExecutionReport)
      OBVIOUS
    <2>2. c = [d EXCEPT !.incoming = NoOrder, !.fills = <<>>, !.reports = <<>>]
      BY <1>1 DEF BookTyped, Cleared
    <2> QED BY <2>1, <2>2 DEF Renewed
  <1>3. c.heap = d.heap /\ c.fills = <<>> /\ c.incoming = NoOrder
    BY <1>1 DEF BookTyped, Cleared
  <1>4. Good(c)
    BY <1>2, ResultGood
  <1> QED BY <1>3, <1>4
-----------------------------------------------------------------------------
(* The log. *)

\* A log entry tells the kind, the book and the order of its request.
LEMMA EntryFields ==
  ASSUME NEW r \in Command, NEW e, e = RequestEntry(r)
  PROVE  /\ e \in Entry /\ e.type = r.type /\ e.symbol = r.symbol /\ e.order_id = r.order_id
         /\ r.type # "Submit" => e = r
         /\ r.type = "Submit" => e = [type |-> "Submit", symbol |-> r.symbol, order_id |-> r.order_id,
                                      order |-> to_net(r.order)]
  <1>1. e \in Entry
    BY DEF Entry
  <1>2. CASE r.type = "Submit"
    <2>1. r = [type |-> "Submit", symbol |-> r.symbol, order_id |-> r.order_id, order |-> r.order]
      BY <1>2, CommandFields
    <2>2. e = [r EXCEPT !.order = to_net(r.order)]
      BY <1>2 DEF RequestEntry
    <2>3. e = [type |-> "Submit", symbol |-> r.symbol, order_id |-> r.order_id, order |-> to_net(r.order)]
      BY <2>1, <2>2
    <2> QED BY <1>1, <1>2, <2>3
  <1>3. CASE r.type # "Submit"
    BY <1>1, <1>3 DEF RequestEntry
  <1> QED BY <1>2, <1>3

\* What replay makes of an entry is a request again: the order has its whole
\* quantity to trade and belongs to client 0.
LEMMA ReplayedCommand ==
  ASSUME NEW r \in Command, NEW e, e = RequestEntry(r),
         NEW q, q = IF e.type = "Submit" THEN [e EXCEPT !.order = from_net(@)] ELSE e
  PROVE  q \in Command /\ q.type = e.type /\ q.symbol = e.symbol /\ q.order_id = e.order_id
  <1>1. CASE r.type = "Submit"
    <2>1. e = [type |-> "Submit", symbol |-> r.symbol, order_id |-> r.order_id, order |-> to_net(r.order)]
      BY <1>1, EntryFields
    <2>2. r.order \in Order /\ r.order.order_id = r.order_id /\ r.symbol \in Symbol /\ r.order_id \in OrderId
      BY <1>1, CommandFields
    <2>3. PICK o \in Order : o = r.order
      BY <2>2
    <2>4. PICK n : n = to_net(o)
      OBVIOUS
    <2>5. /\ n.order_id = o.order_id /\ n.symbol = o.symbol /\ n.side = o.side /\ n.type = o.type
          /\ n.price = o.price /\ n.quantity = o.quantity /\ n.timestamp = o.timestamp
      BY <2>4 DEF to_net, Restrict, Order
    <2>6. /\ from_net(n) \in Order /\ from_net(n).order_id = o.order_id
          /\ from_net(n).remaining_quantity = from_net(n).quantity
      BY <2>5, WorkloadAssumption DEF from_net, Order
    <2>7. q = [type |-> "Submit", symbol |-> r.symbol, order_id |-> r.order_id, order |-> from_net(n)]
      BY <2>1, <2>3, <2>4
    <2>8. PICK p \in Order : p = from_net(n)
      BY <2>6
    <2>9. q \in Submission
      BY <2>2, <2>3, <2>6, <2>7, <2>8 DEF Submission
    <2> QED BY <2>1, <2>7, <2>9 DEF Command
  <1>2. CASE r.type # "Submit"
    <2>1. e = r
      BY <1>2, EntryFields
    <2> QED BY <1>2, <2>1
  <1> QED BY <1>1, <1>2

\* An entry that was not cut and is no fill holds a request.
LEMMA EntryKinds ==
  ASSUME NEW e \in Entry, e # Torn, e.type # "Fill"
  PROVE  \E r \in Command : e = RequestEntry(r)
  BY DEF Entry, FillEntry

\* The log m is l, of length n, and behind it e.
Appended(l, n, e, m) ==
    /\ m \in Seq(Entry) /\ Len(m) = n + 1 /\ m[n + 1] = e /\ \A i \in 1..n : m[i] = l[i]
    /\ \A k \in 0..n : Submitted(m, k) = Submitted(l, k) /\ (Clean(m, k) => Clean(l, k))
    /\ Clean(m, n + 1) => Clean(l, n)
    /\ Submitted(l, n) \subseteq Submitted(m, n + 1)
    /\ e.type = "Submit" => e.order_id \in Submitted(m, n + 1)

\* One more entry.
LEMMA AppendEntry ==
  ASSUME NEW l \in Seq(Entry), NEW e \in Entry, NEW n \in Nat, n = Len(l)
  PROVE  Appended(l, n, e, Append(l, e))
  <1>0. PICK m : m = Append(l, e)
    OBVIOUS
  <1>1. m \in Seq(Entry) /\ Len(m) = n + 1 /\ m[n + 1] = e /\ \A i \in 1..n : m[i] = l[i]
    BY <1>0
  <1>2. ASSUME NEW k \in 0..n
        PROVE  Submitted(m, k) = Submitted(l, k) /\ (Clean(m, k) => Clean(l, k))
    <2>1. \A i \in 1..k : m[i] = l[i]
      BY <1>1
    <2> QED BY <2>1 DEF Submitted, Clean
  <1>3. Clean(m, n + 1) => Clean(l, n)
    BY <1>1 DEF Clean
  <1>4. Submitted(l, n) \subseteq Submitted(m, n + 1)
    BY <1>1 DEF Submitted
  <1>5. e.type = "Submit" => e.order_id \in Submitted(m, n + 1)
    BY <1>1 DEF Submitted
  <1>6. Appended(l, n, e, m)
    BY <1>1, <1>2, <1>3, <1>4, <1>5 DEF Appended
  <1> QED BY <1>0, <1>6

\* A book over a set of orders is over every larger one.
LEMMA OverMore ==
  ASSUME NEW S, NEW T, S \subseteq T
  PROVE  /\ \A b : BookOver(b, S) => BookOver(b, T)
         /\ \A f : FillOver(f, S) => FillOver(f, T)
  BY DEF BookOver, FillOver
-----------------------------------------------------------------------------
(* The books. *)

\* A step that sets the book of s to c and leaves the others alone.
Updated(s, c) ==
    /\ books' = [x \in DOMAIN books' |-> books'[x]]
    /\ DOMAIN books' = DOMAIN books \cup {s}
    /\ books'[s] = c
    /\ \A x \in DOMAIN books \ {s} : books'[x] = books[x]

\* Both ways the steps write it down.
LEMMA PutUpdated ==
  ASSUME NEW s, NEW c, books' = Put(books, s, c)
  PROVE  Updated(s, c)
  BY DEF Put, Updated

\* The same for a book that is there already.
LEMMA ExceptUpdated ==
  ASSUME BooksGood, NEW s \in DOMAIN books, NEW c, books' = [books EXCEPT ![s] = c]
  PROVE  Updated(s, c)
  BY DEF BooksGood, Updated

\* A good book takes the place of a good one.
LEMMA UpdatedGood ==
  ASSUME BooksGood, NEW s, NEW c, Updated(s, c), Good(c)
  PROVE  BooksGood'
  BY DEF BooksGood, Updated

\* No number is dealt out: the fills that are there were there.
LEMMA UpdatedNumbers ==
  ASSUME Numbered, NEW s, NEW c, Updated(s, c), counter' = counter, phase' # "start",
         \A f \in trades' : Made(f), \A i \in DOMAIN c.fills : Made(c.fills[i]), trades' \subseteq Fill
  PROVE  Numbered'
  <1>1. ASSUME NEW f, Made(f)' PROVE Made(f)
    <2>1. CASE f \in trades'
      BY <2>1
    <2>2. ASSUME NEW x \in DOMAIN books', NEW i \in DOMAIN books'[x].fills, f = books'[x].fills[i]
          PROVE  Made(f)
      <3>1. CASE x = s
        BY <2>2, <3>1 DEF Updated
      <3>2. CASE x # s
        <4>1. x \in DOMAIN books /\ books'[x] = books[x]
          BY <2>2, <3>2 DEF Updated
        <4> QED BY <2>2, <4>1 DEF Made
      <3> QED BY <3>1, <3>2
    <2> QED BY <1>1, <2>1, <2>2 DEF Made
  <1> QED BY <1>1 DEF Numbered

\* All books are over S when the new one is.
LEMMA UpdatedOver ==
  ASSUME NEW s, NEW c, Updated(s, c), NEW S, BookOver(c, S),
         \A x \in DOMAIN books : BookOver(books[x], S)
  PROVE  \A x \in DOMAIN books' : BookOver(books'[x], S)
  BY DEF Updated

\* The book of a symbol that is asked for.
LEMMA BookOfGood ==
  ASSUME BooksGood, NEW s
  PROVE  /\ Good(BookOf(s)) /\ \A i \in DOMAIN BookOf(s).fills : Made(BookOf(s).fills[i])
         /\ \A S : (\A x \in DOMAIN books : BookOver(books[x], S)) => BookOver(BookOf(s), S)
  <1>1. CASE s \in DOMAIN books
    <2>1. BookOf(s) = books[s]
      BY <1>1 DEF BookOf
    <2> QED BY <1>1, <2>1 DEF BooksGood, Made
  <1>2. CASE s \notin DOMAIN books
    <2>1. BookOf(s) = EmptyBook
      BY <1>2 DEF BookOf
    <2>2. DOMAIN EmptyBook.heap = {} /\ EmptyBook.incoming = NoOrder /\ EmptyBook.fills = <<>>
      BY DEF EmptyBook, EmptyMap
    <2>3. \A S : BookOver(EmptyBook, S)
      BY <2>2 DEF BookOver
    <2> QED BY <2>1, <2>2, <2>3, EmptyGood
  <1> QED BY <1>1, <1>2
-----------------------------------------------------------------------------
(* The steps. *)

\* A step that changes neither a book, nor the log, nor the fills of a result.
LEMMA QuietStep ==
  ASSUME RecInv, ThreadsTyped', LogTyped', UNCHANGED <<books, counter, trades, log>>,
         phase' = phase \/ phase' # "start",
         \A t \in Thread : /\ result'[t].fills = result[t].fills
                           /\ pc'[t] = "call" => pc[t] = "call" /\ task'[t] = task[t]
  PROVE  RecInv'
  <1>1. BooksGood' /\ LogExplained'
    BY DEF RecInv, BooksGood, LogExplained
  <1>2. Numbered'
    BY DEF RecInv, Numbered, Made
  <1>3. LiveExplained'
    BY DEF RecInv, LiveExplained
  <1> QED BY <1>1, <1>2, <1>3 DEF RecInv

\* A step that changes the book of s only, at most hands its fills over, and
\* leaves the log alone.
LEMMA BookStep ==
  ASSUME RecInv, ThreadsTyped', UNCHANGED <<log, durable, counter>>, next' \in Nat \ {0},
         phase' # "start", NEW s, NEW c, Updated(s, c), Good(c), trades' \subseteq Fill,
         \A f \in trades' : Made(f), \A i \in DOMAIN c.fills : Made(c.fills[i]),
         NEW S, S = Submitted(log, Len(log)),
         Clean(log, Len(log)) => BookOver(c, S),
         \A t \in Thread : pc'[t] = "call" => pc[t] = "call" /\ task'[t] = task[t],
         Clean(log, Len(log)) => \A t \in Thread : \A i \in DOMAIN result'[t].fills : FillOver(result'[t].fills[i], S)
  PROVE  RecInv'
  <1>1. BooksGood'
    BY UpdatedGood DEF RecInv
  <1>2. Numbered'
    BY UpdatedNumbers DEF RecInv
  <1>3. LogTyped' /\ LogExplained'
    BY DEF RecInv, LogTyped, LogExplained
  <1>4. LiveExplained'
    <2> SUFFICES ASSUME Clean(log, Len(log))
                 PROVE  /\ \A x \in DOMAIN books' : BookOver(books'[x], S)
                        /\ \A t \in Thread :
                             /\ pc'[t] = "call" /\ task'[t].type = "Submit" => task'[t].order_id \in S
                             /\ \A i \in DOMAIN result'[t].fills : FillOver(result'[t].fills[i], S)
      BY DEF LiveExplained
    <2>1. \A x \in DOMAIN books : BookOver(books[x], S)
      BY DEF RecInv, LiveExplained
    <2>2. \A x \in DOMAIN books' : BookOver(books'[x], S)
      BY <2>1, UpdatedOver
    <2>3. \A t \in Thread : pc'[t] = "call" /\ task'[t].type = "Submit" => task'[t].order_id \in S
      BY DEF RecInv, LiveExplained
    <2> QED BY <2>2, <2>3
  <1> QED BY <1>1, <1>2, <1>3, <1>4 DEF RecInv

\* A thread goes on to label l with the request k.
LEMMA ThreadGoes ==
  ASSUME ThreadsTyped, NEW t \in Thread, NEW l, NEW k, Goto(t, l), task' = [task EXCEPT ![t] = k],
         result' = result, tasks' \in Seq(Command), DOMAIN books \subseteq DOMAIN books', l # "fills",
         l \in Started => k \in Command, l \in Found => k.symbol \in DOMAIN books'
  PROVE  ThreadsTyped'
  <1>1. /\ pc' = [x \in Thread |-> pc'[x]] /\ task' = [x \in Thread |-> task'[x]]
        /\ result' = [x \in Thread |-> result'[x]]
    BY DEF ThreadsTyped, Goto
  <1>2. /\ pc'[t] = l /\ task'[t] = k
        /\ \A x \in Thread \ {t} : pc'[x] = pc[x] /\ task'[x] = task[x]
    BY DEF ThreadsTyped, Goto
  <1>3. ASSUME NEW x \in Thread
        PROVE  /\ pc'[x] \in Started => task'[x] \in Command
               /\ pc'[x] \in Found => task'[x].symbol \in DOMAIN books'
               /\ result'[x] = [fills |-> result'[x].fills, reports |-> result'[x].reports]
               /\ result'[x].fills \in Seq(Fill)
               /\ pc'[x] = "fills" => result'[x].fills # <<>>
    <2>1. CASE x = t
      BY <1>2, <2>1 DEF ThreadsTyped
    <2>2. CASE x # t
      BY <1>2, <2>2 DEF ThreadsTyped
    <2> QED BY <2>1, <2>2
  <1> QED BY <1>1, <1>3 DEF ThreadsTyped

\* The request of a thread stays what it is.
LEMMA TaskKept ==
  ASSUME ThreadsTyped, NEW t \in Thread
  PROVE  task = [task EXCEPT ![t] = task[t]]
  BY DEF ThreadsTyped

\* A worker takes a task.
LEMMA DequeueStep ==
  ASSUME RecInv, NEW w \in Worker, Dequeue(w), UNCHANGED recoveryVars
  PROVE  RecInv'
  <1>1. w \in Thread /\ ThreadsTyped /\ tasks \in Seq(Command) /\ tasks # <<>>
    BY DEF Thread, RecInv, ThreadsTyped, Dequeue
  <1>2. Head(tasks) \in Command /\ Tail(tasks) \in Seq(Command)
    BY <1>1, HeadTailProperties
  <1>3. /\ Goto(w, "get") /\ task' = [task EXCEPT ![w] = Head(tasks)] /\ result' = result
        /\ tasks' = Tail(tasks) /\ UNCHANGED <<books, counter, trades, log, durable>>
    BY DEF Dequeue, bookVars, logVars
  <1>4. ThreadsTyped'
    <2>1. PICK k \in Command : k = Head(tasks)
      BY <1>2
    <2> QED BY <1>1, <1>2, <1>3, <2>1, ThreadGoes DEF Found
  <1>5. \A t \in Thread : pc'[t] = "call" => pc[t] = "call" /\ task'[t] = task[t]
    BY <1>1, <1>3 DEF Goto, ThreadsTyped
  <1>6. LogTyped' /\ phase' = phase
    BY <1>3 DEF RecInv, LogTyped, recoveryVars
  <1> QED BY <1>3, <1>4, <1>5, <1>6, QuietStep

\* The book is looked up, and made if need be.
LEMMA GetStep ==
  ASSUME RecInv, NEW w \in Worker, get_order_book(w), phase = "up", UNCHANGED recoveryVars
  PROVE  RecInv'
  <1>1. w \in Thread /\ ThreadsTyped /\ BooksGood /\ task[w] \in Command /\ trades \subseteq Fill
    BY DEF Thread, RecInv, ThreadsTyped, get_order_book, Started, Numbered
  <1>2. PICK s : s = task[w].symbol
    OBVIOUS
  <1>3. PICK c : c = BookOf(s)
    OBVIOUS
  <1>4. Updated(s, c)
    BY <1>2, <1>3, PutUpdated DEF get_order_book
  <1>5. /\ Good(c) /\ \A i \in DOMAIN c.fills : Made(c.fills[i])
        /\ \A S : (\A x \in DOMAIN books : BookOver(books[x], S)) => BookOver(c, S)
    BY <1>1, <1>3, BookOfGood
  <1>6. /\ Goto(w, "lock") /\ task' = [task EXCEPT ![w] = task[w]] /\ result' = result /\ tasks' = tasks
        /\ UNCHANGED <<counter, trades, log, durable, next, phase>>
    BY <1>1, TaskKept DEF get_order_book, logVars, recoveryVars
  <1>7. ThreadsTyped'
    <2>1. tasks' \in Seq(Command) /\ DOMAIN books \subseteq DOMAIN books' /\ task[w].symbol \in DOMAIN books'
      BY <1>1, <1>2, <1>4, <1>6 DEF Updated, ThreadsTyped
    <2>2. PICK k \in Command : k = task[w]
      BY <1>1
    <2> QED BY <1>1, <1>6, <2>1, <2>2, ThreadGoes
  <1>8. \A t \in Thread : pc'[t] = "call" => pc[t] = "call" /\ task'[t] = task[t]
    BY <1>1, <1>6 DEF Goto, ThreadsTyped
  <1>9. PICK S : S = Submitted(log, Len(log))
    OBVIOUS
  <1>10. Clean(log, Len(log)) =>
            /\ BookOver(c, S)
            /\ \A t \in Thread : \A i \in DOMAIN result'[t].fills : FillOver(result'[t].fills[i], S)
    BY <1>5, <1>6, <1>9 DEF RecInv, LiveExplained
  <1>11. \A f \in trades' : Made(f)
    BY <1>6 DEF Made
  <1>12. next' \in Nat \ {0} /\ phase' # "start" /\ trades' \subseteq Fill
    BY <1>1, <1>6 DEF RecInv, LogTyped
  <1> QED BY <1>4, <1>5, <1>6, <1>7, <1>8, <1>9, <1>10, <1>11, <1>12, BookStep

\* The mutex is taken.
LEMMA LockStep ==
  ASSUME RecInv, NEW w \in Worker, Lock(w), UNCHANGED recoveryVars
  PROVE  RecInv'
  <1>1. w \in Thread /\ ThreadsTyped /\ task[w] \in Command /\ task[w].symbol \in DOMAIN books
    BY DEF Thread, RecInv, ThreadsTyped, Lock, Started, Found
  <1>2. /\ Goto(w, "log") /\ task' = [task EXCEPT ![w] = task[w]] /\ task' = task /\ result' = result /\ tasks' = tasks
        /\ UNCHANGED <<books, counter, trades, log, durable, next, phase>>
    BY <1>1, TaskKept DEF Lock, bookVars, logVars, recoveryVars
  <1>3. ThreadsTyped'
    <2>1. PICK k \in Command : k = task[w]
      BY <1>1
    <2>2. tasks' \in Seq(Command)
      BY <1>1, <1>2 DEF ThreadsTyped
    <2> QED BY <1>1, <1>2, <2>1, <2>2, ThreadGoes
  <1>4. \A t \in Thread : pc'[t] = "call" => pc[t] = "call" /\ task'[t] = task[t]
    BY <1>1, <1>2 DEF Goto, ThreadsTyped
  <1>5. LogTyped'
    BY <1>2 DEF RecInv, LogTyped
  <1> QED BY <1>2, <1>3, <1>4, <1>5, QuietStep

\* A step that logs e, which is a request about to be carried out or a fill of
\* a result.
LEMMA LogStep ==
  ASSUME RecInv, ThreadsTyped', UNCHANGED <<books, counter, trades, phase, durable, next>>,
         NEW e \in Entry, log' = Append(log, e),
         Clean(log, Len(log)) /\ e.type = "Fill" => FillOver(e.fill, Submitted(log, Len(log))),
         \A t \in Thread : pc'[t] = "call" => \/ pc[t] = "call" /\ task'[t] = task[t]
                                              \/ e.type = task'[t].type /\ e.order_id = task'[t].order_id,
         \A t \in Thread : \A i \in DOMAIN result'[t].fills :
             \E j \in DOMAIN result[t].fills : result'[t].fills[i] = result[t].fills[j]
  PROVE  RecInv'
  <1>1. log \in Seq(Entry) /\ durable \in Nat /\ durable <= Len(log)
    BY DEF RecInv, LogTyped
  <1>2. PICK n \in Nat : n = Len(log)
    BY <1>1
  <1>3. PICK m : m = log'
    OBVIOUS
  <1>4. /\ m \in Seq(Entry) /\ Len(m) = n + 1 /\ m[n + 1] = e /\ \A i \in 1..n : m[i] = log[i]
        /\ \A k \in 0..n : Submitted(m, k) = Submitted(log, k) /\ (Clean(m, k) => Clean(log, k))
        /\ Clean(m, n + 1) => Clean(log, n)
        /\ Submitted(log, n) \subseteq Submitted(m, n + 1)
        /\ e.type = "Submit" => e.order_id \in Submitted(m, n + 1)
    <2>1. Appended(log, n, e, Append(log, e))
      BY <1>1, <1>2, AppendEntry
    <2>2. Appended(log, n, e, m)
      BY <1>3, <2>1
    <2> QED BY <2>2 DEF Appended
  <1>5. LogTyped'
    BY <1>1, <1>2, <1>3, <1>4 DEF RecInv, LogTyped
  <1>6. BooksGood' /\ Numbered'
    BY DEF RecInv, BooksGood, Numbered, Made
  <1>7. LogExplained'
    <2> SUFFICES ASSUME NEW i \in 1..(n + 1), Clean(m, i), m[i].type = "Fill"
                 PROVE  FillOver(m[i].fill, Submitted(m, i - 1))
      BY <1>3, <1>4 DEF LogExplained
    <2>1. CASE i = n + 1
      <3>1. Clean(log, n)
        BY <1>4, <2>1
      <3>2. FillOver(e.fill, Submitted(log, n))
        BY <1>2, <1>4, <2>1, <3>1
      <3>3. Submitted(m, i - 1) = Submitted(log, n)
        BY <1>2, <1>4, <2>1
      <3> QED BY <1>4, <2>1, <3>2, <3>3
    <2>2. CASE i \in 1..n
      <3>1. i \in 0..n /\ i - 1 \in 0..n
        BY <1>2, <2>2
      <3>2. m[i] = log[i] /\ Clean(log, i) /\ Submitted(m, i - 1) = Submitted(log, i - 1)
        BY <1>4, <2>2, <3>1
      <3>3. FillOver(log[i].fill, Submitted(log, i - 1))
        BY <1>2, <2>2, <3>2 DEF RecInv, LogExplained
      <3> QED BY <3>2, <3>3
    <2> QED BY <1>2, <2>1, <2>2
  <1>8. LiveExplained'
    <2>1. PICK S : S = Submitted(log, n)
      OBVIOUS
    <2>2. PICK T : T = Submitted(m, n + 1)
      OBVIOUS
    <2> SUFFICES ASSUME Clean(m, n + 1)
                 PROVE  /\ \A x \in DOMAIN books' : BookOver(books'[x], T)
                        /\ \A t \in Thread :
                             /\ pc'[t] = "call" /\ task'[t].type = "Submit" => task'[t].order_id \in T
                             /\ \A i \in DOMAIN result'[t].fills : FillOver(result'[t].fills[i], T)
      BY <1>3, <1>4, <2>2 DEF LiveExplained
    <2>3. Clean(log, n) /\ S \subseteq T
      BY <1>4, <2>1, <2>2
    <2>4. /\ \A x \in DOMAIN books : BookOver(books[x], S)
          /\ \A t \in Thread :
                /\ pc[t] = "call" /\ task[t].type = "Submit" => task[t].order_id \in S
                /\ \A i \in DOMAIN result[t].fills : FillOver(result[t].fills[i], S)
      BY <1>2, <2>1, <2>3 DEF RecInv, LiveExplained
    <2>5. \A x \in DOMAIN books' : BookOver(books'[x], T)
      BY <2>3, <2>4, OverMore
    <2>6. \A t \in Thread : pc'[t] = "call" /\ task'[t].type = "Submit" => task'[t].order_id \in T
      BY <1>4, <2>2, <2>3, <2>4
    <2>7. \A t \in Thread : \A i \in DOMAIN result'[t].fills : FillOver(result'[t].fills[i], T)
      <3>1. ASSUME NEW t \in Thread, NEW i \in DOMAIN result'[t].fills PROVE FillOver(result'[t].fills[i], T)
        <4>1. PICK j \in DOMAIN result[t].fills : result'[t].fills[i] = result[t].fills[j]
          BY <3>1
        <4>2. FillOver(result[t].fills[j], S)
          BY <2>4, <4>1
        <4> QED BY <2>3, <4>1, <4>2, OverMore
      <3> QED BY <3>1
    <2> QED BY <2>5, <2>6, <2>7
  <1> QED BY <1>5, <1>6, <1>7, <1>8 DEF RecInv

\* The request is logged before anything is done.
LEMMA LogRequestStep ==
  ASSUME RecInv, NEW w \in Worker, LogRequest(w), UNCHANGED recoveryVars
  PROVE  RecInv'
  <1>1. w \in Thread /\ ThreadsTyped /\ task[w] \in Command /\ task[w].symbol \in DOMAIN books
    BY DEF Thread, RecInv, ThreadsTyped, LogRequest, Started, Found
  <1>2. PICK e : e = RequestEntry(task[w])
    OBVIOUS
  <1>3. /\ Goto(w, "call") /\ task' = [task EXCEPT ![w] = task[w]] /\ task' = task /\ result' = result /\ tasks' = tasks
        /\ log' = Append(log, e) /\ UNCHANGED <<books, counter, trades, durable, next, phase>>
    BY <1>1, <1>2, TaskKept DEF LogRequest, recoveryVars
  <1>4. e \in Entry /\ e.type = task[w].type /\ e.order_id = task[w].order_id /\ e.type # "Fill"
    BY <1>1, <1>2, EntryFields, CommandFields
  <1>5. ThreadsTyped'
    <2>1. PICK k \in Command : k = task[w]
      BY <1>1
    <2>2. tasks' \in Seq(Command)
      BY <1>1, <1>3 DEF ThreadsTyped
    <2> QED BY <1>1, <1>3, <2>1, <2>2, ThreadGoes
  <1>6. \A t \in Thread : pc'[t] = "call" => \/ pc[t] = "call" /\ task'[t] = task[t]
                                             \/ e.type = task'[t].type /\ e.order_id = task'[t].order_id
    BY <1>1, <1>3, <1>4 DEF Goto, ThreadsTyped
  <1>7. \A t \in Thread : \A i \in DOMAIN result'[t].fills :
             \E j \in DOMAIN result[t].fills : result'[t].fills[i] = result[t].fills[j]
    BY <1>3
  <1> QED BY <1>3, <1>4, <1>5, <1>6, <1>7, LogStep

\* A call begins on a book whose request is in the log.
LEMMA CallStep ==
  ASSUME RecInv, NEW w \in Worker, Call(w), phase = "up", UNCHANGED recoveryVars
  PROVE  RecInv'
  <1>1. /\ w \in Thread /\ ThreadsTyped /\ BooksGood /\ task[w] \in Command /\ task[w].symbol \in DOMAIN books
        /\ trades \subseteq Fill
    BY DEF Thread, RecInv, ThreadsTyped, Call, Started, Found, Numbered
  <1>2. PICK s \in DOMAIN books : s = task[w].symbol
    BY <1>1
  <1>3. PICK c : c = Begin(books[s], task[w])
    OBVIOUS
  <1>4. Updated(s, c)
    <2>1. books' = [books EXCEPT ![s] = c]
      BY <1>2, <1>3 DEF Call
    <2> QED BY <1>1, <1>2, <2>1, ExceptUpdated
  <1>5. /\ Good(c) /\ c.fills = books[s].fills
        /\ \A S : BookOver(books[s], S) /\ (task[w].type = "Submit" => task[w].order_id \in S) => BookOver(c, S)
    <2>1. Good(books[s])
      BY <1>1, <1>2 DEF BooksGood
    <2> QED BY <1>1, <1>3, <2>1, BeginKept
  <1>6. \A i \in DOMAIN c.fills : Made(c.fills[i])
    BY <1>2, <1>5 DEF Made
  <1>7. /\ Goto(w, "match") /\ task' = [task EXCEPT ![w] = task[w]] /\ task' = task /\ result' = result /\ tasks' = tasks
        /\ UNCHANGED <<counter, trades, log, durable, next, phase>>
    BY <1>1, TaskKept DEF Call, logVars, recoveryVars
  <1>8. ThreadsTyped'
    <2>1. tasks' \in Seq(Command) /\ DOMAIN books \subseteq DOMAIN books' /\ task[w].symbol \in DOMAIN books'
      BY <1>1, <1>2, <1>4, <1>7 DEF Updated, ThreadsTyped
    <2>2. PICK k \in Command : k = task[w]
      BY <1>1
    <2> QED BY <1>1, <1>7, <2>1, <2>2, ThreadGoes
  <1>9. \A t \in Thread : pc'[t] = "call" => pc[t] = "call" /\ task'[t] = task[t]
    BY <1>1, <1>7 DEF Goto, ThreadsTyped
  <1>10. PICK S : S = Submitted(log, Len(log))
    OBVIOUS
  <1>11. Clean(log, Len(log)) =>
            /\ BookOver(c, S)
            /\ \A t \in Thread : \A i \in DOMAIN result'[t].fills : FillOver(result'[t].fills[i], S)
    <2>1. pc[w] = "call"
      BY DEF Call
    <2> QED BY <1>1, <1>2, <1>5, <1>7, <1>10, <2>1 DEF RecInv, LiveExplained
  <1>12. \A f \in trades' : Made(f)
    BY <1>7 DEF Made
  <1>13. next' \in Nat \ {0} /\ phase' # "start" /\ trades' \subseteq Fill
    BY <1>1, <1>7 DEF RecInv, LogTyped
  <1> QED BY <1>4, <1>5, <1>6, <1>7, <1>8, <1>9, <1>10, <1>11, <1>12, <1>13, BookStep

\* A fill gets the next number, which none has yet.
LEMMA MatchStep ==
  ASSUME RecInv, NEW t \in Thread, Match(t), phase # "start", UNCHANGED recoveryVars
  PROVE  RecInv'
  <1>1. /\ ThreadsTyped /\ BooksGood /\ Numbered /\ task[t].symbol \in DOMAIN books
        /\ counter \in Nat \ {0} /\ trades \subseteq Fill
    BY DEF RecInv, ThreadsTyped, Match, Found, Numbered
  <1>2. PICK s \in DOMAIN books : s = task[t].symbol
    BY <1>1
  <1>3. PICK b : b = books[s]
    OBVIOUS
  <1>4. PICK c : c = MatchOnce(b, counter)
    OBVIOUS
  <1>5. PICK f : f = FillOf(b, counter)
    OBVIOUS
  <1>6. /\ Good(c) /\ MatchQty(b) # 0 /\ c.fills = Append(b.fills, f) /\ f \in Fill /\ f.trade_id = counter
        /\ \A S : BookOver(b, S) => BookOver(c, S)
    <2>1. Good(b) /\ Matching(b)
      BY <1>1, <1>2, <1>3 DEF BooksGood, Match
    <2>2. /\ Good(c) /\ MatchQty(b) # 0 /\ c.fills = Append(b.fills, FillOf(b, counter))
          /\ FillOf(b, counter) \in Fill /\ FillOf(b, counter).trade_id = counter
          /\ \A S : BookOver(b, S) => BookOver(c, S)
      BY <1>1, <1>4, <2>1, MatchKept
    <2> QED BY <1>5, <2>2
  <1>7. /\ books' = [books EXCEPT ![s] = c] /\ counter' = counter + 1
        /\ UNCHANGED <<tasks, pc, task, result, trades, log, durable, phase, next>>
    BY <1>2, <1>3, <1>4, <1>6 DEF Match, threadVars, logVars, recoveryVars
  <1>8. Updated(s, c)
    BY <1>1, <1>2, <1>7, ExceptUpdated
  <1>9. BooksGood'
    BY <1>1, <1>6, <1>8, UpdatedGood
  <1>10. ThreadsTyped' /\ LogTyped' /\ LogExplained'
    <2>1. DOMAIN books \subseteq DOMAIN books'
      BY <1>8 DEF Updated
    <2> QED BY <1>7, <2>1 DEF RecInv, ThreadsTyped, LogTyped, LogExplained
  <1>11. LiveExplained'
    <2>1. PICK S : S = Submitted(log, Len(log))
      OBVIOUS
    <2> SUFFICES ASSUME Clean(log, Len(log))
                 PROVE  /\ \A x \in DOMAIN books' : BookOver(books'[x], S)
                        /\ \A x \in Thread :
                             /\ pc[x] = "call" /\ task[x].type = "Submit" => task[x].order_id \in S
                             /\ \A i \in DOMAIN result[x].fills : FillOver(result[x].fills[i], S)
      BY <1>7, <2>1 DEF LiveExplained
    <2>2. \A x \in DOMAIN books : BookOver(books[x], S)
      BY <2>1 DEF RecInv, LiveExplained
    <2>3. BookOver(c, S)
      BY <1>2, <1>3, <1>6, <2>2
    <2>4. \A x \in DOMAIN books' : BookOver(books'[x], S)
      BY <1>8, <2>2, <2>3, UpdatedOver
    <2> QED BY <2>1, <2>4 DEF RecInv, LiveExplained
  <1>12. \A g : Made(g) => g.trade_id \in Nat /\ g.trade_id < counter
    <2>1. ASSUME NEW g, Made(g) PROVE g \in Fill
      <3>1. CASE g \in trades
        BY <1>1, <3>1
      <3>2. ASSUME NEW x \in DOMAIN books, NEW i \in DOMAIN books[x].fills, g = books[x].fills[i]
            PROVE  g \in Fill
        <4>1. books[x].fills \in Seq(Fill)
          BY <1>1, <3>2 DEF BooksGood, Good, BookTyped
        <4> QED BY <3>2, <4>1
      <3> QED BY <2>1, <3>1, <3>2 DEF Made
    <2> QED BY <1>1, <2>1 DEF Numbered, Fill
  <1>13. ASSUME NEW g, Made(g)' PROVE Made(g) \/ g = f
    <2>1. CASE g \in trades'
      BY <1>7, <2>1 DEF Made
    <2>2. ASSUME NEW x \in DOMAIN books', NEW i \in DOMAIN books'[x].fills, g = books'[x].fills[i]
          PROVE  Made(g) \/ g = f
      <3>1. CASE x # s
        <4>1. x \in DOMAIN books /\ books'[x] = books[x]
          BY <1>8, <2>2, <3>1 DEF Updated
        <4> QED BY <2>2, <4>1 DEF Made
      <3>2. CASE x = s
        <4>1. PICK fs : fs = b.fills
          OBVIOUS
        <4>2. fs \in Seq(Fill) /\ g = Append(fs, f)[i] /\ i \in DOMAIN Append(fs, f)
          BY <1>1, <1>2, <1>3, <1>6, <1>8, <2>2, <3>2, <4>1 DEF Updated, BooksGood, Good, BookTyped
        <4>3. g = f \/ (i \in DOMAIN fs /\ g = fs[i])
          BY <1>6, <4>2
        <4> QED BY <1>2, <1>3, <4>1, <4>3 DEF Made
      <3> QED BY <3>1, <3>2
    <2> QED BY <1>13, <2>1, <2>2 DEF Made
  <1>14. Numbered'
    <2>1. counter' \in Nat \ {0} /\ trades' \subseteq Fill /\ phase' # "start"
      BY <1>1, <1>7
    <2>2. \A g : Made(g)' => g.trade_id < counter'
      BY <1>1, <1>6, <1>7, <1>12, <1>13
    <2>3. \A g, h : Made(g)' /\ Made(h)' /\ g.trade_id = h.trade_id => g = h
      BY <1>1, <1>6, <1>12, <1>13 DEF Numbered
    <2> QED BY <2>1, <2>2, <2>3 DEF Numbered
  <1> QED BY <1>9, <1>10, <1>11, <1>14 DEF RecInv

\* A thread is left with the result r.
LEMMA ResultGoes ==
  ASSUME ThreadsTyped, NEW t \in Thread, NEW r, r = [fills |-> r.fills, reports |-> r.reports],
         r.fills \in Seq(Fill), SetResult(t, r), tasks' = tasks, DOMAIN books \subseteq DOMAIN books'
  PROVE  /\ ThreadsTyped' /\ result'[t] = r
         /\ \A x \in Thread \ {t} : result'[x] = result[x]
         /\ \A x \in Thread : pc'[x] = "call" => pc[x] = "call" /\ task'[x] = task[x]
  <1>1. /\ pc' = [x \in Thread |-> pc'[x]] /\ task' = [x \in Thread |-> task'[x]]
        /\ result' = [x \in Thread |-> result'[x]]
    BY DEF ThreadsTyped, SetResult, Goto
  <1>2. /\ pc'[t] = After(r) /\ result'[t] = r
        /\ \A x \in Thread \ {t} : pc'[x] = pc[x] /\ task'[x] = task[x] /\ result'[x] = result[x]
    BY DEF ThreadsTyped, SetResult, Goto
  <1>3. After(r) \notin Started /\ After(r) \notin Found /\ (After(r) = "fills" => r.fills # <<>>)
    BY DEF After, Started, Found
  <1>4. ASSUME NEW x \in Thread
        PROVE  /\ pc'[x] \in Started => task'[x] \in Command
               /\ pc'[x] \in Found => task'[x].symbol \in DOMAIN books'
               /\ result'[x] = [fills |-> result'[x].fills, reports |-> result'[x].reports]
               /\ result'[x].fills \in Seq(Fill)
               /\ pc'[x] = "fills" => result'[x].fills # <<>>
    <2>1. CASE x = t
      BY <1>2, <1>3, <2>1
    <2>2. CASE x # t
      BY <1>2, <2>2 DEF ThreadsTyped
    <2> QED BY <2>1, <2>2
  <1>5. \A x \in Thread : pc'[x] = "call" => pc[x] = "call" /\ task'[x] = task[x]
    BY <1>2, <1>3 DEF Started
  <1>6. tasks' \in Seq(Command)
    BY DEF ThreadsTyped
  <1>7. ThreadsTyped'
    BY <1>1, <1>4, <1>6 DEF ThreadsTyped
  <1> QED BY <1>2, <1>5, <1>7

\* The call ends and hands its fills over.
LEMMA LeaveStep ==
  ASSUME RecInv, NEW t \in Thread, Leave(t), phase # "start", UNCHANGED recoveryVars
  PROVE  RecInv'
  <1>1. /\ ThreadsTyped /\ BooksGood /\ task[t].symbol \in DOMAIN books /\ trades \subseteq Fill
    BY DEF RecInv, ThreadsTyped, Leave, Found, Numbered
  <1>2. PICK s \in DOMAIN books : s = task[t].symbol
    BY <1>1
  <1>3. PICK b : b = books[s]
    OBVIOUS
  <1>4. PICK d : d = Finish(b)
    OBVIOUS
  <1>5. PICK c : c = Cleared(d)
    OBVIOUS
  <1>6. PICK r : r = IF t = Main THEN NoResult ELSE [fills |-> d.fills, reports |-> d.reports]
    OBVIOUS
  <1>7. /\ books' = [books EXCEPT ![s] = c] /\ trades' = trades \cup Range(d.fills) /\ SetResult(t, r)
        /\ ~Matching(b) /\ Node \ DOMAIN b.heap # {}
        /\ UNCHANGED <<tasks, counter, log, durable, phase, next>>
    BY <1>2, <1>3, <1>4, <1>5, <1>6 DEF Leave, Cleared, logVars, recoveryVars
  <1>8. Good(b) /\ b.fills \in Seq(Fill)
    BY <1>1, <1>2, <1>3 DEF BooksGood, Good, BookTyped
  <1>9. /\ Good(d) /\ d.fills = b.fills /\ d.incoming = NoOrder
        /\ \A S : BookOver(b, S) => \A n \in DOMAIN d.heap : d.heap[n].order_id \in S
    BY <1>4, <1>7, <1>8, FinishKept
  <1>10. Good(c) /\ c.fills = <<>> /\ \A S : BookOver(b, S) => BookOver(c, S)
    <2>1. Good(c) /\ c.fills = <<>> /\ c.heap = d.heap /\ c.incoming = NoOrder
      BY <1>5, <1>9, ClearKept
    <2> QED BY <1>9, <2>1 DEF BookOver
  <1>11. Updated(s, c)
    BY <1>1, <1>2, <1>7, ExceptUpdated
  <1>12. /\ r = [fills |-> r.fills, reports |-> r.reports] /\ r.fills \in Seq(Fill)
         /\ r.fills = <<>> \/ r.fills = b.fills
    <2>1. CASE t = Main
      BY <1>6, <2>1 DEF NoResult
    <2>2. CASE t # Main
      BY <1>6, <1>8, <1>9, <2>2
    <2> QED BY <2>1, <2>2
  <1>13. /\ ThreadsTyped' /\ result'[t] = r
         /\ \A x \in Thread \ {t} : result'[x] = result[x]
         /\ \A x \in Thread : pc'[x] = "call" => pc[x] = "call" /\ task'[x] = task[x]
    <2>1. DOMAIN books \subseteq DOMAIN books'
      BY <1>11 DEF Updated
    <2> QED BY <1>1, <1>7, <1>12, <2>1, ResultGoes
  <1>14. trades' \subseteq Fill /\ \A f \in trades' : Made(f)
    <2>1. ASSUME NEW f \in Range(d.fills) PROVE f \in Fill /\ Made(f)
      <3>1. PICK i \in DOMAIN b.fills : f = b.fills[i]
        BY <1>9, <2>1 DEF Range
      <3> QED BY <1>2, <1>3, <1>8, <3>1 DEF Made
    <2> QED BY <1>1, <1>7, <2>1 DEF Made
  <1>15. PICK S : S = Submitted(log, Len(log))
    OBVIOUS
  <1>16. ASSUME Clean(log, Len(log))
         PROVE  /\ BookOver(c, S)
                /\ \A x \in Thread : \A i \in DOMAIN result'[x].fills : FillOver(result'[x].fills[i], S)
    <2>1. BookOver(b, S) /\ \A x \in Thread : \A i \in DOMAIN result[x].fills : FillOver(result[x].fills[i], S)
      BY <1>2, <1>3, <1>15, <1>16 DEF RecInv, LiveExplained
    <2>2. \A i \in DOMAIN r.fills : FillOver(r.fills[i], S)
      BY <1>12, <2>1 DEF BookOver
    <2> QED BY <1>10, <1>13, <2>1, <2>2
  <1>17. next' \in Nat \ {0} /\ phase' # "start" /\ \A i \in DOMAIN c.fills : Made(c.fills[i])
    BY <1>7, <1>10 DEF RecInv, LogTyped
  <1>18. UNCHANGED <<log, durable, counter>>
    BY <1>7
  <1> QED BY <1>10, <1>11, <1>13, <1>14, <1>15, <1>16, <1>17, <1>18, BookStep

\* A fill of the result goes to the log, behind both of its orders.
LEMMA LogFillStep ==
  ASSUME RecInv, NEW w \in Worker, LogFill(w), UNCHANGED recoveryVars
  PROVE  RecInv'
  <1>1. w \in Thread /\ ThreadsTyped
    BY DEF Thread, RecInv
  <1>2. PICK fs \in Seq(Fill) : fs = result[w].fills /\ fs # <<>>
    BY <1>1 DEF ThreadsTyped, LogFill
  <1>3. /\ Head(fs) \in Fill /\ Tail(fs) \in Seq(Fill) /\ 1 \in DOMAIN fs /\ Head(fs) = fs[1]
        /\ \A i \in DOMAIN Tail(fs) : i + 1 \in DOMAIN fs /\ Tail(fs)[i] = fs[i + 1]
    <2>1. PICK n \in Nat : n = Len(fs)
      BY <1>2
    <2>2. n >= 1
      BY <1>2, <2>1, EmptySeq
    <2>3. Head(fs) \in Fill /\ Tail(fs) \in Seq(Fill) /\ Len(Tail(fs)) = n - 1 /\ Head(fs) = fs[1]
      BY <1>2, <2>1, <2>2, HeadTailProperties
    <2>4. \A i \in 1..(n - 1) : Tail(fs)[i] = fs[i + 1]
      BY <1>2, <2>1, <2>2
    <2>5. DOMAIN fs = 1..n /\ DOMAIN Tail(fs) = 1..(n - 1)
      BY <1>2, <2>1, <2>3
    <2> QED BY <2>1, <2>2, <2>3, <2>4, <2>5
  <1>4. PICK f \in Fill : f = Head(fs)
    BY <1>3
  <1>5. PICK e : e = FillEntry(f)
    OBVIOUS
  <1>6. PICK r : r = [result[w] EXCEPT !.fills = Tail(@)]
    OBVIOUS
  <1>7. r = [fills |-> r.fills, reports |-> r.reports] /\ r.fills = Tail(fs)
    <2>1. PICK rs : rs = result[w].reports
      OBVIOUS
    <2>2. result[w] = [fills |-> fs, reports |-> rs]
      BY <1>1, <1>2, <2>1 DEF ThreadsTyped
    <2>3. PICK rest : rest = Tail(fs)
      OBVIOUS
    <2>4. r = [result[w] EXCEPT !.fills = rest]
      BY <1>2, <1>6, <2>2, <2>3
    <2>5. r = [fills |-> rest, reports |-> rs]
      BY <2>2, <2>4
    <2> QED BY <2>3, <2>5
  <1>8. /\ log' = Append(log, e) /\ SetResult(w, r) /\ tasks' = tasks
        /\ UNCHANGED <<books, counter, trades, durable, next, phase>>
    BY <1>2, <1>4, <1>5, <1>6 DEF LogFill, bookVars, recoveryVars
  <1>9. e \in Entry /\ e.fill = f
    BY <1>4, <1>5 DEF Entry, FillEntry
  <1>10. /\ ThreadsTyped' /\ result'[w] = r
         /\ \A x \in Thread \ {w} : result'[x] = result[x]
         /\ \A x \in Thread : pc'[x] = "call" => pc[x] = "call" /\ task'[x] = task[x]
    <2>1. DOMAIN books \subseteq DOMAIN books' /\ r.fills \in Seq(Fill)
      BY <1>3, <1>7, <1>8
    <2> QED BY <1>1, <1>7, <1>8, <2>1, ResultGoes
  <1>11. \A t \in Thread : \A i \in DOMAIN result'[t].fills :
             \E j \in DOMAIN result[t].fills : result'[t].fills[i] = result[t].fills[j]
    <2>1. ASSUME NEW t \in Thread, NEW i \in DOMAIN result'[t].fills
          PROVE  \E j \in DOMAIN result[t].fills : result'[t].fills[i] = result[t].fills[j]
      <3>1. CASE t = w
        <4>1. i \in DOMAIN Tail(fs) /\ result'[t].fills = Tail(fs)
          BY <1>7, <1>10, <2>1, <3>1
        <4> QED BY <1>2, <1>3, <3>1, <4>1
      <3>2. CASE t # w
        BY <1>10, <2>1, <3>2
      <3> QED BY <3>1, <3>2
    <2> QED BY <2>1
  <1>12. Clean(log, Len(log)) => FillOver(e.fill, Submitted(log, Len(log)))
    BY <1>1, <1>2, <1>3, <1>4, <1>9 DEF RecInv, LiveExplained
  <1> QED BY <1>8, <1>9, <1>10, <1>11, <1>12, LogStep

\* A report is published.
LEMMA PublishStep ==
  ASSUME RecInv, NEW w \in Worker, Publish(w), UNCHANGED recoveryVars
  PROVE  RecInv'
  <1>1. w \in Thread /\ ThreadsTyped
    BY DEF Thread, RecInv
  <1>2. PICK r : r = [result[w] EXCEPT !.reports = Tail(@)]
    OBVIOUS
  <1>3. r = [fills |-> r.fills, reports |-> r.reports] /\ r.fills = result[w].fills /\ r.fills \in Seq(Fill)
    <2>1. result[w] = [fills |-> result[w].fills, reports |-> result[w].reports] /\ result[w].fills \in Seq(Fill)
      BY <1>1 DEF ThreadsTyped
    <2> QED BY <1>2, <2>1
  <1>4. /\ SetResult(w, r) /\ tasks' = tasks
        /\ UNCHANGED <<books, counter, trades, log, durable, next, phase>>
    BY <1>2 DEF Publish, bookVars, logVars, recoveryVars
  <1>5. /\ ThreadsTyped' /\ result'[w] = r
        /\ \A x \in Thread \ {w} : result'[x] = result[x]
        /\ \A x \in Thread : pc'[x] = "call" => pc[x] = "call" /\ task'[x] = task[x]
    <2>1. DOMAIN books \subseteq DOMAIN books'
      BY <1>4
    <2> QED BY <1>1, <1>3, <1>4, <2>1, ResultGoes
  <1>6. LogTyped'
    BY <1>4 DEF RecInv, LogTyped
  <1>7. \A x \in Thread : result'[x].fills = result[x].fills
    BY <1>3, <1>5
  <1> QED BY <1>4, <1>5, <1>6, <1>7, QuietStep

\* An entry reaches the file.
LEMMA FlushStep ==
  ASSUME RecInv, Flush, UNCHANGED recoveryVars
  PROVE  RecInv'
  <1>1. UNCHANGED <<tasks, pc, task, result, books, counter, trades, log, next, phase>>
    BY DEF Flush, threadVars, bookVars, recoveryVars
  <1>2. LogTyped'
    <2>1. PICK n \in Nat : n = Len(log)
      BY DEF RecInv, LogTyped
    <2> QED BY <1>1, <2>1 DEF RecInv, LogTyped, Flush
  <1>3. ThreadsTyped'
    BY <1>1 DEF RecInv, ThreadsTyped
  <1> QED BY <1>1, <1>2, <1>3, QuietStep

\* Whatever a worker does.
LEMMA WorkersStep ==
  ASSUME RecInv, NEW w \in Worker, WorkerStep(w), phase = "up", UNCHANGED recoveryVars
  PROVE  RecInv'
  <1>1. w \in Thread /\ phase # "start"
    BY DEF Thread
  <1> QED BY <1>1, DequeueStep, GetStep, LockStep, LogRequestStep, CallStep, MatchStep, LeaveStep,
             LogFillStep, PublishStep DEF WorkerStep

\* Nothing is running: no thread has a request or a result.
Quiet ==
    /\ pc = [t \in Thread |-> "idle"] /\ result = [t \in Thread |-> NoResult]
    /\ task = [t \in Thread |-> NoTask]

\* The empty result of a thread that rests.
LEMMA QuietResult ==
  /\ NoResult = [fills |-> NoResult.fills, reports |-> NoResult.reports]
  /\ NoResult.fills = <<>> /\ NoResult.fills \in Seq(Fill)
  /\ "idle" \notin Started /\ "idle" \notin Found
  BY DEF NoResult, Started, Found

\* Such threads are well typed.
LEMMA QuietTyped ==
  ASSUME Quiet, tasks \in Seq(Command)
  PROVE  ThreadsTyped /\ \A t \in Thread : pc[t] # "call" /\ result[t].fills = <<>>
  <1>1. /\ pc = [t \in Thread |-> pc[t]] /\ task = [t \in Thread |-> task[t]]
        /\ result = [t \in Thread |-> result[t]]
        /\ \A t \in Thread : pc[t] = "idle" /\ result[t] = NoResult
    BY DEF Quiet
  <1> QED BY <1>1, QuietResult DEF ThreadsTyped

\* The file after a crash: the entries that were written and perhaps a cut one.
LEMMA CutLog ==
  ASSUME NEW l \in Seq(Entry), NEW d \in Nat, d <= Len(l), NEW m,
         m = SubSeq(l, 1, d) \/ m = Append(SubSeq(l, 1, d), Torn)
  PROVE  /\ m \in Seq(Entry) /\ (Len(m) = d \/ (Len(m) = d + 1 /\ m[d + 1] = Torn))
         /\ \A i \in 1..d : m[i] = l[i]
  <1>1. PICK p : p = SubSeq(l, 1, d)
    OBVIOUS
  <1>2. p \in Seq(Entry) /\ Len(p) = d /\ \A i \in 1..d : p[i] = l[i]
    BY <1>1
  <1>3. CASE m = p
    BY <1>2, <1>3
  <1>4. CASE m = Append(p, Torn)
    <2>1. Torn \in Entry
      BY DEF Entry
    <2> QED BY <1>2, <1>4, <2>1
  <1> QED BY <1>1, <1>3, <1>4

\* What is left of the log still explains its fills, and nothing else is left.
LEMMA CrashStep ==
  ASSUME RecInv, Crash
  PROVE  RecInv'
  <1>1. log \in Seq(Entry) /\ durable \in Nat /\ durable <= Len(log) /\ next \in Nat \ {0}
    BY DEF RecInv, LogTyped
  <1>2. PICK m : m = log'
    OBVIOUS
  <1>3. m = SubSeq(log, 1, durable) \/ m = Append(SubSeq(log, 1, durable), Torn)
    BY <1>2 DEF Crash
  <1>4. /\ m \in Seq(Entry) /\ (Len(m) = durable \/ (Len(m) = durable + 1 /\ m[durable + 1] = Torn))
        /\ \A i \in 1..durable : m[i] = log[i]
    BY <1>1, <1>3, CutLog
  <1>5. /\ Quiet' /\ books' = EmptyMap /\ trades' = {} /\ durable' = Len(m) /\ phase' = "start"
        /\ UNCHANGED <<tasks, counter, next>>
    BY <1>2 DEF Crash, Quiet
  <1>6. DOMAIN books' = {} /\ books' = [s \in DOMAIN books' |-> books'[s]]
    BY <1>5 DEF EmptyMap
  <1>7. ThreadsTyped' /\ \A t \in Thread : pc'[t] # "call" /\ result'[t].fills = <<>>
    <2>1. tasks' \in Seq(Command)
      BY <1>5 DEF RecInv, ThreadsTyped
    <2>2. /\ pc' = [t \in Thread |-> pc'[t]] /\ task' = [t \in Thread |-> task'[t]]
          /\ result' = [t \in Thread |-> result'[t]]
          /\ \A t \in Thread : pc'[t] = "idle" /\ result'[t] = NoResult
      BY <1>5 DEF Quiet
    <2> QED BY <2>1, <2>2, QuietResult DEF ThreadsTyped
  <1>8. BooksGood' /\ Numbered'
    BY <1>5, <1>6 DEF RecInv, BooksGood, Numbered, Made
  <1>9. LogTyped'
    <2>1. PICK n \in Nat : n = Len(m)
      BY <1>4
    <2> QED BY <1>1, <1>2, <1>4, <1>5, <2>1 DEF LogTyped
  <1>10. LogExplained'
    <2> SUFFICES ASSUME NEW i \in 1..Len(m), Clean(m, i), m[i].type = "Fill"
                 PROVE  FillOver(m[i].fill, Submitted(m, i - 1))
      BY <1>2 DEF LogExplained
    <2>1. i \in Nat /\ m[i] # Torn
      BY <1>4 DEF Clean
    <2>2. i \in 1..durable
      BY <1>1, <1>4, <2>1
    <2>3. PICK n \in Nat : n = Len(log)
      BY <1>1
    <2>4. i \in 1..n /\ m[i] = log[i] /\ \A j \in 1..i : m[j] = log[j]
      BY <1>1, <1>4, <2>2, <2>3
    <2>5. Clean(log, i)
      BY <2>4 DEF Clean
    <2>6. Submitted(m, i - 1) = Submitted(log, i - 1)
      <3>1. \A j \in 1..(i - 1) : m[j] = log[j]
        BY <2>1, <2>4
      <3> QED BY <3>1 DEF Submitted
    <2>7. FillOver(log[i].fill, Submitted(log, i - 1))
      BY <2>3, <2>4, <2>5 DEF RecInv, LogExplained
    <2> QED BY <2>4, <2>6, <2>7
  <1>11. LiveExplained'
    BY <1>6, <1>7 DEF LiveExplained
  <1> QED BY <1>7, <1>8, <1>9, <1>10, <1>11 DEF RecInv

\* The generator is reset when nothing has a number yet.
LEMMA StartReplayStep ==
  ASSUME RecInv, StartReplay
  PROVE  RecInv'
  <1>1. /\ UNCHANGED <<tasks, pc, task, result, books, trades, log, durable>>
        /\ counter' = 1 /\ next' = 1 /\ phase = "start" /\ phase' = "replay"
    BY DEF StartReplay, threadVars, logVars
  <1>2. ThreadsTyped' /\ LogTyped' /\ BooksGood' /\ LogExplained' /\ LiveExplained'
    BY <1>1 DEF RecInv, ThreadsTyped, LogTyped, BooksGood, LogExplained, LiveExplained
  <1>3. Numbered'
    BY <1>1 DEF RecInv, Numbered, Made
  <1> QED BY <1>2, <1>3 DEF RecInv

\* Replay calls the book as the entry e says.
LEMMA ReplayCallStep ==
  ASSUME RecInv, NEW r \in Command, NEW e, e = RequestEntry(r), ReplayCall(e),
         phase' # "start", next' \in Nat \ {0}, UNCHANGED <<tasks, result, counter, trades, log, durable>>,
         Clean(log, Len(log)) /\ e.type = "Submit" => e.order_id \in Submitted(log, Len(log))
  PROVE  RecInv'
  <1>1. ThreadsTyped /\ BooksGood /\ trades \subseteq Fill /\ Main \in Thread
    BY DEF RecInv, Numbered, Thread
  <1>2. PICK q : q = IF e.type = "Submit" THEN [e EXCEPT !.order = from_net(@)] ELSE e
    OBVIOUS
  <1>3. q \in Command /\ q.type = e.type /\ q.symbol = e.symbol /\ q.order_id = e.order_id
    BY <1>2, ReplayedCommand
  <1>4. PICK s : s = e.symbol
    OBVIOUS
  <1>5. PICK b : b = BookOf(s)
    OBVIOUS
  <1>6. PICK c : c = Begin(b, q)
    OBVIOUS
  <1>7. books' = Put(books, s, c) /\ task' = [task EXCEPT ![Main] = q] /\ Goto(Main, "match")
    BY <1>2, <1>4, <1>5, <1>6 DEF ReplayCall
  <1>8. Updated(s, c)
    BY <1>7, PutUpdated
  <1>9. /\ Good(b) /\ \A i \in DOMAIN b.fills : Made(b.fills[i])
        /\ \A S : (\A x \in DOMAIN books : BookOver(books[x], S)) => BookOver(b, S)
    BY <1>1, <1>5, BookOfGood
  <1>10. /\ Good(c) /\ c.fills = b.fills
         /\ \A S : BookOver(b, S) /\ (q.type = "Submit" => q.order_id \in S) => BookOver(c, S)
    BY <1>3, <1>6, <1>9, BeginKept
  <1>11. ThreadsTyped'
    <2>1. tasks' \in Seq(Command) /\ DOMAIN books \subseteq DOMAIN books' /\ q.symbol \in DOMAIN books'
      BY <1>1, <1>3, <1>4, <1>8 DEF Updated, ThreadsTyped
    <2> QED BY <1>1, <1>3, <1>7, <2>1, ThreadGoes
  <1>12. \A t \in Thread : pc'[t] = "call" => pc[t] = "call" /\ task'[t] = task[t]
    BY <1>1, <1>7 DEF Goto, ThreadsTyped
  <1>13. PICK S : S = Submitted(log, Len(log))
    OBVIOUS
  <1>14. ASSUME Clean(log, Len(log))
         PROVE  /\ BookOver(c, S)
                /\ \A t \in Thread : \A i \in DOMAIN result'[t].fills : FillOver(result'[t].fills[i], S)
    <2>1. /\ \A x \in DOMAIN books : BookOver(books[x], S)
          /\ \A t \in Thread : \A i \in DOMAIN result[t].fills : FillOver(result[t].fills[i], S)
      BY <1>13, <1>14 DEF RecInv, LiveExplained
    <2>2. q.type = "Submit" => q.order_id \in S
      BY <1>3, <1>13, <1>14
    <2> QED BY <1>9, <1>10, <2>1, <2>2
  <1>15. /\ \A f \in trades' : Made(f)
         /\ \A i \in DOMAIN c.fills : Made(c.fills[i]) /\ trades' \subseteq Fill
    BY <1>1, <1>9, <1>10 DEF Made
  <1> QED BY <1>1, <1>8, <1>10, <1>11, <1>12, <1>13, <1>14, <1>15, BookStep

\* Replay reads one more record.
LEMMA ReplayReadStep ==
  ASSUME RecInv, ReplayRead
  PROVE  RecInv'
  <1>1. log \in Seq(Entry) /\ next \in Nat \ {0} /\ next <= Len(log)
    BY DEF RecInv, LogTyped, ReplayRead, Readable
  <1>2. PICK n \in Nat : n = Len(log)
    BY <1>1
  <1>3. next \in 1..n /\ next' \in Nat \ {0} /\ phase' # "start" /\ phase' = phase
    BY <1>1, <1>2 DEF ReplayRead
  <1>4. UNCHANGED <<tasks, result, counter, trades, log, durable>>
    BY DEF ReplayRead, logVars
  <1>5. CASE UNCHANGED <<books, task, pc>>
    <2>1. ThreadsTyped' /\ LogTyped'
      BY <1>3, <1>4, <1>5 DEF RecInv, ThreadsTyped, LogTyped
    <2> QED BY <1>3, <1>4, <1>5, <2>1, QuietStep
  <1>6. CASE ~Shifted(next) /\ log[next].type # "Fill" /\ ReplayCall(log[next])
    <2>1. PICK e \in Entry : e = log[next]
      BY <1>1, <1>2, <1>3
    <2>2. e # Torn /\ e.type # "Fill"
      BY <1>1, <1>6, <2>1 DEF Shifted
    <2>3. PICK r \in Command : e = RequestEntry(r)
      BY <2>2, EntryKinds
    <2>4. e.type = "Submit" => e.order_id \in Submitted(log, Len(log))
      BY <1>2, <1>3, <2>1 DEF Submitted
    <2> QED BY <1>3, <1>4, <1>6, <2>1, <2>3, <2>4, ReplayCallStep
  <1>7. CASE Shifted(next) /\ \E r \in Request : ReplayCall(RequestEntry(r))
    <2>1. PICK r \in Request : ReplayCall(RequestEntry(r))
      BY <1>7
    <2>2. r \in Command
      <3>1. PICK w \in Workload : r \in Range(w)
        BY <2>1 DEF Request
      <3>2. w \in Seq(Command)
        BY <3>1, WorkloadAssumption
      <3> QED BY <3>1, <3>2 DEF Range
    <2>3. PICK e : e = RequestEntry(r)
      OBVIOUS
    <2>4. ~Clean(log, Len(log))
      BY <1>2, <1>3, <1>7 DEF Shifted, Clean
    <2> QED BY <1>3, <1>4, <2>1, <2>2, <2>3, <2>4, ReplayCallStep
  <1> QED BY <1>5, <1>6, <1>7 DEF ReplayRead

\* The replay ends, or the program goes on from the recovered books.
LEMMA ReplayEndStep ==
  ASSUME RecInv, ReplayEnd \/ Restart
  PROVE  RecInv'
  <1>1. /\ UNCHANGED <<tasks, pc, task, result, books, counter, trades, log, durable, next>>
        /\ phase' # "start"
    BY DEF ReplayEnd, Restart, threadVars, bookVars, logVars
  <1>2. ThreadsTyped' /\ LogTyped'
    BY <1>1 DEF RecInv, ThreadsTyped, LogTyped
  <1> QED BY <1>1, <1>2, QuietStep

\* Nothing happens.
LEMMA StutterStep ==
  ASSUME RecInv, UNCHANGED vars
  PROVE  RecInv'
  <1>1. UNCHANGED <<tasks, pc, task, result, books, counter, trades, log, durable, next, phase>>
    BY DEF vars, threadVars, bookVars, logVars, recoveryVars
  <1>2. ThreadsTyped' /\ LogTyped'
    BY <1>1 DEF RecInv, ThreadsTyped, LogTyped
  <1> QED BY <1>1, <1>2, QuietStep

\* The first life of the program begins with nothing.
LEMMA InitRec ==
  ASSUME RecoveryInit
  PROVE  RecInv
  <1>1. /\ Quiet /\ tasks \in Seq(Command) /\ books = EmptyMap /\ counter = 1
        /\ log = <<>> /\ durable = 0 /\ trades = {} /\ phase = "up" /\ next = 1
    BY WorkloadAssumption DEF RecoveryInit, Init, Quiet
  <1>2. DOMAIN books = {} /\ books = [s \in DOMAIN books |-> books[s]]
    BY <1>1 DEF EmptyMap
  <1>3. ThreadsTyped /\ \A t \in Thread : pc[t] # "call" /\ result[t].fills = <<>>
    BY <1>1, QuietTyped
  <1>4. LogTyped /\ Len(log) = 0
    BY <1>1 DEF LogTyped
  <1>5. BooksGood /\ Numbered
    BY <1>1, <1>2 DEF BooksGood, Numbered, Made
  <1>6. LogExplained /\ LiveExplained
    BY <1>2, <1>3, <1>4 DEF LogExplained, LiveExplained
  <1> QED BY <1>3, <1>4, <1>5, <1>6 DEF RecInv
-----------------------------------------------------------------------------
(* Books that differ in their clients only. *)

\* Two orders that differ in their clients at most.
Alike(o, p) ==
    /\ o.order_id = p.order_id /\ o.symbol = p.symbol /\ o.side = p.side /\ o.type = p.type
    /\ o.price = p.price /\ o.quantity = p.quantity /\ o.remaining_quantity = p.remaining_quantity
    /\ o.timestamp = p.timestamp

\* Two books that hold the same, clients and results apart.
Same(b, c) ==
    /\ b.orders = c.orders /\ b.index = c.index /\ DOMAIN b.heap = DOMAIN c.heap
    /\ \A n \in DOMAIN b.heap : Alike(b.heap[n], c.heap[n])
    /\ b.incoming = NoOrder <=> c.incoming = NoOrder
    /\ b.incoming # NoOrder => Alike(b.incoming, c.incoming)

\* The order without its client, and the book without clients and results.
Bare(o) == [o EXCEPT !.client_id = 0]
Strip(b) == [orders |-> b.orders, heap |-> [n \in DOMAIN b.heap |-> Bare(b.heap[n])], index |-> b.index,
             incoming |-> IF b.incoming = NoOrder THEN NoOrder ELSE Bare(b.incoming),
             fills |-> <<>>, reports |-> <<>>]

\* Everything in the book is an order.
Holding(b) == b.incoming \in Order \cup {NoOrder} /\ \A n \in DOMAIN b.heap : b.heap[n] \in Order

\* Taking the client off leaves an order that is the same otherwise.
LEMMA BareOrder ==
  ASSUME NEW o \in Order
  PROVE  Bare(o) \in Order /\ Alike(o, Bare(o)) /\ Bare(o) # NoOrder
  <1>1. Bare(o) \in Order /\ Alike(o, Bare(o))
    BY WorkloadAssumption DEF Bare, Order, Alike
  <1> QED BY <1>1, NoOrderAssumption

\* Two orders are the same without their clients when they differ in nothing else.
LEMMA BareSame ==
  ASSUME NEW o \in Order, NEW p \in Order
  PROVE  Bare(o) = Bare(p) <=> Alike(o, p)
  <1>1. Bare(o) = Bare(p) => Alike(o, p)
    BY BareOrder DEF Alike
  <1>2. ASSUME Alike(o, p) PROVE Bare(o) = Bare(p)
    BY <1>2 DEF Bare, Order, Alike
  <1> QED BY <1>1, <1>2

\* A good book holds orders.
LEMMA GoodHolding ==
  ASSUME NEW b, Good(b)
  PROVE  Holding(b)
  BY DEF Good, BookTyped, Struct, ListsTyped, IsMap, Holding

\* The same for books.
LEMMA StripSame ==
  ASSUME NEW b, Holding(b), NEW c, Holding(c)
  PROVE  Strip(b) = Strip(c) <=> Same(b, c)
  <1>1. /\ Strip(b).orders = b.orders /\ Strip(b).index = b.index /\ DOMAIN Strip(b).heap = DOMAIN b.heap
        /\ \A n \in DOMAIN b.heap : Strip(b).heap[n] = Bare(b.heap[n])
        /\ Strip(b).incoming = IF b.incoming = NoOrder THEN NoOrder ELSE Bare(b.incoming)
    BY DEF Strip
  <1>2. /\ Strip(c).orders = c.orders /\ Strip(c).index = c.index /\ DOMAIN Strip(c).heap = DOMAIN c.heap
        /\ \A n \in DOMAIN c.heap : Strip(c).heap[n] = Bare(c.heap[n])
        /\ Strip(c).incoming = IF c.incoming = NoOrder THEN NoOrder ELSE Bare(c.incoming)
    BY DEF Strip
  <1>3. /\ \A n \in DOMAIN b.heap : b.heap[n] \in Order
        /\ \A n \in DOMAIN c.heap : c.heap[n] \in Order
        /\ b.incoming \in Order \cup {NoOrder} /\ c.incoming \in Order \cup {NoOrder}
    BY DEF Holding
  <1>4. ASSUME Strip(b) = Strip(c) PROVE Same(b, c)
    <2>1. b.orders = c.orders /\ b.index = c.index /\ DOMAIN b.heap = DOMAIN c.heap
      BY <1>1, <1>2, <1>4
    <2>2. \A n \in DOMAIN b.heap : Bare(b.heap[n]) = Bare(c.heap[n])
      BY <1>1, <1>2, <1>4
    <2>3. \A n \in DOMAIN b.heap : Alike(b.heap[n], c.heap[n])
      BY <1>3, <2>1, <2>2, BareSame
    <2>4. b.incoming = NoOrder <=> c.incoming = NoOrder
      BY <1>1, <1>2, <1>3, <1>4, BareOrder
    <2>5. b.incoming # NoOrder => Alike(b.incoming, c.incoming)
      BY <1>1, <1>2, <1>3, <1>4, <2>4, BareSame
    <2> QED BY <2>1, <2>3, <2>4, <2>5 DEF Same
  <1>5. ASSUME Same(b, c) PROVE Strip(b) = Strip(c)
    <2>1. /\ b.orders = c.orders /\ b.index = c.index /\ DOMAIN b.heap = DOMAIN c.heap
          /\ \A n \in DOMAIN b.heap : Alike(b.heap[n], c.heap[n])
          /\ b.incoming = NoOrder <=> c.incoming = NoOrder
          /\ b.incoming # NoOrder => Alike(b.incoming, c.incoming)
      BY <1>5 DEF Same
    <2>2. \A n \in DOMAIN b.heap : Bare(b.heap[n]) = Bare(c.heap[n])
      BY <1>3, <2>1, BareSame
    <2>3. b.incoming # NoOrder => Bare(b.incoming) = Bare(c.incoming)
      BY <1>3, <2>1, BareSame
    <2>4. [n \in DOMAIN b.heap |-> Bare(b.heap[n])] = [n \in DOMAIN c.heap |-> Bare(c.heap[n])]
      BY <2>1, <2>2
    <2> QED BY <2>1, <2>3, <2>4 DEF Strip
  <1> QED BY <1>4, <1>5

\* A good book stays good without its clients.
LEMMA StripGood ==
  ASSUME NEW b, Good(b), NEW c, c = Strip(b)
  PROVE  Good(c) /\ Same(b, c) /\ Same(c, b)
  <1>1. /\ c.orders = b.orders /\ c.index = b.index /\ DOMAIN c.heap = DOMAIN b.heap
        /\ \A n \in DOMAIN b.heap : c.heap[n] = Bare(b.heap[n])
        /\ c.heap = [n \in DOMAIN c.heap |-> c.heap[n]]
        /\ c.incoming = IF b.incoming = NoOrder THEN NoOrder ELSE Bare(b.incoming)
        /\ c.fills = <<>> /\ c.reports = <<>>
        /\ c = [orders |-> c.orders, heap |-> c.heap, index |-> c.index,
                incoming |-> c.incoming, fills |-> c.fills, reports |-> c.reports]
    BY DEF Strip
  <1>2. /\ \A n \in DOMAIN b.heap : b.heap[n] \in Order
        /\ b.incoming \in Order \cup {NoOrder}
    BY GoodHolding DEF Holding
  <1>3. /\ \A n \in DOMAIN b.heap : c.heap[n] \in Order /\ Alike(b.heap[n], c.heap[n]) /\ Alike(c.heap[n], b.heap[n])
    <2>1. \A o \in Order : Alike(Bare(o), o)
      BY BareOrder DEF Alike
    <2> QED BY <1>1, <1>2, <2>1, BareOrder
  <1>4. /\ c.incoming \in Order \cup {NoOrder} /\ (b.incoming = NoOrder <=> c.incoming = NoOrder)
        /\ b.incoming # NoOrder => Alike(b.incoming, c.incoming) /\ Alike(c.incoming, b.incoming)
    <2>1. \A o \in Order : Alike(Bare(o), o)
      BY BareOrder DEF Alike
    <2> QED BY <1>1, <1>2, <2>1, BareOrder
  <1>5. Same(b, c) /\ Same(c, b)
    BY <1>1, <1>3, <1>4 DEF Same
  <1>6. BookTyped(c)
    BY <1>1, <1>4 DEF BookTyped
  <1>7. ListsTyped(c.orders, c.heap, c.index)
    BY <1>1, <1>3 DEF Good, Struct, ListsTyped, IsMap
  <1>8. ListsLive(c.orders, c.heap)
    <2>1. ASSUME NEW s \in Side, NEW p \in DOMAIN c.orders[s]
          PROVE  /\ c.orders[s][p] # <<>>
                 /\ \A i \in 1..Len(c.orders[s][p]) :
                      /\ c.orders[s][p][i] \in DOMAIN c.heap
                      /\ c.heap[c.orders[s][p][i]].side = s
                      /\ c.heap[c.orders[s][p][i]].price = p
                      /\ c.heap[c.orders[s][p][i]].remaining_quantity > 0
      <3>1. /\ b.orders[s][p] # <<>>
            /\ \A i \in 1..Len(b.orders[s][p]) :
                 /\ b.orders[s][p][i] \in DOMAIN b.heap
                 /\ b.heap[b.orders[s][p][i]].side = s
                 /\ b.heap[b.orders[s][p][i]].price = p
                 /\ b.heap[b.orders[s][p][i]].remaining_quantity > 0
        BY <1>1, <2>1 DEF Good, Struct, ListsLive
      <3>2. c.orders[s][p] = b.orders[s][p]
        BY <1>1
      <3>3. ASSUME NEW i \in 1..Len(b.orders[s][p])
            PROVE  LET n == b.orders[s][p][i]
                   IN n \in DOMAIN c.heap /\ c.heap[n].side = s /\ c.heap[n].price = p
                        /\ c.heap[n].remaining_quantity > 0
        <4>1. PICK n \in DOMAIN b.heap : n = b.orders[s][p][i]
          BY <3>1
        <4>2. Alike(b.heap[n], c.heap[n]) /\ n \in DOMAIN c.heap
          BY <1>1, <1>3
        <4>3. b.heap[n].side = s /\ b.heap[n].price = p /\ b.heap[n].remaining_quantity > 0
          BY <3>1, <4>1
        <4> QED BY <4>1, <4>2, <4>3 DEF Alike
      <3> QED BY <3>1, <3>2, <3>3
    <2> QED BY <2>1 DEF ListsLive
  <1>9. ListsDistinct(c.orders) /\ Uncrossed(c.orders)
    BY <1>1 DEF Good, Struct
  <1>10. EntriesValid(c.orders, c.heap, c.index)
    <2>1. \A id \in DOMAIN b.index : b.index[id].position \in DOMAIN b.heap /\ b.heap[b.index[id].position].order_id = id
      BY DEF Good, Struct, EntriesValid
    <2>2. \A id \in DOMAIN b.index : c.heap[b.index[id].position].order_id = id
      BY <1>3, <2>1 DEF Alike
    <2>3. EntriesValid(b.orders, b.heap, b.index)
      BY DEF Good, Struct
    <2>4. ASSUME NEW id \in DOMAIN c.index
          PROVE  /\ c.index[id].price_level \in DOMAIN c.orders[c.index[id].side]
                 /\ \E i \in 1..Len(c.orders[c.index[id].side][c.index[id].price_level]) :
                       c.orders[c.index[id].side][c.index[id].price_level][i] = c.index[id].position
                 /\ c.index[id].position \in DOMAIN c.heap
                 /\ c.heap[c.index[id].position].order_id = id
      <3>1. id \in DOMAIN b.index
        BY <1>1, <2>4
      <3>2. /\ b.index[id].price_level \in DOMAIN b.orders[b.index[id].side]
            /\ \E i \in 1..Len(b.orders[b.index[id].side][b.index[id].price_level]) :
                  b.orders[b.index[id].side][b.index[id].price_level][i] = b.index[id].position
        BY <2>3, <3>1 DEF EntriesValid
      <3> QED BY <1>1, <2>1, <2>2, <3>1, <3>2
    <2> QED BY <2>4 DEF EntriesValid
  <1> QED BY <1>5, <1>6, <1>7, <1>8, <1>9, <1>10 DEF Good, Struct

\* The lists after one iteration of the loop.
LEMMA MatchOrders ==
  ASSUME NEW b, Good(b), b.incoming \in Order, CanMatch(b), NEW tid \in Nat,
         NEW c, c = MatchOnce(b, tid), NEW s, s = Opposite(b.incoming.side),
         NEW p, p = BestPrice(b.orders[s], s)
  PROVE  c.orders = IF RestAfter(b).remaining_quantity = 0
                    THEN [b.orders EXCEPT ![s] = SetLevel(b.orders[s], p, Tail(b.orders[s][p]))]
                    ELSE b.orders
  <1>0. PICK n : n = FrontNode(b)
    OBVIOUS
  <1> DEFINE m == matchOrders(b, tid)
  <1>1. /\ BookTyped(m) /\ m.orders = b.orders
        /\ m.heap = [b.heap EXCEPT ![n] = [b.heap[n] EXCEPT !.remaining_quantity = @ - MatchQty(b)]]
    BY <1>0, matchOrdersFacts
  <1>2. n \in DOMAIN b.heap
    BY <1>0, PartiesOfTrade
  <1>3. m.heap[n] = RestAfter(b)
    BY <1>0, <1>1, <1>2 DEF RestAfter
  <1>4. c = IF m.heap[n].remaining_quantity = 0 THEN PopFront(m, s, p) ELSE m
    BY <1>0 DEF MatchOnce
  <1> HIDE DEF m
  <1>5. CASE RestAfter(b).remaining_quantity = 0
    <2> DEFINE X2 == Drop(m.index, m.heap[Head(m.orders[s][p])].order_id)
               H2 == Drop(m.heap, Head(m.orders[s][p]))
               t == SetLevel(m.orders[s], p, Tail(m.orders[s][p]))
    <2>1. c = [m EXCEPT !.index = X2, !.heap = H2, !.orders[s] = t]
      BY <1>3, <1>4, <1>5 DEF PopFront
    <2>2. t = SetLevel(b.orders[s], p, Tail(b.orders[s][p]))
      BY <1>1
    <2> HIDE DEF X2, H2, t
    <2>3. c.orders = [m.orders EXCEPT ![s] = t]
      BY <1>1, <2>1 DEF BookTyped
    <2> QED BY <1>1, <1>5, <2>2, <2>3
  <1>6. CASE RestAfter(b).remaining_quantity # 0
    BY <1>1, <1>3, <1>4, <1>6
  <1> QED BY <1>5, <1>6

\* Two books that are the same meet the same order in the loop, or none.
LEMMA SameFront ==
  ASSUME NEW b, NEW c, Good(b), Good(c), Same(b, c)
  PROVE  /\ Matching(b) <=> Matching(c)
         /\ Matching(b) => /\ b.incoming \in Order /\ c.incoming \in Order /\ CanMatch(b) /\ CanMatch(c)
                           /\ FrontNode(b) = FrontNode(c) /\ MatchQty(b) = MatchQty(c)
                           /\ b.incoming.side = c.incoming.side
  <1>1. /\ b.orders = c.orders /\ DOMAIN b.heap = DOMAIN c.heap
        /\ \A n \in DOMAIN b.heap : Alike(b.heap[n], c.heap[n])
        /\ b.incoming = NoOrder <=> c.incoming = NoOrder
        /\ b.incoming # NoOrder => Alike(b.incoming, c.incoming)
    BY DEF Same
  <1>2. b.incoming \in Order \cup {NoOrder} /\ c.incoming \in Order \cup {NoOrder}
    BY DEF Good, BookTyped
  <1>3. CASE b.incoming = NoOrder
    BY <1>1, <1>3 DEF Matching
  <1>4. CASE b.incoming # NoOrder
    <2>1. PICK o \in Order, p \in Order : o = b.incoming /\ p = c.incoming
      BY <1>1, <1>2, <1>4
    <2>2. /\ o.side = p.side /\ o.type = p.type /\ o.price = p.price /\ o.remaining_quantity = p.remaining_quantity
      BY <1>1, <1>4, <2>1 DEF Alike
    <2>3. \A x : Crosses(o, x) <=> Crosses(p, x)
      BY <2>2 DEF Crosses
    <2>4. CanMatch(b) <=> CanMatch(c)
      BY <1>1, <2>1, <2>2, <2>3 DEF CanMatch
    <2>5. FrontNode(b) = FrontNode(c)
      BY <1>1, <2>1, <2>2 DEF FrontNode
    <2>6. ASSUME CanMatch(b) PROVE MatchQty(b) = MatchQty(c)
      <3>1. FrontNode(b) \in DOMAIN b.heap
        BY <2>1, <2>6, PartiesOfTrade
      <3>2. b.heap[FrontNode(b)].remaining_quantity = c.heap[FrontNode(c)].remaining_quantity
        BY <1>1, <2>5, <3>1 DEF Alike
      <3> QED BY <2>1, <2>2, <3>2 DEF MatchQty
    <2> QED BY <1>1, <1>4, <2>1, <2>2, <2>4, <2>5, <2>6 DEF Matching
  <1> QED BY <1>3, <1>4

\* An order after a trade, from before it.
LEMMA TradedAlike ==
  ASSUME NEW o \in Order, NEW p \in Order, Alike(o, p), NEW k
  PROVE  Alike([o EXCEPT !.remaining_quantity = @ - k], [p EXCEPT !.remaining_quantity = @ - k])
  BY DEF Alike, Order

\* The loop does the same to both, whatever the trade numbers.
LEMMA SameMatch ==
  ASSUME NEW b, NEW c, Good(b), Good(c), Same(b, c), Matching(b), NEW i \in Nat, NEW j \in Nat,
         NEW d, d = MatchOnce(b, i), NEW e, e = MatchOnce(c, j)
  PROVE  Same(d, e) /\ Good(d) /\ Good(e)
  <1>1. /\ b.incoming \in Order /\ c.incoming \in Order /\ CanMatch(b) /\ CanMatch(c)
        /\ FrontNode(b) = FrontNode(c) /\ MatchQty(b) = MatchQty(c) /\ b.incoming.side = c.incoming.side
    BY SameFront
  <1>2. Good(d) /\ Good(e) /\ d.incoming \in Order /\ e.incoming \in Order
    BY <1>1, MatchOnceGood
  <1>3. PICK n : n = FrontNode(b)
    OBVIOUS
  <1>4. n \in DOMAIN b.heap /\ b.heap[n] \in Order /\ n \in DOMAIN c.heap /\ c.heap[n] \in Order
    BY <1>1, <1>3, PartiesOfTrade
  <1>5. /\ b.orders = c.orders /\ b.index = c.index /\ DOMAIN b.heap = DOMAIN c.heap
        /\ \A m \in DOMAIN b.heap : Alike(b.heap[m], c.heap[m])
        /\ Alike(b.incoming, c.incoming)
    <2>1. b.incoming # NoOrder
      BY <1>1, NoOrderAssumption
    <2> QED BY <2>1 DEF Same
  <1>6. Alike(IncAfter(b), IncAfter(c))
    BY <1>1, <1>5, TradedAlike DEF IncAfter
  <1>7. Alike(RestAfter(b), RestAfter(c))
    <2>1. PICK k : k = MatchQty(b)
      OBVIOUS
    <2>2. PICK o \in Order, p \in Order : o = b.heap[n] /\ p = c.heap[n]
      BY <1>4
    <2>3. Alike(o, p)
      BY <1>4, <1>5, <2>2
    <2>4. /\ RestAfter(b) = [o EXCEPT !.remaining_quantity = @ - k]
          /\ RestAfter(c) = [p EXCEPT !.remaining_quantity = @ - k]
      BY <1>1, <1>3, <2>1, <2>2 DEF RestAfter
    <2> QED BY <2>3, <2>4, TradedAlike
  <1>8. /\ d.incoming = IncAfter(b)
        /\ RestAfter(b).remaining_quantity = 0 =>
                    d.heap = Drop(b.heap, n) /\ d.index = Drop(b.index, b.heap[n].order_id)
        /\ RestAfter(b).remaining_quantity # 0 =>
                    d.heap = [b.heap EXCEPT ![n] = RestAfter(b)] /\ d.index = b.index
    BY <1>1, <1>3, MatchShape
  <1>13. /\ e.incoming = IncAfter(c)
         /\ RestAfter(c).remaining_quantity = 0 =>
                    e.heap = Drop(c.heap, n) /\ e.index = Drop(c.index, c.heap[n].order_id)
         /\ RestAfter(c).remaining_quantity # 0 =>
                    e.heap = [c.heap EXCEPT ![n] = RestAfter(c)] /\ e.index = c.index
    <2>1. n = FrontNode(c)
      BY <1>1, <1>3
    <2> QED BY <1>1, <2>1, MatchShape
  <1>9. RestAfter(b).remaining_quantity = RestAfter(c).remaining_quantity /\ b.heap[n].order_id = c.heap[n].order_id
    BY <1>4, <1>5, <1>7 DEF Alike
  <1>10. d.orders = e.orders
    <2>1. PICK s : s = Opposite(b.incoming.side)
      OBVIOUS
    <2>2. PICK p : p = BestPrice(b.orders[s], s)
      OBVIOUS
    <2>3. d.orders = IF RestAfter(b).remaining_quantity = 0
                     THEN [b.orders EXCEPT ![s] = SetLevel(b.orders[s], p, Tail(b.orders[s][p]))]
                     ELSE b.orders
      BY <1>1, <2>1, <2>2, MatchOrders
    <2>4. e.orders = IF RestAfter(c).remaining_quantity = 0
                     THEN [c.orders EXCEPT ![s] = SetLevel(c.orders[s], p, Tail(c.orders[s][p]))]
                     ELSE c.orders
      <3>1. s = Opposite(c.incoming.side) /\ p = BestPrice(c.orders[s], s)
        BY <1>1, <1>5, <2>1, <2>2
      <3> QED BY <1>1, <3>1, MatchOrders
    <2> QED BY <1>5, <1>9, <2>3, <2>4
  <1>11. d.index = e.index /\ DOMAIN d.heap = DOMAIN e.heap /\ \A m \in DOMAIN d.heap : Alike(d.heap[m], e.heap[m])
    <2>1. CASE RestAfter(b).remaining_quantity = 0
      <3>1. /\ d.heap = Drop(b.heap, n) /\ d.index = Drop(b.index, b.heap[n].order_id)
            /\ e.heap = Drop(c.heap, n) /\ e.index = Drop(c.index, c.heap[n].order_id)
        BY <1>8, <1>13, <1>9, <2>1
      <3>2. /\ DOMAIN d.heap = DOMAIN b.heap \ {n} /\ \A m \in DOMAIN d.heap : d.heap[m] = b.heap[m]
            /\ DOMAIN e.heap = DOMAIN c.heap \ {n} /\ \A m \in DOMAIN e.heap : e.heap[m] = c.heap[m]
        BY <3>1 DEF Drop, Restrict
      <3> QED BY <1>5, <1>9, <3>1, <3>2
    <2>2. CASE RestAfter(b).remaining_quantity # 0
      <3>1. /\ d.heap = [b.heap EXCEPT ![n] = RestAfter(b)] /\ d.index = b.index
            /\ e.heap = [c.heap EXCEPT ![n] = RestAfter(c)] /\ e.index = c.index
        BY <1>8, <1>13, <1>9, <2>2
      <3>2. /\ DOMAIN d.heap = DOMAIN b.heap /\ \A m \in DOMAIN d.heap : d.heap[m] = IF m = n THEN RestAfter(b) ELSE b.heap[m]
            /\ DOMAIN e.heap = DOMAIN c.heap /\ \A m \in DOMAIN e.heap : e.heap[m] = IF m = n THEN RestAfter(c) ELSE c.heap[m]
        BY <3>1
      <3> QED BY <1>5, <1>7, <3>1, <3>2
    <2> QED BY <2>1, <2>2
  <1>12. d.incoming # NoOrder /\ e.incoming # NoOrder
    BY <1>2, NoOrderAssumption
  <1> QED BY <1>2, <1>6, <1>8, <1>13, <1>10, <1>11, <1>12 DEF Same

\* The lists after an order has come to rest.
LEMMA RestOrders ==
  ASSUME NEW b, Good(b), NEW o \in Order, o = b.incoming, NEW n, NEW c, c = Rest(b, n),
         NEW q, q = IF o.price \in DOMAIN b.orders[o.side] THEN b.orders[o.side][o.price] ELSE <<>>
  PROVE  /\ c.orders = [b.orders EXCEPT ![o.side] = Put(b.orders[o.side], o.price, Append(q, n))]
         /\ c.incoming = NoOrder
  <1>1. BookTyped(b)
    BY DEF Good
  <1> DEFINE L2 == Put(b.orders[o.side], o.price, Append(q, n))
             H2 == Put(b.heap, n, o)
             X2 == Put(b.index, o.order_id, [side |-> o.side, price_level |-> o.price, position |-> n])
             R2 == IF o.remaining_quantity = o.quantity
                   THEN Append(b.reports, PlainReport(o, "New")) ELSE b.reports
  <1>2. c = [b EXCEPT !.orders[o.side] = L2, !.heap = H2, !.index = X2, !.incoming = NoOrder, !.reports = R2]
    BY <1>1 DEF Rest, BookTyped
  <1> HIDE DEF L2, H2, X2, R2
  <1>3. c.orders = [b.orders EXCEPT ![o.side] = L2] /\ c.incoming = NoOrder
    BY <1>1, <1>2 DEF BookTyped
  <1> QED BY <1>3 DEF L2

\* An order that has come to rest is not incoming any more.
LEMMA RestEnds ==
  ASSUME NEW b, Good(b), b.incoming \in Order, NEW n
  PROVE  Rest(b, n).incoming = NoOrder
  <1>1. PICK c : c = Rest(b, n)
    OBVIOUS
  <1>2. PICK o : o = b.incoming
    OBVIOUS
  <1>3. PICK q : q = IF o.price \in DOMAIN b.orders[o.side] THEN b.orders[o.side][o.price] ELSE <<>>
    OBVIOUS
  <1>4. /\ c.orders = [b.orders EXCEPT ![o.side] = Put(b.orders[o.side], o.price, Append(q, n))]
        /\ c.incoming = NoOrder
    BY <1>1, <1>2, <1>3, RestOrders
  <1> QED BY <1>1, <1>4

\* The same order comes to rest in both, in the same node.
LEMMA SameRest ==
  ASSUME NEW b, NEW c, Good(b), Good(c), Same(b, c), b.incoming # NoOrder, NEW n,
         NEW d, d = Rest(b, n), NEW e, e = Rest(c, n)
  PROVE  Same(d, e)
  <1>1. /\ b.orders = c.orders /\ b.index = c.index /\ DOMAIN b.heap = DOMAIN c.heap
        /\ \A m \in DOMAIN b.heap : Alike(b.heap[m], c.heap[m])
        /\ Alike(b.incoming, c.incoming) /\ c.incoming # NoOrder
    BY DEF Same
  <1>2. PICK o \in Order, p \in Order : o = b.incoming /\ p = c.incoming
    BY <1>1 DEF Good, BookTyped
  <1>3. Alike(o, p)
    BY <1>1, <1>2
  <1>4. PICK x : x = [side |-> o.side, price_level |-> o.price, position |-> n]
    OBVIOUS
  <1>5. d.heap = Put(b.heap, n, o) /\ d.index = Put(b.index, o.order_id, x)
    <2>1. /\ d.heap = Put(b.heap, n, o) /\ d.fills = b.fills
          /\ d.index = Put(b.index, o.order_id, [side |-> o.side, price_level |-> o.price, position |-> n])
          /\ d.reports = IF o.remaining_quantity = o.quantity
                         THEN Append(b.reports, PlainReport(o, "New")) ELSE b.reports
      BY <1>2, RestShape
    <2> QED BY <1>4, <2>1
  <1>6. e.heap = Put(c.heap, n, p) /\ e.index = Put(c.index, p.order_id, x)
    <2>1. /\ e.heap = Put(c.heap, n, p) /\ e.fills = c.fills
          /\ e.index = Put(c.index, p.order_id, [side |-> p.side, price_level |-> p.price, position |-> n])
          /\ e.reports = IF p.remaining_quantity = p.quantity
                         THEN Append(c.reports, PlainReport(p, "New")) ELSE c.reports
      BY <1>2, RestShape
    <2> QED BY <1>3, <1>4, <2>1 DEF Alike
  <1>7. PICK q : q = IF o.price \in DOMAIN b.orders[o.side] THEN b.orders[o.side][o.price] ELSE <<>>
    OBVIOUS
  <1>8. /\ d.orders = [b.orders EXCEPT ![o.side] = Put(b.orders[o.side], o.price, Append(q, n))]
        /\ d.incoming = NoOrder
    BY <1>2, <1>7, RestOrders
  <1>9. /\ e.orders = [c.orders EXCEPT ![p.side] = Put(c.orders[p.side], p.price, Append(q, n))]
        /\ e.incoming = NoOrder
    <2>1. q = IF p.price \in DOMAIN c.orders[p.side] THEN c.orders[p.side][p.price] ELSE <<>>
      BY <1>1, <1>3, <1>7 DEF Alike
    <2> QED BY <1>2, <2>1, RestOrders
  <1>10. d.orders = e.orders /\ d.index = e.index
    BY <1>1, <1>3, <1>5, <1>6, <1>8, <1>9 DEF Alike
  <1>11. DOMAIN d.heap = DOMAIN e.heap /\ \A m \in DOMAIN d.heap : Alike(d.heap[m], e.heap[m])
    <2>1. /\ DOMAIN d.heap = DOMAIN b.heap \cup {n}
          /\ \A m \in DOMAIN d.heap : d.heap[m] = IF m = n THEN o ELSE b.heap[m]
      BY <1>5 DEF Put
    <2>2. /\ DOMAIN e.heap = DOMAIN c.heap \cup {n}
          /\ \A m \in DOMAIN e.heap : e.heap[m] = IF m = n THEN p ELSE c.heap[m]
      BY <1>6 DEF Put
    <2> QED BY <1>1, <1>3, <2>1, <2>2
  <1> QED BY <1>8, <1>9, <1>10, <1>11 DEF Same

\* c is b with another incoming order, results apart.
LEMMA SameIncoming ==
  ASSUME NEW b, NEW c, Same(b, c), NEW d, NEW e,
         d.orders = b.orders, d.heap = b.heap, d.index = b.index,
         e.orders = c.orders, e.heap = c.heap, e.index = c.index,
         \/ d.incoming = NoOrder /\ e.incoming = NoOrder
         \/ d.incoming # NoOrder /\ e.incoming # NoOrder /\ Alike(d.incoming, e.incoming)
  PROVE  Same(d, e)
  BY DEF Same

\* What is behind the loop does the same to both.
LEMMA SameFinish ==
  ASSUME NEW b, NEW c, Good(b), Good(c), Same(b, c), NEW d, d = Finish(b), NEW e, e = Finish(c)
  PROVE  Same(d, e) /\ Holding(d) /\ Holding(e)
  <1>0. BookTyped(b) /\ BookTyped(c) /\ Holding(b) /\ Holding(c)
    BY GoodHolding DEF Good
  <1>1. /\ DOMAIN b.heap = DOMAIN c.heap
        /\ b.incoming = NoOrder <=> c.incoming = NoOrder
        /\ b.incoming # NoOrder => Alike(b.incoming, c.incoming)
    BY DEF Same
  <1>2. CASE b.incoming = NoOrder
    BY <1>0, <1>1, <1>2 DEF Finish
  <1>3. CASE b.incoming # NoOrder /\ b.incoming.remaining_quantity = 0
    <2>1. c.incoming # NoOrder /\ c.incoming.remaining_quantity = 0
      BY <1>1, <1>3 DEF Alike
    <2>2. d = [b EXCEPT !.incoming = NoOrder] /\ e = [c EXCEPT !.incoming = NoOrder]
      BY <1>3, <2>1 DEF Finish
    <2>3. /\ d.orders = b.orders /\ d.heap = b.heap /\ d.index = b.index /\ d.incoming = NoOrder
          /\ e.orders = c.orders /\ e.heap = c.heap /\ e.index = c.index /\ e.incoming = NoOrder
      BY <1>0, <2>2 DEF BookTyped
    <2> QED BY <1>0, <2>3, SameIncoming DEF Holding
  <1>4. CASE b.incoming # NoOrder /\ b.incoming.remaining_quantity # 0 /\ b.incoming.type = "Limit"
    <2>1. c.incoming # NoOrder /\ c.incoming.remaining_quantity # 0 /\ c.incoming.type = "Limit"
      BY <1>1, <1>4 DEF Alike
    <2>2. PICK n : n = CHOOSE x \in Node : x \notin DOMAIN b.heap
      OBVIOUS
    <2>3. d = Rest(b, n) /\ e = Rest(c, n)
      BY <1>1, <1>4, <2>1, <2>2 DEF Finish
    <2>4. Same(d, e)
      BY <1>4, <2>3, SameRest
    <2>5. PICK o \in Order, p \in Order : o = b.incoming /\ p = c.incoming
      BY <1>0, <1>4, <2>1 DEF BookTyped
    <2>6. /\ DOMAIN d.heap = DOMAIN b.heap \cup {n} /\ d.heap[n] = o
          /\ \A m \in DOMAIN b.heap \ {n} : d.heap[m] = b.heap[m]
      BY <2>3, <2>5, RestHeap
    <2>7. /\ DOMAIN e.heap = DOMAIN c.heap \cup {n} /\ e.heap[n] = p
          /\ \A m \in DOMAIN c.heap \ {n} : e.heap[m] = c.heap[m]
      BY <2>3, <2>5, RestHeap
    <2>8. d.incoming = NoOrder /\ e.incoming = NoOrder
      BY <2>3, <2>5, RestEnds
    <2> QED BY <1>0, <2>4, <2>5, <2>6, <2>7, <2>8 DEF Holding
  <1>5. CASE b.incoming # NoOrder /\ b.incoming.remaining_quantity # 0 /\ b.incoming.type # "Limit"
    <2>1. c.incoming # NoOrder /\ c.incoming.remaining_quantity # 0 /\ c.incoming.type # "Limit"
      BY <1>1, <1>5 DEF Alike
    <2>2. d = Expire(b) /\ e = Expire(c)
      BY <1>5, <2>1 DEF Finish
    <2>3. /\ d.orders = b.orders /\ d.heap = b.heap /\ d.index = b.index /\ d.incoming = NoOrder
          /\ e.orders = c.orders /\ e.heap = c.heap /\ e.index = c.index /\ e.incoming = NoOrder
      BY <1>0, <2>2 DEF BookTyped, Expire
    <2> QED BY <1>0, <2>3, SameIncoming DEF Holding
  <1> QED BY <1>2, <1>3, <1>4, <1>5

\* Two requests that are the same, clients apart.
SameRequest(r, q) ==
    /\ r.type = q.type /\ r.order_id = q.order_id
    /\ r.type = "Submit" => Alike(r.order, q.order)
    /\ r.type # "Submit" => r = q

\* The same entry is erased from both.
LEMMA SameErase ==
  ASSUME NEW b, NEW c, Good(b), Good(c), Same(b, c), NEW id \in DOMAIN b.index, NEW x, x = b.index[id]
  PROVE  /\ EraseEntry(b, x).orders = EraseEntry(c, x).orders
         /\ x.position \in DOMAIN b.heap /\ b.heap[x.position] \in Order
         /\ c.heap[x.position] \in Order
  <1>1. b.orders = c.orders /\ b.index = c.index /\ DOMAIN b.heap = DOMAIN c.heap
    BY DEF Same
  <1>2. BookTyped(b) /\ BookTyped(c)
    BY DEF Good
  <1>3. x.position \in DOMAIN b.heap /\ b.heap[x.position] \in Order
    BY EraseShape
  <1>4. c.heap[x.position] \in Order
    BY <1>1, EraseShape
  <1>5. CASE x.price_level \in DOMAIN b.orders[x.side]
    <2> DEFINE t == SetLevel(b.orders[x.side], x.price_level, Unlink(b.orders[x.side][x.price_level], x.position))
    <2>1. EraseEntry(b, x) = [b EXCEPT !.orders[x.side] = t, !.heap = Drop(b.heap, x.position)]
      BY <1>2, <1>5 DEF EraseEntry, BookTyped
    <2>2. EraseEntry(c, x) = [c EXCEPT !.orders[x.side] = t, !.heap = Drop(c.heap, x.position)]
      BY <1>1, <1>2, <1>5 DEF EraseEntry, BookTyped
    <2> HIDE DEF t
    <2>3. EraseEntry(b, x).orders = [b.orders EXCEPT ![x.side] = t]
      BY <1>2, <2>1 DEF BookTyped
    <2>4. EraseEntry(c, x).orders = [c.orders EXCEPT ![x.side] = t]
      BY <1>2, <2>2 DEF BookTyped
    <2> QED BY <1>1, <1>3, <1>4, <2>3, <2>4
  <1>6. CASE x.price_level \notin DOMAIN b.orders[x.side]
    BY <1>1, <1>3, <1>4, <1>6 DEF EraseEntry
  <1> QED BY <1>5, <1>6

\* Both calls begin alike.
LEMMA SameBegin ==
  ASSUME NEW b, NEW c, Good(b), Good(c), Same(b, c), NEW r \in Command, NEW q \in Command, SameRequest(r, q),
         NEW d, d = Begin(b, r), NEW e, e = Begin(c, q)
  PROVE  Same(d, e)
  <1>1. /\ b.orders = c.orders /\ b.index = c.index /\ DOMAIN b.heap = DOMAIN c.heap
        /\ \A n \in DOMAIN b.heap : Alike(b.heap[n], c.heap[n])
        /\ b.incoming = NoOrder <=> c.incoming = NoOrder
        /\ b.incoming # NoOrder => Alike(b.incoming, c.incoming)
    BY DEF Same
  <1>2. BookTyped(b) /\ BookTyped(c)
    BY DEF Good
  <1>3. CASE r.type = "Submit"
    <2>1. /\ r.order \in Order /\ q.order \in Order /\ Alike(r.order, q.order) /\ q.type = "Submit"
      BY <1>3, CommandFields DEF SameRequest
    <2>2. r.order # NoOrder /\ q.order # NoOrder
      BY <2>1, NoOrderAssumption
    <2>3. d = [b EXCEPT !.incoming = r.order] /\ e = [c EXCEPT !.incoming = q.order]
      BY <1>3, <2>1 DEF Begin
    <2>4. /\ d.orders = b.orders /\ d.heap = b.heap /\ d.index = b.index /\ d.incoming = r.order
          /\ e.orders = c.orders /\ e.heap = c.heap /\ e.index = c.index /\ e.incoming = q.order
      BY <1>2, <2>3 DEF BookTyped
    <2> QED BY <2>1, <2>2, <2>4, SameIncoming
  <1>4. CASE r.type # "Submit" /\ r.order_id \notin DOMAIN b.index
    <2>1. q = r
      BY <1>4 DEF SameRequest
    <2> QED BY <1>1, <1>4, <2>1 DEF Begin
  <1>5. CASE r.type # "Submit" /\ r.order_id \in DOMAIN b.index
    <2>1. q = r
      BY <1>5 DEF SameRequest
    <2>2. PICK x : x = b.index[r.order_id]
      OBVIOUS
    <2>3. x = c.index[r.order_id] /\ r.order_id \in DOMAIN c.index
      BY <1>1, <1>5, <2>2
    <2>4. /\ EraseEntry(b, x).orders = EraseEntry(c, x).orders
          /\ x.position \in DOMAIN b.heap /\ b.heap[x.position] \in Order
          /\ c.heap[x.position] \in Order
      BY <1>5, <2>2, SameErase
    <2>5. ASSUME d.heap = Drop(b.heap, x.position), e.heap = Drop(c.heap, x.position)
          PROVE  DOMAIN d.heap = DOMAIN e.heap /\ \A n \in DOMAIN d.heap : Alike(d.heap[n], e.heap[n])
      <3>1. /\ DOMAIN d.heap = DOMAIN b.heap \ {x.position} /\ \A n \in DOMAIN d.heap : d.heap[n] = b.heap[n]
            /\ DOMAIN e.heap = DOMAIN c.heap \ {x.position} /\ \A n \in DOMAIN e.heap : e.heap[n] = c.heap[n]
        BY <2>5 DEF Drop, Restrict
      <3> QED BY <1>1, <3>1
    <2>6. CASE r.type = "Cancel"
      <3>1. d = CancelFound(b, r.order_id) /\ e = CancelFound(c, r.order_id)
        BY <1>5, <2>1, <2>3, <2>6 DEF Begin
      <3>2. /\ d.heap = Drop(b.heap, b.index[r.order_id].position) /\ d.index = Drop(b.index, r.order_id)
            /\ d.incoming = b.incoming /\ d.orders = EraseEntry(b, b.index[r.order_id]).orders
        BY <1>5, <3>1, CancelShape
      <3>3. /\ e.heap = Drop(c.heap, c.index[r.order_id].position) /\ e.index = Drop(c.index, r.order_id)
            /\ e.incoming = c.incoming /\ e.orders = EraseEntry(c, c.index[r.order_id]).orders
        BY <2>3, <3>1, CancelShape
      <3> QED BY <1>1, <2>2, <2>3, <2>4, <2>5, <3>2, <3>3 DEF Same
    <2>7. CASE r.type = "Modify"
      <3>1. d = ModifyFound(b, r) /\ e = ModifyFound(c, r)
        BY <1>5, <2>1, <2>3, <2>7 DEF Begin
      <3>2. /\ d.heap = Drop(b.heap, b.index[r.order_id].position) /\ d.index = Drop(b.index, r.order_id)
            /\ d.incoming = ModifiedOrder(b, r) /\ d.orders = EraseEntry(b, b.index[r.order_id]).orders
        BY <1>5, <3>1, ModifyShape
      <3>3. /\ e.heap = Drop(c.heap, c.index[r.order_id].position) /\ e.index = Drop(c.index, r.order_id)
            /\ e.incoming = ModifiedOrder(c, r) /\ e.orders = EraseEntry(c, c.index[r.order_id]).orders
        BY <2>3, <3>1, ModifyShape
      <3>4. PICK o \in Order, p \in Order : o = b.heap[x.position] /\ p = c.heap[x.position]
        BY <2>4
      <3>5. Alike(o, p)
        BY <1>1, <2>4, <3>4
      <3>6. /\ ModifiedOrder(b, r) = [o EXCEPT !.price = r.price, !.quantity = r.quantity,
                                              !.remaining_quantity = r.quantity, !.timestamp = r.timestamp]
            /\ ModifiedOrder(c, r) = [p EXCEPT !.price = r.price, !.quantity = r.quantity,
                                              !.remaining_quantity = r.quantity, !.timestamp = r.timestamp]
        BY <2>2, <2>3, <3>4 DEF ModifiedOrder
      <3>7. Alike(ModifiedOrder(b, r), ModifiedOrder(c, r))
        BY <3>5, <3>6 DEF Alike, Order
      <3>8. d.incoming \in Order /\ e.incoming \in Order
        BY <1>5, <2>3, <2>7, <3>1, ModifyGood, CommandFields
      <3>9. d.incoming # NoOrder /\ e.incoming # NoOrder
        BY <3>8, NoOrderAssumption
      <3> QED BY <1>1, <2>2, <2>3, <2>4, <2>5, <3>2, <3>3, <3>7, <3>9 DEF Same
    <2>8. r.type \in {"Cancel", "Modify"}
      BY <1>5, CommandFields
    <2> QED BY <2>6, <2>7, <2>8
  <1> QED BY <1>3, <1>4, <1>5

\* A book and another with the same content.
LEMMA SameContent ==
  ASSUME NEW b, NEW c, Holding(b), Holding(c), Same(b, c),
         \A s \in Side : \A p \in DOMAIN b.orders[s] : \A i \in DOMAIN b.orders[s][p] :
             b.orders[s][p][i] \in DOMAIN b.heap
  PROVE  Content(b) = Content(c)
  <1>1. /\ b.orders = c.orders /\ DOMAIN b.heap = DOMAIN c.heap
        /\ \A n \in DOMAIN b.heap : Alike(b.heap[n], c.heap[n])
    BY DEF Same
  <1>2. \A n \in DOMAIN b.heap : [b.heap[n] EXCEPT !.client_id = 0] = [c.heap[n] EXCEPT !.client_id = 0]
    <2>1. \A n \in DOMAIN b.heap : b.heap[n] \in Order /\ c.heap[n] \in Order
      BY <1>1 DEF Holding
    <2>2. \A n \in DOMAIN b.heap : Bare(b.heap[n]) = Bare(c.heap[n])
      BY <1>1, <2>1, BareSame
    <2> QED BY <2>2 DEF Bare
  <1>3. \A s \in Side : \A p \in DOMAIN b.orders[s] : \A i \in DOMAIN b.orders[s][p] :
            [b.heap[b.orders[s][p][i]] EXCEPT !.client_id = 0] = [c.heap[c.orders[s][p][i]] EXCEPT !.client_id = 0]
    BY <1>1, <1>2
  <1>4. \A s \in Side : \A p \in DOMAIN b.orders[s] :
            [i \in DOMAIN b.orders[s][p] |-> [b.heap[b.orders[s][p][i]] EXCEPT !.client_id = 0]]
          = [i \in DOMAIN c.orders[s][p] |-> [c.heap[c.orders[s][p][i]] EXCEPT !.client_id = 0]]
    BY <1>1, <1>3
  <1>5. \A s \in Side :
            [p \in DOMAIN b.orders[s] |->
                [i \in DOMAIN b.orders[s][p] |-> [b.heap[b.orders[s][p][i]] EXCEPT !.client_id = 0]]]
          = [p \in DOMAIN c.orders[s] |->
                [i \in DOMAIN c.orders[s][p] |-> [c.heap[c.orders[s][p][i]] EXCEPT !.client_id = 0]]]
    BY <1>1, <1>4
  <1> QED BY <1>5 DEF Content

-----------------------------------------------------------------------------
(* The loop of submitOrderInternal and its end. *)

\* Induction, for a set of naturals.
LEMMA NatSet ==
  ASSUME NEW T, 0 \in T, \A n \in Nat : n \in T => n + 1 \in T
  PROVE  Nat \subseteq T
  <1> SUFFICES ASSUME NEW k \in Nat, k \notin T PROVE FALSE
    OBVIOUS
  <1> DEFINE D == {n \in Nat : n \notin T}
  <1>1. D \subseteq Nat /\ D # {}
    OBVIOUS
  <1>2. PICK x \in D : \A y \in D : x <= y
    <2> HIDE DEF D
    <2> QED BY <1>1, LeastNat
  <1>3. x # 0 /\ x \in Nat /\ x - 1 \in Nat
    BY <1>2
  <1>4. x - 1 \in T
    BY <1>2, <1>3
  <1>5. (x - 1) + 1 \in T
    BY <1>3, <1>4
  <1> QED BY <1>2, <1>3, <1>5

\* One iteration, if there is one to do.
Iterate(b) == IF Matching(b) THEN MatchOnce(b, 0) ELSE b

\* f are the first n books of the loop on b.
Loop(f, b, n) == f[0] = b /\ \A k \in 1..n : f[k] = Iterate(f[k - 1])

\* There is a function as the recursive definition says.
LEMMA LoopExists ==
  ASSUME NEW b, NEW n \in Nat
  PROVE  \E f : f = [k \in 0..n |-> IF k = 0 THEN b ELSE Iterate(f[k - 1])]
  <1> DEFINE T == {m \in Nat : \E f : f = [k \in 0..m |-> IF k = 0 THEN b ELSE Iterate(f[k - 1])]}
  <1>1. 0 \in T
    <2> DEFINE g == [k \in 0..0 |-> b]
    <2>1. g = [k \in 0..0 |-> IF k = 0 THEN b ELSE Iterate(g[k - 1])]
      OBVIOUS
    <2> QED BY <2>1
  <1>2. ASSUME NEW m \in Nat, m \in T PROVE m + 1 \in T
    <2>1. PICK f : f = [k \in 0..m |-> IF k = 0 THEN b ELSE Iterate(f[k - 1])]
      BY <1>2
    <2> DEFINE g == [k \in 0..(m + 1) |-> IF k <= m THEN f[k] ELSE Iterate(f[m])]
               h == [k \in 0..(m + 1) |-> IF k = 0 THEN b ELSE Iterate(g[k - 1])]
    <2>2. \A k \in 0..(m + 1) : g[k] = h[k]
      <3>1. g[0] = b /\ h[0] = b
        BY <2>1
      <3>2. ASSUME NEW k \in 1..m PROVE g[k] = h[k]
        <4>1. k - 1 \in 0..m /\ k \in 0..m /\ k # 0
          OBVIOUS
        <4>2. f[k] = Iterate(f[k - 1])
          BY <2>1, <4>1
        <4>3. g[k] = f[k] /\ g[k - 1] = f[k - 1]
          BY <4>1
        <4>4. h[k] = Iterate(g[k - 1])
          BY <4>1
        <4> QED BY <4>2, <4>3, <4>4
      <3>3. g[m + 1] = h[m + 1]
        <4>1. g[m + 1] = Iterate(f[m]) /\ g[m] = f[m]
          OBVIOUS
        <4>2. h[m + 1] = Iterate(g[(m + 1) - 1])
          OBVIOUS
        <4>3. (m + 1) - 1 = m
          OBVIOUS
        <4> HIDE DEF g, h
        <4> QED BY <4>1, <4>2, <4>3
      <3>4. \A k \in 0..(m + 1) : k = 0 \/ k \in 1..m \/ k = m + 1
        OBVIOUS
      <3> HIDE DEF g, h
      <3> QED BY <3>1, <3>2, <3>3, <3>4
    <2>3. g = h
      BY <2>2
    <2>4. \E x : x = [k \in 0..(m + 1) |-> IF k = 0 THEN b ELSE Iterate(x[k - 1])]
      BY <2>3
    <2> QED BY <2>4
  <1>3. Nat \subseteq T
    <2> HIDE DEF T
    <2> QED BY <1>1, <1>2, NatSet
  <1> QED BY <1>3

\* How many iterations are looked at.
Rounds == Cardinality(Node) + 1

\* There are only so many.
LEMMA RoundsNat == Cardinality(Node) \in Nat /\ Rounds \in Nat
  BY NodeAssumption, FS_CardinalityType DEF Rounds

\* Iterations is the loop its recursive definition says.
LEMMA IterationsLoop ==
  ASSUME NEW b
  PROVE  Loop(Iterations(b), b, Rounds)
  <1>1. Iterations(b) = CHOOSE f : f = [k \in 0..Rounds |-> IF k = 0 THEN b ELSE Iterate(f[k - 1])]
    BY DEF Iterations, Iterate, Rounds
  <1>2. Rounds \in Nat
    BY RoundsNat
  <1>3. \E f : f = [k \in 0..Rounds |-> IF k = 0 THEN b ELSE Iterate(f[k - 1])]
    BY <1>2, LoopExists
  <1>4. PICK g : g = Iterations(b)
    OBVIOUS
  <1>5. g = [k \in 0..Rounds |-> IF k = 0 THEN b ELSE Iterate(g[k - 1])]
    BY <1>1, <1>3, <1>4
  <1>6. g[0] = b /\ \A k \in 1..Rounds : g[k] = Iterate(g[k - 1])
    BY <1>2, <1>5
  <1> QED BY <1>4, <1>6 DEF Loop

\* An iteration keeps a book good, and empties a node or is the last.
LEMMA IterateKept ==
  ASSUME NEW b, Good(b), NEW c, c = Iterate(b)
  PROVE  /\ Good(c) /\ DOMAIN c.heap \subseteq DOMAIN b.heap
         /\ ~Matching(c) \/ Cardinality(DOMAIN c.heap) <= Cardinality(DOMAIN b.heap) - 1
  <1>0. /\ IsFiniteSet(DOMAIN b.heap) /\ Cardinality(DOMAIN b.heap) \in Nat
    <2>1. DOMAIN b.heap \in SUBSET Node
      BY DEF Good, Struct, ListsTyped, IsMap
    <2> QED BY <2>1, NodeAssumption, FS_Subset, FS_CardinalityType
  <1>1. CASE ~Matching(b)
    BY <1>1 DEF Iterate
  <1>2. CASE Matching(b)
    <2>1. c = MatchOnce(b, 0) /\ b.incoming \in Order /\ CanMatch(b)
      BY <1>2 DEF Iterate, Matching, Good, BookTyped
    <2>2. Good(c)
      BY <2>1, MatchOnceGood
    <2>3. PICK n : n = FrontNode(b)
      OBVIOUS
    <2>4. /\ n \in DOMAIN b.heap /\ b.heap[n] \in Order
          /\ IncAfter(b).remaining_quantity = b.incoming.remaining_quantity - MatchQty(b)
          /\ RestAfter(b).remaining_quantity = b.heap[n].remaining_quantity - MatchQty(b)
      BY <2>1, <2>3, PartiesOfTrade
    <2>5. /\ c.incoming = IncAfter(b)
          /\ RestAfter(b).remaining_quantity = 0 =>
                c.heap = Drop(b.heap, n) /\ c.index = Drop(b.index, b.heap[n].order_id)
          /\ RestAfter(b).remaining_quantity # 0 =>
                c.heap = [b.heap EXCEPT ![n] = RestAfter(b)] /\ c.index = b.index
      BY <2>1, <2>3, MatchShape
    <2>6. CASE RestAfter(b).remaining_quantity = 0
      <3>1. DOMAIN c.heap = DOMAIN b.heap \ {n}
        BY <2>5, <2>6 DEF Drop, Restrict
      <3>2. Cardinality(DOMAIN c.heap) = Cardinality(DOMAIN b.heap) - 1
        BY <1>0, <2>4, <3>1, FS_RemoveElement
      <3> QED BY <1>0, <2>2, <3>1, <3>2
    <2>7. CASE RestAfter(b).remaining_quantity # 0
      <3>1. DOMAIN c.heap = DOMAIN b.heap
        BY <2>5, <2>7
      <3>2. PICK x \in Int, y \in Int : x = b.incoming.remaining_quantity /\ y = b.heap[n].remaining_quantity
        BY <2>1, <2>4, BoundsAssumption DEF Order, Quantity
      <3>3. MatchQty(b) = IF x <= y THEN x ELSE y
        BY <2>3, <3>2 DEF MatchQty
      <3>4. MatchQty(b) = x
        BY <2>4, <2>7, <3>2, <3>3
      <3>5. c.incoming.remaining_quantity = 0
        BY <2>4, <2>5, <3>2, <3>4
      <3>6. ~Matching(c)
        BY <3>5 DEF Matching, CanMatch
      <3> QED BY <2>2, <3>1, <3>6
    <2> QED BY <2>6, <2>7
  <1> QED BY <1>1, <1>2

\* The loop keeps a book good and comes to its end in time.
LEMMA LoopEnds ==
  ASSUME NEW b, Good(b), NEW f, Loop(f, b, Rounds)
  PROVE  (\A k \in 0..Rounds : Good(f[k])) /\ ~Matching(f[Rounds])
  <1>0. Cardinality(Node) \in Nat /\ Rounds = Cardinality(Node) + 1
    BY RoundsNat DEF Rounds
  <1>1. \A x : Good(x) => Cardinality(DOMAIN x.heap) \in Nat /\ Cardinality(DOMAIN x.heap) <= Cardinality(Node)
    <2>1. ASSUME NEW x, Good(x) PROVE Cardinality(DOMAIN x.heap) \in Nat /\ Cardinality(DOMAIN x.heap) <= Cardinality(Node)
      <3>1. DOMAIN x.heap \in SUBSET Node
        BY <2>1 DEF Good, Struct, ListsTyped, IsMap
      <3> QED BY <3>1, NodeAssumption, FS_Subset, FS_CardinalityType
    <2> QED BY <2>1
  <1> DEFINE P(k) == Good(f[k]) /\ (~Matching(f[k]) \/ Cardinality(DOMAIN f[k].heap) <= Cardinality(Node) - k)
             T == {k \in Nat : k <= Rounds => P(k)}
  <1>2. 0 \in T
    <2>1. f[0] = b
      BY DEF Loop
    <2> QED BY <1>0, <1>1, <2>1
  <1>3. ASSUME NEW k \in Nat, k \in T PROVE k + 1 \in T
    <2> SUFFICES ASSUME k + 1 <= Rounds PROVE P(k + 1)
      OBVIOUS
    <2>1. P(k)
      BY <1>0, <1>3
    <2>2. f[k + 1] = Iterate(f[k])
      <3>1. k + 1 \in 1..Rounds /\ (k + 1) - 1 = k
        BY <1>0
      <3> QED BY <3>1 DEF Loop
    <2>3. PICK x, y : x = f[k] /\ y = f[k + 1]
      OBVIOUS
    <2>4. /\ Good(y) /\ DOMAIN y.heap \subseteq DOMAIN x.heap
          /\ ~Matching(y) \/ Cardinality(DOMAIN y.heap) <= Cardinality(DOMAIN x.heap) - 1
      BY <2>1, <2>2, <2>3, IterateKept
    <2>5. CASE Matching(x)
      <3>1. Cardinality(DOMAIN x.heap) <= Cardinality(Node) - k
        BY <2>1, <2>3, <2>5
      <3>2. Cardinality(DOMAIN x.heap) \in Nat /\ Cardinality(DOMAIN y.heap) \in Nat
        BY <1>1, <2>1, <2>3, <2>4
      <3>3. ~Matching(y) \/ Cardinality(DOMAIN y.heap) <= Cardinality(Node) - (k + 1)
        BY <1>0, <2>4, <3>1, <3>2
      <3> QED BY <2>3, <2>4, <3>3
    <2>6. CASE ~Matching(x)
      <3>1. y = x
        BY <2>2, <2>3, <2>6 DEF Iterate
      <3> QED BY <2>3, <2>4, <2>6, <3>1
    <2> QED BY <2>5, <2>6
  <1>4. Nat \subseteq T
    <2> HIDE DEF T
    <2> QED BY <1>2, <1>3, NatSet
  <1>5. \A k \in 0..Rounds : P(k)
    BY <1>0, <1>4
  <1>6. ~Matching(f[Rounds])
    <2>1. P(Rounds)
      BY <1>0, <1>5
    <2>2. Cardinality(DOMAIN f[Rounds].heap) \in Nat
      BY <1>1, <2>1
    <2> QED BY <1>0, <2>1, <2>2
  <1> QED BY <1>5, <1>6

\* The end of the loop on b.
LoopEnd(b) == Iterations(b)[Rounds]

\* The loop, then what is behind it.
LEMMA CompletedLast ==
  ASSUME NEW b, Good(b)
  PROVE  Completed(b) = Finish(LoopEnd(b)) /\ Good(LoopEnd(b)) /\ ~Matching(LoopEnd(b))
  <1>1. PICK f : f = Iterations(b)
    OBVIOUS
  <1>2. Loop(f, b, Rounds)
    BY <1>1, IterationsLoop
  <1>3. Good(f[Rounds]) /\ ~Matching(f[Rounds])
    BY <1>2, LoopEnds, RoundsNat
  <1>4. Completed(b) = Finish(f[Rounds])
    BY <1>1 DEF Completed, Rounds
  <1> QED BY <1>1, <1>3, <1>4 DEF LoopEnd

\* A loop that has come to its end.
LEMMA CompletedEnd ==
  ASSUME NEW b, Good(b), ~Matching(b)
  PROVE  Completed(b) = Finish(b)
  <1>1. PICK f : f = Iterations(b)
    OBVIOUS
  <1>2. Loop(f, b, Rounds) /\ Rounds \in Nat
    BY <1>1, IterationsLoop, RoundsNat
  <1> DEFINE T == {k \in Nat : k <= Rounds => f[k] = b}
  <1>3. 0 \in T
    BY <1>2 DEF Loop
  <1>4. ASSUME NEW k \in Nat, k \in T PROVE k + 1 \in T
    <2> SUFFICES ASSUME k + 1 <= Rounds PROVE f[k + 1] = b
      OBVIOUS
    <2>1. f[k] = b
      BY <1>2, <1>4
    <2>2. k + 1 \in 1..Rounds /\ (k + 1) - 1 = k
      BY <1>2
    <2>3. f[k + 1] = Iterate(f[k])
      BY <1>2, <2>2 DEF Loop
    <2> QED BY <2>1, <2>3 DEF Iterate
  <1>5. Nat \subseteq T
    <2> HIDE DEF T
    <2> QED BY <1>3, <1>4, NatSet
  <1>6. f[Rounds] = b
    BY <1>2, <1>5
  <1> QED BY <1>1, <1>6 DEF Completed, Rounds

\* One iteration more or less.
LEMMA CompletedStep ==
  ASSUME NEW b, Good(b), Matching(b), NEW m, m = MatchOnce(b, 0)
  PROVE  Completed(b) = Completed(m)
  <1>1. PICK f, g : f = Iterations(b) /\ g = Iterations(m)
    OBVIOUS
  <1>2. Loop(f, b, Rounds) /\ Loop(g, m, Rounds) /\ Rounds \in Nat /\ Rounds >= 1
    BY <1>1, IterationsLoop, RoundsNat DEF Rounds
  <1>3. ~Matching(f[Rounds])
    BY <1>2, LoopEnds
  <1> DEFINE T == {k \in Nat : k + 1 <= Rounds => g[k] = f[k + 1]}
  <1>4. 0 \in T
    <2>1. g[0] = m /\ f[0] = b
      BY <1>2 DEF Loop
    <2>2. 1 \in 1..Rounds /\ 1 - 1 = 0
      BY <1>2
    <2>3. f[1] = Iterate(f[0])
      BY <1>2, <2>2 DEF Loop
    <2>4. f[0 + 1] = m
      BY <2>1, <2>3 DEF Iterate
    <2> QED BY <2>1, <2>4
  <1>5. ASSUME NEW k \in Nat, k \in T PROVE k + 1 \in T
    <2> SUFFICES ASSUME (k + 1) + 1 <= Rounds PROVE g[k + 1] = f[(k + 1) + 1]
      OBVIOUS
    <2>1. g[k] = f[k + 1]
      BY <1>2, <1>5
    <2>2. k + 1 \in 1..Rounds /\ (k + 1) - 1 = k /\ (k + 1) + 1 \in 1..Rounds /\ ((k + 1) + 1) - 1 = k + 1
      BY <1>2
    <2>3. g[k + 1] = Iterate(g[k])
      BY <1>2, <2>2 DEF Loop
    <2>4. f[(k + 1) + 1] = Iterate(f[k + 1])
      BY <1>2, <2>2 DEF Loop
    <2> QED BY <2>1, <2>3, <2>4
  <1>6. Nat \subseteq T
    <2> HIDE DEF T
    <2> QED BY <1>4, <1>5, NatSet
  <1>7. g[Rounds - 1] = f[Rounds]
    <2>1. Rounds - 1 \in T /\ (Rounds - 1) + 1 = Rounds
      BY <1>2, <1>6
    <2>2. (Rounds - 1) + 1 <= Rounds => g[Rounds - 1] = f[(Rounds - 1) + 1]
      BY <2>1
    <2> QED BY <1>2, <2>1, <2>2
  <1>8. g[Rounds] = f[Rounds]
    <2>1. g[Rounds] = Iterate(g[Rounds - 1])
      BY <1>2 DEF Loop
    <2> QED BY <1>3, <1>7, <2>1 DEF Iterate
  <1> QED BY <1>1, <1>8 DEF Completed, Rounds

\* The loop does the same to two books that are the same.
LEMMA SameLast ==
  ASSUME NEW b, NEW c, Good(b), Good(c), Same(b, c)
  PROVE  Same(LoopEnd(b), LoopEnd(c))
  <1>1. PICK f, g : f = Iterations(b) /\ g = Iterations(c)
    OBVIOUS
  <1>2. Loop(f, b, Rounds) /\ Loop(g, c, Rounds) /\ Rounds \in Nat
    BY <1>1, IterationsLoop, RoundsNat
  <1>3. (\A k \in 0..Rounds : Good(f[k])) /\ (\A k \in 0..Rounds : Good(g[k]))
    BY <1>2, LoopEnds
  <1> DEFINE T == {k \in Nat : k <= Rounds => Same(f[k], g[k])}
  <1>4. 0 \in T
    BY <1>2 DEF Loop
  <1>5. ASSUME NEW k \in Nat, k \in T PROVE k + 1 \in T
    <2> SUFFICES ASSUME k + 1 <= Rounds PROVE Same(f[k + 1], g[k + 1])
      OBVIOUS
    <2>1. Same(f[k], g[k]) /\ Good(f[k]) /\ Good(g[k])
      BY <1>2, <1>3, <1>5
    <2>2. k + 1 \in 1..Rounds /\ (k + 1) - 1 = k
      BY <1>2
    <2>3. f[k + 1] = Iterate(f[k]) /\ g[k + 1] = Iterate(g[k])
      BY <1>2, <2>2 DEF Loop
    <2>4. PICK x, y : x = f[k] /\ y = g[k]
      OBVIOUS
    <2>5. Matching(x) <=> Matching(y)
      BY <2>1, <2>4, SameFront
    <2>6. CASE Matching(x)
      <3>1. Same(MatchOnce(x, 0), MatchOnce(y, 0))
        BY <2>1, <2>4, <2>6, SameMatch
      <3> QED BY <2>3, <2>4, <2>5, <2>6, <3>1 DEF Iterate
    <2>7. CASE ~Matching(x)
      BY <2>1, <2>3, <2>4, <2>5, <2>7 DEF Iterate
    <2> QED BY <2>6, <2>7
  <1>6. Nat \subseteq T
    <2> HIDE DEF T
    <2> QED BY <1>4, <1>5, NatSet
  <1>7. Same(f[Rounds], g[Rounds])
    BY <1>2, <1>6
  <1> QED BY <1>1, <1>7 DEF LoopEnd

\* The whole rest of a call does the same.
LEMMA SameCompleted ==
  ASSUME NEW b, NEW c, Good(b), Good(c), Same(b, c)
  PROVE  /\ Same(Completed(b), Completed(c)) /\ Holding(Completed(b)) /\ Holding(Completed(c))
         /\ Strip(Completed(b)) = Strip(Completed(c))
  <1>1. /\ Completed(b) = Finish(LoopEnd(b)) /\ Good(LoopEnd(b))
        /\ Completed(c) = Finish(LoopEnd(c)) /\ Good(LoopEnd(c)) /\ Same(LoopEnd(b), LoopEnd(c))
    BY CompletedLast, SameLast
  <1>2. Same(Completed(b), Completed(c)) /\ Holding(Completed(b)) /\ Holding(Completed(c))
    BY <1>1, SameFinish
  <1> QED BY <1>2, StripSame

\* Every node of a list is there.
Listed(b) ==
    \A s \in Side : \A p \in DOMAIN b.orders[s] : \A i \in DOMAIN b.orders[s][p] :
        b.orders[s][p][i] \in DOMAIN b.heap

\* A good book has the nodes of its lists.
LEMMA GoodListed ==
  ASSUME NEW b, Good(b)
  PROVE  Listed(b)
  <1>1. ASSUME NEW s \in Side, NEW p \in DOMAIN b.orders[s], NEW i \in DOMAIN b.orders[s][p]
        PROVE  b.orders[s][p][i] \in DOMAIN b.heap
    <2>1. b.orders[s][p] \in Seq(Node)
      BY DEF Good, Struct, ListsTyped, IsMap
    <2>2. i \in 1..Len(b.orders[s][p])
      BY <2>1
    <2> QED BY <2>2 DEF Good, Struct, ListsLive
  <1> QED BY <1>1 DEF Listed

\* Also after a call, even one that found no free node.
LEMMA FinishListed ==
  ASSUME NEW b, Good(b), NEW d, d = Finish(b)
  PROVE  Listed(d)
  <1>0. BookTyped(b) /\ Listed(b)
    BY GoodListed DEF Good
  <1>1. CASE d.orders = b.orders /\ d.heap = b.heap
    BY <1>0, <1>1 DEF Listed
  <1>2. ASSUME b.incoming # NoOrder, NEW n, d = Rest(b, n) PROVE Listed(d)
    <2>1. PICK o \in Order : o = b.incoming
      BY <1>0, <1>2 DEF BookTyped
    <2>2. PICK q : q = IF o.price \in DOMAIN b.orders[o.side] THEN b.orders[o.side][o.price] ELSE <<>>
      OBVIOUS
    <2>3. /\ d.orders = [b.orders EXCEPT ![o.side] = Put(b.orders[o.side], o.price, Append(q, n))]
          /\ d.incoming = NoOrder
      BY <1>2, <2>1, <2>2, RestOrders
    <2>4. /\ DOMAIN d.heap = DOMAIN b.heap \cup {n}
      BY <1>2, <2>1, RestHeap
    <2>5. o.side \in Side /\ b.orders = [s \in Side |-> b.orders[s]] /\ \A s \in Side : IsMap(b.orders[s], Price, Seq(Node))
      BY <2>1 DEF Good, Struct, ListsTyped, Order
    <2>6. q \in Seq(Node)
      BY <2>2, <2>5 DEF IsMap
    <2>7. \A i \in DOMAIN q : q[i] \in DOMAIN b.heap
      BY <1>0, <2>2, <2>5 DEF Listed
    <2>8. \A i \in DOMAIN Append(q, n) : Append(q, n)[i] \in DOMAIN d.heap
      <3>1. PICK S : S = Node \cup {n}
        OBVIOUS
      <3>2. q \in Seq(S) /\ n \in S /\ Len(q) \in Nat /\ DOMAIN q = 1..Len(q)
        BY <2>6, <3>1
      <3>3. /\ DOMAIN Append(q, n) = 1..(Len(q) + 1) /\ Append(q, n)[Len(q) + 1] = n
            /\ \A i \in 1..Len(q) : Append(q, n)[i] = q[i]
        BY <3>2
      <3> QED BY <2>4, <2>7, <3>2, <3>3
    <2>9. PICK a : a = Append(q, n)
      OBVIOUS
    <2>10. PICK L : L = Put(b.orders[o.side], o.price, a)
      OBVIOUS
    <2>11. /\ DOMAIN L = DOMAIN b.orders[o.side] \cup {o.price}
           /\ \A p \in DOMAIN L : L[p] = IF p = o.price THEN a ELSE b.orders[o.side][p]
      BY <2>10 DEF Put
    <2>12. \A s \in Side : d.orders[s] = IF s = o.side THEN L ELSE b.orders[s]
      BY <2>3, <2>5, <2>9, <2>10
    <2>13. \A p \in DOMAIN L : \A i \in DOMAIN L[p] : L[p][i] \in DOMAIN d.heap
      BY <1>0, <2>4, <2>5, <2>8, <2>9, <2>11 DEF Listed
    <2>14. ASSUME NEW s \in Side, NEW p \in DOMAIN d.orders[s], NEW i \in DOMAIN d.orders[s][p]
           PROVE  d.orders[s][p][i] \in DOMAIN d.heap
      <3>1. CASE s = o.side
        BY <2>12, <2>13, <2>14, <3>1
      <3>2. CASE s # o.side
        <4>1. d.orders[s] = b.orders[s]
          BY <2>12, <3>2
        <4> QED BY <1>0, <2>4, <2>14, <4>1 DEF Listed
      <3> QED BY <3>1, <3>2
    <2> QED BY <2>14 DEF Listed
  <1>3. CASE b.incoming = NoOrder
    BY <1>1, <1>3 DEF Finish
  <1>4. CASE b.incoming # NoOrder /\ b.incoming.remaining_quantity = 0
    <2>1. d = [b EXCEPT !.incoming = NoOrder]
      BY <1>4 DEF Finish
    <2> QED BY <1>0, <1>1, <2>1 DEF BookTyped
  <1>5. CASE b.incoming # NoOrder /\ b.incoming.remaining_quantity # 0 /\ b.incoming.type = "Limit"
    BY <1>2, <1>5 DEF Finish
  <1>6. CASE b.incoming # NoOrder /\ b.incoming.remaining_quantity # 0 /\ b.incoming.type # "Limit"
    <2>1. d = Expire(b)
      BY <1>6 DEF Finish
    <2> QED BY <1>0, <1>1, <2>1 DEF BookTyped, Expire
  <1> QED BY <1>3, <1>4, <1>5, <1>6

\* Taking the clients off does not change the content.
LEMMA StripContent ==
  ASSUME NEW b, Holding(b), Listed(b)
  PROVE  Content(Strip(b)) = Content(b)
  <1>1. PICK c : c = Strip(b)
    OBVIOUS
  <1>2. /\ c.orders = b.orders /\ c.index = b.index /\ DOMAIN c.heap = DOMAIN b.heap
        /\ \A n \in DOMAIN b.heap : c.heap[n] = Bare(b.heap[n])
        /\ c.incoming = IF b.incoming = NoOrder THEN NoOrder ELSE Bare(b.incoming)
    BY <1>1 DEF Strip
  <1>3. /\ \A n \in DOMAIN b.heap : b.heap[n] \in Order
        /\ b.incoming \in Order \cup {NoOrder}
    BY DEF Holding
  <1>4. /\ \A n \in DOMAIN b.heap : c.heap[n] \in Order /\ Alike(b.heap[n], c.heap[n])
        /\ c.incoming \in Order \cup {NoOrder} /\ (b.incoming = NoOrder <=> c.incoming = NoOrder)
        /\ b.incoming # NoOrder => Alike(b.incoming, c.incoming)
    BY <1>2, <1>3, BareOrder
  <1>5. Same(b, c) /\ Holding(c)
    BY <1>2, <1>4 DEF Same, Holding
  <1>6. Content(b) = Content(c)
    BY <1>5, SameContent DEF Listed
  <1> QED BY <1>1, <1>6

-----------------------------------------------------------------------------
(* A call that is read back from the log. *)

\* What replay reads from an entry.
Read(e) == IF e.type = "Submit" THEN [e EXCEPT !.order = from_net(@)] ELSE e

\* It is the request that was logged, but for the client.
LEMMA ReadBack ==
  ASSUME NEW r \in Command, NEW e, e = RequestEntry(r), NEW q, q = Read(e)
  PROVE  q \in Command /\ SameRequest(r, q) /\ q.symbol = e.symbol /\ e.symbol = r.symbol /\ e.type = r.type
  <1>1. q \in Command /\ q.type = e.type /\ q.symbol = e.symbol /\ q.order_id = e.order_id
    BY ReplayedCommand DEF Read
  <1>2. e.type = r.type /\ e.symbol = r.symbol /\ e.order_id = r.order_id
    BY EntryFields
  <1>3. CASE r.type = "Submit"
    <2>1. e = [type |-> "Submit", symbol |-> r.symbol, order_id |-> r.order_id, order |-> to_net(r.order)]
      BY <1>3, EntryFields
    <2>2. PICK o \in Order : o = r.order
      BY <1>3, CommandFields
    <2>3. PICK n : n = to_net(o)
      OBVIOUS
    <2>4. /\ n.order_id = o.order_id /\ n.symbol = o.symbol /\ n.side = o.side /\ n.type = o.type
          /\ n.price = o.price /\ n.quantity = o.quantity /\ n.timestamp = o.timestamp
      BY <2>3 DEF to_net, Restrict, Order
    <2>5. q = [e EXCEPT !.order = from_net(n)]
      BY <1>2, <1>3, <2>1, <2>2, <2>3 DEF Read
    <2>6. q.order = from_net(n)
      BY <2>1, <2>5
    <2>7. o.remaining_quantity = o.quantity
      BY <1>3, <2>2, CommandFields
    <2>8. Alike(o, from_net(n))
      BY <2>4, <2>7 DEF Alike, from_net
    <2> QED BY <1>1, <1>2, <1>3, <2>2, <2>6, <2>8 DEF SameRequest
  <1>4. CASE r.type # "Submit"
    <2>1. e = r
      BY <1>4, EntryFields
    <2> QED BY <1>1, <1>2, <1>4, <2>1 DEF SameRequest, Read
  <1> QED BY <1>3, <1>4

\* A book is the same as itself.
LEMMA SameSelf ==
  ASSUME NEW b
  PROVE  Same(b, b)
  BY DEF Same, Alike

\* A call on a book and the same call on the book without clients.
LEMMA OutcomeStrip ==
  ASSUME NEW b, Good(b), NEW r \in Command, NEW q \in Command, SameRequest(r, q)
  PROVE  /\ Strip(Outcome(Strip(b), q)) = Strip(Outcome(b, r))
         /\ Content(Strip(Outcome(b, r))) = Content(Outcome(b, r))
  <1>1. PICK c : c = Strip(b)
    OBVIOUS
  <1>2. Good(c) /\ Same(b, c)
    BY <1>1, StripGood
  <1>3. PICK d, e : d = Begin(b, r) /\ e = Begin(c, q)
    OBVIOUS
  <1>4. Good(d) /\ Good(e)
    BY <1>2, <1>3, BeginKept
  <1>5. Same(d, e)
    BY <1>2, <1>3, SameBegin
  <1>6. Strip(Completed(d)) = Strip(Completed(e)) /\ Holding(Completed(d))
    BY <1>4, <1>5, SameCompleted
  <1>7. Completed(d) = Finish(LoopEnd(d)) /\ Good(LoopEnd(d))
    BY <1>4, CompletedLast
  <1>8. Listed(Completed(d))
    BY <1>7, FinishListed
  <1>9. Content(Strip(Completed(d))) = Content(Completed(d))
    BY <1>6, <1>8, StripContent
  <1> QED BY <1>1, <1>3, <1>6, <1>9 DEF Outcome

\* An iteration with any trade number leads to the same end.
LEMMA MatchTowards ==
  ASSUME NEW b, Good(b), Matching(b), NEW i \in Nat
  PROVE  Strip(Completed(MatchOnce(b, i))) = Strip(Completed(b))
  <1>1. PICK d, e : d = MatchOnce(b, i) /\ e = MatchOnce(b, 0)
    OBVIOUS
  <1>2. Same(d, e) /\ Good(d) /\ Good(e)
    BY <1>1, SameSelf, SameMatch
  <1>3. Strip(Completed(d)) = Strip(Completed(e))
    BY <1>2, SameCompleted
  <1>4. Completed(b) = Completed(e)
    BY <1>1, CompletedStep
  <1> QED BY <1>1, <1>3, <1>4

\* Handing the result over does not change the book.
LEMMA StripCleared ==
  ASSUME NEW d, BookTyped(d)
  PROVE  Strip(Cleared(d)) = Strip(d)
  <1>1. PICK c : c = Cleared(d)
    OBVIOUS
  <1>2. c.orders = d.orders /\ c.heap = d.heap /\ c.index = d.index /\ c.incoming = d.incoming
    BY <1>1 DEF BookTyped, Cleared
  <1> QED BY <1>1, <1>2 DEF Strip

\* There are no clients in the empty book.
LEMMA StripEmpty == Strip(EmptyBook) = EmptyBook
  <1>1. EmptyBook.heap = EmptyMap /\ DOMAIN EmptyMap = {}
    BY DEF EmptyBook, EmptyMap
  <1>2. [n \in DOMAIN EmptyBook.heap |-> Bare(EmptyBook.heap[n])] = EmptyMap
    BY <1>1 DEF EmptyMap
  <1> QED BY <1>2 DEF Strip, EmptyBook
-----------------------------------------------------------------------------
(* The history of a book. *)

\* The entry e is a call on the book of s; what it makes of the book x.
CallOn(e, s) == e.type \in {"Submit", "Cancel", "Modify"} /\ e.symbol = s
Replayed(x, e, s) == IF CallOn(e, s) THEN Strip(Outcome(x, Read(e))) ELSE x

\* B[k] is what replaying the first k entries of l makes of the book of s.
Chain(B, l, s) == B[0] = EmptyBook /\ \A k \in 1..Len(l) : B[k] = Replayed(B[k - 1], l[k], s)

\* The history h noted just that, up to and including the first cut entry.
Noted(B, l, h, s) == \A k \in 0..Len(l) : Clean(l, k - 1) => h[k + 1][s] = Content(B[k])

PastTyped(h, l) ==
    /\ \E S : h \in Seq(S)
    /\ Len(h) = Len(l) + 1
    /\ \A k \in 1..Len(h) : DOMAIN h[k] = Symbol

\* What a call leaves when it is at label p.
Due(b, p, r) == IF p = "call" THEN Outcome(b, r) ELSE IF p = "match" THEN Completed(b) ELSE b

\* The book of s is x, or the call in progress is going to make it x.
Agrees(x, s) ==
    /\ (\A t \in Thread : ~Holds(t, s)) => x = Strip(BookOf(s))
    /\ \A t \in Thread : Holds(t, s) => x = Strip(Due(books[s], pc[t], task[t]))

\* Who runs when.
Phases ==
    /\ phase \in {"up", "start", "replay", "recovered"}
    /\ phase # "replay" => pc[Main] = "idle"
    /\ phase = "replay" => pc[Main] \in {"idle", "match"} /\ next <= Len(log) + 1
    /\ phase # "up" => \A w \in Worker : pc[w] = "idle"
    /\ phase = "start" => DOMAIN books = {}

\* The lock_guard.
Exclusive == \A t, u \in Thread : \A s : Holds(t, s) /\ Holds(u, s) => t = u

\* How many entries the books have seen.
Position == IF phase = "replay" THEN next - 1 ELSE Len(log)

Serial(s) ==
    \E B : /\ Chain(B, log, s) /\ Noted(B, log, past, s)
           /\ phase # "start" /\ Clean(log, Len(log) - 1) => Agrees(B[Position], s)

SerialInv == Phases /\ Exclusive /\ PastTyped(past, log) /\ \A s \in Symbol : Serial(s)

\* One more entry and one more note.
LEMMA Extended ==
  ASSUME NEW l \in Seq(Entry), NEW e \in Entry, NEW h, NEW y, PastTyped(h, l), DOMAIN y = Symbol,
         NEW s \in Symbol, NEW B, Chain(B, l, s), Noted(B, l, h, s),
         Clean(l, Len(l)) => y[s] = Content(Replayed(B[Len(l)], e, s))
  PROVE  \E C : /\ Chain(C, Append(l, e), s) /\ Noted(C, Append(l, e), Append(h, y), s)
                /\ C[Len(l) + 1] = Replayed(B[Len(l)], e, s)
  <1>01. PICK n \in Nat : n = Len(l)
    OBVIOUS
  <1>02. PICK m, g, x : m = Append(l, e) /\ g = Append(h, y) /\ x = Replayed(B[n], e, s)
    OBVIOUS
  <1>03. Clean(l, n) => y[s] = Content(x)
    BY <1>01, <1>02
  <1>1. Appended(l, n, e, m)
    BY <1>01, <1>02, AppendEntry
  <1>2. /\ m \in Seq(Entry) /\ Len(m) = n + 1 /\ m[n + 1] = e /\ \A i \in 1..n : m[i] = l[i]
        /\ \A k \in 0..n : Clean(m, k) => Clean(l, k)
    BY <1>1 DEF Appended
  <1>3. PICK S : h \in Seq(S)
    BY DEF PastTyped
  <1>4. Len(h) = n + 1
    BY <1>01 DEF PastTyped
  <1>5. /\ \A k \in 1..(n + 1) : g[k] = h[k]
        /\ g[n + 2] = y
    <2>1. PICK T : T = S \cup {y}
      OBVIOUS
    <2>2. h \in Seq(T) /\ y \in T
      BY <1>3, <2>1
    <2> QED BY <1>02, <1>4, <2>2
  <1> DEFINE C == [k \in 0..(n + 1) |-> IF k <= n THEN B[k] ELSE x]
  <1>6. (\A k \in 0..n : C[k] = B[k]) /\ C[n + 1] = x
    OBVIOUS
  <1> HIDE DEF C
  <1>7. Chain(C, m, s)
    <2>1. C[0] = EmptyBook
      BY <1>6 DEF Chain
    <2>2. ASSUME NEW k \in 1..(n + 1) PROVE C[k] = Replayed(C[k - 1], m[k], s)
      <3>1. CASE k <= n
        <4>1. k \in 0..n /\ k - 1 \in 0..n /\ k \in 1..n
          BY <3>1
        <4>2. B[k] = Replayed(B[k - 1], l[k], s)
          BY <1>01, <4>1 DEF Chain
        <4> QED BY <1>2, <1>6, <4>1, <4>2
      <3>2. CASE ~(k <= n)
        <4>1. k = n + 1 /\ k - 1 = n /\ n \in 0..n
          BY <3>2
        <4>2. C[k - 1] = B[n] /\ C[k] = x /\ m[k] = e
          BY <1>2, <1>6, <4>1
        <4> QED BY <1>02, <4>2
      <3> QED BY <3>1, <3>2
    <2> QED BY <1>2, <2>1, <2>2 DEF Chain
  <1>8. Noted(C, m, g, s)
    <2>1. ASSUME NEW k \in 0..(n + 1), Clean(m, k - 1) PROVE g[k + 1][s] = Content(C[k])
      <3>1. CASE k <= n
        <4>1. k \in 0..n /\ k + 1 \in 1..(n + 1)
          BY <3>1
        <4>2. Clean(l, k - 1)
          BY <1>2, <2>1, <4>1 DEF Clean
        <4>3. h[k + 1][s] = Content(B[k])
          BY <1>01, <4>1, <4>2 DEF Noted
        <4> QED BY <1>5, <1>6, <4>1, <4>3
      <3>2. CASE ~(k <= n)
        <4>1. k = n + 1 /\ k - 1 = n /\ k + 1 = n + 2
          BY <3>2
        <4>2. Clean(l, n)
          BY <1>2, <2>1, <4>1
        <4> QED BY <1>03, <1>5, <1>6, <4>1, <4>2
      <3> QED BY <3>1, <3>2
    <2> QED BY <1>2, <2>1 DEF Noted
  <1> QED BY <1>01, <1>02, <1>6, <1>7, <1>8

\* One more note keeps the history in shape.
LEMMA ExtendedTyped ==
  ASSUME NEW l \in Seq(Entry), NEW e \in Entry, NEW h, NEW y, PastTyped(h, l), DOMAIN y = Symbol,
         NEW m, m = Append(l, e), NEW g, g = Append(h, y)
  PROVE  PastTyped(g, m)
  <1>1. PICK S : h \in Seq(S)
    BY DEF PastTyped
  <1>2. PICK T : T = S \cup {y}
    OBVIOUS
  <1>3. h \in Seq(T) /\ y \in T
    BY <1>1, <1>2
  <1>4. g \in Seq(T) /\ Len(g) = Len(h) + 1 /\ g[Len(h) + 1] = y /\ \A k \in 1..Len(h) : g[k] = h[k]
    BY <1>3
  <1>5. Len(m) = Len(l) + 1 /\ Len(l) \in Nat
    OBVIOUS
  <1>6. Len(h) = Len(l) + 1 /\ \A k \in 1..Len(h) : DOMAIN h[k] = Symbol
    BY DEF PastTyped
  <1>7. \A k \in 1..Len(g) : DOMAIN g[k] = Symbol
    BY <1>4, <1>5, <1>6
  <1> QED BY <1>4, <1>5, <1>6, <1>7 DEF PastTyped

-----------------------------------------------------------------------------
(* The steps, and what they are going to make of the books. *)

\* The log and its notes stay: the books have to agree with the same history.
LEMMA SameLog ==
  ASSUME SerialInv, UNCHANGED <<log, past>>, Phases', Exclusive', phase' # "start",
         \A s \in Symbol : \A B : /\ Chain(B, log, s) /\ Clean(log, Len(log) - 1)
                                  /\ (phase # "start" => Agrees(B[Position], s))
                                  => Agrees(B[Position], s)'
  PROVE  SerialInv'
  <1>1. ASSUME NEW s \in Symbol PROVE Serial(s)'
    <2>1. PICK B : /\ Chain(B, log, s) /\ Noted(B, log, past, s)
                   /\ phase # "start" /\ Clean(log, Len(log) - 1) => Agrees(B[Position], s)
      BY DEF SerialInv, Serial
    <2>2. Clean(log, Len(log) - 1) => Agrees(B[Position], s)'
      BY <2>1
    <2> QED BY <2>1, <2>2 DEF Serial
  <1>2. PastTyped(past', log')
    BY DEF SerialInv
  <1> QED BY <1>1, <1>2 DEF SerialInv

\* The steps of thread t do not touch the book of s.
LEMMA Elsewhere ==
  ASSUME RecInv, NEW s, NEW x, NEW t \in Thread, ~Holds(t, s), ~Holds(t, s)', Agrees(x, s),
         \A u \in Thread \ {t} : pc'[u] = pc[u] /\ task'[u] = task[u],
         BookOf(s)' = BookOf(s), s \in DOMAIN books => books'[s] = books[s]
  PROVE  Agrees(x, s)'
  <1>1. \A u \in Thread : Holds(u, s)' <=> Holds(u, s)
    BY DEF Holds
  <1>2. ASSUME NEW u \in Thread, Holds(u, s) PROVE x = Strip(Due(books'[s], pc'[u], task'[u]))
    <2>1. u # t /\ pc'[u] = pc[u] /\ task'[u] = task[u]
      BY <1>2
    <2>2. s \in DOMAIN books
      BY <1>2 DEF Holds, RecInv, ThreadsTyped, Found
    <2>3. x = Strip(Due(books[s], pc[u], task[u]))
      BY <1>2 DEF Agrees
    <2> QED BY <2>1, <2>2, <2>3
  <1>3. (\A u \in Thread : ~Holds(u, s)) => x = Strip(BookOf(s)')
    BY DEF Agrees
  <1> QED BY <1>1, <1>2, <1>3 DEF Agrees

\* Only t is in a call on the book of s.
LEMMA Here ==
  ASSUME NEW s, NEW x, NEW t \in Thread, \A u \in Thread \ {t} : ~Holds(u, s)',
         Holds(t, s)' => x = Strip(Due(books[s], pc[t], task[t]))',
         ~Holds(t, s)' => x = Strip(BookOf(s))'
  PROVE  Agrees(x, s)'
  BY DEF Agrees

\* One thread moves.
Moves(t, l) ==
    /\ pc' = [pc EXCEPT ![t] = l]
    /\ \A u \in Thread \ {t} : task'[u] = task[u]

\* The others stay where they are.
LEMMA MovesTo ==
  ASSUME RecInv, NEW t \in Thread, NEW l, Moves(t, l)
  PROVE  pc'[t] = l /\ \A u \in Thread \ {t} : pc'[u] = pc[u] /\ task'[u] = task[u]
  BY DEF RecInv, ThreadsTyped, Moves

\* It takes no lock, or the one it has.
LEMMA StillExclusive ==
  ASSUME RecInv, Exclusive, NEW t \in Thread, NEW l, Moves(t, l),
         \A s : Holds(t, s)' => \A u \in Thread \ {t} : ~Holds(u, s)
  PROVE  Exclusive'
  <1>1. \A u \in Thread \ {t} : pc'[u] = pc[u] /\ task'[u] = task[u]
    BY MovesTo
  <1>2. \A u \in Thread \ {t} : \A s : Holds(u, s)' <=> Holds(u, s)
    BY <1>1 DEF Holds
  <1> QED BY <1>2 DEF Exclusive

\* A worker moves while the program is up.
LEMMA UpPhases ==
  ASSUME RecInv, Phases, phase = "up", phase' = "up", NEW w \in Worker, NEW l, Moves(w, l)
  PROVE  Phases'
  <1>1. Main # w /\ Main \in Thread /\ w \in Thread
    BY ThreadAssumption DEF Thread
  <1>2. pc'[Main] = pc[Main]
    BY <1>1, MovesTo
  <1> QED BY <1>2 DEF Phases

\* A worker that is in no call on a book, before and after.
LEMMA OutsideStep ==
  ASSUME RecInv, SerialInv, UNCHANGED <<log, past>>, phase = "up", phase' = "up", NEW w \in Worker, NEW l, Moves(w, l),
         pc[w] \notin {"log", "call", "match"}, l \notin {"log", "call", "match"},
         \A s : BookOf(s)' = BookOf(s) /\ (s \in DOMAIN books => books'[s] = books[s])
  PROVE  SerialInv'
  <1>0. w \in Thread
    BY DEF Thread
  <1>1. pc'[w] = l /\ \A u \in Thread \ {w} : pc'[u] = pc[u] /\ task'[u] = task[u]
    BY <1>0, MovesTo
  <1>2. \A s : ~Holds(w, s) /\ ~Holds(w, s)'
    BY <1>1 DEF Holds
  <1>3. Phases' /\ Exclusive'
    BY <1>0, <1>2, UpPhases, StillExclusive DEF SerialInv
  <1>4. ASSUME NEW s \in Symbol, NEW x, Agrees(x, s) PROVE Agrees(x, s)'
    BY <1>0, <1>1, <1>2, <1>4, Elsewhere
  <1>5. Position' = Position
    BY DEF Position
  <1>6. ASSUME NEW s \in Symbol, NEW B, phase # "start" => Agrees(B[Position], s) PROVE Agrees(B[Position], s)'
    <2>1. PICK x : x = B[Position]
      OBVIOUS
    <2>2. Agrees(x, s)'
      BY <1>4, <1>6, <2>1
    <2>3. x = B[Position']
      BY <1>5, <2>1
    <2> QED BY <2>2, <2>3 DEF Agrees
  <1> QED BY <1>3, <1>6, SameLog

\* A request is taken from the queue.
LEMMA SerialDequeue ==
  ASSUME RecInv, SerialInv, phase = "up", phase' = "up", NEW w \in Worker, Dequeue(w)
  PROVE  SerialInv'
  <1>1. Moves(w, "get") /\ pc[w] = "idle" /\ UNCHANGED <<log, past, books>>
    BY DEF Dequeue, Moves, Goto, bookVars, logVars, RecInv, ThreadsTyped
  <1>2. \A s : BookOf(s)' = BookOf(s) /\ (s \in DOMAIN books => books'[s] = books[s])
    BY <1>1 DEF BookOf
  <1> QED BY <1>1, <1>2, OutsideStep

\* The book is found or made: an empty one is what there was before.
LEMMA SerialGet ==
  ASSUME RecInv, SerialInv, phase = "up", phase' = "up", NEW w \in Worker, get_order_book(w)
  PROVE  SerialInv'
  <1>1. Moves(w, "lock") /\ pc[w] = "get" /\ UNCHANGED <<log, past>>
    BY DEF get_order_book, Moves, Goto, logVars
  <1>2. ASSUME NEW s PROVE BookOf(s)' = BookOf(s) /\ (s \in DOMAIN books => books'[s] = books[s])
    <2>1. PICK a, b : a = task[w].symbol /\ b = BookOf(a)
      OBVIOUS
    <2>2. Updated(a, b)
      BY <2>1, PutUpdated DEF get_order_book
    <2>3. DOMAIN books' = DOMAIN books \cup {a} /\ books'[a] = b /\ \A y \in DOMAIN books \ {a} : books'[y] = books[y]
      BY <2>2 DEF Updated
    <2>4. CASE s = a
      <3>1. BookOf(s)' = b /\ BookOf(s) = b
        BY <2>1, <2>3, <2>4 DEF BookOf
      <3>2. s \in DOMAIN books => b = books[s]
        BY <2>1, <2>4 DEF BookOf
      <3> QED BY <2>3, <2>4, <3>1, <3>2
    <2>5. CASE s # a
      BY <2>3, <2>5 DEF BookOf
    <2> QED BY <2>4, <2>5
  <1> QED BY <1>1, <1>2, OutsideStep

\* A report is published, outside the mutex.
LEMMA SerialPublish ==
  ASSUME RecInv, SerialInv, phase = "up", phase' = "up", NEW w \in Worker, Publish(w)
  PROVE  SerialInv'
  <1>1. PICK l : Moves(w, l) /\ l \in {"fills", "publish", "idle"} /\ pc[w] = "publish" /\ UNCHANGED <<log, past, books>>
    BY DEF Publish, Moves, Goto, SetResult, After, bookVars, logVars, RecInv, ThreadsTyped
  <1>2. \A s : BookOf(s)' = BookOf(s) /\ (s \in DOMAIN books => books'[s] = books[s])
    BY <1>1 DEF BookOf
  <1> QED BY <1>1, <1>2, OutsideStep

\* The call has not begun when the mutex is taken.
LEMMA SerialLock ==
  ASSUME RecInv, SerialInv, phase = "up", phase' = "up", NEW w \in Worker, Lock(w)
  PROVE  SerialInv'
  <1>0. w \in Thread
    BY DEF Thread
  <1>1. /\ Moves(w, "log") /\ pc[w] = "lock" /\ UNCHANGED <<log, past, books, task>>
        /\ \A t \in Thread : ~Holds(t, task[w].symbol)
    BY DEF Lock, Moves, Goto, bookVars, logVars
  <1>2. pc'[w] = "log" /\ \A u \in Thread \ {w} : pc'[u] = pc[u] /\ task'[u] = task[u]
    BY <1>0, <1>1, MovesTo
  <1>3. PICK a : a = task[w].symbol /\ a \in DOMAIN books
    BY <1>0, <1>1 DEF RecInv, ThreadsTyped, Found
  <1>4. \A s : (Holds(w, s)' <=> s = a) /\ ~Holds(w, s)
    BY <1>1, <1>2, <1>3 DEF Holds
  <1>5. Phases' /\ Exclusive'
    <2>1. \A s : Holds(w, s)' => \A u \in Thread \ {w} : ~Holds(u, s)
      BY <1>1, <1>3, <1>4
    <2> QED BY <1>0, <1>1, <2>1, UpPhases, StillExclusive DEF SerialInv
  <1>6. Position' = Position
    BY <1>1 DEF Position
  <1>7. ASSUME NEW s \in Symbol, NEW x, Agrees(x, s) PROVE Agrees(x, s)'
    <2>1. CASE s = a
      <3>1. \A u \in Thread : ~Holds(u, s)
        BY <1>1, <1>3, <2>1
      <3>2. x = Strip(books[s])
        BY <1>3, <1>7, <2>1, <3>1 DEF Agrees, BookOf
      <3>3. \A u \in Thread \ {w} : ~Holds(u, s)'
        BY <1>2, <3>1 DEF Holds
      <3>4. x = Strip(Due(books'[s], pc'[w], task'[w]))
        BY <1>1, <1>2, <3>2 DEF Due
      <3> QED BY <1>0, <1>4, <2>1, <3>3, <3>4, Here
    <2>2. CASE s # a
      <3>1. BookOf(s)' = BookOf(s) /\ books' = books
        BY <1>1 DEF BookOf
      <3> QED BY <1>0, <1>2, <1>4, <1>7, <2>2, <3>1, Elsewhere
    <2> QED BY <2>1, <2>2
  <1>8. ASSUME NEW s \in Symbol, NEW B, phase # "start" => Agrees(B[Position], s) PROVE Agrees(B[Position], s)'
    <2>1. PICK x : x = B[Position]
      OBVIOUS
    <2>2. Agrees(x, s)'
      BY <1>7, <1>8, <2>1
    <2>3. x = B[Position']
      BY <1>6, <2>1
    <2> QED BY <2>2, <2>3 DEF Agrees
  <1> QED BY <1>1, <1>5, <1>8, SameLog

\* A step inside a call that does not change what the call is going to make of the book.
LEMMA InsideStep ==
  ASSUME RecInv, SerialInv, UNCHANGED <<log, past, next, phase>>, phase # "start", Phases',
         NEW t \in Thread, NEW l, Moves(t, l), NEW a, Holds(t, a), NEW c, Updated(a, c),
         \/ l = "match" /\ task'[t] = task[t] /\ Strip(Completed(c)) = Strip(Due(books[a], pc[t], task[t]))
         \/ l \in {"fills", "publish", "idle"} /\ Strip(c) = Strip(Due(books[a], pc[t], task[t]))
  PROVE  SerialInv'
  <1>1. pc'[t] = l /\ \A u \in Thread \ {t} : pc'[u] = pc[u] /\ task'[u] = task[u]
    BY MovesTo
  <1>2. \A s : Holds(t, s) <=> s = a
    BY DEF Holds
  <1>3. \A s : Holds(t, s)' => s = a
    BY <1>1 DEF Holds
  <1>4. \A u \in Thread \ {t} : ~Holds(u, a) /\ ~Holds(u, a)'
    <2>1. \A u \in Thread \ {t} : ~Holds(u, a)
      BY DEF SerialInv, Exclusive
    <2> QED BY <1>1, <2>1 DEF Holds
  <1>5. Exclusive'
    BY <1>3, <1>4, StillExclusive DEF SerialInv
  <1>6. /\ DOMAIN books' = DOMAIN books \cup {a} /\ books'[a] = c
        /\ \A y \in DOMAIN books \ {a} : books'[y] = books[y]
    BY DEF Updated
  <1>7. Position' = Position
    BY DEF Position
  <1>8. ASSUME NEW s \in Symbol, NEW x, Agrees(x, s) PROVE Agrees(x, s)'
    <2>1. CASE s = a
      <3>1. x = Strip(Due(books[a], pc[t], task[t]))
        BY <1>8, <2>1 DEF Agrees
      <3>2. Holds(t, s)' => x = Strip(Due(books'[s], pc'[t], task'[t]))
        <4>1. Holds(t, s)' => l = "match"
          BY <1>1 DEF Holds
        <4> QED BY <1>1, <1>6, <2>1, <3>1, <4>1 DEF Due
      <3>3. ~Holds(t, s)' => x = Strip(BookOf(s)')
        <4>1. BookOf(s)' = c
          BY <1>6, <2>1 DEF BookOf
        <4>2. ~Holds(t, s)' => l # "match"
          BY <1>1, <2>1 DEF Holds
        <4> QED BY <3>1, <4>1, <4>2
      <3> QED BY <1>4, <2>1, <3>2, <3>3, Here
    <2>2. CASE s # a
      <3>1. BookOf(s)' = BookOf(s) /\ (s \in DOMAIN books => books'[s] = books[s])
        BY <1>6, <2>2 DEF BookOf
      <3> QED BY <1>1, <1>2, <1>3, <1>8, <2>2, <3>1, Elsewhere
    <2> QED BY <2>1, <2>2
  <1>9. ASSUME NEW s \in Symbol, NEW B, phase # "start" => Agrees(B[Position], s) PROVE Agrees(B[Position], s)'
    <2>1. PICK x : x = B[Position]
      OBVIOUS
    <2>2. Agrees(x, s)'
      BY <1>8, <1>9, <2>1
    <2>3. x = B[Position']
      BY <1>7, <2>1
    <2> QED BY <2>2, <2>3 DEF Agrees
  <1> QED BY <1>5, <1>9, SameLog

\* The call begins as it was foreseen when it was logged.
LEMMA SerialCall ==
  ASSUME RecInv, SerialInv, phase = "up", UNCHANGED recoveryVars, NEW w \in Worker, Call(w)
  PROVE  SerialInv'
  <1>0. w \in Thread /\ phase' = "up" /\ UNCHANGED <<next, phase>>
    BY DEF Thread, recoveryVars
  <1>1. Moves(w, "match") /\ pc[w] = "call" /\ UNCHANGED <<log, past, task>>
    BY DEF Call, Moves, Goto, logVars
  <1>2. PICK a : a = task[w].symbol /\ a \in DOMAIN books
    BY <1>0, <1>1 DEF RecInv, ThreadsTyped, Found
  <1>3. Holds(w, a)
    BY <1>1, <1>2 DEF Holds
  <1>4. PICK c : c = Begin(books[a], task[w])
    OBVIOUS
  <1>5. Updated(a, c)
    <2>1. books' = [books EXCEPT ![a] = c]
      BY <1>2, <1>4 DEF Call
    <2> QED BY <1>2, <2>1, ExceptUpdated DEF RecInv
  <1>6. Strip(Completed(c)) = Strip(Due(books[a], pc[w], task[w]))
    BY <1>1, <1>4 DEF Due, Outcome
  <1>7. Phases'
    BY <1>0, <1>1, UpPhases DEF SerialInv
  <1> QED BY <1>0, <1>1, <1>3, <1>5, <1>6, <1>7, InsideStep

\* A thread at "match" while the phase stays.
LEMMA MatchPhases ==
  ASSUME RecInv, Phases, UNCHANGED <<phase, next, log>>, NEW t \in Thread, pc[t] = "match", NEW l, Moves(t, l),
         l \in {"match", "idle"} \/ t # Main,
         phase # "start", DOMAIN books # {}
  PROVE  Phases'
  <1>1. pc'[t] = l /\ \A u \in Thread \ {t} : pc'[u] = pc[u]
    BY MovesTo
  <1>2. CASE t = Main
    <2>1. \A w \in Worker : pc'[w] = pc[w]
      BY <1>1, <1>2, ThreadAssumption DEF Thread
    <2>2. phase = "replay"
      BY <1>2 DEF Phases
    <2> QED BY <1>1, <1>2, <2>1, <2>2 DEF Phases
  <1>3. CASE t # Main
    <2>1. t \in Worker /\ pc'[Main] = pc[Main]
      BY <1>1, <1>3 DEF Thread
    <2>2. phase = "up"
      BY <2>1 DEF Phases
    <2> QED BY <2>1, <2>2 DEF Phases
  <1> QED BY <1>2, <1>3

\* An iteration does not change where the loop leads.
LEMMA SerialMatch ==
  ASSUME RecInv, SerialInv, phase # "start", UNCHANGED recoveryVars, NEW t \in Thread, Match(t)
  PROVE  SerialInv'
  <1>0. UNCHANGED <<next, phase, log, past, pc, task>> /\ pc[t] = "match"
    BY DEF recoveryVars, Match, threadVars, logVars
  <1>1. Moves(t, "match")
    BY <1>0 DEF Moves, RecInv, ThreadsTyped
  <1>2. PICK a : a = task[t].symbol /\ a \in DOMAIN books
    BY <1>0 DEF RecInv, ThreadsTyped, Found
  <1>3. Holds(t, a)
    BY <1>0, <1>2 DEF Holds
  <1>4. PICK b : b = books[a]
    OBVIOUS
  <1>5. Good(b) /\ Matching(b) /\ counter \in Nat
    BY <1>2, <1>4 DEF Match, RecInv, BooksGood, Numbered
  <1>6. PICK c : c = MatchOnce(b, counter)
    OBVIOUS
  <1>7. Updated(a, c)
    <2>1. books' = [books EXCEPT ![a] = c]
      BY <1>2, <1>4, <1>6 DEF Match
    <2> QED BY <1>2, <2>1, ExceptUpdated DEF RecInv
  <1>8. Strip(Completed(c)) = Strip(Due(books[a], pc[t], task[t]))
    <2>1. Strip(Completed(c)) = Strip(Completed(b))
      BY <1>5, <1>6, MatchTowards
    <2> QED BY <1>0, <1>4, <2>1 DEF Due
  <1>9. Phases'
    BY <1>0, <1>1, <1>2, MatchPhases DEF SerialInv
  <1> QED BY <1>0, <1>1, <1>3, <1>7, <1>8, <1>9, InsideStep

\* The loop has come to its end: the book is what was foreseen.
LEMMA SerialLeave ==
  ASSUME RecInv, SerialInv, phase # "start", UNCHANGED recoveryVars, NEW t \in Thread, Leave(t)
  PROVE  SerialInv'
  <1>0. UNCHANGED <<next, phase, log, past>> /\ pc[t] = "match"
    BY DEF recoveryVars, Leave, logVars
  <1>2. PICK a : a = task[t].symbol /\ a \in DOMAIN books
    BY <1>0 DEF RecInv, ThreadsTyped, Found
  <1>3. Holds(t, a)
    BY <1>0, <1>2 DEF Holds
  <1>4. PICK b, d : b = books[a] /\ d = Finish(b)
    OBVIOUS
  <1>5. Good(b) /\ ~Matching(b) /\ Node \ DOMAIN b.heap # {}
    BY <1>2, <1>4 DEF Leave, RecInv, BooksGood
  <1>6. Good(d)
    BY <1>4, <1>5, FinishKept
  <1>7. PICK c : c = Cleared(d)
    OBVIOUS
  <1>8. Updated(a, c)
    <2>1. books' = [books EXCEPT ![a] = c]
      BY <1>2, <1>4, <1>7 DEF Leave, Cleared
    <2> QED BY <1>2, <2>1, ExceptUpdated DEF RecInv
  <1>9. PICK r : r = IF t = Main THEN NoResult ELSE [fills |-> d.fills, reports |-> d.reports]
    OBVIOUS
  <1>10. SetResult(t, r)
    BY <1>2, <1>4, <1>9 DEF Leave
  <1>11. PICK l : l = After(r)
    OBVIOUS
  <1>12. Moves(t, l) /\ l \in {"fills", "publish", "idle"}
    BY <1>10, <1>11 DEF SetResult, Moves, Goto, After, RecInv, ThreadsTyped
  <1>13. t = Main => l = "idle"
    BY <1>9, <1>11 DEF After, NoResult
  <1>14. Strip(c) = Strip(Due(books[a], pc[t], task[t]))
    <2>1. Completed(b) = d
      BY <1>4, <1>5, CompletedEnd
    <2>2. Strip(c) = Strip(d)
      BY <1>6, <1>7, StripCleared DEF Good
    <2> QED BY <1>0, <1>4, <2>1, <2>2 DEF Due
  <1>15. Phases'
    BY <1>0, <1>2, <1>12, <1>13, MatchPhases DEF SerialInv
  <1> QED BY <1>0, <1>3, <1>8, <1>12, <1>14, <1>15, InsideStep

\* The file is no matter here.
LEMMA SerialFlush ==
  ASSUME RecInv, SerialInv, phase = "up", UNCHANGED recoveryVars, Flush
  PROVE  SerialInv'
  <1>1. UNCHANGED <<log, past, books, pc, task, phase, next>>
    BY DEF Flush, recoveryVars, threadVars, bookVars
  <1>2. Phases' /\ Exclusive'
    BY <1>1 DEF SerialInv, Phases, Exclusive, Holds
  <1>3. ASSUME NEW s \in Symbol, NEW B, phase # "start" => Agrees(B[Position], s) PROVE Agrees(B[Position], s)'
    BY <1>1, <1>3 DEF Agrees, Position, Holds, BookOf
  <1>4. phase' # "start"
    BY <1>1
  <1> QED BY <1>1, <1>2, <1>3, <1>4, SameLog

\* A worker adds the entry e to the log and y to the history.
LEMMA EntryStep ==
  ASSUME RecInv, SerialInv, phase = "up", UNCHANGED <<phase, books>>, NEW w \in Worker, NEW l, Moves(w, l),
         NEW e \in Entry, log' = Append(log, e), NEW y, past' = Append(past, y), DOMAIN y = Symbol, Exclusive',
         \A s \in Symbol : \A x : Clean(log, Len(log)) /\ Agrees(x, s) /\ past[Len(log) + 1][s] = Content(x)
                                  => y[s] = Content(Replayed(x, e, s)) /\ Agrees(Replayed(x, e, s), s)'
  PROVE  SerialInv'
  <1>1. log \in Seq(Entry)
    BY DEF RecInv, LogTyped
  <1>2. PICK n \in Nat : n = Len(log)
    BY <1>1
  <1>3. PICK m, g : m = log' /\ g = past'
    OBVIOUS
  <1>4. PastTyped(past, log) /\ PastTyped(g, m)
    <2>1. PastTyped(past, log)
      BY DEF SerialInv
    <2> QED BY <1>1, <1>3, <2>1, ExtendedTyped
  <1>5. Appended(log, n, e, m)
    BY <1>1, <1>2, <1>3, AppendEntry
  <1>6. Len(m) = n + 1 /\ (Clean(m, n) => Clean(log, n)) /\ (Clean(log, n) => Clean(log, n - 1))
    BY <1>2, <1>5 DEF Appended, Clean
  <1>7. ASSUME NEW s \in Symbol PROVE Serial(s)'
    <2>1. PICK B : /\ Chain(B, log, s) /\ Noted(B, log, past, s)
                   /\ phase # "start" /\ Clean(log, Len(log) - 1) => Agrees(B[Position], s)
      BY DEF SerialInv, Serial
    <2>2. PICK x, z : x = B[n] /\ z = Replayed(x, e, s)
      OBVIOUS
    <2>3. Clean(log, n) => Agrees(x, s) /\ past[n + 1][s] = Content(x)
      <3>1. Position = n
        BY <1>2 DEF Position
      <3>2. Clean(log, n) => Agrees(x, s)
        BY <1>2, <1>6, <2>1, <2>2, <3>1
      <3>3. n \in 0..Len(log)
        BY <1>2
      <3>4. Clean(log, n - 1) => past[n + 1][s] = Content(B[n])
        BY <2>1, <3>3 DEF Noted
      <3> QED BY <1>6, <2>2, <3>2, <3>4
    <2>4. Clean(log, n) => y[s] = Content(z) /\ Agrees(z, s)'
      BY <1>2, <2>2, <2>3
    <2>5. PICK C : Chain(C, m, s) /\ Noted(C, m, g, s) /\ C[Len(m)] = z
      <3>1. Clean(log, Len(log)) => y[s] = Content(Replayed(B[Len(log)], e, s))
        BY <1>2, <2>2, <2>4
      <3>2. \E C : /\ Chain(C, Append(log, e), s) /\ Noted(C, Append(log, e), Append(past, y), s)
                   /\ C[Len(log) + 1] = Replayed(B[Len(log)], e, s)
        BY <1>1, <1>4, <2>1, <3>1, Extended
      <3> QED BY <1>2, <1>3, <1>6, <2>2, <3>2
    <2>6. Position' = n + 1
      BY <1>3, <1>6 DEF Position
    <2>7. Clean(m, Len(m) - 1) => Agrees(C[Position], s)'
      <3>1. Len(m) - 1 = n
        BY <1>2, <1>6
      <3>2. C[Position'] = z
        BY <1>6, <2>5, <2>6
      <3> QED BY <1>6, <2>4, <3>1, <3>2 DEF Agrees
    <2>8. Chain(C, log', s) /\ Noted(C, log', past', s) /\ (Clean(log', Len(log') - 1) => Agrees(C[Position], s)')
      BY <1>3, <2>5, <2>7
    <2> QED BY <2>8 DEF Serial
  <1>8. Phases'
    BY UpPhases DEF SerialInv
  <1> QED BY <1>3, <1>4, <1>7, <1>8 DEF SerialInv

\* The call is logged, and its outcome noted.
LEMMA SerialLogRequest ==
  ASSUME RecInv, SerialInv, phase = "up", UNCHANGED recoveryVars, NEW w \in Worker, LogRequest(w)
  PROVE  SerialInv'
  <1>0. w \in Thread /\ UNCHANGED <<phase, books, task>> /\ Moves(w, "call") /\ pc[w] = "log"
    BY DEF Thread, recoveryVars, LogRequest, Moves, Goto
  <1>1. PICK r \in Command : r = task[w]
    BY <1>0 DEF RecInv, ThreadsTyped, Started
  <1>2. PICK a : a = r.symbol /\ a \in DOMAIN books /\ a \in Symbol
    BY <1>0, <1>1, CommandFields DEF RecInv, ThreadsTyped, Found
  <1>3. PICK e : e = RequestEntry(r)
    OBVIOUS
  <1>4. e \in Entry /\ e.type = r.type /\ e.symbol = r.symbol
    BY <1>3, EntryFields
  <1>5. PICK b, v, y : b = books[a] /\ v = Content(Outcome(b, r)) /\ y = [past[Len(past)] EXCEPT ![a] = v]
    OBVIOUS
  <1>6. log' = Append(log, e) /\ past' = Append(past, y)
    BY <1>1, <1>2, <1>3, <1>5 DEF LogRequest, Foresee
  <1>7. /\ Len(past) = Len(log) + 1 /\ DOMAIN past[Len(past)] = Symbol
    <2>1. Len(log) \in Nat
      BY DEF RecInv, LogTyped
    <2> QED BY <2>1 DEF SerialInv, PastTyped
  <1>8. DOMAIN y = Symbol /\ \A s \in Symbol : y[s] = IF s = a THEN v ELSE past[Len(log) + 1][s]
    BY <1>5, <1>7
  <1>9. pc'[w] = "call" /\ \A u \in Thread \ {w} : pc'[u] = pc[u] /\ task'[u] = task[u]
    BY <1>0, MovesTo
  <1>10. \A s : (Holds(w, s)' <=> s = a) /\ (Holds(w, s) <=> s = a)
    BY <1>0, <1>1, <1>2, <1>9 DEF Holds
  <1>11. \A u \in Thread \ {w} : ~Holds(u, a) /\ ~Holds(u, a)'
    <2>1. \A u \in Thread \ {w} : ~Holds(u, a)
      BY <1>0, <1>10 DEF SerialInv, Exclusive
    <2> QED BY <1>9, <2>1 DEF Holds
  <1>12. Exclusive'
    BY <1>0, <1>10, <1>11, StillExclusive DEF SerialInv
  <1>13. ASSUME NEW s \in Symbol, NEW x, Agrees(x, s), past[Len(log) + 1][s] = Content(x)
         PROVE  y[s] = Content(Replayed(x, e, s)) /\ Agrees(Replayed(x, e, s), s)'
    <2>1. CASE s = a
      <3>1. x = Strip(b)
        BY <1>0, <1>5, <1>10, <1>13, <2>1 DEF Agrees, Due
      <3>2. PICK q : q = Read(e)
        OBVIOUS
      <3>3. q \in Command /\ SameRequest(r, q)
        BY <1>3, <3>2, ReadBack
      <3>4. Good(b)
        BY <1>2, <1>5 DEF RecInv, BooksGood
      <3>5. /\ Strip(Outcome(Strip(b), q)) = Strip(Outcome(b, r))
            /\ Content(Strip(Outcome(b, r))) = Content(Outcome(b, r))
        BY <3>3, <3>4, OutcomeStrip
      <3>6. CallOn(e, s)
        BY <1>2, <1>4, <2>1, CommandFields DEF CallOn
      <3>7. Replayed(x, e, s) = Strip(Outcome(b, r))
        BY <3>1, <3>2, <3>5, <3>6 DEF Replayed
      <3>8. y[s] = Content(Replayed(x, e, s))
        BY <1>5, <1>8, <2>1, <3>5, <3>7
      <3>9. PICK z : z = Replayed(x, e, s)
        OBVIOUS
      <3>10. z = Strip(Due(books'[s], pc'[w], task'[w]))
        BY <1>0, <1>1, <1>5, <1>9, <2>1, <3>7, <3>9 DEF Due
      <3>11. Agrees(z, s)'
        BY <1>0, <1>10, <1>11, <2>1, <3>10, Here
      <3> QED BY <3>8, <3>9, <3>11
    <2>2. CASE s # a
      <3>1. ~CallOn(e, s)
        BY <1>2, <1>4, <2>2 DEF CallOn
      <3>2. Replayed(x, e, s) = x
        BY <3>1 DEF Replayed
      <3>3. BookOf(s)' = BookOf(s) /\ books' = books
        BY <1>0 DEF BookOf
      <3>4. Agrees(x, s)'
        BY <1>0, <1>9, <1>10, <1>13, <2>2, <3>3, Elsewhere
      <3> QED BY <1>8, <1>13, <2>2, <3>2, <3>4
    <2> QED BY <2>1, <2>2
  <1> QED BY <1>0, <1>4, <1>6, <1>8, <1>12, <1>13, EntryStep

\* An entry for a fill does not change a book.
LEMMA SerialLogFill ==
  ASSUME RecInv, SerialInv, phase = "up", UNCHANGED recoveryVars, NEW w \in Worker, LogFill(w)
  PROVE  SerialInv'
  <1>0. w \in Thread /\ UNCHANGED <<phase, books>> /\ pc[w] = "fills"
    BY DEF Thread, recoveryVars, LogFill
  <1>1. PICK l : Moves(w, l) /\ l \in {"fills", "publish", "idle"}
    BY DEF LogFill, Moves, Goto, SetResult, After, RecInv, ThreadsTyped
  <1>2. PICK e, y : e = FillEntry(Head(result[w].fills)) /\ y = past[Len(past)]
    OBVIOUS
  <1>3. log' = Append(log, e) /\ past' = Append(past, y)
    BY <1>2 DEF LogFill
  <1>4. e \in Entry /\ e.type = "Fill"
    <2>1. result[w].fills \in Seq(Fill) /\ result[w].fills # <<>>
      BY <1>0 DEF RecInv, ThreadsTyped
    <2>2. Head(result[w].fills) \in Fill
      BY <2>1
    <2> QED BY <1>2, <2>2 DEF Entry, FillEntry
  <1>5. Len(past) = Len(log) + 1 /\ DOMAIN y = Symbol
    <2>1. Len(log) \in Nat
      BY DEF RecInv, LogTyped
    <2> QED BY <1>2, <2>1 DEF SerialInv, PastTyped
  <1>6. pc'[w] = l /\ \A u \in Thread \ {w} : pc'[u] = pc[u] /\ task'[u] = task[u]
    BY <1>0, <1>1, MovesTo
  <1>7. \A s : ~Holds(w, s) /\ ~Holds(w, s)'
    BY <1>0, <1>1, <1>6 DEF Holds
  <1>8. Exclusive'
    BY <1>0, <1>1, <1>7, StillExclusive DEF SerialInv
  <1>9. ASSUME NEW s \in Symbol, NEW x, Agrees(x, s), past[Len(log) + 1][s] = Content(x)
        PROVE  y[s] = Content(Replayed(x, e, s)) /\ Agrees(Replayed(x, e, s), s)'
    <2>1. Replayed(x, e, s) = x
      BY <1>4 DEF Replayed, CallOn
    <2>2. BookOf(s)' = BookOf(s) /\ books' = books
      BY <1>0 DEF BookOf
    <2>3. Agrees(x, s)'
      BY <1>0, <1>6, <1>7, <1>9, <2>2, Elsewhere
    <2> QED BY <1>2, <1>5, <1>9, <2>1, <2>3
  <1> QED BY <1>0, <1>1, <1>3, <1>4, <1>5, <1>8, <1>9, EntryStep

\* Any step of a worker.
LEMMA SerialWorkers ==
  ASSUME RecInv, SerialInv, phase = "up", UNCHANGED recoveryVars, NEW w \in Worker, WorkerStep(w)
  PROVE  SerialInv'
  <1>1. phase' = "up" /\ w \in Thread
    BY DEF recoveryVars, Thread
  <1> QED BY <1>1, SerialDequeue, SerialGet, SerialLock, SerialLogRequest, SerialCall, SerialMatch,
             SerialLeave, SerialLogFill, SerialPublish DEF WorkerStep

\* The log l and its history h are cut to m and g: d entries are left, and
\* perhaps a cut one.
CutTo(l, h, d, m, g) ==
    \/ m = SubSeq(l, 1, d) /\ g = SubSeq(h, 1, d + 1)
    \/ m = Append(SubSeq(l, 1, d), Torn) /\ g = Append(SubSeq(h, 1, d + 1), h[d + 1])

\* What is left of the history.
LEMMA CutHistory ==
  ASSUME NEW l \in Seq(Entry), NEW d \in Nat, d <= Len(l), NEW h, PastTyped(h, l), NEW m, NEW g,
         CutTo(l, h, d, m, g)
  PROVE  /\ PastTyped(g, m)
         /\ \A k \in 1..(d + 1) : g[k] = h[k]
         /\ Len(m) = d + 1 => g[d + 2] = h[d + 1]
  <1>1. PICK S : h \in Seq(S)
    BY DEF PastTyped
  <1>2. PICK n \in Nat : n = Len(l) /\ Len(h) = n + 1
    BY DEF PastTyped
  <1>3. PICK p, q : p = SubSeq(l, 1, d) /\ q = SubSeq(h, 1, d + 1)
    OBVIOUS
  <1>4. p \in Seq(Entry) /\ Len(p) = d
    BY <1>2, <1>3
  <1>5. q \in Seq(S) /\ Len(q) = d + 1 /\ \A k \in 1..(d + 1) : q[k] = h[k]
    BY <1>1, <1>2, <1>3
  <1>6. \A k \in 1..(d + 1) : DOMAIN h[k] = Symbol
    BY <1>2 DEF PastTyped
  <1>7. CASE m = p /\ g = q
    BY <1>4, <1>5, <1>6, <1>7 DEF PastTyped
  <1>8. CASE m = Append(p, Torn) /\ g = Append(q, h[d + 1])
    <2>1. Torn \in Entry
      BY DEF Entry
    <2>2. Len(m) = d + 1
      BY <1>4, <1>8, <2>1
    <2>3. PICK y \in S : y = h[d + 1]
      BY <1>1, <1>2
    <2>4. g \in Seq(S) /\ Len(g) = d + 2 /\ g[d + 2] = y /\ \A k \in 1..(d + 1) : g[k] = q[k]
      BY <1>5, <1>8, <2>3
    <2>5. \A k \in 1..(d + 2) : DOMAIN g[k] = Symbol
      <3>1. \A k \in 1..(d + 2) : k \in 1..(d + 1) \/ k = d + 2
        OBVIOUS
      <3>2. d + 1 \in 1..(d + 1)
        OBVIOUS
      <3> QED BY <1>5, <1>6, <2>3, <2>4, <3>1, <3>2
    <2>6. Len(g) = Len(m) + 1
      BY <2>2, <2>4
    <2>7. PastTyped(g, m)
      BY <2>4, <2>5, <2>6 DEF PastTyped
    <2> QED BY <1>5, <2>2, <2>3, <2>4, <2>7
  <1> QED BY <1>3, <1>7, <1>8 DEF CutTo

\* What is left of the log has the history it had.
LEMMA SerialCrash ==
  ASSUME RecInv, SerialInv, Crash
  PROVE  SerialInv'
  <1>1. log \in Seq(Entry) /\ durable \in Nat /\ durable <= Len(log) /\ PastTyped(past, log)
    BY DEF RecInv, LogTyped, SerialInv
  <1>2. PICK m, g : m = log' /\ g = past'
    OBVIOUS
  <1>3. \/ m = SubSeq(log, 1, durable) /\ g = SubSeq(past, 1, durable + 1)
        \/ m = Append(SubSeq(log, 1, durable), Torn) /\ g = Append(SubSeq(past, 1, durable + 1), past[durable + 1])
    BY <1>2 DEF Crash
  <1>4. PICK d \in Nat : d = durable
    BY <1>1
  <1>5. /\ m \in Seq(Entry) /\ (Len(m) = d \/ (Len(m) = d + 1 /\ m[d + 1] = Torn))
        /\ \A i \in 1..d : m[i] = log[i]
    BY <1>1, <1>3, <1>4, CutLog
  <1>6. /\ PastTyped(g, m) /\ \A k \in 1..(d + 1) : g[k] = past[k]
        /\ Len(m) = d + 1 => g[d + 2] = past[d + 1]
    <2>1. CutTo(log, past, d, m, g) /\ d <= Len(log)
      BY <1>1, <1>3, <1>4 DEF CutTo
    <2> QED BY <1>1, <2>1, CutHistory
  <1>7. /\ phase' = "start" /\ \A t \in Thread : pc'[t] = "idle" /\ DOMAIN books' = {}
    BY DEF Crash, EmptyMap
  <1>8. Phases' /\ Exclusive'
    <2>1. Main \in Thread /\ Worker \subseteq Thread
      BY DEF Thread
    <2> QED BY <1>7, <2>1 DEF Phases, Exclusive, Holds
  <1>9. ASSUME NEW s \in Symbol PROVE Serial(s)'
    <2>1. PICK B : Chain(B, log, s) /\ Noted(B, log, past, s)
      BY DEF SerialInv, Serial
    <2> DEFINE C == [k \in 0..(d + 1) |-> IF k <= d THEN B[k] ELSE B[d]]
    <2>2. (\A k \in 0..d : C[k] = B[k]) /\ C[d + 1] = B[d]
      OBVIOUS
    <2> HIDE DEF C
    <2>3. \A k \in 1..Len(m) : k \in 1..d \/ (k = d + 1 /\ Len(m) = d + 1 /\ m[k] = Torn)
      BY <1>5
    <2>4. Chain(C, m, s)
      <3>1. C[0] = EmptyBook
        BY <2>1, <2>2 DEF Chain
      <3>2. ASSUME NEW k \in 1..Len(m) PROVE C[k] = Replayed(C[k - 1], m[k], s)
        <4>1. CASE k \in 1..d
          <5>1. k \in 0..d /\ k - 1 \in 0..d /\ k \in 1..Len(log)
            BY <1>1, <1>4, <4>1
          <5>2. B[k] = Replayed(B[k - 1], log[k], s)
            BY <2>1, <5>1 DEF Chain
          <5> QED BY <1>5, <2>2, <4>1, <5>1, <5>2
        <4>2. CASE k = d + 1 /\ m[k] = Torn
          <5>1. k - 1 = d /\ d \in 0..d
            BY <4>2
          <5>2. ~CallOn(Torn, s)
            BY DEF CallOn, Torn
          <5>3. C[k - 1] = B[d] /\ C[k] = B[d]
            BY <2>2, <4>2, <5>1
          <5> QED BY <4>2, <5>2, <5>3 DEF Replayed
        <4> QED BY <2>3, <4>1, <4>2
      <3> QED BY <3>1, <3>2 DEF Chain
    <2>5. Noted(C, m, g, s)
      <3>1. ASSUME NEW k \in 0..d, Clean(m, k - 1) PROVE past[k + 1][s] = Content(B[k])
        <4>1. k \in 0..Len(log)
          BY <1>1, <1>4
        <4>2. Clean(log, k - 1)
          BY <1>5, <3>1 DEF Clean
        <4> QED BY <2>1, <4>1, <4>2 DEF Noted
      <3>2. ASSUME NEW k \in 0..Len(m), Clean(m, k - 1) PROVE g[k + 1][s] = Content(C[k])
        <4>1. CASE k \in 0..d
          <5>1. k + 1 \in 1..(d + 1)
            BY <4>1
          <5> QED BY <1>6, <2>2, <3>1, <3>2, <4>1, <5>1
        <4>2. CASE k = d + 1 /\ Len(m) = d + 1
          <5>1. Clean(m, d - 1) /\ d \in 0..d /\ k + 1 = d + 2
            BY <3>2, <4>2 DEF Clean
          <5>2. past[d + 1][s] = Content(B[d])
            BY <3>1, <5>1
          <5> QED BY <1>6, <2>2, <4>2, <5>1, <5>2
        <4>3. k \in 0..d \/ (k = d + 1 /\ Len(m) = d + 1)
          BY <1>5
        <4> QED BY <4>1, <4>2, <4>3
      <3> QED BY <3>2 DEF Noted
    <2> QED BY <1>2, <1>7, <2>4, <2>5 DEF Serial
  <1> QED BY <1>2, <1>6, <1>8, <1>9 DEF SerialInv

\* Outside "up", and in the replay between two calls, nobody holds a book.
LEMMA NobodyHolds ==
  ASSUME Phases, phase # "up", pc[Main] = "idle"
  PROVE  \A t \in Thread : \A s : ~Holds(t, s)
  BY DEF Phases, Thread, Holds

\* Replay begins with empty books and no entries.
LEMMA SerialStartReplay ==
  ASSUME RecInv, SerialInv, StartReplay
  PROVE  SerialInv'
  <1>1. /\ UNCHANGED <<pc, task, books, log, past>> /\ next' = 1 /\ phase = "start" /\ phase' = "replay"
    BY DEF StartReplay, threadVars, logVars
  <1>2. Len(log) \in Nat
    BY DEF RecInv, LogTyped
  <1>3. Phases' /\ Exclusive'
    <2>1. pc[Main] = "idle" /\ \A w \in Worker : pc[w] = "idle"
      BY <1>1 DEF SerialInv, Phases
    <2>2. next' <= Len(log') + 1
      BY <1>1, <1>2
    <2> QED BY <1>1, <2>1, <2>2 DEF SerialInv, Phases, Exclusive, Holds
  <1>4. \A t \in Thread : \A s : ~Holds(t, s)'
    <2>1. \A t \in Thread : \A s : ~Holds(t, s)
      BY <1>1, NobodyHolds DEF SerialInv, Phases
    <2> QED BY <1>1, <2>1 DEF Holds
  <1>5. ASSUME NEW s \in Symbol, NEW B, Chain(B, log, s) PROVE Agrees(B[Position], s)'
    <2>1. Position' = 0
      BY <1>1 DEF Position
    <2>2. B[0] = EmptyBook
      BY <1>5 DEF Chain
    <2>3. BookOf(s)' = EmptyBook
      BY <1>1 DEF BookOf, SerialInv, Phases
    <2> QED BY <1>4, <2>1, <2>2, <2>3, StripEmpty DEF Agrees
  <1> QED BY <1>1, <1>3, <1>5, SameLog

\* Replay calls the book of an entry.
LEMMA SerialReplayCall ==
  ASSUME RecInv, SerialInv, phase = "replay", pc[Main] = "idle", NEW r \in Command, NEW e, e = RequestEntry(r),
         ReplayCall(e), NEW s \in Symbol, NEW x, Agrees(x, s)
  PROVE  Agrees(Replayed(x, e, s), s)'
  <1>1. Main \in Thread
    BY DEF Thread
  <1>2. PICK q, a : q = Read(e) /\ a = e.symbol
    OBVIOUS
  <1>3. q \in Command /\ SameRequest(r, q) /\ q.symbol = e.symbol /\ e.symbol = r.symbol /\ e.type = r.type
    BY <1>2, ReadBack
  <1>4. PICK b, c : b = BookOf(a) /\ c = Begin(b, q)
    OBVIOUS
  <1>5. books' = Put(books, a, c) /\ task' = [task EXCEPT ![Main] = q] /\ Goto(Main, "match")
    BY <1>2, <1>4 DEF ReplayCall, Read
  <1>6. Updated(a, c)
    BY <1>5, PutUpdated
  <1>7. Moves(Main, "match") /\ task'[Main] = q
    BY <1>1, <1>5 DEF Moves, Goto, RecInv, ThreadsTyped
  <1>8. pc'[Main] = "match" /\ \A u \in Thread \ {Main} : pc'[u] = pc[u] /\ task'[u] = task[u]
    BY <1>1, <1>7, MovesTo
  <1>9. \A t \in Thread : \A y : ~Holds(t, y)
    BY NobodyHolds DEF SerialInv
  <1>10. (\A t \in Thread \ {Main} : \A y : ~Holds(t, y)') /\ \A y : Holds(Main, y)' <=> y = a
    BY <1>2, <1>3, <1>7, <1>8, <1>9 DEF Holds
  <1>11. x = Strip(BookOf(s))
    BY <1>9 DEF Agrees
  <1>12. /\ DOMAIN books' = DOMAIN books \cup {a} /\ books'[a] = c
         /\ \A y \in DOMAIN books \ {a} : books'[y] = books[y]
    BY <1>6 DEF Updated
  <1>13. PICK z : z = Replayed(x, e, s)
    OBVIOUS
  <1>14. CASE s = a
    <2>1. Good(b)
      BY <1>4, BookOfGood DEF RecInv
    <2>2. SameRequest(q, q)
      BY DEF SameRequest, Alike
    <2>3. Strip(Outcome(Strip(b), q)) = Strip(Outcome(b, q))
      BY <1>3, <2>1, <2>2, OutcomeStrip
    <2>4. CallOn(e, s)
      BY <1>2, <1>3, <1>14, CommandFields DEF CallOn
    <2>5. z = Strip(Outcome(Strip(b), q))
      BY <1>2, <1>4, <1>11, <1>13, <1>14, <2>4 DEF Replayed
    <2>6. z = Strip(Due(books'[s], pc'[Main], task'[Main]))
      BY <1>4, <1>8, <1>12, <1>14, <2>3, <2>5 DEF Due, Outcome
    <2>7. Agrees(z, s)'
      BY <1>1, <1>10, <1>14, <2>6, Here
    <2> QED BY <1>13, <2>7
  <1>15. CASE s # a
    <2>1. ~CallOn(e, s)
      BY <1>2, <1>15 DEF CallOn
    <2>2. z = x
      BY <1>13, <2>1 DEF Replayed
    <2>3. BookOf(s)' = BookOf(s) /\ (s \in DOMAIN books => books'[s] = books[s])
      BY <1>12, <1>15 DEF BookOf
    <2>4. Agrees(z, s)'
      BY <1>1, <1>8, <1>9, <1>10, <1>15, <2>2, <2>3, Elsewhere
    <2> QED BY <1>13, <2>4
  <1> QED BY <1>14, <1>15

\* Replay reads the next entry and does to the book what the call had done.
LEMMA SerialReplayRead ==
  ASSUME RecInv, SerialInv, ReplayRead
  PROVE  SerialInv'
  <1>1. /\ phase = "replay" /\ phase' = "replay" /\ pc[Main] = "idle" /\ next' = next + 1
        /\ UNCHANGED <<log, past>> /\ Readable(next)
    BY DEF ReplayRead, logVars
  <1>2. log \in Seq(Entry) /\ next \in Nat \ {0} /\ next <= Len(log)
    BY <1>1 DEF RecInv, LogTyped, Readable
  <1>3. PICK n \in Nat : n = Len(log)
    BY <1>2
  <1>4. next \in 1..n /\ Main \in Thread
    BY <1>2, <1>3 DEF Thread
  <1>5. \A t \in Thread : \A s : ~Holds(t, s)
    BY <1>1, NobodyHolds DEF SerialInv
  <1>6. UNCHANGED <<books, task, pc>> \/ \E e : ReplayCall(e)
    BY DEF ReplayRead
  <1>7. pc'[Main] \in {"idle", "match"} /\ \A w \in Worker : pc'[w] = "idle"
    <2>1. \A w \in Worker : pc[w] = "idle" /\ w # Main
      BY <1>1, ThreadAssumption DEF SerialInv, Phases
    <2>2. CASE UNCHANGED <<books, task, pc>>
      BY <1>1, <2>1, <2>2
    <2>3. CASE \E e : ReplayCall(e)
      <3>1. pc' = [pc EXCEPT ![Main] = "match"]
        BY <2>3 DEF ReplayCall, Goto
      <3> QED BY <1>4, <2>1, <3>1 DEF RecInv, ThreadsTyped, Thread
    <2> QED BY <1>6, <2>2, <2>3
  <1>8. Phases'
    <2>1. next' <= Len(log') + 1
      BY <1>1, <1>2
    <2> QED BY <1>1, <1>7, <2>1 DEF Phases
  <1>9. Exclusive'
    <2>1. \A t \in Thread : \A s : Holds(t, s)' => t = Main
      BY <1>7 DEF Thread, Holds
    <2> QED BY <2>1 DEF Exclusive
  <1>10. ASSUME NEW s \in Symbol, NEW B, Chain(B, log, s), Clean(log, Len(log) - 1), Agrees(B[Position], s)
         PROVE  Agrees(B[Position], s)'
    <2>1. ~Shifted(next)
      <3>1. Shifted(next) => next = n
        BY <1>2, <1>3, <1>4, <1>10 DEF Shifted, Clean
      <3> QED BY <1>1, <1>3, <3>1 DEF Readable
    <2>2. PICK x, z : x = B[next - 1] /\ z = B[next]
      OBVIOUS
    <2>3. Position = next - 1 /\ Position' = next
      BY <1>1, <1>2 DEF Position
    <2>4. Agrees(x, s)
      BY <1>10, <2>2, <2>3
    <2>5. PICK e \in Entry : e = log[next]
      BY <1>2, <1>3, <1>4
    <2>6. z = Replayed(x, e, s)
      BY <1>3, <1>4, <1>10, <2>2, <2>5 DEF Chain
    <2>7. CASE log[next].type # "Fill" /\ ReplayCall(log[next])
      <3>1. e # Torn /\ e.type # "Fill"
        BY <1>2, <2>1, <2>5, <2>7 DEF Shifted
      <3>2. PICK r \in Command : e = RequestEntry(r)
        BY <3>1, EntryKinds
      <3>3. ReplayCall(e)
        BY <2>5, <2>7
      <3>4. Agrees(Replayed(x, e, s), s)'
        BY <1>1, <2>4, <3>2, <3>3, SerialReplayCall
      <3> QED BY <2>2, <2>3, <2>6, <3>4 DEF Agrees
    <2>8. CASE log[next].type = "Fill" /\ UNCHANGED <<books, task, pc>>
      <3>1. z = x
        BY <2>5, <2>6, <2>8 DEF Replayed, CallOn
      <3>2. x = Strip(BookOf(s))
        BY <1>5, <2>4 DEF Agrees
      <3>3. \A t \in Thread : ~Holds(t, s)'
        BY <1>5, <2>8 DEF Holds
      <3>4. BookOf(s)' = BookOf(s)
        BY <2>8 DEF BookOf
      <3>5. B[Position'] = Strip(BookOf(s)')
        BY <2>2, <2>3, <3>1, <3>2, <3>4
      <3> QED BY <3>3, <3>5 DEF Agrees
    <2> QED BY <2>1, <2>7, <2>8 DEF ReplayRead
  <1> QED BY <1>1, <1>8, <1>9, <1>10, SameLog

\* All entries have been read, a cut one at the end apart.
LEMMA SerialReplayEnd ==
  ASSUME RecInv, SerialInv, ReplayEnd
  PROVE  SerialInv'
  <1>1. /\ UNCHANGED <<pc, task, books, log, past, next>> /\ phase = "replay" /\ phase' = "recovered"
        /\ pc[Main] = "idle" /\ ~Readable(next)
    BY DEF ReplayEnd, threadVars, bookVars, logVars
  <1>2. log \in Seq(Entry) /\ next \in Nat \ {0} /\ next <= Len(log) + 1
    BY <1>1 DEF RecInv, LogTyped, SerialInv, Phases
  <1>3. PICK n \in Nat : n = Len(log)
    BY <1>2
  <1>4. Phases' /\ Exclusive'
    BY <1>1 DEF SerialInv, Phases, Exclusive, Holds
  <1>5. ASSUME NEW s \in Symbol, NEW B, Chain(B, log, s), Clean(log, Len(log) - 1), Agrees(B[Position], s)
        PROVE  Agrees(B[Position], s)'
    <2>1. Position = next - 1 /\ Position' = n
      BY <1>1, <1>3 DEF Position
    <2>2. B[n] = B[next - 1]
      <3>1. CASE next = n + 1
        BY <1>3, <3>1
      <3>2. CASE next # n + 1
        <4>1. Shifted(next) /\ next = n
          BY <1>1, <1>2, <1>3, <3>2 DEF Readable
        <4>2. log[n] = Torn /\ n \in 1..Len(log)
          BY <1>2, <1>3, <1>5, <4>1 DEF Shifted, Clean
        <4>3. ~CallOn(Torn, s)
          BY DEF CallOn, Torn
        <4>4. B[n] = Replayed(B[n - 1], log[n], s)
          BY <1>5, <4>2 DEF Chain
        <4> QED BY <4>1, <4>2, <4>3, <4>4 DEF Replayed
      <3> QED BY <3>1, <3>2
    <2>3. PICK x : x = B[next - 1]
      OBVIOUS
    <2>4. Agrees(x, s) /\ x = B[Position']
      BY <1>5, <2>1, <2>2, <2>3
    <2> QED BY <1>1, <2>4 DEF Agrees, Holds, BookOf
  <1> QED BY <1>1, <1>4, <1>5, SameLog

\* The program goes on from there.
LEMMA SerialRestart ==
  ASSUME RecInv, SerialInv, Restart
  PROVE  SerialInv'
  <1>1. /\ UNCHANGED <<pc, task, books, log, past, next>> /\ phase = "recovered" /\ phase' = "up"
    BY DEF Restart, threadVars, bookVars, logVars
  <1>2. Phases' /\ Exclusive'
    BY <1>1 DEF SerialInv, Phases, Exclusive, Holds
  <1>3. ASSUME NEW s \in Symbol, NEW B, Agrees(B[Position], s)
        PROVE  Agrees(B[Position], s)'
    <2>1. PICK x : x = B[Position]
      OBVIOUS
    <2>2. x = B[Position']
      BY <1>1, <2>1 DEF Position
    <2>3. Agrees(x, s)
      BY <1>3, <2>1
    <2> QED BY <1>1, <2>2, <2>3 DEF Agrees, Holds, BookOf
  <1> QED BY <1>1, <1>2, <1>3, SameLog

\* Nothing happens.
LEMMA SerialStutter ==
  ASSUME SerialInv, UNCHANGED vars
  PROVE  SerialInv'
  <1>1. UNCHANGED <<pc, task, books, log, past, next, phase>>
    BY DEF vars, threadVars, bookVars, logVars, recoveryVars
  <1>2. Phases' /\ Exclusive' /\ PastTyped(past', log')
    BY <1>1 DEF SerialInv, Phases, Exclusive, Holds
  <1>3. ASSUME NEW s \in Symbol PROVE Serial(s)'
    <2>1. Serial(s)
      BY DEF SerialInv
    <2> QED BY <1>1, <2>1 DEF Serial, Agrees, Position, Holds, BookOf
  <1> QED BY <1>2, <1>3 DEF SerialInv

\* Nothing was logged yet.
LEMMA InitSerial ==
  ASSUME RecoveryInit
  PROVE  SerialInv
  <1>1. /\ Quiet /\ books = EmptyMap /\ log = <<>> /\ phase = "up"
    BY DEF RecoveryInit, Init, Quiet
  <1>2. PICK y : y = [s \in Symbol |-> Content(EmptyBook)]
    OBVIOUS
  <1>3. past = <<y>>
    BY <1>2 DEF RecoveryInit, Init
  <1>4. \A t \in Thread : pc[t] = "idle"
    BY <1>1 DEF Quiet
  <1>5. Phases /\ Exclusive
    BY <1>1, <1>4 DEF Phases, Exclusive, Holds, Thread
  <1>6. PastTyped(past, log)
    <2>1. past \in Seq({y}) /\ Len(past) = 1 /\ past[1] = y /\ Len(log) = 0
      BY <1>1, <1>3
    <2>2. \A k \in 1..Len(past) : DOMAIN past[k] = Symbol
      BY <1>2, <2>1
    <2> QED BY <2>1, <2>2 DEF PastTyped
  <1>7. ASSUME NEW s \in Symbol PROVE Serial(s)
    <2> DEFINE B == [k \in {0} |-> EmptyBook]
    <2>1. B[0] = EmptyBook /\ Len(log) = 0
      BY <1>1
    <2> HIDE DEF B
    <2>2. Chain(B, log, s)
      BY <2>1 DEF Chain
    <2>3. past[1][s] = Content(EmptyBook)
      BY <1>2, <1>3
    <2>4. Noted(B, log, past, s)
      BY <2>1, <2>3 DEF Noted
    <2>5. BookOf(s) = EmptyBook
      BY <1>1 DEF BookOf, EmptyMap
    <2>6. Position = 0
      BY <1>1, <2>1 DEF Position
    <2>7. Agrees(B[Position], s)
      <3>1. \A t \in Thread : ~Holds(t, s)
        BY <1>4 DEF Holds
      <3> QED BY <2>1, <2>5, <2>6, <3>1, StripEmpty DEF Agrees
    <2> QED BY <2>2, <2>4, <2>7 DEF Serial
  <1> QED BY <1>5, <1>6, <1>7 DEF SerialInv

\* A book nobody is in a call on holds what the history says.
LEMMA FreeBook ==
  ASSUME RecInv, SerialInv, phase \in {"up", "recovered"}, Whole, NEW s \in Symbol, \A t \in Thread : ~Holds(t, s)
  PROVE  Content(BookOf(s)) = past[Len(log) + 1][s]
  <1>1. PICK B : /\ Chain(B, log, s) /\ Noted(B, log, past, s)
                 /\ phase # "start" /\ Clean(log, Len(log) - 1) => Agrees(B[Position], s)
    BY DEF SerialInv, Serial
  <1>2. PICK n \in Nat : n = Len(log)
    BY DEF RecInv, LogTyped
  <1>3. Clean(log, n - 1)
    BY <1>2 DEF Whole, Clean
  <1>4. Agrees(B[n], s)
    BY <1>1, <1>2, <1>3 DEF Position
  <1>5. B[n] = Strip(BookOf(s))
    BY <1>4 DEF Agrees
  <1>6. past[n + 1][s] = Content(B[n])
    <2>1. n \in 0..Len(log)
      BY <1>2
    <2> QED BY <1>1, <1>3, <2>1 DEF Noted
  <1>7. Content(Strip(BookOf(s))) = Content(BookOf(s))
    <2>1. Good(BookOf(s))
      BY BookOfGood DEF RecInv
    <2> QED BY <2>1, GoodHolding, GoodListed, StripContent
  <1> QED BY <1>2, <1>5, <1>6, <1>7
-----------------------------------------------------------------------------
(* What the reports of a book tell. *)

\* A report among R tells what is left of the order o, and that it is filled
\* when nothing is; a report among R tells that the order id has ended.
Tells(R, o) == \E r \in R : /\ r.order_id = o.order_id /\ r.remaining_quantity = o.remaining_quantity
                            /\ o.remaining_quantity = 0 => r.status = "Filled"
Ended(R, id) == \E r \in R : r.order_id = id /\ r.status \in {"Filled", "Cancelled"}

\* Every resting order has been told of; the incoming one, too, once it has traded.
Fresh(o) == o.remaining_quantity = o.quantity /\ o.quantity > 0
BookTells(b, R) ==
    /\ \A n \in DOMAIN b.heap : Tells(R, b.heap[n])
    /\ b.incoming # NoOrder => Tells(R, b.incoming) \/ Fresh(b.incoming)

\* The order id is in the book, or it has been told that it has ended.
Knows(b, R, id) ==
    \/ id \in DOMAIN b.index
    \/ b.incoming # NoOrder /\ b.incoming.order_id = id
    \/ Ended(R, id)

\* The result of the call in progress is among R; the call has kept what b had.
ResultIn(b, R) == \A i \in DOMAIN b.reports : b.reports[i] \in R
Keeps(b, c) == \A i \in DOMAIN b.reports : \E j \in DOMAIN c.reports : c.reports[j] = b.reports[i]
Onward(b, R, c, S) == BookTells(c, S) /\ \A id : Knows(b, R, id) => Knows(c, S, id)

\* Requests for no quantity at all end without a report: RiskChecker rejects
\* such submissions, and nobody such modifications.
Asks(r) == (r.type = "Submit" => r.order.quantity > 0) /\ (r.type = "Modify" => r.quantity > 0)
AllAsk == \A r \in Request : Asks(r)

\* More reports tell more.
LEMMA TellsMore ==
  ASSUME NEW R, NEW S, R \subseteq S
  PROVE  /\ \A o : Tells(R, o) => Tells(S, o)
         /\ \A id : Ended(R, id) => Ended(S, id)
         /\ \A b : BookTells(b, R) => BookTells(b, S)
         /\ \A b, id : Knows(b, R, id) => Knows(b, S, id)
  <1>1. \A o : Tells(R, o) => Tells(S, o)
    BY DEF Tells
  <1>2. \A id : Ended(R, id) => Ended(S, id)
    BY DEF Ended
  <1> QED BY <1>1, <1>2 DEF BookTells, Knows

\* A report put behind others.
LEMMA ReportAppended ==
  ASSUME NEW b, BookTyped(b), NEW r, NEW c, c.reports = Append(b.reports, r)
  PROVE  Keeps(b, c) /\ \A S : ResultIn(c, S) => r \in S
  <1>1. PICK rs \in Seq(ExecutionReport) : rs = b.reports
    BY DEF BookTyped
  <1>2. PICK l \in Nat : l = Len(rs)
    BY <1>1
  <1>3. PICK cs : cs = c.reports
    OBVIOUS
  <1>4. cs = Append(rs, r)
    BY <1>1, <1>3
  <1>5. /\ DOMAIN cs = 1..(l + 1) /\ cs[l + 1] = r /\ DOMAIN rs = 1..l
        /\ \A i \in 1..l : cs[i] = rs[i]
    BY <1>1, <1>2, <1>4
  <1>6. l + 1 \in DOMAIN cs /\ DOMAIN rs \subseteq DOMAIN cs
    BY <1>2, <1>5
  <1> QED BY <1>1, <1>3, <1>5, <1>6 DEF Keeps, ResultIn

\* The order that has been taken out of the book by its index entry.
LEMMA DropTells ==
  ASSUME NEW b, NEW c, NEW n, c.heap = Drop(b.heap, n), NEW R, \A m \in DOMAIN b.heap : Tells(R, b.heap[m])
  PROVE  \A m \in DOMAIN c.heap : Tells(R, c.heap[m])
  <1>1. DOMAIN c.heap \subseteq DOMAIN b.heap /\ \A m \in DOMAIN c.heap : c.heap[m] = b.heap[m]
    BY DEF Drop, Restrict
  <1> QED BY <1>1

\* Whose entry is dropped is known otherwise.
LEMMA DropKnows ==
  ASSUME NEW b, NEW c, NEW x, c.index = Drop(b.index, x), NEW R, NEW S, R \subseteq S,
         Knows(c, S, x),
         b.incoming # NoOrder => Knows(c, S, b.incoming.order_id)
  PROVE  \A id : Knows(b, R, id) => Knows(c, S, id)
  <1>1. DOMAIN c.index = DOMAIN b.index \ {x}
    BY DEF Drop, Restrict
  <1>2. \A id : Ended(R, id) => Ended(S, id)
    BY TellsMore
  <1> QED BY <1>1, <1>2 DEF Knows

\* The call begins.
LEMMA BeginTells ==
  ASSUME NEW b, Good(b), b.incoming = NoOrder, NEW r \in Command, Asks(r), NEW c, c = Begin(b, r),
         NEW R, NEW S, R \subseteq S, BookTells(b, R), ResultIn(c, S)
  PROVE  Onward(b, R, c, S) /\ (r.type = "Submit" => Knows(c, S, r.order_id))
  <1>1. BookTyped(b) /\ BookTells(b, S) /\ \A m \in DOMAIN b.heap : Tells(S, b.heap[m])
    BY TellsMore DEF Good, BookTells
  <1>2. CASE r.type = "Submit"
    <2>1. PICK o \in Order : o = r.order /\ o.order_id = r.order_id /\ Fresh(o)
      BY <1>2, CommandFields DEF Asks, Fresh
    <2>2. c = [b EXCEPT !.incoming = o]
      BY <1>2, <2>1 DEF Begin
    <2>3. c.heap = b.heap /\ c.index = b.index /\ c.incoming = o
      BY <1>1, <2>2 DEF BookTyped
    <2>4. o # NoOrder
      BY <2>1, NoOrderAssumption
    <2>5. BookTells(c, S)
      BY <1>1, <2>1, <2>3 DEF BookTells
    <2>6. \A id : Knows(b, R, id) => Knows(c, S, id)
      BY <2>3, TellsMore DEF Knows
    <2>7. Knows(c, S, r.order_id)
      BY <2>1, <2>3, <2>4 DEF Knows
    <2> QED BY <2>5, <2>6, <2>7 DEF Onward
  <1>3. CASE r.type # "Submit" /\ r.order_id \notin DOMAIN b.index
    <2>1. c = b
      BY <1>3 DEF Begin
    <2>2. \A id : Knows(b, R, id) => Knows(b, S, id)
      BY TellsMore
    <2> QED BY <1>1, <1>3, <2>1, <2>2 DEF Onward
  <1>4. CASE r.type = "Cancel" /\ r.order_id \in DOMAIN b.index
    <2>1. c = CancelFound(b, r.order_id)
      BY <1>4 DEF Begin
    <2>2. /\ c.heap = Drop(b.heap, b.index[r.order_id].position) /\ c.index = Drop(b.index, r.order_id)
          /\ c.reports = Append(b.reports, CancelReport(b, r.order_id)) /\ c.incoming = b.incoming
      BY <1>4, <2>1, CancelShape
    <2>3. PICK rep : rep = CancelReport(b, r.order_id)
      OBVIOUS
    <2>4. rep \in S /\ rep.order_id = r.order_id /\ rep.status = "Cancelled"
      BY <1>1, <2>2, <2>3, ReportAppended DEF CancelReport
    <2>5. Knows(c, S, r.order_id)
      BY <2>4 DEF Knows, Ended
    <2>6. BookTells(c, S)
      <3>1. PICK n : c.heap = Drop(b.heap, n)
        BY <2>2
      <3>2. \A m \in DOMAIN c.heap : Tells(S, c.heap[m])
        BY <1>1, <3>1, DropTells
      <3> QED BY <1>1, <2>2, <3>2 DEF BookTells
    <2>7. \A id : Knows(b, R, id) => Knows(c, S, id)
      BY <2>2, <2>5, DropKnows
    <2> QED BY <1>4, <2>6, <2>7 DEF Onward
  <1>5. CASE r.type = "Modify" /\ r.order_id \in DOMAIN b.index
    <2>1. c = ModifyFound(b, r)
      BY <1>5 DEF Begin
    <2>2. /\ c.heap = Drop(b.heap, b.index[r.order_id].position) /\ c.index = Drop(b.index, r.order_id)
          /\ c.incoming = ModifiedOrder(b, r)
      BY <1>5, <2>1, ModifyShape
    <2>3. PICK o \in Order : o = b.heap[b.index[r.order_id].position] /\ o.order_id = r.order_id
      BY <1>5, EraseShape
    <2>4. PICK i : i = c.incoming
      OBVIOUS
    <2>5. i = [o EXCEPT !.price = r.price, !.quantity = r.quantity,
                        !.remaining_quantity = r.quantity, !.timestamp = r.timestamp]
      BY <2>2, <2>3, <2>4 DEF ModifiedOrder
    <2>6. r.price \in Price /\ r.quantity \in Quantity /\ r.timestamp \in Timestamp /\ r.quantity > 0
      BY <1>5, CommandFields DEF Asks
    <2>7. i \in Order /\ i.order_id = r.order_id /\ i.remaining_quantity = r.quantity /\ i.quantity = r.quantity
      BY <2>3, <2>5, <2>6 DEF Order
    <2>8. i # NoOrder /\ Fresh(i)
      BY <2>6, <2>7, NoOrderAssumption DEF Fresh
    <2>9. Knows(c, S, r.order_id)
      BY <2>4, <2>7, <2>8 DEF Knows
    <2>10. BookTells(c, S)
      <3>1. PICK n : c.heap = Drop(b.heap, n)
        BY <2>2
      <3>2. \A m \in DOMAIN c.heap : Tells(S, c.heap[m])
        BY <1>1, <3>1, DropTells
      <3> QED BY <2>4, <2>8, <3>2 DEF BookTells
    <2>11. \A id : Knows(b, R, id) => Knows(c, S, id)
      BY <2>2, <2>9, DropKnows
    <2> QED BY <1>5, <2>10, <2>11 DEF Onward
  <1>6. r.type \in {"Submit", "Cancel", "Modify"}
    BY CommandFields
  <1> QED BY <1>2, <1>3, <1>4, <1>5, <1>6

\* No step of a call takes a report back.
LEMMA BeginKeeps ==
  ASSUME NEW b, Good(b), NEW r \in Command, NEW c, c = Begin(b, r)
  PROVE  Keeps(b, c)
  <1>1. BookTyped(b) /\ r.type \in {"Submit", "Cancel", "Modify"}
    BY CommandFields DEF Good
  <1>2. CASE r.type = "Submit"
    <2>1. PICK o \in Order : o = r.order
      BY <1>2, CommandFields
    <2>2. c = [b EXCEPT !.incoming = o]
      BY <1>2, <2>1 DEF Begin
    <2>3. c.reports = b.reports
      BY <1>1, <2>2 DEF BookTyped
    <2> QED BY <2>3 DEF Keeps
  <1>3. CASE r.type # "Submit" /\ r.order_id \notin DOMAIN b.index
    BY <1>3 DEF Begin, Keeps
  <1>4. CASE r.type = "Cancel" /\ r.order_id \in DOMAIN b.index
    <2>1. c = CancelFound(b, r.order_id)
      BY <1>4 DEF Begin
    <2>2. c.reports = Append(b.reports, CancelReport(b, r.order_id))
      BY <1>4, <2>1, CancelShape
    <2> QED BY <1>1, <2>2, ReportAppended
  <1>5. CASE r.type = "Modify" /\ r.order_id \in DOMAIN b.index
    <2>1. c = ModifyFound(b, r)
      BY <1>5 DEF Begin
    <2>2. c.reports = b.reports
      BY <1>5, <2>1, ModifyShape
    <2> QED BY <2>2 DEF Keeps
  <1> QED BY <1>1, <1>2, <1>3, <1>4, <1>5

\* The reports of a trade tell of both parties.
LEMMA TradeTells ==
  ASSUME NEW b, Good(b), Matching(b), NEW tid \in Nat, NEW c, c = MatchOnce(b, tid), NEW S, ResultIn(c, S)
  PROVE  /\ Keeps(b, c) /\ Tells(S, IncAfter(b)) /\ Tells(S, RestAfter(b))
         /\ RestAfter(b).remaining_quantity = 0 => Ended(S, RestAfter(b).order_id)
  <1>1. b.incoming \in Order /\ CanMatch(b) /\ b.reports \in Seq(ExecutionReport)
    BY DEF Matching, Good, BookTyped
  <1>2. PICK x, y : /\ x = TradeReport(Buyer(b), MatchQty(b), TradePrice(b))
                    /\ y = TradeReport(Seller(b), MatchQty(b), TradePrice(b))
    OBVIOUS
  <1>3. x \in ExecutionReport /\ y \in ExecutionReport
    BY <1>1, <1>2, TradeTyped
  <1>4. PICK n : n = FrontNode(b)
    OBVIOUS
  <1>5. /\ c.incoming = IncAfter(b)
        /\ c.fills = Append(b.fills, FillOf(b, tid)) /\ c.reports = b.reports \o ReportsOf(b)
        /\ RestAfter(b).remaining_quantity = 0 =>
               c.heap = Drop(b.heap, n) /\ c.index = Drop(b.index, b.heap[n].order_id)
        /\ RestAfter(b).remaining_quantity # 0 =>
               c.heap = [b.heap EXCEPT ![n] = RestAfter(b)] /\ c.index = b.index
    BY <1>1, <1>4, MatchShape
  <1>6. c.reports = b.reports \o <<x, y>>
    BY <1>2, <1>5 DEF ReportsOf
  <1>7. PICK l \in Nat : l = Len(b.reports)
    BY <1>1
  <1>8. PICK t : t = c.reports
    OBVIOUS
  <1>9. /\ t \in Seq(ExecutionReport) /\ Len(t) = l + 2 /\ t[l + 1] = x /\ t[l + 2] = y
        /\ \A k \in 1..l : t[k] = b.reports[k]
    BY <1>1, <1>3, <1>6, <1>7, <1>8, ConcatTwo
  <1>10. /\ DOMAIN t = 1..(l + 2) /\ DOMAIN b.reports = 1..l /\ l + 1 \in 1..(l + 2) /\ l + 2 \in 1..(l + 2)
         /\ 1..l \subseteq 1..(l + 2)
    BY <1>1, <1>7, <1>9
  <1>11. Keeps(b, c) /\ x \in S /\ y \in S
    BY <1>8, <1>9, <1>10 DEF Keeps, ResultIn
  <1>12. Tells(S, Buyer(b)) /\ Tells(S, Seller(b))
    BY <1>2, <1>11 DEF TradeReport, Tells
  <1>13. Tells(S, IncAfter(b)) /\ Tells(S, RestAfter(b))
    BY <1>12 DEF Buyer, Seller
  <1>14. RestAfter(b).remaining_quantity = 0 => Ended(S, RestAfter(b).order_id)
    BY <1>13 DEF Tells, Ended
  <1> QED BY <1>11, <1>13, <1>14

\* One iteration of the matching loop.
LEMMA MatchTells ==
  ASSUME NEW b, Good(b), Matching(b), NEW tid \in Nat, NEW c, c = MatchOnce(b, tid),
         NEW R, NEW S, R \subseteq S, BookTells(b, R), ResultIn(c, S)
  PROVE  Onward(b, R, c, S)
  <1>1. b.incoming \in Order /\ CanMatch(b) /\ b.incoming # NoOrder
    BY DEF Matching, Good, BookTyped
  <1>2. PICK n : n = FrontNode(b)
    OBVIOUS
  <1>3. /\ c.incoming = IncAfter(b)
        /\ c.fills = Append(b.fills, FillOf(b, tid)) /\ c.reports = b.reports \o ReportsOf(b)
        /\ RestAfter(b).remaining_quantity = 0 =>
               c.heap = Drop(b.heap, n) /\ c.index = Drop(b.index, b.heap[n].order_id)
        /\ RestAfter(b).remaining_quantity # 0 =>
               c.heap = [b.heap EXCEPT ![n] = RestAfter(b)] /\ c.index = b.index
    BY <1>1, <1>2, MatchShape
  <1>4. /\ n \in DOMAIN b.heap /\ IncAfter(b) \in Order
        /\ IncAfter(b)["order_id"] = b.incoming["order_id"] /\ RestAfter(b)["order_id"] = b.heap[n]["order_id"]
    BY <1>1, <1>2, PartiesOfTrade
  <1>5. /\ Tells(S, IncAfter(b)) /\ Tells(S, RestAfter(b))
        /\ RestAfter(b).remaining_quantity = 0 => Ended(S, RestAfter(b).order_id)
    BY TradeTells
  <1>6. BookTells(b, S)
    BY TellsMore
  <1>7. c.incoming # NoOrder /\ Knows(c, S, b.incoming.order_id)
    BY <1>3, <1>4, NoOrderAssumption DEF Knows
  <1>8. CASE RestAfter(b).remaining_quantity = 0
    <2>1. c.heap = Drop(b.heap, n) /\ c.index = Drop(b.index, b.heap[n].order_id)
      BY <1>3, <1>8
    <2>2. PICK x : x = b.heap[n].order_id
      OBVIOUS
    <2>3. Knows(c, S, x)
      BY <1>4, <1>5, <1>8, <2>2 DEF Knows
    <2>4. \A id : Knows(b, R, id) => Knows(c, S, id)
      BY <1>7, <2>1, <2>2, <2>3, DropKnows
    <2>5. \A m \in DOMAIN c.heap : Tells(S, c.heap[m])
      BY <1>6, <2>1, DropTells DEF BookTells
    <2> QED BY <1>3, <1>5, <2>4, <2>5 DEF Onward, BookTells
  <1>9. CASE RestAfter(b).remaining_quantity # 0
    <2>1. c.heap = [b.heap EXCEPT ![n] = RestAfter(b)] /\ c.index = b.index
      BY <1>3, <1>9
    <2>2. /\ DOMAIN c.heap = DOMAIN b.heap
          /\ \A m \in DOMAIN c.heap : c.heap[m] = b.heap[m] \/ c.heap[m] = RestAfter(b)
      BY <1>4, <2>1
    <2>3. \A m \in DOMAIN c.heap : Tells(S, c.heap[m])
      BY <1>5, <1>6, <2>2 DEF BookTells
    <2>4. \A id : Ended(R, id) => Ended(S, id)
      BY TellsMore
    <2>5. \A id : Knows(b, R, id) => Knows(c, S, id)
      BY <1>7, <2>1, <2>4 DEF Knows
    <2> QED BY <1>3, <1>5, <2>3, <2>5 DEF Onward, BookTells
  <1> QED BY <1>8, <1>9

\* An order comes to rest.
LEMMA RestTells ==
  ASSUME NEW b, Good(b), NEW o \in Order, o = b.incoming, NEW n, NEW d, d = Rest(b, n),
         NEW R, NEW S, R \subseteq S, BookTells(b, R), ResultIn(d, S)
  PROVE  Keeps(b, d) /\ Onward(b, R, d, S)
  <1>1. /\ d.heap = Put(b.heap, n, o) /\ d.fills = b.fills
        /\ d.index = Put(b.index, o.order_id, [side |-> o.side, price_level |-> o.price, position |-> n])
        /\ d.reports = IF o.remaining_quantity = o.quantity
                        THEN Append(b.reports, PlainReport(o, "New")) ELSE b.reports
    BY RestShape
  <1>2. d.incoming = NoOrder /\ o # NoOrder
    BY RestEnds, NoOrderAssumption
  <1>3. BookTyped(b)
    BY DEF Good
  <1>4. BookTells(b, S)
    BY TellsMore
  <1>5. Keeps(b, d) /\ Tells(S, o)
    <2>1. CASE o.remaining_quantity = o.quantity
      <3>1. PICK rep : rep = PlainReport(o, "New")
        OBVIOUS
      <3>2. Keeps(b, d) /\ rep \in S
        BY <1>1, <1>3, <2>1, <3>1, ReportAppended
      <3>3. rep.order_id = o.order_id /\ rep.remaining_quantity = o.remaining_quantity
        BY <3>1 DEF PlainReport
      <3>4. CASE Fresh(o)
        <4>1. o.remaining_quantity # 0
          BY <3>4, BoundsAssumption DEF Fresh, Order, Quantity
        <4> QED BY <3>2, <3>3, <4>1 DEF Tells
      <3> QED BY <1>2, <1>4, <3>2, <3>4 DEF BookTells
    <2>2. CASE o.remaining_quantity # o.quantity
      <3>1. d.reports = b.reports
        BY <1>1, <2>2
      <3> QED BY <1>2, <1>4, <2>2, <3>1 DEF BookTells, Fresh, Keeps
    <2> QED BY <2>1, <2>2
  <1>6. \A m \in DOMAIN d.heap : Tells(S, d.heap[m])
    <2>1. \A m \in DOMAIN d.heap : d.heap[m] = o \/ (m \in DOMAIN b.heap /\ d.heap[m] = b.heap[m])
      BY <1>1 DEF Put
    <2> QED BY <1>4, <1>5, <2>1 DEF BookTells
  <1>7. DOMAIN d.index = DOMAIN b.index \cup {o.order_id}
    BY <1>1 DEF Put
  <1>8. \A id : Ended(R, id) => Ended(S, id)
    BY TellsMore
  <1>9. \A id : Knows(b, R, id) => Knows(d, S, id)
    BY <1>2, <1>7, <1>8 DEF Knows
  <1> QED BY <1>2, <1>5, <1>6, <1>9 DEF Onward, BookTells

\* What is behind the loop.
LEMMA FinishTells ==
  ASSUME NEW b, Good(b), NEW d, d = Finish(b),
         NEW R, NEW S, R \subseteq S, BookTells(b, R), ResultIn(d, S)
  PROVE  Keeps(b, d) /\ Onward(b, R, d, S)
  <1>0. BookTyped(b) /\ (b.incoming = NoOrder \/ b.incoming \in Order)
    BY DEF Good, BookTyped
  <1>1. BookTells(b, S) /\ \A id : Ended(R, id) => Ended(S, id)
    BY TellsMore
  <1>2. CASE b.incoming = NoOrder
    <2>1. d = b
      BY <1>2 DEF Finish
    <2> QED BY <1>1, <2>1 DEF Onward, Keeps, Knows
  <1>3. CASE b.incoming # NoOrder /\ b.incoming.remaining_quantity = 0
    <2>1. d = [b EXCEPT !.incoming = NoOrder]
      BY <1>3 DEF Finish
    <2>2. d.heap = b.heap /\ d.index = b.index /\ d.reports = b.reports /\ d.incoming = NoOrder
      BY <1>0, <2>1 DEF BookTyped
    <2>3. ~Fresh(b.incoming)
      BY <1>3 DEF Fresh
    <2>4. Ended(S, b.incoming.order_id)
      BY <1>1, <1>3, <2>3 DEF BookTells, Tells, Ended
    <2> QED BY <1>1, <2>2, <2>4 DEF Onward, Keeps, Knows, BookTells
  <1>4. CASE b.incoming # NoOrder /\ b.incoming.remaining_quantity # 0 /\ b.incoming.type = "Limit"
    <2>1. PICK n : d = Rest(b, n)
      BY <1>4 DEF Finish
    <2>2. PICK o \in Order : o = b.incoming
      BY <1>0, <1>4
    <2> QED BY <2>1, <2>2, RestTells
  <1>5. CASE b.incoming # NoOrder /\ b.incoming.remaining_quantity # 0 /\ b.incoming.type # "Limit"
    <2>1. PICK o \in Order : o = b.incoming
      BY <1>0, <1>5
    <2>2. d = Expire(b)
      BY <1>5 DEF Finish
    <2>3. PICK rep : rep = PlainReport(o, "Cancelled")
      OBVIOUS
    <2>4. PICK rs : rs = Append(b.reports, rep)
      OBVIOUS
    <2>5. d = [b EXCEPT !.incoming = NoOrder, !.reports = rs]
      BY <1>0, <2>1, <2>2, <2>3, <2>4 DEF Expire, BookTyped
    <2>6. d.heap = b.heap /\ d.index = b.index /\ d.reports = Append(b.reports, rep) /\ d.incoming = NoOrder
      BY <1>0, <2>4, <2>5 DEF BookTyped
    <2>7. Keeps(b, d) /\ rep \in S
      BY <1>0, <2>6, ReportAppended
    <2>8. Ended(S, o.order_id)
      BY <2>3, <2>7 DEF PlainReport, Ended
    <2>9. BookTells(d, S)
      BY <1>1, <2>6 DEF BookTells
    <2>10. \A id : Knows(b, R, id) => Knows(d, S, id)
      BY <1>1, <2>1, <2>6, <2>8 DEF Knows
    <2> QED BY <2>7, <2>9, <2>10 DEF Onward
  <1> QED BY <1>2, <1>3, <1>4, <1>5

\* The result is handed over: the book is what it was.
LEMMA ClearTells ==
  ASSUME NEW d, Good(d), NEW c, c = Cleared(d), NEW b, NEW R, NEW S, Onward(b, R, d, S)
  PROVE  Onward(b, R, c, S) /\ c.incoming = d.incoming /\ c.reports = <<>>
  <1>1. c.heap = d.heap /\ c.index = d.index /\ c.incoming = d.incoming /\ c.reports = <<>>
    BY DEF Cleared, Good, BookTyped
  <1> QED BY <1>1 DEF Onward, BookTells, Knows
-----------------------------------------------------------------------------
(* What the reports of the exchange tell. *)

\* The report r was published, or is on its way: in a result, or in a call in progress.
IsTold(r) ==
    \/ \E k \in DOMAIN published : published[k] = r
    \/ \E t \in Thread : \E k \in DOMAIN result[t].reports : result[t].reports[k] = r
    \/ \E s \in DOMAIN books : \E k \in DOMAIN books[s].reports : books[s].reports[k] = r
Told == {r \in ExecutionReport : IsTold(r)}

\* Thread t is behind the entry of a call on s; it is about to submit order id there.
Inside(t, s) == pc[t] = "match" /\ task[t].symbol = s
Submits(t, s, id) == pc[t] = "call" /\ task[t].type = "Submit" /\ task[t].symbol = s /\ task[t].order_id = id

TellThreads ==
    /\ phase = "up" /\ pc[Main] = "idle" /\ tasks \in Seq(Request) /\ published \in Seq(ExecutionReport)
    /\ \A t \in Thread :
          /\ pc[t] \in Started => task[t] \in Request
          /\ result[t].reports \in Seq(ExecutionReport)
          /\ pc[t] \notin {"fills", "publish"} => result[t] = NoResult
          /\ pc[t] = "publish" => result[t].reports # <<>>

TellBooks ==
    \A s \in DOMAIN books :
        /\ BookTells(books[s], Told)
        /\ (\A t \in Thread : ~Inside(t, s)) => books[s].incoming = NoOrder /\ books[s].reports = <<>>

TellLog ==
    \A i \in DOMAIN log : log[i].type = "Submit" =>
        /\ log[i].symbol \in DOMAIN books
        /\ \/ Knows(books[log[i].symbol], Told, log[i].order_id)
           \/ \E t \in Thread : Submits(t, log[i].symbol, log[i].order_id)

Telling == TellThreads /\ TellBooks /\ TellLog

\* Until the first crash every order of the log is in its book, or about to
\* get there, or told to have ended, and every order of a book has been told of.
TellInv == crashes \in Nat /\ (crashes = 0 => Telling)

\* The requests are requests of clients.
LEMMA RequestCommand == Request \subseteq Command
  <1>1. ASSUME NEW w \in Workload, NEW r \in Range(w) PROVE r \in Command
    <2>1. w \in Seq(Command)
      BY WorkloadAssumption
    <2>2. PICK i \in DOMAIN w : r = w[i]
      BY <1>1 DEF Range
    <2> QED BY <2>1, <2>2
  <1> QED BY <1>1 DEF Request

\* The log entries are covered after a step on the book of s.
LEMMA TellBookStep ==
  ASSUME Telling, TellThreads', NEW R, R = Told, NEW S, S = Told', R \subseteq S,
         NEW s, NEW c, Updated(s, c), BookTells(c, S),
         s \in DOMAIN books => Onward(books[s], R, c, S),
         (\A t \in Thread : ~Inside(t, s)') => c.incoming = NoOrder /\ c.reports = <<>>,
         \A x \in DOMAIN books \ {s} : \A t \in Thread : Inside(t, x) => Inside(t, x)',
         UNCHANGED log,
         \A t \in Thread : \A x, id : Submits(t, x, id) => Submits(t, x, id)' \/ (x = s /\ Knows(c, S, id))
  PROVE  Telling'
  <1>1. /\ DOMAIN books' = DOMAIN books \cup {s} /\ books'[s] = c
        /\ \A x \in DOMAIN books \ {s} : books'[x] = books[x]
    BY DEF Updated
  <1>2. TellBooks'
    <2>1. ASSUME NEW x \in DOMAIN books'
          PROVE  /\ BookTells(books'[x], S)
                 /\ (\A t \in Thread : ~Inside(t, x)') => books'[x].incoming = NoOrder /\ books'[x].reports = <<>>
      <3>1. CASE x = s
        BY <1>1, <3>1
      <3>2. CASE x # s
        <4>1. x \in DOMAIN books \ {s} /\ books'[x] = books[x]
          BY <1>1, <2>1, <3>2
        <4>2. BookTells(books[x], S)
          BY <4>1, TellsMore DEF Telling, TellBooks
        <4>3. (\A t \in Thread : ~Inside(t, x)') => books[x].incoming = NoOrder /\ books[x].reports = <<>>
          BY <4>1 DEF Telling, TellBooks
        <4> QED BY <4>1, <4>2, <4>3
      <3> QED BY <3>1, <3>2
    <2> QED BY <2>1 DEF TellBooks
  <1>3. TellLog'
    <2> SUFFICES ASSUME NEW i \in DOMAIN log, log[i].type = "Submit"
                 PROVE  /\ log[i].symbol \in DOMAIN books'
                        /\ \/ Knows(books'[log[i].symbol], S, log[i].order_id)
                           \/ \E t \in Thread : Submits(t, log[i].symbol, log[i].order_id)'
      BY DEF TellLog
    <2>1. PICK x, id : x = log[i].symbol /\ id = log[i].order_id
      OBVIOUS
    <2>2. x \in DOMAIN books /\ (Knows(books[x], R, id) \/ \E t \in Thread : Submits(t, x, id))
      BY <2>1 DEF Telling, TellLog
    <2>3. x \in DOMAIN books'
      BY <1>1, <2>2
    <2>4. ASSUME Knows(books[x], R, id) PROVE Knows(books'[x], S, id)
      <3>1. CASE x = s
        BY <1>1, <2>2, <2>4, <3>1 DEF Onward
      <3>2. CASE x # s
        BY <1>1, <2>2, <2>4, <3>2, TellsMore
      <3> QED BY <3>1, <3>2
    <2>5. ASSUME NEW t \in Thread, Submits(t, x, id) PROVE Knows(books'[x], S, id) \/ Submits(t, x, id)'
      BY <1>1, <2>5
    <2>6. Knows(books'[x], S, id) \/ \E t \in Thread : Submits(t, x, id)'
      BY <2>2, <2>4, <2>5
    <2> QED BY <2>1, <2>3, <2>6
  <1> QED BY <1>2, <1>3 DEF Telling

\* A step that leaves the books alone; what it adds to the log is about to be done.
LEMMA TellQuietStep ==
  ASSUME Telling, TellThreads', NEW R, R = Told, NEW S, S = Told', R \subseteq S, books' = books,
         \A t \in Thread : \A x : Inside(t, x) => Inside(t, x)',
         \A t \in Thread : \A x, id : Submits(t, x, id) => Submits(t, x, id)',
         \A i \in DOMAIN log' : log'[i].type = "Submit" =>
            \/ \E j \in DOMAIN log : log'[i] = log[j]
            \/ \E t \in Thread, x \in DOMAIN books : \E id :
                  x = log'[i].symbol /\ id = log'[i].order_id /\ Submits(t, x, id)'
  PROVE  Telling'
  <1>1. TellBooks'
    <2>1. ASSUME NEW x \in DOMAIN books
          PROVE  /\ BookTells(books[x], S)
                 /\ (\A t \in Thread : ~Inside(t, x)') => books[x].incoming = NoOrder /\ books[x].reports = <<>>
      BY TellsMore DEF Telling, TellBooks
    <2> QED BY <2>1 DEF TellBooks
  <1>2. TellLog'
    <2>1. ASSUME NEW i \in DOMAIN log', log'[i].type = "Submit", NEW x, NEW id, x = log'[i].symbol, id = log'[i].order_id
          PROVE  x \in DOMAIN books /\ (Knows(books[x], S, id) \/ \E t \in Thread : Submits(t, x, id)')
      <3>1. ASSUME NEW j \in DOMAIN log, log'[i] = log[j]
            PROVE  x \in DOMAIN books /\ (Knows(books[x], S, id) \/ \E t \in Thread : Submits(t, x, id)')
        <4>1. x \in DOMAIN books /\ (Knows(books[x], R, id) \/ \E t \in Thread : Submits(t, x, id))
          BY <2>1, <3>1 DEF Telling, TellLog
        <4>2. Knows(books[x], R, id) => Knows(books[x], S, id)
          BY TellsMore
        <4> QED BY <4>1, <4>2
      <3> QED BY <2>1, <3>1
    <2> QED BY <2>1 DEF TellLog, Submits
  <1> QED BY <1>1, <1>2 DEF Telling

\* A worker goes on inside a request; nothing is reported.
LEMMA TellGoes ==
  ASSUME RecInv, TellThreads, NEW w \in Worker, NEW l, Moves(w, l), l \in Started, pc[w] \notin {"fills", "publish"},
         task'[w] \in Request, result' = result, tasks' \in Seq(Request), published' = published, phase' = phase
  PROVE  TellThreads'
  <1>1. Main # w /\ Main \in Thread /\ w \in Thread
    BY ThreadAssumption DEF Thread
  <1>2. pc'[w] = l /\ \A u \in Thread \ {w} : pc'[u] = pc[u] /\ task'[u] = task[u]
    BY <1>1, MovesTo
  <1>3. l \notin {"fills", "publish"}
    BY DEF Started
  <1>4. ASSUME NEW t \in Thread
        PROVE  /\ pc'[t] \in Started => task'[t] \in Request
               /\ result'[t].reports \in Seq(ExecutionReport)
               /\ pc'[t] \notin {"fills", "publish"} => result'[t] = NoResult
               /\ pc'[t] = "publish" => result'[t].reports # <<>>
    <2>1. CASE t = w
      BY <1>1, <1>2, <1>3, <2>1 DEF TellThreads
    <2>2. CASE t # w
      BY <1>2, <2>2 DEF TellThreads
    <2> QED BY <2>1, <2>2
  <1> QED BY <1>1, <1>2, <1>4 DEF TellThreads

\* A worker is left with the result r.
LEMMA TellResult ==
  ASSUME RecInv, TellThreads, NEW w \in Worker, NEW fs, NEW rs \in Seq(ExecutionReport),
         SetResult(w, [fills |-> fs, reports |-> rs]), tasks' = tasks,
         published' \in Seq(ExecutionReport), phase' = phase
  PROVE  /\ TellThreads' /\ result'[w].reports = rs
         /\ \A t \in Thread \ {w} : result'[t] = result[t] /\ pc'[t] = pc[t] /\ task'[t] = task[t]
         /\ pc'[w] \in {"fills", "publish", "idle"}
  <1>1. Main # w /\ Main \in Thread /\ w \in Thread
    BY ThreadAssumption DEF Thread
  <1>2. PICK r : r = [fills |-> fs, reports |-> rs]
    OBVIOUS
  <1>3. r.fills = fs /\ r.reports = rs
    BY <1>2
  <1>4. /\ result'[w] = r /\ pc'[w] = After(r)
        /\ \A t \in Thread \ {w} : result'[t] = result[t] /\ pc'[t] = pc[t] /\ task'[t] = task[t]
    BY <1>1, <1>2 DEF RecInv, ThreadsTyped, SetResult, Goto
  <1>5. /\ After(r) \in {"fills", "publish", "idle"} /\ (After(r) = "publish" => rs # <<>>)
        /\ After(r) = "idle" => fs = <<>> /\ rs = <<>>
    BY <1>3 DEF After
  <1>6. After(r) = "idle" => r = NoResult
    BY <1>2, <1>5 DEF NoResult
  <1>7. ASSUME NEW t \in Thread
        PROVE  /\ pc'[t] \in Started => task'[t] \in Request
               /\ result'[t].reports \in Seq(ExecutionReport)
               /\ pc'[t] \notin {"fills", "publish"} => result'[t] = NoResult
               /\ pc'[t] = "publish" => result'[t].reports # <<>>
    <2>1. CASE t = w
      BY <1>3, <1>4, <1>5, <1>6, <2>1 DEF Started
    <2>2. CASE t # w
      BY <1>4, <2>2 DEF TellThreads
    <2> QED BY <2>1, <2>2
  <1>8. TellThreads'
    BY <1>1, <1>4, <1>7 DEF TellThreads
  <1> QED BY <1>3, <1>4, <1>5, <1>8

\* Nothing is told or taken back.
LEMMA ToldSame ==
  ASSUME published' = published, books' = books, \A t \in Thread : result'[t].reports = result[t].reports
  PROVE  Told \subseteq Told'
  <1>1. \A r : IsTold(r) => IsTold(r)'
    BY DEF IsTold
  <1> QED BY <1>1 DEF Told

\* A book changes and keeps its reports.
LEMMA ToldBook ==
  ASSUME published' = published, result' = result, NEW s, NEW c, Updated(s, c), Good(c),
         s \in DOMAIN books => Keeps(books[s], c)
  PROVE  Told \subseteq Told' /\ ResultIn(c, Told')
  <1>1. /\ DOMAIN books' = DOMAIN books \cup {s} /\ books'[s] = c
        /\ \A x \in DOMAIN books \ {s} : books'[x] = books[x]
    BY DEF Updated
  <1>2. ASSUME NEW x \in DOMAIN books, NEW k \in DOMAIN books[x].reports
        PROVE  \E j \in DOMAIN books'[x].reports : books'[x].reports[j] = books[x].reports[k]
    <2>1. CASE x = s
      BY <1>1, <1>2, <2>1 DEF Keeps
    <2>2. CASE x # s
      BY <1>1, <1>2, <2>2
    <2> QED BY <2>1, <2>2
  <1>3. ASSUME NEW r, IsTold(r) PROVE IsTold(r)'
    <2>1. CASE \E x \in DOMAIN books : \E k \in DOMAIN books[x].reports : books[x].reports[k] = r
      <3>1. PICK x \in DOMAIN books : \E k \in DOMAIN books[x].reports : books[x].reports[k] = r
        BY <2>1
      <3>2. x \in DOMAIN books' /\ \E j \in DOMAIN books'[x].reports : books'[x].reports[j] = r
        BY <1>1, <1>2, <3>1
      <3> QED BY <3>2 DEF IsTold
    <2>2. CASE ~ \E x \in DOMAIN books : \E k \in DOMAIN books[x].reports : books[x].reports[k] = r
      BY <1>3, <2>2 DEF IsTold
    <2> QED BY <2>1, <2>2
  <1>4. ASSUME NEW i \in DOMAIN c.reports PROVE c.reports[i] \in Told'
    <2>1. c.reports[i] \in ExecutionReport
      BY <1>4 DEF Good, BookTyped
    <2>2. IsTold(c.reports[i])'
      BY <1>1, <1>4 DEF IsTold
    <2> QED BY <2>1, <2>2 DEF Told
  <1>5. Told \subseteq Told'
    BY <1>3 DEF Told
  <1> QED BY <1>4, <1>5 DEF ResultIn

\* The result of a call is handed over to the thread that made it.
LEMMA ToldResult ==
  ASSUME published' = published, NEW w \in Thread, result[w] = NoResult,
         \A t \in Thread \ {w} : result'[t] = result[t],
         NEW s \in DOMAIN books, NEW c, Updated(s, c), NEW d, Good(d), Keeps(books[s], d), result'[w].reports = d.reports
  PROVE  Told \subseteq Told' /\ ResultIn(d, Told')
  <1>1. /\ DOMAIN books' = DOMAIN books \cup {s}
        /\ \A x \in DOMAIN books \ {s} : books'[x] = books[x]
    BY DEF Updated
  <1>2. \A t \in Thread : \A k \in DOMAIN result[t].reports : t # w /\ result'[t] = result[t]
    BY DEF NoResult
  <1>3. ASSUME NEW r, IsTold(r) PROVE IsTold(r)'
    <2>1. ASSUME NEW x \in DOMAIN books, NEW k \in DOMAIN books[x].reports, books[x].reports[k] = r
          PROVE  IsTold(r)'
      <3>1. CASE x = s
        <4>1. PICK j \in DOMAIN d.reports : d.reports[j] = r
          BY <2>1, <3>1 DEF Keeps
        <4>2. \E i \in DOMAIN result'[w].reports : result'[w].reports[i] = r
          BY <4>1
        <4> QED BY <4>2 DEF IsTold
      <3>2. CASE x # s
        <4>1. x \in DOMAIN books' /\ books'[x] = books[x]
          BY <1>1, <3>2
        <4> QED BY <2>1, <4>1 DEF IsTold
      <3> QED BY <3>1, <3>2
    <2>2. ASSUME NEW t \in Thread, NEW k \in DOMAIN result[t].reports, result[t].reports[k] = r
          PROVE  IsTold(r)'
      <3>1. result'[t] = result[t]
        BY <1>2, <2>2
      <3> QED BY <2>2, <3>1 DEF IsTold
    <2>3. CASE \E k \in DOMAIN published : published[k] = r
      BY <2>3 DEF IsTold
    <2> QED BY <1>3, <2>1, <2>2, <2>3 DEF IsTold
  <1>4. ASSUME NEW i \in DOMAIN d.reports PROVE d.reports[i] \in Told'
    <2>1. d.reports[i] \in ExecutionReport
      BY <1>4 DEF Good, BookTyped
    <2>2. IsTold(d.reports[i])'
      BY <1>4 DEF IsTold
    <2> QED BY <2>1, <2>2 DEF Told
  <1>5. Told \subseteq Told'
    BY <1>3 DEF Told
  <1> QED BY <1>4, <1>5 DEF ResultIn

\* The first report of a result is published.
LEMMA ToldPublished ==
  ASSUME published \in Seq(ExecutionReport), NEW w \in Thread, NEW rs \in Seq(ExecutionReport), rs # <<>>,
         rs = result[w].reports, result'[w].reports = Tail(rs), published' = Append(published, Head(rs)),
         \A t \in Thread \ {w} : result'[t] = result[t], books' = books
  PROVE  Told \subseteq Told'
  <1>0. Len(rs) \in Nat /\ Len(published) \in Nat
    BY LenProperties
  <1>1. PICK n \in Nat, l \in Nat : n = Len(rs) /\ l = Len(published)
    BY ONLY <1>0
  <1>2. n >= 1
    BY <1>1, EmptySeq
  <1>3. PICK h, tl, p : h = Head(rs) /\ tl = Tail(rs) /\ p = published'
    OBVIOUS
  <1>4. /\ h \in ExecutionReport /\ h = rs[1] /\ tl \in Seq(ExecutionReport) /\ Len(tl) = n - 1
        /\ \A i \in 1..(n - 1) : tl[i] = rs[i + 1]
    BY <1>1, <1>2, <1>3, HeadTailProperties
  <1>5. p = Append(published, h)
    BY <1>3
  <1>6. /\ DOMAIN p = 1..(l + 1) /\ p[l + 1] = h /\ DOMAIN published = 1..l
        /\ \A k \in 1..l : p[k] = published[k]
    BY <1>1, <1>4, <1>5
  <1>7. DOMAIN rs = 1..n /\ DOMAIN tl = 1..(n - 1) /\ l + 1 \in 1..(l + 1) /\ 1..l \subseteq 1..(l + 1)
    BY <1>1, <1>2, <1>4
  <1>8. ASSUME NEW r, IsTold(r) PROVE IsTold(r)'
    <2>1. CASE \E k \in DOMAIN published : published[k] = r
      <3>1. \E k \in DOMAIN p : p[k] = r
        BY <1>6, <1>7, <2>1
      <3> QED BY <1>3, <3>1 DEF IsTold
    <2>2. ASSUME NEW k \in 1..n, rs[k] = r PROVE IsTold(r)'
      <3>1. CASE k = 1
        <4>1. \E i \in DOMAIN p : p[i] = r
          BY <1>4, <1>6, <1>7, <2>2, <3>1
        <4> QED BY <1>3, <4>1 DEF IsTold
      <3>2. CASE k # 1
        <4>1. k - 1 \in 1..(n - 1) /\ (k - 1) + 1 = k
          BY <1>1, <1>2, <3>2
        <4>2. \E i \in DOMAIN tl : tl[i] = r
          BY <1>4, <1>7, <2>2, <4>1
        <4>3. result'[w].reports = tl
          BY <1>3
        <4> QED BY <4>2, <4>3 DEF IsTold
      <3> QED BY <3>1, <3>2
    <2>3. ASSUME NEW t \in Thread, NEW k \in DOMAIN result[t].reports, result[t].reports[k] = r
          PROVE  IsTold(r)'
      <3>1. CASE t = w
        BY <1>7, <2>2, <2>3, <3>1
      <3>2. CASE t # w
        <4>1. result'[t] = result[t]
          BY <3>2
        <4> QED BY <2>3, <4>1 DEF IsTold
      <3> QED BY <3>1, <3>2
    <2>4. CASE \E x \in DOMAIN books : \E k \in DOMAIN books[x].reports : books[x].reports[k] = r
      BY <2>4 DEF IsTold
    <2> QED BY <1>8, <2>1, <2>3, <2>4 DEF IsTold
  <1> QED BY <1>8 DEF Told
-----------------------------------------------------------------------------
(* The steps, as far as the reports go. *)

\* A request is taken.
LEMMA TellDequeue ==
  ASSUME RecInv, Telling, NEW w \in Worker, Dequeue(w), UNCHANGED recoveryVars
  PROVE  Telling'
  <1>1. w \in Thread /\ pc[w] = "idle" /\ tasks \in Seq(Request) /\ tasks # <<>>
    BY DEF Thread, Dequeue, Telling, TellThreads
  <1>2. Head(tasks) \in Request /\ Tail(tasks) \in Seq(Request)
    BY <1>1, HeadTailProperties
  <1>3. /\ Moves(w, "get") /\ task'[w] = Head(tasks) /\ tasks' = Tail(tasks)
        /\ UNCHANGED <<result, books, log, published, phase>>
    BY <1>1 DEF Dequeue, Moves, Goto, bookVars, logVars, recoveryVars, RecInv, ThreadsTyped
  <1>4. TellThreads'
    BY <1>1, <1>2, <1>3, TellGoes DEF Telling, Started
  <1>5. pc'[w] = "get" /\ \A u \in Thread \ {w} : pc'[u] = pc[u] /\ task'[u] = task[u]
    BY <1>1, <1>3, MovesTo
  <1>6. /\ \A t \in Thread : \A x : Inside(t, x) => Inside(t, x)'
        /\ \A t \in Thread : \A x, id : Submits(t, x, id) => Submits(t, x, id)'
    BY <1>1, <1>5 DEF Inside, Submits
  <1>7. PICK R, S : R = Told /\ S = Told'
    OBVIOUS
  <1>8. R \subseteq S
    BY <1>3, <1>7, ToldSame
  <1> QED BY <1>3, <1>4, <1>6, <1>7, <1>8, TellQuietStep

\* The book is found, or made with nothing to tell of.
LEMMA TellGet ==
  ASSUME RecInv, Telling, NEW w \in Worker, get_order_book(w), UNCHANGED recoveryVars
  PROVE  Telling'
  <1>1. w \in Thread /\ pc[w] = "get" /\ task[w] \in Request
    BY DEF Thread, get_order_book, Telling, TellThreads, Started
  <1>2. PICK s, c : s = task[w].symbol /\ c = BookOf(s)
    OBVIOUS
  <1>3. Updated(s, c)
    BY <1>2, PutUpdated DEF get_order_book
  <1>4. Moves(w, "lock") /\ UNCHANGED <<tasks, task, result, log, published, phase>>
    BY DEF get_order_book, Moves, Goto, logVars, recoveryVars
  <1>5. TellThreads'
    BY <1>1, <1>4, TellGoes DEF Telling, TellThreads, Started
  <1>6. pc'[w] = "lock" /\ \A u \in Thread \ {w} : pc'[u] = pc[u] /\ task'[u] = task[u]
    BY <1>1, <1>4, MovesTo
  <1>7. /\ \A t \in Thread : \A x : Inside(t, x) <=> Inside(t, x)'
        /\ \A t \in Thread : \A x, id : Submits(t, x, id) => Submits(t, x, id)'
    BY <1>1, <1>6 DEF Inside, Submits
  <1>8. PICK R, S : R = Told /\ S = Told'
    OBVIOUS
  <1>9. Good(c)
    BY <1>2, BookOfGood DEF RecInv
  <1>10. R \subseteq S
    <2>1. s \in DOMAIN books => Keeps(books[s], c)
      BY <1>2 DEF BookOf, Keeps
    <2> QED BY <1>3, <1>4, <1>8, <1>9, <2>1, ToldBook
  <1>11. /\ BookTells(c, S) /\ (s \in DOMAIN books => Onward(books[s], R, c, S))
         /\ (\A t \in Thread : ~Inside(t, s)') => c.incoming = NoOrder /\ c.reports = <<>>
    <2>1. CASE s \in DOMAIN books
      <3>1. c = books[s] /\ BookTells(c, R)
        BY <1>2, <1>8, <2>1 DEF BookOf, Telling, TellBooks
      <3>2. BookTells(c, S) /\ \A id : Knows(c, R, id) => Knows(c, S, id)
        BY <1>10, <3>1, TellsMore
      <3>3. (\A t \in Thread : ~Inside(t, s)) => c.incoming = NoOrder /\ c.reports = <<>>
        BY <2>1, <3>1 DEF Telling, TellBooks
      <3> QED BY <1>7, <3>1, <3>2, <3>3 DEF Onward
    <2>2. CASE s \notin DOMAIN books
      <3>1. c.incoming = NoOrder /\ c.reports = <<>> /\ DOMAIN c.heap = {}
        BY <1>2, <2>2 DEF BookOf, EmptyBook, EmptyMap
      <3> QED BY <2>2, <3>1 DEF BookTells
    <2> QED BY <2>1, <2>2
  <1> QED BY <1>3, <1>4, <1>5, <1>7, <1>8, <1>10, <1>11, TellBookStep

\* The mutex is taken.
LEMMA TellLock ==
  ASSUME RecInv, Telling, NEW w \in Worker, Lock(w), UNCHANGED recoveryVars
  PROVE  Telling'
  <1>1. w \in Thread /\ pc[w] = "lock" /\ task[w] \in Request
    BY DEF Thread, Lock, Telling, TellThreads, Started
  <1>2. Moves(w, "log") /\ UNCHANGED <<tasks, task, result, books, log, published, phase>>
    BY DEF Lock, Moves, Goto, bookVars, logVars, recoveryVars
  <1>3. TellThreads'
    BY <1>1, <1>2, TellGoes DEF Telling, TellThreads, Started
  <1>4. pc'[w] = "log" /\ \A u \in Thread \ {w} : pc'[u] = pc[u] /\ task'[u] = task[u]
    BY <1>1, <1>2, MovesTo
  <1>5. /\ \A t \in Thread : \A x : Inside(t, x) => Inside(t, x)'
        /\ \A t \in Thread : \A x, id : Submits(t, x, id) => Submits(t, x, id)'
    BY <1>1, <1>4 DEF Inside, Submits
  <1>6. PICK R, S : R = Told /\ S = Told'
    OBVIOUS
  <1>7. R \subseteq S
    BY <1>2, <1>6, ToldSame
  <1> QED BY <1>2, <1>3, <1>5, <1>6, <1>7, TellQuietStep

\* What the log gets is in front of it or at its end.
LEMMA AppendedLog ==
  ASSUME RecInv, NEW e \in Entry, log' = Append(log, e), NEW i \in DOMAIN log'
  PROVE  (\E j \in DOMAIN log : log'[i] = log[j]) \/ log'[i] = e
  <1>1. PICK n \in Nat : n = Len(log) /\ log \in Seq(Entry)
    BY DEF RecInv, LogTyped
  <1>2. PICK m : m = log'
    OBVIOUS
  <1>3. m = Append(log, e) /\ i \in DOMAIN m
    BY <1>2
  <1>4. DOMAIN m = 1..(n + 1) /\ DOMAIN log = 1..n /\ m[n + 1] = e /\ \A k \in 1..n : m[k] = log[k]
    BY <1>1, <1>3
  <1>5. i \in 1..n \/ i = n + 1
    BY <1>1, <1>3, <1>4
  <1> QED BY <1>2, <1>4, <1>5

\* The request is logged by the thread that is going to carry it out.
LEMMA TellLogRequest ==
  ASSUME RecInv, Telling, NEW w \in Worker, LogRequest(w), UNCHANGED recoveryVars
  PROVE  Telling'
  <1>1. w \in Thread /\ pc[w] = "log" /\ task[w] \in Request /\ task[w] \in Command /\ task[w].symbol \in DOMAIN books
    BY DEF Thread, LogRequest, Telling, TellThreads, Started, Found, RecInv, ThreadsTyped
  <1>2. PICK e : e = RequestEntry(task[w])
    OBVIOUS
  <1>3. /\ Moves(w, "call") /\ log' = Append(log, e)
        /\ UNCHANGED <<tasks, task, result, books, published, phase>>
    BY <1>2 DEF LogRequest, Moves, Goto, recoveryVars
  <1>4. TellThreads'
    BY <1>1, <1>3, TellGoes DEF Telling, TellThreads, Started
  <1>5. pc'[w] = "call" /\ \A u \in Thread \ {w} : pc'[u] = pc[u] /\ task'[u] = task[u]
    BY <1>1, <1>3, MovesTo
  <1>6. /\ \A t \in Thread : \A x : Inside(t, x) => Inside(t, x)'
        /\ \A t \in Thread : \A x, id : Submits(t, x, id) => Submits(t, x, id)'
    BY <1>1, <1>5 DEF Inside, Submits
  <1>7. PICK R, S : R = Told /\ S = Told'
    OBVIOUS
  <1>8. R \subseteq S
    BY <1>3, <1>7, ToldSame
  <1>9. e \in Entry /\ e.type = task[w].type /\ e.symbol = task[w].symbol /\ e.order_id = task[w].order_id
    BY <1>1, <1>2, EntryFields DEF Entry
  <1>10. PICK x, id : x \in DOMAIN books /\ x = e.symbol /\ id = e.order_id
    BY <1>1, <1>9
  <1>11. e.type = "Submit" => Submits(w, x, id)'
    BY <1>3, <1>5, <1>9, <1>10 DEF Submits
  <1>12. \A i \in DOMAIN log' : log'[i].type = "Submit" =>
            \/ \E j \in DOMAIN log : log'[i] = log[j]
            \/ \E t \in Thread, y \in DOMAIN books : \E d :
                  y = log'[i].symbol /\ d = log'[i].order_id /\ Submits(t, y, d)'
    <2>1. ASSUME NEW i \in DOMAIN log', log'[i].type = "Submit", log'[i] = e
          PROVE  x = log'[i].symbol /\ id = log'[i].order_id /\ Submits(w, x, id)'
      BY <1>10, <1>11, <2>1
    <2> QED BY <1>1, <1>3, <1>9, <1>10, <2>1, AppendedLog
  <1> QED BY <1>3, <1>4, <1>6, <1>7, <1>8, <1>12, TellQuietStep

\* The call begins, on a book nobody is inside of.
LEMMA TellCall ==
  ASSUME RecInv, Exclusive, AllAsk, Telling, NEW w \in Worker, Call(w), UNCHANGED recoveryVars
  PROVE  Telling'
  <1>1. /\ w \in Thread /\ pc[w] = "call" /\ task[w] \in Request /\ task[w] \in Command
        /\ task[w].symbol \in DOMAIN books
    BY DEF Thread, Call, Telling, TellThreads, Started, Found, RecInv, ThreadsTyped
  <1>2. PICK s \in DOMAIN books : s = task[w].symbol
    BY <1>1
  <1>3. PICK q \in Command : q = task[w] /\ Asks(q)
    BY <1>1 DEF AllAsk
  <1>4. PICK b, c : b = books[s] /\ c = Begin(b, q)
    OBVIOUS
  <1>5. /\ books' = [books EXCEPT ![s] = c] /\ Moves(w, "match")
        /\ UNCHANGED <<tasks, task, result, log, published, phase>>
    BY <1>2, <1>3, <1>4 DEF Call, Moves, Goto, logVars, recoveryVars
  <1>6. Updated(s, c)
    BY <1>5, ExceptUpdated DEF RecInv
  <1>7. Good(b) /\ Good(c)
    BY <1>2, <1>3, <1>4, BeginKept DEF RecInv, BooksGood
  <1>8. PICK R, S : R = Told /\ S = Told'
    OBVIOUS
  <1>9. R \subseteq S /\ ResultIn(c, S)
    <2>1. Keeps(books[s], c)
      BY <1>3, <1>4, <1>7, BeginKeeps
    <2> QED BY <1>5, <1>6, <1>7, <1>8, <2>1, ToldBook
  <1>10. \A t \in Thread : ~Inside(t, s)
    BY <1>1, <1>2 DEF Exclusive, Holds, Inside
  <1>11. b.incoming = NoOrder /\ BookTells(b, R)
    BY <1>2, <1>4, <1>8, <1>10 DEF Telling, TellBooks
  <1>12. Onward(b, R, c, S) /\ (q.type = "Submit" => Knows(c, S, q.order_id))
    BY <1>3, <1>4, <1>7, <1>9, <1>11, BeginTells
  <1>13. BookTells(c, S) /\ Onward(books[s], R, c, S)
    BY <1>4, <1>12 DEF Onward
  <1>14. TellThreads'
    BY <1>1, <1>5, TellGoes DEF Telling, TellThreads, Started
  <1>15. pc'[w] = "match" /\ \A u \in Thread \ {w} : pc'[u] = pc[u] /\ task'[u] = task[u]
    BY <1>1, <1>5, MovesTo
  <1>16. Inside(w, s)' /\ \A t \in Thread : \A x : Inside(t, x) => Inside(t, x)'
    BY <1>1, <1>2, <1>5, <1>15 DEF Inside
  <1>17. \A t \in Thread : \A x, id : Submits(t, x, id) => Submits(t, x, id)' \/ (x = s /\ Knows(c, S, id))
    <2>1. ASSUME NEW t \in Thread, NEW x, NEW id, Submits(t, x, id)
          PROVE  Submits(t, x, id)' \/ (x = s /\ Knows(c, S, id))
      <3>1. CASE t = w
        BY <1>2, <1>3, <1>12, <2>1, <3>1 DEF Submits
      <3>2. CASE t # w
        BY <1>15, <2>1, <3>2 DEF Submits
      <3> QED BY <3>1, <3>2
    <2> QED BY <2>1
  <1> QED BY <1>1, <1>5, <1>6, <1>8, <1>9, <1>13, <1>14, <1>16, <1>17, TellBookStep

\* One iteration of the matching loop.
LEMMA TellMatch ==
  ASSUME RecInv, Telling, NEW w \in Worker, Match(w), UNCHANGED recoveryVars
  PROVE  Telling'
  <1>1. /\ w \in Thread /\ pc[w] = "match" /\ task[w].symbol \in DOMAIN books /\ counter \in Nat
    BY DEF Thread, Match, Found, RecInv, ThreadsTyped, Numbered
  <1>2. PICK s \in DOMAIN books : s = task[w].symbol
    BY <1>1
  <1>3. PICK b, c : b = books[s] /\ c = MatchOnce(b, counter)
    OBVIOUS
  <1>4. /\ books' = [books EXCEPT ![s] = c] /\ Matching(b)
        /\ UNCHANGED <<tasks, pc, task, result, log, published, phase>>
    BY <1>2, <1>3 DEF Match, threadVars, logVars, recoveryVars
  <1>5. Updated(s, c)
    BY <1>4, ExceptUpdated DEF RecInv
  <1>6. Good(b)
    BY <1>3 DEF RecInv, BooksGood
  <1>7. Good(c)
    BY <1>1, <1>3, <1>4, <1>6, MatchKept
  <1>8. PICK R, S : R = Told /\ S = Told'
    OBVIOUS
  <1>9. R \subseteq S /\ ResultIn(c, S)
    <2>1. PICK T : ResultIn(c, T)
      <3>1. ResultIn(c, {c.reports[i] : i \in DOMAIN c.reports})
        BY DEF ResultIn
      <3> QED BY <3>1
    <2>2. Keeps(books[s], c)
      BY <1>1, <1>3, <1>4, <1>6, <2>1, TradeTells
    <2> QED BY <1>4, <1>5, <1>7, <1>8, <2>2, ToldBook
  <1>10. BookTells(b, R)
    BY <1>2, <1>3, <1>8 DEF Telling, TellBooks
  <1>11. Onward(books[s], R, c, S) /\ BookTells(c, S)
    <2>1. Onward(b, R, c, S)
      BY <1>1, <1>3, <1>4, <1>6, <1>9, <1>10, MatchTells
    <2> QED BY <1>3, <2>1 DEF Onward
  <1>12. TellThreads'
    BY <1>4 DEF Telling, TellThreads
  <1>13. Inside(w, s)'
    BY <1>1, <1>2, <1>4 DEF Inside
  <1>14. /\ \A t \in Thread : \A x : Inside(t, x) => Inside(t, x)'
         /\ \A t \in Thread : \A x, id : Submits(t, x, id) => Submits(t, x, id)'
    BY <1>4 DEF Inside, Submits
  <1> QED BY <1>1, <1>4, <1>5, <1>8, <1>9, <1>11, <1>12, <1>13, <1>14, TellBookStep

\* The call ends and hands its reports over.
LEMMA TellLeave ==
  ASSUME RecInv, Telling, NEW w \in Worker, Leave(w), UNCHANGED recoveryVars
  PROVE  Telling'
  <1>1. /\ w \in Thread /\ w # Main /\ pc[w] = "match" /\ task[w].symbol \in DOMAIN books /\ result[w] = NoResult
    BY ThreadAssumption DEF Thread, Leave, Found, RecInv, ThreadsTyped, Telling, TellThreads
  <1>2. PICK s \in DOMAIN books : s = task[w].symbol
    BY <1>1
  <1>3. PICK b, d, c : b = books[s] /\ d = Finish(b) /\ c = Cleared(d)
    OBVIOUS
  <1>4. PICK fs, rs : fs = d.fills /\ rs = d.reports
    OBVIOUS
  <1>5. /\ books' = [books EXCEPT ![s] = c] /\ SetResult(w, [fills |-> fs, reports |-> rs])
        /\ ~Matching(b) /\ Node \ DOMAIN b.heap # {}
        /\ UNCHANGED <<tasks, log, published, phase>>
    BY <1>1, <1>2, <1>3, <1>4 DEF Leave, Cleared, logVars, recoveryVars
  <1>6. Updated(s, c)
    BY <1>5, ExceptUpdated DEF RecInv
  <1>7. Good(b)
    BY <1>3 DEF RecInv, BooksGood
  <1>8. Good(d) /\ d.incoming = NoOrder
    BY <1>3, <1>5, <1>7, FinishKept
  <1>9. rs \in Seq(ExecutionReport)
    BY <1>4, <1>8 DEF Good, BookTyped
  <1>10. /\ TellThreads' /\ result'[w].reports = rs
         /\ \A t \in Thread \ {w} : result'[t] = result[t] /\ pc'[t] = pc[t] /\ task'[t] = task[t]
         /\ pc'[w] \in {"fills", "publish", "idle"}
    <2>1. published' \in Seq(ExecutionReport) /\ TellThreads
      BY <1>5 DEF Telling, TellThreads
    <2> QED BY <1>5, <1>9, <2>1, TellResult
  <1>11. PICK R, S : R = Told /\ S = Told'
    OBVIOUS
  <1>12. BookTells(b, R)
    BY <1>2, <1>3, <1>11 DEF Telling, TellBooks
  <1>13. Keeps(b, d)
    <2>1. PICK T : T = R \cup {d.reports[i] : i \in DOMAIN d.reports}
      OBVIOUS
    <2>2. R \subseteq T /\ ResultIn(d, T)
      BY <2>1 DEF ResultIn
    <2> QED BY <1>3, <1>7, <1>12, <2>2, FinishTells
  <1>14. R \subseteq S /\ ResultIn(d, S)
    BY <1>1, <1>3, <1>4, <1>5, <1>6, <1>8, <1>10, <1>11, <1>13, ToldResult
  <1>15. Onward(b, R, d, S)
    BY <1>3, <1>7, <1>12, <1>14, FinishTells
  <1>16. Onward(b, R, c, S) /\ c.incoming = NoOrder /\ c.reports = <<>>
    BY <1>3, <1>8, <1>15, ClearTells
  <1>17. BookTells(c, S) /\ Onward(books[s], R, c, S)
    BY <1>3, <1>16 DEF Onward
  <1>18. \A x \in DOMAIN books \ {s} : \A t \in Thread : Inside(t, x) => Inside(t, x)'
    BY <1>2, <1>10 DEF Inside
  <1>19. \A t \in Thread : \A x, id : Submits(t, x, id) => Submits(t, x, id)'
    BY <1>1, <1>10 DEF Submits
  <1> QED BY <1>5, <1>6, <1>10, <1>11, <1>14, <1>16, <1>17, <1>18, <1>19, TellBookStep

\* A fill is logged: the reports wait.
LEMMA TellLogFill ==
  ASSUME RecInv, Telling, NEW w \in Worker, LogFill(w), UNCHANGED recoveryVars
  PROVE  Telling'
  <1>1. w \in Thread /\ pc[w] = "fills" /\ TellThreads
    BY DEF Thread, LogFill, Telling
  <1>2. PICK fs \in Seq(Fill) : fs = result[w].fills /\ fs # <<>>
    BY <1>1 DEF RecInv, ThreadsTyped
  <1>3. PICK rs \in Seq(ExecutionReport) : rs = result[w].reports
    BY <1>1 DEF TellThreads
  <1>4. PICK ts, e : ts = Tail(fs) /\ e = FillEntry(Head(fs))
    OBVIOUS
  <1>5. Head(fs) \in Fill
    BY <1>2, HeadTailProperties
  <1>6. e \in Entry /\ e.type = "Fill"
    BY <1>4, <1>5 DEF Entry, FillEntry
  <1>7. result[w] = [fills |-> fs, reports |-> rs]
    BY <1>1, <1>2, <1>3 DEF RecInv, ThreadsTyped
  <1>8. [result[w] EXCEPT !.fills = Tail(@)] = [fills |-> ts, reports |-> rs]
    <2>1. [result[w] EXCEPT !.fills = Tail(@)] = [result[w] EXCEPT !.fills = ts]
      BY <1>2, <1>4, <1>7
    <2> QED BY <1>7, <2>1
  <1>9. /\ SetResult(w, [fills |-> ts, reports |-> rs]) /\ log' = Append(log, e)
        /\ UNCHANGED <<tasks, books, published, phase>>
    BY <1>2, <1>4, <1>8 DEF LogFill, recoveryVars
  <1>10. /\ TellThreads' /\ result'[w].reports = rs
         /\ \A t \in Thread \ {w} : result'[t] = result[t] /\ pc'[t] = pc[t] /\ task'[t] = task[t]
         /\ pc'[w] \in {"fills", "publish", "idle"}
    <2>1. published' \in Seq(ExecutionReport)
      BY <1>1, <1>9 DEF TellThreads
    <2> QED BY <1>1, <1>9, <2>1, TellResult
  <1>11. PICK R, S : R = Told /\ S = Told'
    OBVIOUS
  <1>12. R \subseteq S
    BY <1>3, <1>9, <1>10, <1>11, ToldSame
  <1>13. /\ \A t \in Thread : \A x : Inside(t, x) => Inside(t, x)'
         /\ \A t \in Thread : \A x, id : Submits(t, x, id) => Submits(t, x, id)'
    BY <1>1, <1>10 DEF Inside, Submits
  <1>14. \A i \in DOMAIN log' : log'[i].type = "Submit" => \E j \in DOMAIN log : log'[i] = log[j]
    BY <1>6, <1>9, AppendedLog
  <1> QED BY <1>9, <1>10, <1>11, <1>12, <1>13, <1>14, TellQuietStep

\* A report is published.
LEMMA TellPublish ==
  ASSUME RecInv, Telling, NEW w \in Worker, Publish(w), UNCHANGED recoveryVars
  PROVE  Telling'
  <1>1. w \in Thread /\ pc[w] = "publish" /\ TellThreads /\ published \in Seq(ExecutionReport)
    BY DEF Thread, Publish, Telling, TellThreads
  <1>2. PICK fs : fs = result[w].fills
    OBVIOUS
  <1>3. PICK rs \in Seq(ExecutionReport) : rs = result[w].reports /\ rs # <<>>
    BY <1>1 DEF TellThreads
  <1>4. PICK ts : ts = Tail(rs)
    OBVIOUS
  <1>5. Head(rs) \in ExecutionReport /\ ts \in Seq(ExecutionReport)
    BY <1>3, <1>4, HeadTailProperties
  <1>6. result[w] = [fills |-> fs, reports |-> rs]
    BY <1>1, <1>2, <1>3 DEF RecInv, ThreadsTyped
  <1>7. [result[w] EXCEPT !.reports = Tail(@)] = [fills |-> fs, reports |-> ts]
    <2>1. [result[w] EXCEPT !.reports = Tail(@)] = [result[w] EXCEPT !.reports = ts]
      BY <1>3, <1>4, <1>6
    <2> QED BY <1>6, <2>1
  <1>8. /\ SetResult(w, [fills |-> fs, reports |-> ts]) /\ published' = Append(published, Head(rs))
        /\ UNCHANGED <<tasks, books, log, phase>>
    BY <1>3, <1>7 DEF Publish, bookVars, logVars, recoveryVars
  <1>9. published' \in Seq(ExecutionReport)
    BY <1>1, <1>5, <1>8
  <1>10. /\ TellThreads' /\ result'[w].reports = ts
         /\ \A t \in Thread \ {w} : result'[t] = result[t] /\ pc'[t] = pc[t] /\ task'[t] = task[t]
         /\ pc'[w] \in {"fills", "publish", "idle"}
    BY <1>1, <1>5, <1>8, <1>9, TellResult
  <1>11. PICK R, S : R = Told /\ S = Told'
    OBVIOUS
  <1>12. R \subseteq S
    BY <1>1, <1>3, <1>4, <1>8, <1>10, <1>11, ToldPublished
  <1>13. /\ \A t \in Thread : \A x : Inside(t, x) => Inside(t, x)'
         /\ \A t \in Thread : \A x, id : Submits(t, x, id) => Submits(t, x, id)'
    BY <1>1, <1>10 DEF Inside, Submits
  <1> QED BY <1>8, <1>10, <1>11, <1>12, <1>13, TellQuietStep

\* Nothing but the file changes, or nothing at all.
LEMMA TellSame ==
  ASSUME Telling, UNCHANGED <<tasks, pc, task, result, books, log, published, phase>>
  PROVE  Telling'
  <1>1. TellThreads'
    BY DEF Telling, TellThreads
  <1>2. PICK R, S : R = Told /\ S = Told'
    OBVIOUS
  <1>3. R \subseteq S
    BY <1>2, ToldSame
  <1>4. /\ \A t \in Thread : \A x : Inside(t, x) => Inside(t, x)'
        /\ \A t \in Thread : \A x, id : Submits(t, x, id) => Submits(t, x, id)'
    BY DEF Inside, Submits
  <1> QED BY <1>1, <1>2, <1>3, <1>4, TellQuietStep

\* Whatever a worker does.
LEMMA TellWorkers ==
  ASSUME RecInv, Exclusive, AllAsk, Telling, NEW w \in Worker, WorkerStep(w), UNCHANGED recoveryVars
  PROVE  Telling'
  BY TellDequeue, TellGet, TellLock, TellLogRequest, TellCall, TellMatch, TellLeave, TellLogFill, TellPublish
     DEF WorkerStep

\* Nothing has been told, and there is nothing to tell of.
LEMMA InitTell ==
  ASSUME RecoveryInit
  PROVE  TellInv
  <1>1. /\ Quiet /\ tasks \in Workload /\ books = EmptyMap /\ log = <<>> /\ published = <<>>
        /\ phase = "up" /\ crashes = 0
    BY DEF RecoveryInit, Init, Quiet
  <1>2. tasks \in Seq(Request)
    <2>1. tasks \in Seq(Command)
      BY <1>1, WorkloadAssumption
    <2>2. \A i \in 1..Len(tasks) : tasks[i] \in Request
      <3>1. \A i \in DOMAIN tasks : tasks[i] \in Range(tasks)
        BY DEF Range
      <3>2. DOMAIN tasks = 1..Len(tasks)
        BY <2>1
      <3> QED BY <1>1, <3>1, <3>2 DEF Request
    <2> QED BY <2>1, <2>2
  <1>3. \A t \in Thread : pc[t] = "idle" /\ result[t] = NoResult
    BY <1>1 DEF Quiet
  <1>4. Main \in Thread /\ "idle" \notin Started /\ published \in Seq(ExecutionReport)
    BY <1>1 DEF Thread, Started
  <1>5. NoResult.reports \in Seq(ExecutionReport)
    BY DEF NoResult
  <1>6. TellThreads
    BY <1>1, <1>2, <1>3, <1>4, <1>5 DEF TellThreads
  <1>7. TellBooks /\ TellLog
    BY <1>1 DEF TellBooks, TellLog, EmptyMap
  <1> QED BY <1>1, <1>6, <1>7 DEF TellInv, Telling
-----------------------------------------------------------------------------
(* The theorems. *)

\* RecInv is inductive: whatever the workers do, wherever the process ends and
\* whatever is replayed.
THEOREM RecoveryInvariant == Spec => []RecInv
  <1>1. RecoveryInit => RecInv
    BY InitRec
  <1>2. RecInv /\ [Next]_vars => RecInv'
    <2> SUFFICES ASSUME RecInv, [Next]_vars PROVE RecInv'
      OBVIOUS
    <2>1. CASE UNCHANGED vars
      BY <2>1, StutterStep
    <2>2. CASE phase = "up" /\ ((\E w \in Worker : WorkerStep(w)) \/ Flush) /\ UNCHANGED recoveryVars
      BY <2>2, WorkersStep, FlushStep
    <2>3. CASE ReplayStep
      <3>1. phase # "start" /\ Main \in Thread /\ UNCHANGED recoveryVars /\ (Match(Main) \/ Leave(Main))
        BY <2>3 DEF ReplayStep, Thread
      <3> QED BY <3>1, MatchStep, LeaveStep
    <2>4. CASE Crash \/ StartReplay \/ ReplayRead \/ ReplayEnd \/ Restart
      BY <2>4, CrashStep, StartReplayStep, ReplayReadStep, ReplayEndStep
    <2> QED BY <2>1, <2>2, <2>3, <2>4 DEF Next
  <1> QED BY <1>1, <1>2, PTL DEF Spec

\* TradeIDGenerator: no two trades of a life of the program have the same
\* number, those that replay made again included.
THEOREM NumbersUnique == Spec => []TradeIdsUnique
  <1>1. RecInv => TradeIdsUnique
    BY DEF RecInv, Numbered, Made, TradeIdsUnique
  <1> QED BY <1>1, RecoveryInvariant, PTL

\* What is in the log explains its fills: both orders were logged in front.
THEOREM LogExplains == Spec => []FillsExplained
  <1>1. RecInv => FillsExplained
    <2> SUFFICES ASSUME RecInv, Whole, NEW i \in DOMAIN log, log[i].type = "Fill",
                        NEW id \in {log[i].fill.buy_order_id, log[i].fill.sell_order_id}
                 PROVE  \E j \in 1..i - 1 : log[j].type = "Submit" /\ log[j].order_id = id
      BY DEF FillsExplained
    <2>1. PICK n \in Nat : n = Len(log) /\ DOMAIN log = 1..n
      BY DEF RecInv, LogTyped
    <2>2. i \in 1..n /\ log[i] # Torn
      BY <2>1 DEF Torn
    <2>3. Clean(log, i)
      BY <2>1, <2>2 DEF Whole, Clean
    <2>4. FillOver(log[i].fill, Submitted(log, i - 1))
      BY <2>1, <2>2, <2>3 DEF RecInv, LogExplained
    <2>5. id \in Submitted(log, i - 1)
      BY <2>4 DEF FillOver
    <2> QED BY <2>5 DEF Submitted
  <1> QED BY <1>1, RecoveryInvariant, PTL

\* The books agree with the history of the log in every life of the program.
THEOREM SerialInvariant == Spec => []SerialInv
  <1>1. RecoveryInit => SerialInv
    BY InitSerial
  <1>2. RecInv /\ SerialInv /\ [Next]_vars => SerialInv'
    <2> SUFFICES ASSUME RecInv, SerialInv, [Next]_vars PROVE SerialInv'
      OBVIOUS
    <2>1. CASE UNCHANGED vars
      BY <2>1, SerialStutter
    <2>2. CASE phase = "up" /\ ((\E w \in Worker : WorkerStep(w)) \/ Flush) /\ UNCHANGED recoveryVars
      BY <2>2, SerialWorkers, SerialFlush
    <2>3. CASE ReplayStep
      <3>1. phase # "start" /\ Main \in Thread /\ UNCHANGED recoveryVars /\ (Match(Main) \/ Leave(Main))
        BY <2>3 DEF ReplayStep, Thread
      <3> QED BY <3>1, SerialMatch, SerialLeave
    <2>4. CASE Crash \/ StartReplay \/ ReplayRead \/ ReplayEnd \/ Restart
      BY <2>4, SerialCrash, SerialStartReplay, SerialReplayRead, SerialReplayEnd, SerialRestart
    <2> QED BY <2>1, <2>2, <2>3, <2>4 DEF Next
  <1> QED BY <1>1, <1>2, RecoveryInvariant, PTL DEF Spec

\* OrderBook calls under book_mutex_: whatever the workers do on other books,
\* a book that is free holds what the calls in the log make of it, one after
\* the other in the order of the log.
THEOREM CallsSerial == Spec => []BooksSerial
  <1>1. RecInv /\ SerialInv => BooksSerial
    BY FreeBook DEF BooksSerial
  <1> QED BY <1>1, RecoveryInvariant, SerialInvariant, PTL

\* ReplayEngine::replay: the recovered books hold what the calls in the file
\* had made, or were going to make, of the original ones.
THEOREM ReplayRecovers == Spec => []RecoveredIsPast
  <1>1. RecInv /\ SerialInv => RecoveredIsPast
    <2> SUFFICES ASSUME RecInv, SerialInv, phase = "recovered", Whole, NEW s \in Symbol
                 PROVE  Content(BookOf(s)) = past[Len(log) + 1][s]
      BY DEF RecoveredIsPast
    <2>1. \A t \in Thread : ~Holds(t, s)
      BY NobodyHolds DEF SerialInv, Phases
    <2> QED BY <2>1, FreeBook
  <1> QED BY <1>1, RecoveryInvariant, SerialInvariant, PTL

\* Until the first crash TellInv is inductive, on what the other two say.
THEOREM TellInvariant ==
  ASSUME AllAsk
  PROVE  Spec => []TellInv
  <1>1. RecoveryInit => TellInv
    BY InitTell
  <1>2. RecInv /\ SerialInv /\ TellInv /\ [Next]_vars => TellInv'
    <2> SUFFICES ASSUME RecInv, SerialInv, TellInv, [Next]_vars PROVE TellInv'
      OBVIOUS
    <2>1. Exclusive
      BY DEF SerialInv
    <2>2. CASE UNCHANGED vars
      <3>1. UNCHANGED <<tasks, pc, task, result, books, log, published, phase, crashes>>
        BY <2>2 DEF vars, threadVars, bookVars, logVars, recoveryVars
      <3> QED BY <3>1, TellSame DEF TellInv
    <2>3. CASE phase = "up" /\ (\E w \in Worker : WorkerStep(w)) /\ UNCHANGED recoveryVars
      <3>1. crashes' = crashes
        BY <2>3 DEF recoveryVars
      <3> QED BY <2>1, <2>3, <3>1, TellWorkers DEF TellInv
    <2>4. CASE phase = "up" /\ Flush /\ UNCHANGED recoveryVars
      <3>1. UNCHANGED <<tasks, pc, task, result, books, log, published, phase, crashes>>
        BY <2>4 DEF Flush, threadVars, bookVars, recoveryVars
      <3> QED BY <3>1, TellSame DEF TellInv
    <2>5. CASE Crash
      BY <2>5 DEF Crash, TellInv
    <2>6. CASE StartReplay \/ ReplayRead \/ ReplayStep \/ ReplayEnd \/ Restart
      <3>1. phase # "up" /\ crashes' = crashes
        BY <2>6 DEF StartReplay, ReplayRead, ReplayStep, ReplayEnd, Restart, recoveryVars
      <3>2. crashes # 0
        BY <3>1 DEF TellInv, Telling, TellThreads
      <3> QED BY <3>1, <3>2 DEF TellInv
    <2> QED BY <2>2, <2>3, <2>4, <2>5, <2>6 DEF Next
  <1> QED BY <1>1, <1>2, RecoveryInvariant, SerialInvariant, PTL DEF Spec

\* ThreadPool::worker_loop publishes every report of every result: when all
\* is done each order of the log is where the reports say it is.
THEOREM ReportsAll ==
  ASSUME AllAsk
  PROVE  Spec => []ReportsComplete
  <1>1. RecInv /\ TellInv => ReportsComplete
    <2> SUFFICES ASSUME RecInv, TellInv, crashes = 0, \A w \in Worker : pc[w] = "idle",
                        NEW i \in DOMAIN log, log[i].type = "Submit",
                        NEW o, o = queryOrder(BookOf(log[i].symbol), log[i].order_id)
                 PROVE  \E k \in DOMAIN published :
                          /\ published[k].order_id = log[i].order_id
                          /\ IF o = NoOrder THEN published[k].status \in {"Filled", "Cancelled"}
                             ELSE published[k].remaining_quantity = o.remaining_quantity
      BY DEF ReportsComplete
    <2>1. Telling
      BY DEF TellInv
    <2>2. \A t \in Thread : pc[t] = "idle" /\ result[t] = NoResult
      BY <2>1 DEF Telling, TellThreads, Thread
    <2>3. \A s \in DOMAIN books : books[s].incoming = NoOrder /\ books[s].reports = <<>>
      BY <2>1, <2>2 DEF Telling, TellBooks, Inside
    <2>4. \A r \in Told : \E k \in DOMAIN published : published[k] = r
      BY <2>2, <2>3 DEF Told, IsTold, NoResult
    <2>5. PICK x, id : x = log[i].symbol /\ id = log[i].order_id
      OBVIOUS
    <2>6. x \in DOMAIN books /\ Knows(books[x], Told, id)
      BY <2>1, <2>2, <2>5 DEF Telling, TellLog, Submits
    <2>7. PICK b : b = books[x]
      OBVIOUS
    <2>8. BookOf(x) = b /\ Good(b) /\ BookTells(b, Told) /\ b.incoming = NoOrder
      BY <2>1, <2>3, <2>6, <2>7 DEF BookOf, RecInv, BooksGood, Telling, TellBooks
    <2>9. id \in DOMAIN b.index \/ Ended(Told, id)
      BY <2>6, <2>7, <2>8 DEF Knows
    <2>10. CASE id \in DOMAIN b.index
      <3>1. PICK n : n = b.index[id].position
        OBVIOUS
      <3>2. n \in DOMAIN b.heap /\ b.heap[n] \in Order /\ b.heap[n].order_id = id
        BY <2>8, <2>10, <3>1, EraseShape
      <3>3. o = b.heap[n]
        BY <2>5, <2>8, <2>10, <3>1 DEF queryOrder
      <3>4. o # NoOrder
        BY <3>2, <3>3, NoOrderAssumption
      <3>5. PICK r \in Told : r.order_id = id /\ r.remaining_quantity = o.remaining_quantity
        BY <2>8, <3>2, <3>3 DEF BookTells, Tells
      <3> QED BY <2>4, <2>5, <3>4, <3>5
    <2>11. CASE id \notin DOMAIN b.index
      <3>1. o = NoOrder
        BY <2>5, <2>8, <2>11 DEF queryOrder
      <3>2. PICK r \in Told : r.order_id = id /\ r.status \in {"Filled", "Cancelled"}
        BY <2>9, <2>11 DEF Ended
      <3> QED BY <2>4, <2>5, <3>1, <3>2
    <2> QED BY <2>10, <2>11
  <1> QED BY <1>1, RecoveryInvariant, TellInvariant, PTL
=============================================================================
