------------------------------ MODULE Exchange ------------------------------
(***************************************************************************)
(* The worker side of the exchange as a whole: ThreadPool::worker_loop     *)
(* (src/threadpool/thread_pool.cpp) on the books of a BookRegistry, with   *)
(* the one TradeIDGenerator, the write-ahead log and the report queue they *)
(* share.  A book call is the steps of OrderBook, under the mutex of its   *)
(* book; calls on different books interleave.  The log is the sequence of  *)
(* its entries in the order they were enqueued, of which the first durable *)
(* ones are in the file: what module WAL shows of it (FileIsPrefix).       *)
(* The trades, which go to a queue of their own and are dropped behind it  *)
(* (module ExecutionPipeline), are left out.                               *)
(***************************************************************************)
EXTENDS BookOps

CONSTANTS Worker,    \* the threads of the pool
          Main,      \* the thread that replays a log (module Recovery)
          Workload   \* sequences of requests: what clients may send

ASSUME ThreadAssumption == Main \notin Worker

\* There is only so much memory.
ASSUME NodeAssumption == IsFiniteSet(Node)

\* What process_packet makes of the three kinds of messages.
Submission == {r \in [type : {"Submit"}, symbol : Symbol, order_id : OrderId, order : Order] :
                  r.order.order_id = r.order_id /\ r.order.remaining_quantity = r.order.quantity}
Cancellation == [type : {"Cancel"}, symbol : Symbol, order_id : OrderId]
Modification == [type : {"Modify"}, symbol : Symbol, order_id : OrderId,
                 price : Price, quantity : Quantity, timestamp : Timestamp]
Command == Submission \cup Cancellation \cup Modification

\* An order that was read from a log has client 0.
ASSUME WorkloadAssumption == Workload \subseteq Seq(Command) /\ 0 \in Client

VARIABLES tasks,      \* the requests no worker has taken yet, in queue order
          pc,         \* what each thread is about to do
          task,       \* the request it works on
          result,     \* what is left to log and to publish of its MatchResult
          books,      \* books_: symbol -> book
          counter,    \* TradeIDGenerator::counter_
          log,        \* WAL: the entries in the order of the log_ calls
          durable,    \* how many of them are in the file
          published,  \* report_queue_, everything ever enqueued
          trades,     \* history: the fills made so far
          past        \* history: past[k + 1] is what the book of each symbol held, or is
                      \* going to hold, after the calls in the first k log entries

threadVars == <<tasks, pc, task, result>>
bookVars == <<books, counter, trades, past>>
logVars == <<log, durable>>

Thread == Worker \cup {Main}
NoTask == [type |-> "None", symbol |-> "None", order_id |-> 0]
NoResult == [fills |-> <<>>, reports |-> <<>>]
-----------------------------------------------------------------------------
(* A call on a book. *)

\* The book after the entry of submitOrder, cancelOrder or modifyOrder.
Begin(b, r) ==
    IF r.type = "Submit" THEN [b EXCEPT !.incoming = r.order]
    ELSE IF r.order_id \notin DOMAIN b.index THEN b
    ELSE IF r.type = "Cancel" THEN CancelFound(b, r.order_id)
    ELSE ModifyFound(b, r)

Matching(b) == b.incoming # NoOrder /\ CanMatch(b)

\* What submitOrderInternal does behind its loop.  Node addresses do not matter here.
Finish(b) ==
    IF b.incoming = NoOrder THEN b
    ELSE IF b.incoming.remaining_quantity = 0 THEN [b EXCEPT !.incoming = NoOrder]
    ELSE IF b.incoming.type = "Limit" THEN Rest(b, CHOOSE n \in Node : n \notin DOMAIN b.heap)
    ELSE Expire(b)

\* What the loop does without anybody else drawing trade ids: the iterations,
\* of which each empties a node or is the last.
Iterations(b) ==
    LET loop[k \in 0..Cardinality(Node) + 1] ==
            IF k = 0 THEN b
            ELSE IF Matching(loop[k - 1]) THEN MatchOnce(loop[k - 1], 0) ELSE loop[k - 1]
    IN  loop

\* The loop and what is behind it at once; the whole call at once.
Completed(b) == Finish(Iterations(b)[Cardinality(Node) + 1])
Outcome(b, r) == Completed(Begin(b, r))

\* What a book holds, as far as a log entry can tell: the orders of each level
\* without their addresses and clients.
Content(b) ==
    [s \in Side |-> [p \in DOMAIN b.orders[s] |->
        [i \in DOMAIN b.orders[s][p] |-> [b.heap[b.orders[s][p][i]] EXCEPT !.client_id = 0]]]]

BookOf(s) == IF s \in DOMAIN books THEN books[s] ELSE EmptyBook
-----------------------------------------------------------------------------
(* The log entries. *)

\* BinarySerializer::to_net keeps neither client nor remaining quantity.
\* Symbols have at most 7 characters and come through whole.
to_net(o) == Restrict(o, DOMAIN o \ {"client_id", "remaining_quantity"})

\* Mutant: the remaining quantity keeps its default.
from_netBare(n) ==
    [order_id |-> n.order_id, symbol |-> n.symbol, side |-> n.side, type |-> n.type,
     price |-> n.price, quantity |-> n.quantity, remaining_quantity |-> 0,
     timestamp |-> n.timestamp, client_id |-> 0]

\* BinarySerializer::from_net.  It keeps a side or type byte that is neither 0
\* nor 1, but every test in the code takes such a byte for Sell or Market, so
\* the two values of each stand for all.
from_net(n) ==
    [order_id |-> n.order_id, symbol |-> n.symbol, side |-> n.side, type |-> n.type,
     price |-> n.price, quantity |-> n.quantity, remaining_quantity |-> n.quantity,
     timestamp |-> n.timestamp, client_id |-> 0]

RequestEntry(r) == IF r.type = "Submit" THEN [r EXCEPT !.order = to_net(@)] ELSE r
FillEntry(f) == [type |-> "Fill", fill |-> f]
-----------------------------------------------------------------------------
Init ==
    /\ tasks \in Workload
    /\ pc = [t \in Thread |-> "idle"]
    /\ task = [t \in Thread |-> NoTask] /\ result = [t \in Thread |-> NoResult]
    /\ books = EmptyMap /\ counter = 1
    /\ log = <<>> /\ durable = 0 /\ published = <<>>
    /\ trades = {} /\ past = <<[s \in Symbol |-> Content(EmptyBook)]>>

Goto(t, label) == pc' = [pc EXCEPT ![t] = label]

\* task_queue_.dequeue().
Dequeue(w) ==
    /\ pc[w] = "idle" /\ tasks # <<>>
    /\ task' = [task EXCEPT ![w] = Head(tasks)] /\ tasks' = Tail(tasks)
    /\ Goto(w, "get")
    /\ UNCHANGED <<result, bookVars, logVars, published>>

\* BookRegistry::get_order_book: the book is made when it is first asked for.
get_order_book(w) ==
    /\ pc[w] = "get"
    /\ books' = Put(books, task[w].symbol, BookOf(task[w].symbol))
    /\ Goto(w, "lock")
    /\ UNCHANGED <<tasks, task, result, counter, trades, past, logVars, published>>

\* Thread t is inside a call on the book of symbol s.
Holds(t, s) == pc[t] \in {"log", "call", "match"} /\ task[t].symbol = s

\* Mutant: no lock_guard.
LockFree(w) ==
    /\ pc[w] = "lock"
    /\ Goto(w, "log")
    /\ UNCHANGED <<tasks, task, result, bookVars, logVars, published>>

\* lock_guard on book_mutex_.
Lock(w) ==
    /\ pc[w] = "lock"
    /\ \A t \in Thread : ~Holds(t, task[w].symbol)
    /\ Goto(w, "log")
    /\ UNCHANGED <<tasks, task, result, bookVars, logVars, published>>

\* The history notes what the call that begins is going to make of the book.
Foresee(w) ==
    LET s == task[w].symbol
    IN  past' = Append(past, [past[Len(past)] EXCEPT ![s] = Content(Outcome(books[s], task[w]))])

\* Mutant: orders that never rest are not logged.
LogLimitOnly(w) ==
    /\ pc[w] = "log"
    /\ IF task[w].type = "Submit" /\ task[w].order.type = "Market" THEN UNCHANGED <<log, past>>
       ELSE log' = Append(log, RequestEntry(task[w])) /\ Foresee(w)
    /\ Goto(w, "call")
    /\ UNCHANGED <<tasks, task, result, books, counter, trades, durable, published>>

\* log_action, called by the book under its mutex.
LogRequest(w) ==
    /\ pc[w] = "log" /\ Foresee(w)
    /\ log' = Append(log, RequestEntry(task[w]))
    /\ Goto(w, "call")
    /\ UNCHANGED <<tasks, task, result, books, counter, trades, durable, published>>

Call(w) ==
    /\ pc[w] = "call"
    /\ books' = [books EXCEPT ![task[w].symbol] = Begin(@, task[w])]
    /\ Goto(w, "match")
    /\ UNCHANGED <<tasks, task, result, counter, trades, past, logVars, published>>

\* One iteration of the matching loop.
Match(t) ==
    LET b == books[task[t].symbol]
    IN  /\ pc[t] = "match" /\ Matching(b)
        /\ books' = [books EXCEPT ![task[t].symbol] = MatchOnce(b, counter)]
        /\ counter' = IF MatchQty(b) = 0 THEN counter ELSE counter + 1
        /\ UNCHANGED <<threadVars, trades, past, logVars, published>>

\* Where a worker goes on with the rest r of its MatchResult.
After(r) == IF r.fills # <<>> THEN "fills" ELSE IF r.reports # <<>> THEN "publish" ELSE "idle"

SetResult(t, r) ==
    /\ result' = [result EXCEPT ![t] = r]
    /\ Goto(t, After(r))
    /\ task' = IF After(r) = "idle" THEN [task EXCEPT ![t] = NoTask] ELSE task

\* The call ends: the mutex is released and the MatchResult returned.  A bound:
\* there is a list node to allocate.
Leave(t) ==
    LET s == task[t].symbol
        b == Finish(books[s])
    IN  /\ pc[t] = "match" /\ ~Matching(books[s]) /\ Node \ DOMAIN books[s].heap # {}
        /\ books' = [books EXCEPT ![s] = [b EXCEPT !.fills = <<>>, !.reports = <<>>]]
        /\ trades' = trades \cup Range(b.fills)
        /\ SetResult(t, IF t = Main THEN NoResult ELSE [fills |-> b.fills, reports |-> b.reports])
        /\ UNCHANGED <<tasks, counter, past, logVars, published>>

\* log_fill for the next fill, outside the mutex.
LogFill(w) ==
    /\ pc[w] = "fills"
    /\ log' = Append(log, FillEntry(Head(result[w].fills)))
    /\ past' = Append(past, past[Len(past)])
    /\ SetResult(w, [result[w] EXCEPT !.fills = Tail(@)])
    /\ UNCHANGED <<tasks, books, counter, trades, durable, published>>

\* Mutant: only the first report of a result is published.
PublishFirst(w) ==
    /\ pc[w] = "publish"
    /\ published' = Append(published, Head(result[w].reports))
    /\ SetResult(w, NoResult)
    /\ UNCHANGED <<tasks, bookVars, logVars>>

\* publish_execution_report for the next report.
Publish(w) ==
    /\ pc[w] = "publish"
    /\ published' = Append(published, Head(result[w].reports))
    /\ SetResult(w, [result[w] EXCEPT !.reports = Tail(@)])
    /\ UNCHANGED <<tasks, bookVars, logVars>>

\* The flush thread writes the next entry.
Flush ==
    /\ durable < Len(log)
    /\ durable' = durable + 1
    /\ UNCHANGED <<threadVars, bookVars, log, published>>

WorkerStep(w) ==
    \/ Dequeue(w) \/ get_order_book(w) \/ Lock(w) \/ LogRequest(w) \/ Call(w)
    \/ Match(w) \/ Leave(w) \/ LogFill(w) \/ Publish(w)
=============================================================================
