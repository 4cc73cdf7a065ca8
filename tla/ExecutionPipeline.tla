-------------------------- MODULE ExecutionPipeline --------------------------
(***************************************************************************)
(* ExecutionPipeline (src/pipeline/execution_pipeline.cpp): workers        *)
(* publish the reports and then the trades of each finished call into two  *)
(* MPSCQueues, one dispatch thread takes them out and passes the reports   *)
(* to the sessions of their clients.  A queue is taken at the level        *)
(* MPSCQueueProofs shows to be right: its entries are in the order of the  *)
(* exchanges, and the consumer sees the first one once it is linked.       *)
(***************************************************************************)
EXTENDS Integers, Sequences, SequencesExt, FiniteSets

CONSTANTS Worker,    \* the threads that publish
          Client,    \* client ids of sessions
          Result,    \* the reports of a call that has some: the clients they go to
          MaxCalls   \* bound: results each worker publishes

ASSUME PipelineAssumption == Result \subseteq Seq(Client) \ {<<>>} /\ MaxCalls \in Nat

Kind == {"report", "trade"}

VARIABLES queue,      \* report_queue_ and trade_queue_, Seq([item, linked])
          closed,     \* closed_ of each queue
          running,    \* running_
          pc,         \* what each worker is about to do
          todo,       \* what each worker has still to publish of this result
          calls,      \* how many results each worker has published
          dpc,        \* what the dispatch thread is about to do
          hand,       \* the client of the report it has taken
          spc,        \* what the thread that starts and stops the pipeline does
          sessions,   \* ConnectionManager: clients that have a session
          order,      \* history: for each client the reports enqueued for it
          delivered,  \* history: for each client the reports sent to its session
          quiet       \* history: nobody was publishing when stop() began

vars == <<queue, closed, running, pc, todo, calls, dpc, hand, spc, sessions, order, delivered, quiet>>

\* The item being dispatched when there is none.
Nothing == [kind |-> "trade"]

Init ==
    /\ queue = [k \in Kind |-> <<>>] /\ closed = [k \in Kind |-> FALSE]
    /\ running = FALSE /\ spc = "created" /\ dpc = "none" /\ hand = Nothing
    /\ pc = [w \in Worker |-> "idle"]
    /\ todo = [w \in Worker |-> <<>>] /\ calls = [w \in Worker |-> 0]
    /\ sessions = Client /\ quiet = FALSE
    /\ order = [c \in Client |-> <<>>] /\ delivered = [c \in Client |-> <<>>]
-----------------------------------------------------------------------------
(* Workers: publish_execution_report and publish_trade. *)

\* A worker has a result: its reports, then a trade for every two of them.
\* The program makes the worker pool once the pipeline has been started.
BeginResult(w, r) ==
    /\ spc # "created" /\ pc[w] = "idle" /\ calls[w] < MaxCalls
    /\ calls' = [calls EXCEPT ![w] = @ + 1]
    /\ todo' = [todo EXCEPT ![w] =
          [i \in 1..Len(r) |-> [kind |-> "report", client |-> r[i], from |-> <<w, calls[w], i>>]]
          \o [i \in 1..(Len(r) \div 2) |-> [kind |-> "trade", from |-> <<w, calls[w], i>>]]]
    /\ pc' = [pc EXCEPT ![w] = "try"]
    /\ UNCHANGED <<queue, closed, running, dpc, hand, spc, sessions, order, delivered, quiet>>

\* The call of publish_ for the first entry of todo ends.
Returns(w) ==
    /\ todo' = [todo EXCEPT ![w] = Tail(@)]
    /\ pc' = [pc EXCEPT ![w] = IF Len(todo[w]) = 1 THEN "idle" ELSE "try"]

\* running_ is tested when publish_ is entered and before each try; of two
\* tests in a row the second decides.
TestRunning(w) ==
    /\ pc[w] = "try"
    /\ IF running
       THEN pc' = [pc EXCEPT ![w] = "check"] /\ UNCHANGED todo
       ELSE Returns(w)
    /\ UNCHANGED <<queue, closed, running, calls, dpc, hand, spc, sessions, order, delivered, quiet>>

\* Mutant: a closed queue is tried again without a look at running_.
CheckClosedSpin(w) ==
    /\ pc[w] = "check"
    /\ ~closed[Head(todo[w]).kind]
    /\ pc' = [pc EXCEPT ![w] = "exchange"]
    /\ UNCHANGED <<queue, closed, running, todo, calls, dpc, hand, spc, sessions, order, delivered, quiet>>

\* MPSCQueue::enqueue loads closed_; a closed queue is tried again.
CheckClosed(w) ==
    /\ pc[w] = "check"
    /\ pc' = [pc EXCEPT ![w] = IF closed[Head(todo[w]).kind] THEN "try" ELSE "exchange"]
    /\ UNCHANGED <<queue, closed, running, todo, calls, dpc, hand, spc, sessions, order, delivered, quiet>>

Exchange(w) ==
    /\ pc[w] = "exchange"
    /\ LET e == Head(todo[w])
       IN  /\ queue' = [queue EXCEPT ![e.kind] = Append(@, [item |-> e, linked |-> FALSE])]
           /\ order' = IF e.kind = "report" THEN [order EXCEPT ![e.client] = Append(@, e)] ELSE order
    /\ pc' = [pc EXCEPT ![w] = "link"]
    /\ UNCHANGED <<closed, running, todo, calls, dpc, hand, spc, sessions, delivered, quiet>>

Link(w) ==
    /\ pc[w] = "link"
    /\ LET e == Head(todo[w])
           q == queue[e.kind]
       IN  queue' = [queue EXCEPT ![e.kind] =
                        [i \in DOMAIN q |-> IF q[i].item = e THEN [q[i] EXCEPT !.linked = TRUE] ELSE q[i]]]
    /\ Returns(w)
    /\ UNCHANGED <<closed, running, calls, dpc, hand, spc, sessions, order, delivered, quiet>>

PublishStep(w) == TestRunning(w) \/ CheckClosed(w) \/ Exchange(w) \/ Link(w)
-----------------------------------------------------------------------------
(* dispatch_loop. *)

\* !empty(): the first entry is there and linked.
Visible(k) == queue[k] # <<>> /\ Head(queue[k]).linked

\* Mutant: the trades are not looked at when the pipeline has stopped.
LoopTestReports ==
    /\ dpc \in {"loop", "testReports", "testTrades"}
    /\ dpc' = CASE dpc = "loop"        -> IF running THEN "report" ELSE "testReports"
                [] dpc = "testReports" -> IF Visible("report") THEN "report" ELSE "exit"
                [] dpc = "testTrades"  -> "exit"
    /\ UNCHANGED <<queue, closed, running, pc, todo, calls, hand, spc, sessions, order, delivered, quiet>>

\* The loop condition: running_, then the reports, then the trades.
LoopTest ==
    /\ dpc \in {"loop", "testReports", "testTrades"}
    /\ dpc' = CASE dpc = "loop"        -> IF running THEN "report" ELSE "testReports"
                [] dpc = "testReports" -> IF Visible("report") THEN "report" ELSE "testTrades"
                [] dpc = "testTrades"  -> IF Visible("trade") THEN "report" ELSE "exit"
    /\ UNCHANGED <<queue, closed, running, pc, todo, calls, hand, spc, sessions, order, delivered, quiet>>

\* Mutant: an entry that is not linked yet is passed over.
TakeReportLinked ==
    LET linked == {i \in DOMAIN queue["report"] : queue["report"][i].linked}
    IN  /\ dpc = "report"
        /\ IF linked # {}
           THEN LET i == CHOOSE i \in linked : \A j \in linked : i <= j
                IN  /\ hand' = queue["report"][i].item
                    /\ queue' = [queue EXCEPT !["report"] = RemoveAt(@, i)]
                    /\ dpc' = "lookup"
           ELSE dpc' = "trade" /\ UNCHANGED <<hand, queue>>
        /\ UNCHANGED <<closed, running, pc, todo, calls, spc, sessions, order, delivered, quiet>>

\* report_queue_.dequeue().
TakeReport ==
    /\ dpc = "report"
    /\ IF Visible("report")
       THEN /\ hand' = Head(queue["report"]).item
            /\ queue' = [queue EXCEPT !["report"] = Tail(@)]
            /\ dpc' = "lookup"
       ELSE dpc' = "trade" /\ UNCHANGED <<hand, queue>>
    /\ UNCHANGED <<closed, running, pc, todo, calls, spc, sessions, order, delivered, quiet>>

\* get_session: a report to a client without a session is dropped.
Lookup ==
    /\ dpc = "lookup"
    /\ dpc' = IF hand.client \in sessions THEN "send" ELSE "trade"
    /\ UNCHANGED <<queue, closed, running, pc, todo, calls, hand, spc, sessions, order, delivered, quiet>>

\* send_execution_report on the session that was found, closed meanwhile or not.
Send ==
    /\ dpc = "send"
    /\ delivered' = [delivered EXCEPT ![hand.client] = Append(@, hand)]
    /\ dpc' = "trade"
    /\ UNCHANGED <<queue, closed, running, pc, todo, calls, hand, spc, sessions, order, quiet>>

\* Mutant: no trade is taken while a report is in hand, and the report is kept
\* at the end of the round, so that after the first one trades are left.
TakeTradeIdle ==
    /\ dpc = "trade"
    /\ queue' = IF Visible("trade") /\ hand = Nothing THEN [queue EXCEPT !["trade"] = Tail(@)] ELSE queue
    /\ dpc' = "loop"
    /\ UNCHANGED <<closed, running, pc, todo, calls, hand, spc, sessions, order, delivered, quiet>>

\* trade_queue_.dequeue(): the trade is dropped.  The round ends.
TakeTrade ==
    /\ dpc = "trade"
    /\ queue' = IF Visible("trade") THEN [queue EXCEPT !["trade"] = Tail(@)] ELSE queue
    /\ hand' = Nothing
    /\ dpc' = "loop"
    /\ UNCHANGED <<closed, running, pc, todo, calls, spc, sessions, order, delivered, quiet>>

DispatchStep == LoopTest \/ TakeReport \/ Lookup \/ Send \/ TakeTrade
-----------------------------------------------------------------------------
(* start, stop, and sessions that close; one life of the pipeline. *)

start ==
    /\ spc = "created"
    /\ spc' = "running" /\ running' = TRUE /\ dpc' = "loop"
    /\ UNCHANGED <<queue, closed, pc, todo, calls, hand, sessions, order, delivered, quiet>>

stop ==
    /\ spc = "running"
    /\ spc' = "closeReports" /\ running' = FALSE
    /\ quiet' = (\A w \in Worker : pc[w] = "idle")
    /\ UNCHANGED <<queue, closed, pc, todo, calls, dpc, hand, sessions, order, delivered>>

StopStep ==
    /\ \/ spc = "closeReports" /\ spc' = "closeTrades" /\ closed' = [closed EXCEPT !["report"] = TRUE]
       \/ spc = "closeTrades" /\ spc' = "join" /\ closed' = [closed EXCEPT !["trade"] = TRUE]
       \/ spc = "join" /\ dpc = "exit" /\ spc' = "stopped" /\ UNCHANGED closed
    /\ UNCHANGED <<queue, running, pc, todo, calls, dpc, hand, sessions, order, delivered, quiet>>

\* Session::close; a client id is never used again.
Disconnect(c) ==
    /\ c \in sessions
    /\ sessions' = sessions \ {c}
    /\ UNCHANGED <<queue, closed, running, pc, todo, calls, dpc, hand, spc, order, delivered, quiet>>

Next ==
    \/ \E w \in Worker : (\E r \in Result : BeginResult(w, r)) \/ PublishStep(w)
    \/ DispatchStep
    \/ start \/ stop \/ StopStep
    \/ \E c \in Client : Disconnect(c)

\* Each thread goes on while it can.  Nobody has to publish, stop or disconnect.
Fairness ==
    /\ \A w \in Worker : WF_vars(PublishStep(w))
    /\ WF_vars(DispatchStep) /\ WF_vars(StopStep)

Spec == Init /\ [][Next]_vars /\ Fairness
-----------------------------------------------------------------------------
(* Properties. *)

\* A client's session is sent its reports in the order they were enqueued,
\* each once and without a gap, however publishing, dispatch, disconnect and
\* stop interleave.
DeliveredInOrder == \A c \in Client : IsPrefix(delivered[c], order[c])

\* When stop() returns and nobody was publishing when it began (the program
\* shuts the worker pool down first), both queues are drained and a client
\* that is still connected has been sent everything.
CleanStopDelivers ==
    spc = "stopped" /\ quiet =>
        /\ \A k \in Kind : queue[k] = <<>>
        /\ \A c \in sessions : delivered[c] = order[c]

\* A worker gets through with publishing, although publish_ retries while a
\* queue refuses the entry.
PublishReturns == \A w \in Worker : (pc[w] = "try") ~> (pc[w] = "idle")

\* What is in a queue leaves it, also when both queues keep the dispatch
\* thread busy, unless the pipeline is stopped.
QueuesDrain == \A k \in Kind : (queue[k] # <<>>) ~> (queue[k] = <<>> \/ ~running)

\* stop() returns.
PipelineStops == (spc = "closeReports") ~> (spc = "stopped")
=============================================================================
