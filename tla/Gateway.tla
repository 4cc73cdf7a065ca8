------------------------------- MODULE Gateway -------------------------------
(***************************************************************************)
(* The gateway: GatewayServer, Session and ConnectionManager               *)
(* (src/gateway), the io thread that runs their handlers one at a time,    *)
(* and the shutdown of the program (src/demo_main.cpp).  What is behind    *)
(* the gateway is here only as its interface: the bounded task queue       *)
(* (module ThreadPool), a worker that answers a task with reports (module  *)
(* Exchange), the report queue and the dispatch thread (module             *)
(* ExecutionPipeline).                                                     *)
(* Of asio: a completion handler runs when its operation is done, posted   *)
(* handlers run in the order they were posted, async_read completes on a   *)
(* whole message part, async_write may need several writes, closing a      *)
(* socket or losing the peer ends the outstanding operations with an error.*)
(* A request is a header and a body, a report goes out in two pieces.      *)
(***************************************************************************)
EXTENDS Integers, Sequences, SequencesExt

CONSTANTS Client,     \* each connects at most once
          None,       \* not a request
          Capacity,   \* of the task queue
          MaxReports, \* bound: the reports of one call on a book
          Workload    \* bound: for each client what it can send, in order

\* What process_packet makes of a packet: a task for the pool, which is an
\* "order" that passes the risk check or a "request" to cancel or modify one, a
\* reject, or nothing.
Packet == {"order", "request", "reject", "malformed"}

ASSUME GatewayAssumption ==
    /\ None \notin Client \X Nat /\ Capacity \in Nat \ {0} /\ MaxReports \in Nat \ {0}
    /\ Workload \subseteq [Client -> Seq(Packet)]

VARIABLES peer,       \* the client's end: "away", "there" or "gone"
          stream,     \* what it has sent and the server has not read, Seq([id, part])
          script, sends,   \* what it sends, and how much of that it has sent
          got,        \* the pieces it has received
          sess,       \* the session: "none", "open" or "closed"
          reading,    \* its outstanding async_read: "none", "header", "body", or
                      \* "dead": begun on a closed socket
          write_queue, writes,   \* write_queue_ and the outstanding async_writes
          sessions,   \* ConnectionManager::sessions_
          posted,     \* handlers of send_execution_report waiting for the io thread
          order,      \* history: for each client the reports posted to it
          io, task,   \* io thread: "ready", "submit" (blocked in it with task) or "ended"
          tasks, reports, hand,  \* task queue, report queue, report being dispatched
          owners,     \* of the books: the clients whose orders may be in them
          main,       \* how far the main thread is
          refused     \* history: tasks the pool did not take

clientVars == <<peer, stream, script, sends, got>>
sessionVars == <<sess, reading, write_queue, writes, sessions>>
ioVars == <<posted, order, io, task>>
backVars == <<tasks, reports, hand, owners, main, refused>>
vars == <<clientVars, sessionVars, ioVars, backVars>>

\* The pieces a report goes out in.
Pieces(r) == <<[report |-> r, piece |-> 1], [report |-> r, piece |-> 2]>>

Init ==
    /\ peer = [c \in Client |-> "away"] /\ sess = [c \in Client |-> "none"]
    /\ script \in Workload
    /\ stream = [c \in Client |-> <<>>] /\ sends = [c \in Client |-> 0]
    /\ got = [c \in Client |-> <<>>] /\ order = [c \in Client |-> <<>>]
    /\ reading = [c \in Client |-> "none"]
    /\ write_queue = [c \in Client |-> <<>>] /\ writes = [c \in Client |-> <<>>]
    /\ sessions = {} /\ posted = <<>> /\ io = "ready" /\ task = None
    /\ tasks = <<>> /\ reports = <<>> /\ hand = <<>> /\ owners = {}
    /\ main = "serving" /\ refused = {}
-----------------------------------------------------------------------------
(* Clients. *)

Connect(c) ==
    /\ peer[c] = "away" /\ main = "serving"
    /\ peer' = [peer EXCEPT ![c] = "there"]
    /\ UNCHANGED <<stream, script, sends, got, sessionVars, ioVars, backVars>>

Request(c) ==
    /\ peer[c] = "there" /\ sends[c] < Len(script[c])
    /\ sends' = [sends EXCEPT ![c] = @ + 1]
    /\ stream' = [stream EXCEPT ![c] = @ \o
          [i \in 1..2 |-> [id |-> <<c, sends[c] + 1>>, part |-> <<"header", "body">>[i]]]]
    /\ UNCHANGED <<peer, script, got, sessionVars, ioVars, backVars>>

\* The client closes its end, or the connection breaks and what was on the way
\* is lost from some point on.
Disconnect(c) ==
    /\ peer[c] = "there"
    /\ peer' = [peer EXCEPT ![c] = "gone"]
    /\ \E k \in 0..Len(stream[c]) : stream' = [stream EXCEPT ![c] = SubSeq(@, 1, k)]
    /\ UNCHANGED <<script, sends, got, sessionVars, ioVars, backVars>>
-----------------------------------------------------------------------------
(* Handlers of the io thread. *)

\* The handler of async_accept: a session is made and started, and the next
\* accept begins, also after an error.
do_accept(c) ==
    /\ io = "ready" /\ peer[c] # "away" /\ sess[c] = "none"
    /\ sess' = [sess EXCEPT ![c] = "open"]
    /\ sessions' = sessions \cup {c}
    /\ reading' = [reading EXCEPT ![c] = "header"]
    /\ UNCHANGED <<clientVars, write_queue, writes, ioVars, backVars>>

\* Mutant: only the socket is closed.
CloseSocket(c) == sess' = [sess EXCEPT ![c] = "closed"] /\ UNCHANGED sessions

\* Session::close; a second call does nothing.
Close(c) == sess' = [sess EXCEPT ![c] = "closed"] /\ sessions' = sessions \ {c}

\* An operation on the socket of c can end with an error.
Broken(c) == sess[c] = "closed" \/ peer[c] = "gone"

\* asio::post of a report to the session of c.
Post(c, r) ==
    /\ posted' = Append(posted, [to |-> c, report |-> r])
    /\ order' = [order EXCEPT ![c] = Append(@, r)]

\* async_read of the next part of a message.
Read(c, part) == reading' = [reading EXCEPT ![c] = IF sess[c] = "open" THEN part ELSE "dead"]

\* The handler of read_header.  Like that of read_body, it may find the session
\* closed since the read was completed.
ReadHeader(c) ==
    /\ io = "ready" /\ reading[c] = "header" /\ stream[c] # <<>>
    /\ Read(c, "body")
    /\ stream' = [stream EXCEPT ![c] = Tail(@)]
    /\ UNCHANGED <<peer, script, sends, got, sess, write_queue, writes, sessions, ioVars, backVars>>

\* The handler of read_body: process_packet, and read_header when it returns.
ReadBody(c) ==
    /\ io = "ready" /\ reading[c] = "body" /\ stream[c] # <<>>
    /\ LET id == Head(stream[c]).id
           packet == script[c][id[2]]
       IN  \/ /\ packet \in {"order", "request"}
              /\ io' = "submit" /\ task' = id
              /\ UNCHANGED <<reading, posted, order>>
           \/ /\ packet = "reject" /\ Post(c, id) /\ Read(c, "header")
              /\ UNCHANGED <<io, task>>
           \/ /\ packet = "malformed" /\ Read(c, "header")
              /\ UNCHANGED <<posted, order, io, task>>
    /\ stream' = [stream EXCEPT ![c] = Tail(@)]
    /\ UNCHANGED <<peer, script, sends, got, sess, write_queue, writes, sessions, backVars>>

\* pool_.submit returns: it waits while the queue is full, and is refused once
\* the pool is shut down; the result is not looked at.
Submitted ==
    /\ io = "submit"
    /\ \/ /\ main \in {"serving", "stop"} /\ Len(tasks) < Capacity
          /\ tasks' = Append(tasks, task) /\ UNCHANGED refused
       \/ /\ main \notin {"serving", "stop"}
          /\ refused' = refused \cup {task} /\ UNCHANGED tasks
    /\ io' = (IF main = "stop" THEN "ended" ELSE "ready") /\ task' = None
    /\ Read(task[1], "header")
    /\ UNCHANGED <<clientVars, sess, write_queue, writes, sessions, posted, order, reports, hand, owners, main>>

\* Mutant: the reports that wait are dropped with the session.
ReadFailsClears(c) ==
    /\ io = "ready" /\ reading[c] # "none" /\ Broken(c)
    /\ sess[c] = "open" => stream[c] = <<>>
    /\ reading' = [reading EXCEPT ![c] = "none"]
    /\ Close(c)
    /\ write_queue' = [write_queue EXCEPT ![c] = <<>>]
    /\ UNCHANGED <<clientVars, writes, ioVars, backVars>>

\* A read ends with an error: close(), and no further read.
ReadFails(c) ==
    /\ io = "ready" /\ reading[c] # "none" /\ Broken(c)
    /\ sess[c] = "open" => stream[c] = <<>>
    /\ reading' = [reading EXCEPT ![c] = "none"]
    /\ Close(c)
    /\ UNCHANGED <<clientVars, write_queue, writes, ioVars, backVars>>

\* write_next: async_write of the first buffer in the queue q.
write_next(c, q) == writes' = [writes EXCEPT ![c] = Append(@, [report |-> Head(q), done |-> 0])]

\* Mutant: every report starts a write.
RunPostedAlways ==
    /\ io = "ready" /\ posted # <<>>
    /\ LET c == Head(posted).to
           q == Append(write_queue[c], Head(posted).report)
       IN  write_queue' = [write_queue EXCEPT ![c] = q] /\ write_next(c, q)
    /\ posted' = Tail(posted)
    /\ UNCHANGED <<clientVars, sess, reading, sessions, order, io, task, backVars>>

\* The posted handler: the report is queued, and written unless a write is under way.
RunPosted ==
    /\ io = "ready" /\ posted # <<>>
    /\ LET c == Head(posted).to
           q == Append(write_queue[c], Head(posted).report)
       IN  /\ write_queue' = [write_queue EXCEPT ![c] = q]
           /\ IF write_queue[c] = <<>> THEN write_next(c, q) ELSE UNCHANGED writes
    /\ posted' = Tail(posted)
    /\ UNCHANGED <<clientVars, sess, reading, sessions, order, io, task, backVars>>

\* The socket takes the next piece of an outstanding write.
WriteSome(c) ==
    /\ io = "ready" /\ sess[c] = "open"
    /\ \E i \in DOMAIN writes[c] :
          /\ writes[c][i].done < 2
          /\ writes' = [writes EXCEPT ![c][i].done = @ + 1]
          /\ got' = IF peer[c] = "gone" THEN got
                    ELSE [got EXCEPT ![c] = Append(@, Pieces(writes[c][i].report)[writes[c][i].done + 1])]
    /\ UNCHANGED <<peer, stream, script, sends, sess, reading, write_queue, sessions, ioVars, backVars>>

\* Mutant: the next write is left to the next report.
WriteDoneStops(c) ==
    /\ io = "ready" /\ writes[c] # <<>> /\ Head(writes[c]).done = 2
    /\ write_queue' = [write_queue EXCEPT ![c] = Tail(@)]
    /\ writes' = [writes EXCEPT ![c] = Tail(@)]
    /\ UNCHANGED <<clientVars, sess, reading, sessions, ioVars, backVars>>

\* The handler of async_write: the buffer is dropped and the next one written.
WriteDone(c) ==
    /\ io = "ready" /\ writes[c] # <<>> /\ Head(writes[c]).done = 2
    /\ LET q == Tail(write_queue[c])
       IN  /\ write_queue' = [write_queue EXCEPT ![c] = q]
           /\ writes' = [writes EXCEPT ![c] = Tail(@) \o
                           (IF q = <<>> THEN <<>> ELSE <<[report |-> Head(q), done |-> 0]>>)]
    /\ UNCHANGED <<clientVars, sess, reading, sessions, ioVars, backVars>>

\* A write ends with an error: close(); the queue keeps its buffers.
WriteFails(c) ==
    /\ io = "ready" /\ writes[c] # <<>> /\ Head(writes[c]).done < 2 /\ Broken(c)
    /\ writes' = [writes EXCEPT ![c] = Tail(@)]
    /\ Close(c)
    /\ UNCHANGED <<clientVars, reading, write_queue, ioVars, backVars>>

ReadStep(c) == ReadHeader(c) \/ ReadBody(c) \/ ReadFails(c)
WriteStep(c) == WriteSome(c) \/ WriteDone(c) \/ WriteFails(c)
-----------------------------------------------------------------------------
(* Behind the gateway. *)

\* Whom the matching of an order of c tells, in this order: the buyer and the
\* seller of each fill, and at the end c if its order rests without a fill or
\* is a market order that is not used up.
Matched(c) ==
    {to \in SeqOf(owners \cup {c}, MaxReports) :
        /\ to # <<>>
        /\ \A k \in 1..(Len(to) \div 2) : \E d \in owners : {to[2 * k - 1], to[2 * k]} = {c, d}
        /\ Len(to) % 2 = 1 => to[Len(to)] = c}

\* A worker does a task.  A new order is matched.  A cancel tells the owner of
\* the order, who need not be the client that asks; a modify matches the order
\* again for its owner; neither tells anybody when there is no such order, nor
\* does a modify to quantity 0.
Work ==
    /\ tasks # <<>>
    /\ tasks' = Tail(tasks)
    /\ LET id == Head(tasks)
           Tell(to) == reports' = reports \o [i \in 1..Len(to) |-> [to |-> to[i], report |-> id]]
       IN  \/ /\ script[id[1]][id[2]] = "order"
              /\ \E to \in Matched(id[1]) : Tell(to)
              /\ owners' = owners \cup {id[1]}
           \/ /\ script[id[1]][id[2]] = "request"
              /\ UNCHANGED reports \/ \E o \in owners : \E to \in Matched(o) : Tell(to)
              /\ UNCHANGED owners
    /\ UNCHANGED <<clientVars, sessionVars, ioVars, hand, main, refused>>

\* The dispatch thread takes a report and looks the session up.
TakeReport ==
    /\ hand = <<>> /\ reports # <<>>
    /\ reports' = Tail(reports)
    /\ hand' = IF Head(reports).to \in sessions THEN <<Head(reports)>> ELSE <<>>
    /\ UNCHANGED <<clientVars, sessionVars, ioVars, tasks, owners, main, refused>>

\* send_execution_report on the session it found, which may be closed by now.
Send ==
    /\ hand # <<>>
    /\ Post(hand[1].to, hand[1].report)
    /\ hand' = <<>>
    /\ UNCHANGED <<clientVars, sessionVars, io, task, tasks, reports, owners, main, refused>>

AllGone == \A c \in Client : peer[c] # "there"

\* io_context.stop(): no handler is begun any more.
StopIo == io' = IF io = "ready" THEN "ended" ELSE io

\* Mutant: the pool is shut down before the io thread is stopped.
shutdownPoolFirst ==
    /\ \/ main = "serving" /\ AllGone /\ main' = "pool" /\ UNCHANGED io
       \/ main = "pool" /\ tasks = <<>> /\ main' = "stop" /\ StopIo
       \/ main = "stop" /\ io = "ended" /\ main' = "pipeline" /\ UNCHANGED io
       \/ main = "pipeline" /\ reports = <<>> /\ hand = <<>> /\ main' = "exit" /\ UNCHANGED io
    /\ UNCHANGED <<clientVars, sessionVars, posted, order, task, tasks, reports, hand, owners, refused>>

\* Mutant: the io thread is joined without being stopped.
shutdownNoStop ==
    /\ \/ main = "serving" /\ AllGone /\ main' = "stop" /\ UNCHANGED io
       \/ main = "stop" /\ io = "ended" /\ main' = "pool" /\ UNCHANGED io
       \/ main = "pool" /\ tasks = <<>> /\ main' = "pipeline" /\ UNCHANGED io
       \/ main = "pipeline" /\ reports = <<>> /\ hand = <<>> /\ main' = "exit" /\ UNCHANGED io
    /\ UNCHANGED <<clientVars, sessionVars, posted, order, task, tasks, reports, hand, owners, refused>>

\* The end of run_multi_client_demo: when the clients have disconnected the io
\* context is stopped and its thread joined, the pool shut down, the pipeline
\* stopped, and the io context destroyed.
shutdown ==
    /\ \/ main = "serving" /\ AllGone /\ main' = "stop" /\ StopIo
       \/ main = "stop" /\ io = "ended" /\ main' = "pool" /\ UNCHANGED io
       \/ main = "pool" /\ tasks = <<>> /\ main' = "pipeline" /\ UNCHANGED io
       \/ main = "pipeline" /\ reports = <<>> /\ hand = <<>> /\ main' = "exit" /\ UNCHANGED io
    /\ UNCHANGED <<clientVars, sessionVars, posted, order, task, tasks, reports, hand, owners, refused>>

Next ==
    \/ \E c \in Client :
          \/ Connect(c) \/ Disconnect(c) \/ Request(c) \/ do_accept(c) \/ ReadStep(c) \/ WriteStep(c)
    \/ Submitted \/ RunPosted \/ Work \/ TakeReport \/ Send \/ shutdown

\* The threads go on, and the io thread gets to each of its handlers: asio
\* keeps the ready ones in a queue.  No client has to do anything, and main
\* need not begin to shut down.
Fairness ==
    /\ \A c \in Client : WF_vars(do_accept(c)) /\ WF_vars(ReadStep(c)) /\ WF_vars(WriteStep(c))
    /\ WF_vars(Submitted) /\ WF_vars(RunPosted)
    /\ WF_vars(Work) /\ WF_vars(TakeReport \/ Send)
    /\ WF_vars(main # "serving" /\ shutdown)

Spec == Init /\ [][Next]_vars /\ Fairness
-----------------------------------------------------------------------------
(* Properties. *)

\* What a client receives is the beginning of the reports posted to its
\* session, whole and in that order, however many are posted while a write
\* is under way, and when a write fails.
StreamWhole ==
    \A c \in Client :
        /\ Len(got[c]) <= 2 * Len(order[c])
        /\ \A i \in DOMAIN order[c], j \in 1..2 :
              2 * (i - 1) + j <= Len(got[c]) => got[c][2 * (i - 1) + j] = Pieces(order[c][i])[j]

\* The buffer of an outstanding async_write is the first of write_queue_, so
\* it stays where it is until the write has ended.
BufferAlive ==
    \A c \in Client : \A i \in DOMAIN writes[c] :
        write_queue[c] # <<>> /\ writes[c][i].report = Head(write_queue[c])

\* A task the gateway hands over is taken by the pool, also while the program
\* shuts down, so nobody needs the result of submit() that process_packet ignores.
PoolTakesAll == refused = {}

\* Client c has received a report that the request id led to, unless it is gone.
Told(c, id) == Pieces(id)[2] \in Range(got[c]) \/ peer[c] = "gone"

\* Every order of a client that stays is answered, by the book or by the risk
\* check, also when the io thread is blocked in submit() for a while; and what a
\* worker publishes for a client that stays reaches it, whoever's order, cancel
\* or modify it comes from.  Nobody is told of a cancel or modify as such.
Answered ==
    \A c \in Client : \A i \in UNION {DOMAIN w[c] : w \in Workload} :
        /\ (sends[c] = i /\ script[c][i] \in {"order", "reject"}) ~> Told(c, <<c, i>>)
        /\ \A d \in Client : ([to |-> d, report |-> <<c, i>>] \in Range(reports)) ~> Told(d, <<c, i>>)

\* A session whose client is gone is closed and forgotten while the server runs.
DisconnectNoticed ==
    \A c \in Client : (peer[c] = "gone" /\ sess[c] = "open") ~> (c \notin sessions \/ main # "serving")

\* The program gets through with its shutdown.
ShutdownEnds == (main = "stop") ~> (main = "exit")
=============================================================================
