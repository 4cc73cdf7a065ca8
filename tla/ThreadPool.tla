----------------------------- MODULE ThreadPool -----------------------------
(***************************************************************************)
(* ThreadPool (src/threadpool/thread_pool.cpp) on its SafeQueue            *)
(* (src/threadpool/safe_queue.hpp): a bounded queue guarded by one mutex   *)
(* with a condition variable for each side.  A critical section is one     *)
(* step, from taking the mutex to giving it back or to waiting; a thread   *)
(* that was notified has to take the mutex again and tests its condition   *)
(* again.  The notify_all calls of close() come after the unlock and are   *)
(* steps of their own.  What a worker does with a task (a call on an order *)
(* book, see OrderBook) is one step here.                                  *)
(***************************************************************************)
EXTENDS Integers, Sequences, FiniteSets, FiniteSetsExt, Functions

CONSTANTS Producer,    \* threads that call submit
          Worker,      \* the threads start() creates
          Main,        \* the thread that calls start and shutdown
          Capacity,    \* max_capacity_
          MaxSubmit    \* bound: calls of submit per producer

ASSUME PoolAssumption ==
    /\ IsFiniteSet(Producer) /\ IsFiniteSet(Worker)
    /\ Worker # {} /\ Producer \cap Worker = {} /\ Main \notin Producer \cup Worker
    /\ Capacity \in Nat \ {0} /\ MaxSubmit \in Nat

Thread == Producer \cup Worker \cup {Main}
Task == Producer \X (1..MaxSubmit)

VARIABLES queue,     \* queue_, Seq(Task)
          closed,    \* shutdown_ of the queue
          stop,      \* stop_ of the pool
          pc,        \* what each thread is about to do
          sent,      \* how often each producer has called submit
          held,      \* the task a working worker has taken
          accepted,  \* history: the tasks submit returned true for
          finished   \* history: the tasks workers have processed

vars == <<queue, closed, stop, pc, sent, held, accepted, finished>>

\* Threads at a point of their program.
At(S, l) == {t \in S : pc[t] = l}

Init ==
    /\ queue = <<>> /\ closed = FALSE /\ stop = FALSE
    /\ pc = [t \in Thread |-> IF t = Main THEN "created"
                              ELSE IF t \in Worker THEN "none" ELSE "idle"]
    /\ sent = [p \in Producer |-> 0]
    /\ held = [w \in Worker |-> <<>>]
    /\ accepted = {} /\ finished = {}
-----------------------------------------------------------------------------
(* Condition variables, as changes of pc. *)

\* Thread t moves on to l, and nobody else does.
Goto(t, l) == pc' = [pc EXCEPT ![t] = l]

\* Thread t moves on to l after notify_one on the condition the threads of S at
\* "from" wait for: one of them, if there is one, has to take the mutex again.
NotifyOne(t, l, S, from, to) ==
    \/ /\ At(S, from) = {}
       /\ Goto(t, l)
    \/ \E u \in At(S, from) : pc' = [pc EXCEPT ![t] = l, ![u] = to]

\* Thread t moves on to l after notify_all.
NotifyAll(t, l, S, from, to) ==
    pc' = [u \in Thread |-> IF u = t THEN l ELSE IF u \in At(S, from) THEN to ELSE pc[u]]
-----------------------------------------------------------------------------
(* submit and SafeQueue::enqueue. *)

\* submit() looks at stop_ without the queue's mutex.
submit(p) ==
    /\ pc[p] = "idle" /\ sent[p] < MaxSubmit
    /\ sent' = [sent EXCEPT ![p] = @ + 1]
    /\ IF stop THEN UNCHANGED pc ELSE Goto(p, "enqueue")
    /\ UNCHANGED <<queue, closed, stop, held, accepted, finished>>

EnqueueWaits(p) ==
    /\ pc[p] = "enqueue"
    /\ Len(queue) >= Capacity /\ ~closed
    /\ Goto(p, "waitPush")
    /\ UNCHANGED <<queue, closed, stop, sent, held, accepted, finished>>

EnqueueRefused(p) ==
    /\ pc[p] = "enqueue"
    /\ closed
    /\ Goto(p, "idle")
    /\ UNCHANGED <<queue, closed, stop, sent, held, accepted, finished>>

\* Mutants: the consumer is only notified when the queue was empty, or never.
EnqueueFirstNotifies(p) ==
    /\ pc[p] = "enqueue"
    /\ Len(queue) < Capacity /\ ~closed
    /\ queue' = Append(queue, <<p, sent[p]>>)
    /\ accepted' = accepted \cup {<<p, sent[p]>>}
    /\ IF queue = <<>> THEN NotifyOne(p, "idle", Worker, "waitPop", "dequeue") ELSE Goto(p, "idle")
    /\ UNCHANGED <<closed, stop, sent, held, finished>>
EnqueueUnnotified(p) ==
    /\ pc[p] = "enqueue"
    /\ Len(queue) < Capacity /\ ~closed
    /\ queue' = Append(queue, <<p, sent[p]>>)
    /\ accepted' = accepted \cup {<<p, sent[p]>>}
    /\ Goto(p, "idle")
    /\ UNCHANGED <<closed, stop, sent, held, finished>>

\* Mutant: a full queue takes one more.
EnqueueOneMore(p) ==
    /\ pc[p] = "enqueue"
    /\ Len(queue) <= Capacity /\ ~closed
    /\ queue' = Append(queue, <<p, sent[p]>>)
    /\ accepted' = accepted \cup {<<p, sent[p]>>}
    /\ NotifyOne(p, "idle", Worker, "waitPop", "dequeue")
    /\ UNCHANGED <<closed, stop, sent, held, finished>>

EnqueuePushes(p) ==
    /\ pc[p] = "enqueue"
    /\ Len(queue) < Capacity /\ ~closed
    /\ queue' = Append(queue, <<p, sent[p]>>)
    /\ accepted' = accepted \cup {<<p, sent[p]>>}
    /\ NotifyOne(p, "idle", Worker, "waitPop", "dequeue")
    /\ UNCHANGED <<closed, stop, sent, held, finished>>
-----------------------------------------------------------------------------
(* worker_loop and SafeQueue::dequeue. *)

DequeueWaits(w) ==
    /\ pc[w] = "dequeue"
    /\ queue = <<>> /\ ~closed
    /\ Goto(w, "waitPop")
    /\ UNCHANGED <<queue, closed, stop, sent, held, accepted, finished>>

\* Mutant: a closed queue ends the worker although tasks are left.
DequeueEndsAtOnce(w) ==
    /\ pc[w] = "dequeue"
    /\ closed
    /\ Goto(w, "exited")
    /\ UNCHANGED <<queue, closed, stop, sent, held, accepted, finished>>

\* The queue is closed and drained: nullopt ends the worker's loop.
DequeueEnds(w) ==
    /\ pc[w] = "dequeue"
    /\ queue = <<>> /\ closed
    /\ Goto(w, "exited")
    /\ UNCHANGED <<queue, closed, stop, sent, held, accepted, finished>>

\* Mutant: no producer is notified.
DequeueUnnotified(w) ==
    /\ pc[w] = "dequeue"
    /\ queue # <<>>
    /\ held' = [held EXCEPT ![w] = Head(queue)]
    /\ queue' = Tail(queue)
    /\ Goto(w, "work")
    /\ UNCHANGED <<closed, stop, sent, accepted, finished>>

DequeueTakes(w) ==
    /\ pc[w] = "dequeue"
    /\ queue # <<>>
    /\ held' = [held EXCEPT ![w] = Head(queue)]
    /\ queue' = Tail(queue)
    /\ NotifyOne(w, "work", Producer, "waitPush", "enqueue")
    /\ UNCHANGED <<closed, stop, sent, accepted, finished>>

\* The task is processed; an exception is caught and the loop goes on.
Process(w) ==
    /\ pc[w] = "work"
    /\ finished' = finished \cup {held[w]}
    /\ held' = [held EXCEPT ![w] = <<>>]
    /\ Goto(w, "dequeue")
    /\ UNCHANGED <<queue, closed, stop, sent, accepted>>
-----------------------------------------------------------------------------
(* start, shutdown and SafeQueue::close. *)

start ==
    /\ pc[Main] = "created"
    /\ pc' = [t \in Thread |-> IF t = Main THEN "running" ELSE IF t \in Worker THEN "dequeue" ELSE pc[t]]
    /\ UNCHANGED <<queue, closed, stop, sent, held, accepted, finished>>

\* shutdown() publishes stop_ before it closes the queue.
shutdown ==
    /\ pc[Main] = "running"
    /\ stop' = TRUE
    /\ Goto(Main, "close")
    /\ UNCHANGED <<queue, closed, sent, held, accepted, finished>>

close ==
    /\ pc[Main] = "close"
    /\ closed' = TRUE
    /\ Goto(Main, "notifyPop")
    /\ UNCHANGED <<queue, stop, sent, held, accepted, finished>>

\* Mutant: notify_one instead of notify_all.
NotifyOnePop ==
    /\ pc[Main] = "notifyPop"
    /\ NotifyOne(Main, "notifyPush", Worker, "waitPop", "dequeue")
    /\ UNCHANGED <<queue, closed, stop, sent, held, accepted, finished>>

NotifyPop ==
    /\ pc[Main] = "notifyPop"
    /\ NotifyAll(Main, "notifyPush", Worker, "waitPop", "dequeue")
    /\ UNCHANGED <<queue, closed, stop, sent, held, accepted, finished>>

\* Mutant: cond_push_ is forgotten.
NotifyPushNot ==
    /\ pc[Main] = "notifyPush"
    /\ Goto(Main, "join")
    /\ UNCHANGED <<queue, closed, stop, sent, held, accepted, finished>>

NotifyPush ==
    /\ pc[Main] = "notifyPush"
    /\ NotifyAll(Main, "join", Producer, "waitPush", "enqueue")
    /\ UNCHANGED <<queue, closed, stop, sent, held, accepted, finished>>

join ==
    /\ pc[Main] = "join"
    /\ \A w \in Worker : pc[w] = "exited"
    /\ Goto(Main, "stopped")
    /\ UNCHANGED <<queue, closed, stop, sent, held, accepted, finished>>

\* wait() may return without a notification.
SpuriousWakeup(t) ==
    /\ \/ pc[t] = "waitPop" /\ Goto(t, "dequeue")
       \/ pc[t] = "waitPush" /\ Goto(t, "enqueue")
    /\ UNCHANGED <<queue, closed, stop, sent, held, accepted, finished>>
-----------------------------------------------------------------------------
ProducerStep(p) == EnqueueWaits(p) \/ EnqueueRefused(p) \/ EnqueuePushes(p)

WorkerStep(w) == DequeueWaits(w) \/ DequeueEnds(w) \/ DequeueTakes(w) \/ Process(w)

CloseStep == close \/ NotifyPop \/ NotifyPush \/ join

Next ==
    \/ \E p \in Producer : submit(p) \/ ProducerStep(p)
    \/ \E w \in Worker : WorkerStep(w)
    \/ start \/ shutdown \/ CloseStep
    \/ \E t \in Producer \cup Worker : SpuriousWakeup(t)

\* Every thread that can go on does.  Nobody has to submit or shut down, and
\* no spurious wakeup has to come.
Fairness ==
    /\ \A p \in Producer : WF_vars(ProducerStep(p))
    /\ \A w \in Worker : WF_vars(WorkerStep(w))
    /\ WF_vars(start) /\ WF_vars(CloseStep)

Spec == Init /\ [][Next]_vars

FairSpec == Spec /\ Fairness
-----------------------------------------------------------------------------
\* Type invariant: only tasks are queued, held, and processed, and the queue
\* never holds more than max_capacity_ of them, however many producers were
\* waiting for room.
TypeOK ==
    /\ queue \in Seq(Task) /\ Len(queue) <= Capacity
    /\ closed \in BOOLEAN /\ stop \in BOOLEAN
    /\ pc \in [Thread -> {"idle", "enqueue", "waitPush",
                          "none", "dequeue", "waitPop", "work", "exited",
                          "created", "running", "close", "notifyPop", "notifyPush", "join", "stopped"}]
    /\ sent \in [Producer -> 0..MaxSubmit]
    /\ held \in [Worker -> Task \cup {<<>>}]
    /\ accepted \subseteq Task /\ finished \subseteq Task

\* No lost wakeup while the queue is open: while a worker sleeps there are at least as many workers on
\* their way to the queue as there are tasks in it, and while a producer sleeps
\* at least as many producers on their way as there is room.  So nobody ever
\* sleeps on work that no awake thread is about to take.
NoLostWakeup ==
    ~closed =>
        /\ At(Worker, "waitPop") # {} => Len(queue) <= Cardinality(At(Worker, "dequeue"))
        /\ At(Producer, "waitPush") # {} =>
              Capacity - Len(queue) <= Cardinality(At(Producer, "enqueue"))

\* Once close() has returned nobody sleeps on the queue, and nobody will: the
\* join that follows cannot wait for a sleeping worker.
NobodySleepsWhenClosed ==
    pc[Main] \in {"join", "stopped"} =>
        At(Worker, "waitPop") = {} /\ At(Producer, "waitPush") = {}

\* shutdown() drains: when it returns, every task submit() returned true for
\* has been processed, also those accepted between stop_ and close().
Drained == pc[Main] = "stopped" => accepted = finished

\* A task that was accepted is processed.
AcceptedRuns == \A t \in Task : (t \in accepted) ~> (t \in finished)

\* A call of submit returns, even when the queue is full or closing.
SubmitReturns == \A p \in Producer : (pc[p] = "enqueue") ~> (pc[p] = "idle")

\* shutdown() returns.
ShutdownReturns == (pc[Main] = "close") ~> (pc[Main] = "stopped")
=============================================================================
