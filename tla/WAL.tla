-------------------------------- MODULE WAL --------------------------------
(***************************************************************************)
(* The write-ahead log (src/pipeline/wal.cpp): worker threads log entries  *)
(* through an MPSCQueue, one flush thread writes them to the file, and one *)
(* thread starts and stops it.  The entry of a producer's k-th call of a   *)
(* log_ function is the item <<p, k>>; log_order, log_cancel, log_modify   *)
(* and log_fill differ only in the fields of the entry.                    *)
(***************************************************************************)
EXTENDS MPSCQueue

VARIABLES running,  \* running_
          spc,      \* what the thread that calls start and stop is about to do
          file,     \* Seq(Item): what a restarted program will find
          bad,      \* file_stream_ has failed: later writes do nothing
          quiet     \* history: no log_ call was in progress when stop() began

walVars == <<running, spc, file, bad, quiet>>
vars == <<mpscVars, walVars>>

Init ==
    /\ QueueInit
    /\ pc = [p \in Producer |-> "idle"] /\ sent = [p \in Producer |-> 0]
    /\ cpc = "none"
    /\ running = FALSE /\ spc = "created" /\ file = <<>> /\ bad = FALSE /\ quiet = FALSE
-----------------------------------------------------------------------------
(* The log_ functions. *)

\* running_ is tested first: without a running log the entry is dropped.
Log(p) ==
    /\ pc[p] = "idle" /\ sent[p] < MaxSend
    /\ sent' = [sent EXCEPT ![p] = @ + 1]
    /\ pc' = IF running THEN [pc EXCEPT ![p] = "try"] ELSE pc
    /\ UNCHANGED <<queueVars, cpc, walVars>>

\* Mutant: the retry loop does not look at running_.
RetryForever(p) ==
    /\ pc[p] = "try"
    /\ pc' = [pc EXCEPT ![p] = "check"]
    /\ UNCHANGED <<queueVars, sent, cpc, walVars>>

\* The loop "while (running_ && !queue_.enqueue(entry)) yield()".
Retry(p) ==
    /\ pc[p] = "try"
    /\ pc' = [pc EXCEPT ![p] = IF running THEN "check" ELSE "idle"]
    /\ UNCHANGED <<queueVars, sent, cpc, walVars>>

LogStep(p) ==
    \/ Retry(p)
    \/ (EnqueueCheck(p, "try") \/ EnqueueExchange(p) \/ EnqueueLink(p)) /\ UNCHANGED walVars
-----------------------------------------------------------------------------
(* flush_loop. *)

\* Mutant: the loop ends as soon as the log is stopped.
FlushTestOnly ==
    /\ cpc = "loop"
    /\ cpc' = IF running THEN "dequeue" ELSE "exit"
    /\ UNCHANGED <<queueVars, pc, sent, walVars>>

\* The loop condition, first running_ and then the queue.
FlushTest ==
    /\ cpc = "loop"
    /\ cpc' = IF running THEN "dequeue" ELSE "drain"
    /\ UNCHANGED <<queueVars, pc, sent, walVars>>

\* Mutant: an empty queue does not end the loop.
FlushDrainForever ==
    /\ cpc = "drain"
    /\ cpc' = "dequeue"
    /\ UNCHANGED <<queueVars, pc, sent, walVars>>

FlushDrain ==
    /\ cpc = "drain"
    /\ cpc' = IF empty THEN "exit" ELSE "dequeue"
    /\ UNCHANGED <<queueVars, pc, sent, walVars>>

\* Mutant: every round writes the first entry again.
WriteFirst ==
    /\ cpc = "write"
    /\ cpc' = "loop"
    /\ file' = IF bad THEN file ELSE Append(file, taken[1])
    /\ UNCHANGED <<queueVars, pc, sent, running, spc, bad, quiet>>

\* The entry is written and flushed; a write that fails sets a state of the
\* stream nobody tests, and every later write does nothing.
Write ==
    /\ cpc = "write"
    /\ cpc' = "loop"
    /\ \/ file' = (IF bad THEN file ELSE Append(file, taken[Len(taken)])) /\ UNCHANGED bad
       \/ bad' = TRUE /\ UNCHANGED file
    /\ UNCHANGED <<queueVars, pc, sent, running, spc, quiet>>

FlushStep ==
    \/ FlushTest \/ FlushDrain \/ Write
    \/ (DequeueLoad("loop") \/ DequeueTake("write")) /\ UNCHANGED walVars
-----------------------------------------------------------------------------
(* start and stop; one life of the log object. *)

start ==
    /\ spc = "created"
    /\ spc' = "running" /\ running' = TRUE /\ cpc' = "loop"
    /\ UNCHANGED <<queueVars, pc, sent, file, bad, quiet>>

\* The file cannot be opened: the log never runs.
StartFails ==
    /\ spc = "created"
    /\ spc' = "failed"
    /\ UNCHANGED <<mpscVars, running, file, bad, quiet>>

stop ==
    /\ spc = "running"
    /\ spc' = "close" /\ running' = FALSE
    /\ quiet' = (\A p \in Producer : pc[p] = "idle")
    /\ UNCHANGED <<mpscVars, file, bad>>

StopStep ==
    \/ spc = "close" /\ spc' = "join" /\ close /\ UNCHANGED <<running, file, bad, quiet>>
    \/ spc = "join" /\ cpc = "exit" /\ spc' = "stopped" /\ UNCHANGED <<mpscVars, running, file, bad, quiet>>

Next ==
    \/ \E p \in Producer : Log(p) \/ LogStep(p)
    \/ FlushStep
    \/ start \/ StartFails \/ stop \/ StopStep

\* Each thread goes on while it can; nobody has to log or to stop the log.
Fairness ==
    /\ \A p \in Producer : WF_vars(LogStep(p))
    /\ WF_vars(FlushStep) /\ WF_vars(StopStep)

Spec == Init /\ [][Next]_vars

FairSpec == Spec /\ Fairness
-----------------------------------------------------------------------------
(* Properties. *)

\* At any moment, so at any crash, the file holds the first entries of the
\* order in which the log_ calls took effect, with no gap and no repetition.
FileIsPrefix ==
    /\ Len(file) <= Len(taken)
    /\ file = SubSeq(taken, 1, Len(file))

\* When stop() returns and no log_ call was in progress when it began (the
\* program shuts the worker pool down first), every entry is in the file.
CleanStopKeepsAll ==
    spc = "stopped" /\ quiet /\ ~bad => Waiting = <<>> /\ file = taken

\* A logged entry reaches the file, unless the stream fails or the log is stopped.
LoggedIsWritten ==
    \A x \in Item : (x \in Range(Waiting)) ~> (x \in Range(file) \/ bad \/ ~running)

\* A log_ call returns, although it retries while the queue refuses the entry:
\* the caller holds the mutex of its order book meanwhile.
LogReturns == \A p \in Producer : (pc[p] = "try") ~> (pc[p] = "idle")

\* stop() returns.
StopReturns == (spc = "close") ~> (spc = "stopped")
=============================================================================
