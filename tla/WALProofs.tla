----------------------------- MODULE WALProofs -----------------------------
(***************************************************************************)
(* Proofs about WAL, for any number of threads that log and of addresses:  *)
(* the queue inside the log is used safely, the file is always a prefix of *)
(* the order in which the entries took effect, and a clean stop loses      *)
(* none.  The queue's part of the argument is MPSCQueueProofs' invariant.  *)
(***************************************************************************)
EXTENDS WAL, MPSCQueueProofs

\* The object's life: running_ is set exactly between start and stop, the
\* flush thread leaves its loop only after stop began, and stop joins it.
Life ==
    /\ spc \in {"created", "failed", "running", "close", "join", "stopped"}
    /\ running \in BOOLEAN /\ bad \in BOOLEAN /\ quiet \in BOOLEAN
    /\ running <=> spc = "running"
    /\ cpc \in {"drain", "exit"} => spc \in {"close", "join", "stopped"}
    /\ spc \in {"created", "failed"} => cpc = "none"
    /\ spc = "stopped" => cpc = "exit"

\* A stop that began with no log_ call in progress stays undisturbed, and when
\* the flush thread has left the loop the queue is empty for good.
Calm ==
    quiet => /\ spc \in {"close", "join", "stopped"}
             /\ \A p \in Producer : pc[p] = "idle"
             /\ cpc = "exit" => Len(list) = 1

\* The file against what the flush thread has taken: all of it, but for the
\* entry in hand and for what a failed stream swallowed.
Written ==
    /\ file \in Seq(Item) /\ Len(file) <= Len(taken)
    /\ \A i \in 1..Len(file) : file[i] = taken[i]
    /\ cpc = "write" => Len(file) < Len(taken)
    /\ ~bad => Len(taken) = (IF cpc = "write" THEN Len(file) + 1 ELSE Len(file))

LogInv == Inv /\ Life /\ Calm /\ Written
-----------------------------------------------------------------------------
(* The queue's invariant: the log uses the queue only through its own steps. *)

\* Steps of the log outside the queue leave the nodes alone.
LEMMA OutsideQueue ==
  ASSUME Inv, UNCHANGED queueVars, cpc' # "take" \/ UNCHANGED cpc,
         pc' \in [Producer -> Steps], sent' \in [Producer -> 0..MaxSend],
         \A p \in Producer : pc'[p] # "idle" => sent'[p] >= 1,
         \A p \in Producer : pc'[p] = "link" <=> pc[p] = "link"
  PROVE  Inv'
  <1>1. Typed'
    BY DEF Inv, Typed, queueVars
  <1>2. Loaded'
    BY DEF Inv, Loaded, queueVars
  <1> QED BY <1>1, <1>2, QuietStep DEF queueVars

\* log_ and its retry loop.
LEMMA LogKeepsQueue ==
  ASSUME Inv, NEW p \in Producer, Log(p) \/ LogStep(p)
  PROVE  Inv'
  <1>0. Typed
    BY DEF Inv
  <1>1. CASE Log(p)
    <2>1. UNCHANGED queueVars /\ UNCHANGED cpc
      BY <1>1 DEF Log
    <2>2. /\ sent' \in [Producer -> 0..MaxSend] /\ sent'[p] >= 1
          /\ \A q \in Producer \ {p} : sent'[q] = sent[q]
      BY <1>0, <1>1, MPSCAssumption DEF Log, Typed
    <2>3. /\ pc' \in [Producer -> Steps] /\ \A q \in Producer \ {p} : pc'[q] = pc[q]
          /\ pc'[p] # "link" /\ pc[p] # "link"
      BY <1>0, <1>1 DEF Log, Typed, Steps
    <2> QED BY <1>0, <2>1, <2>2, <2>3, OutsideQueue DEF Typed
  <1>2. CASE Retry(p)
    <2>1. UNCHANGED queueVars /\ UNCHANGED <<cpc, sent>>
      BY <1>2 DEF Retry
    <2>2. /\ pc' \in [Producer -> Steps] /\ \A q \in Producer \ {p} : pc'[q] = pc[q]
          /\ pc'[p] # "link" /\ pc[p] # "link" /\ pc[p] # "idle"
      BY <1>0, <1>2 DEF Retry, Typed, Steps
    <2> QED BY <1>0, <2>1, <2>2, OutsideQueue DEF Typed
  <1>3. CASE EnqueueCheck(p, "try")
    BY <1>3, CallKept
  <1>4. CASE EnqueueExchange(p)
    BY <1>4, ExchangeKept
  <1>5. CASE EnqueueLink(p)
    BY <1>5, LinkKept
  <1> QED BY <1>1, <1>2, <1>3, <1>4, <1>5 DEF LogStep

\* The flush thread, start and stop.
LEMMA FlushKeepsQueue ==
  ASSUME Inv, FlushStep \/ start \/ StartFails \/ stop \/ StopStep
  PROVE  Inv'
  <1>0. Typed
    BY DEF Inv
  <1>1. CASE DequeueLoad("loop")
    BY <1>1, LoadKept
  <1>2. CASE DequeueTake("write")
    BY <1>2, TakeKept
  <1>3. CASE FlushTest \/ FlushDrain \/ Write \/ start
    <2>1. UNCHANGED queueVars /\ UNCHANGED <<pc, sent>> /\ cpc' # "take"
      BY <1>3 DEF FlushTest, FlushDrain, Write, start
    <2> QED BY <1>0, <2>1, OutsideQueue DEF Typed
  <1>4. CASE UNCHANGED mpscVars
    BY <1>0, <1>4, OutsideQueue DEF Typed, mpscVars
  <1>5. CASE close
    BY <1>5, CallKept
  <1> QED BY <1>1, <1>2, <1>3, <1>4, <1>5 DEF FlushStep, StartFails, stop, StopStep
-----------------------------------------------------------------------------
(* The log's own invariant. *)

\* Steps of the log_ functions.
LEMMA LogKept ==
  ASSUME LogInv, NEW p \in Producer, Log(p) \/ LogStep(p)
  PROVE  LogInv'
  <1>0. Inv /\ Typed /\ Life /\ Calm /\ Written
    BY DEF LogInv, Inv
  <1>1. UNCHANGED <<walVars, cpc, taken>>
    BY DEF Log, LogStep, Retry, EnqueueCheck, EnqueueExchange, EnqueueLink, queueVars
  <1>2. Life'
    BY <1>0, <1>1 DEF Life, walVars
  <1>3. Calm'
    <2> SUFFICES ASSUME quiet PROVE list' = list /\ \A q \in Producer : pc'[q] = "idle"
      BY <1>0, <1>1 DEF Calm, walVars
    <2>1. ~running /\ \A q \in Producer : pc[q] = "idle"
      BY <1>0 DEF Calm, Life
    <2>2. Log(p)
      BY <2>1 DEF LogStep, Retry, EnqueueCheck, EnqueueExchange, EnqueueLink
    <2> QED BY <2>1, <2>2 DEF Log, queueVars
  <1>4. Written'
    BY <1>0, <1>1 DEF Written, walVars
  <1> QED BY <1>0, <1>2, <1>3, <1>4, LogKeepsQueue DEF LogInv

\* The write of the entry in hand.
LEMMA WriteKept ==
  ASSUME Typed, Written, Life, Write
  PROVE  Written'
  <1>1. taken' = taken /\ cpc = "write" /\ cpc' = "loop" /\ Len(file) < Len(taken)
    BY DEF Write, Written, queueVars
  <1>2. CASE file' = file /\ bad'
    BY <1>1, <1>2 DEF Written
  <1>3. CASE ~bad /\ file' = Append(file, taken[Len(taken)]) /\ bad' = bad
    <2>1. Len(file) \in Nat /\ Len(taken) = Len(file) + 1 /\ taken[Len(taken)] \in Item
      BY <1>1, <1>3 DEF Written, Typed
    <2>2. /\ file' \in Seq(Item) /\ Len(file') = Len(taken) /\ file'[Len(taken)] = taken[Len(taken)]
          /\ \A i \in 1..Len(file) : file'[i] = file[i]
      BY <1>3, <2>1 DEF Written
    <2>3. \A i \in 1..Len(file') : file'[i] = taken[i]
      <3>1. \A i \in 1..Len(file') : i \in 1..Len(file) \/ i = Len(taken)
        BY <2>1, <2>2
      <3> QED BY <2>2, <3>1 DEF Written
    <2> QED BY <1>1, <1>3, <2>1, <2>2, <2>3 DEF Written
  <1>4. \/ file' = (IF bad THEN file ELSE Append(file, taken[Len(taken)])) /\ bad' = bad
        \/ bad' /\ file' = file
    BY DEF Write
  <1>5. CASE bad
    BY <1>2, <1>4, <1>5
  <1>6. CASE ~bad
    <2>1. CASE bad' /\ file' = file
      BY <1>2, <2>1
    <2>2. CASE file' = Append(file, taken[Len(taken)]) /\ bad' = bad
      BY <1>3, <1>6, <2>2
    <2>3. (IF bad THEN file ELSE Append(file, taken[Len(taken)])) = Append(file, taken[Len(taken)])
      BY <1>6
    <2> QED BY <1>4, <2>1, <2>2, <2>3, Zenon
  <1> QED BY <1>5, <1>6

\* Steps of the flush thread.
LEMMA FlushKept ==
  ASSUME LogInv, FlushStep
  PROVE  LogInv'
  <1>0. Inv /\ Typed /\ Chain /\ Gaps /\ Loaded /\ Life /\ Calm /\ Written
    BY DEF LogInv, Inv
  <1>1. UNCHANGED <<running, spc, quiet, pc>> /\ bad' \in BOOLEAN
    BY <1>0 DEF FlushStep, FlushTest, FlushDrain, Write, DequeueLoad, DequeueTake, walVars, Life
  <1>2. Life'
    <2>1. cpc # "exit" /\ cpc # "none"
      BY DEF FlushStep, FlushTest, FlushDrain, Write, DequeueLoad, DequeueTake
    <2>2. cpc' \in {"drain", "exit"} => ~running
      BY <1>0 DEF FlushStep, FlushTest, FlushDrain, Write, DequeueLoad, DequeueTake, Life
    <2>3. cpc' \in {"drain", "exit"} => spc \in {"close", "join", "stopped"}
      BY <1>0 DEF FlushStep, FlushTest, FlushDrain, Write, DequeueLoad, DequeueTake, Life
    <2> QED BY <1>0, <1>1, <2>1, <2>2, <2>3 DEF Life
  <1>3. Calm'
    <2> SUFFICES ASSUME quiet, cpc' = "exit" PROVE Len(list') = 1
      BY <1>0, <1>1 DEF Calm
    <2>1. FlushDrain /\ empty /\ list' = list
      BY DEF FlushStep, FlushTest, FlushDrain, Write, DequeueLoad, DequeueTake, queueVars
    <2>2. Len(list) \in Nat /\ Len(list) >= 1 /\ next[list[1]] = Null
      BY <1>0, <2>1 DEF empty, Chain, Typed
    <2>3. ~(1 \in 1..(Len(list) - 1))
      BY <1>0, <2>2 DEF Gaps, Calm
    <2> QED BY <2>1, <2>2, <2>3
  <1>4. Written'
    <2>1. CASE FlushTest \/ FlushDrain \/ (DequeueLoad("loop") /\ UNCHANGED walVars)
      <3>1. cpc # "write" /\ cpc' # "write" /\ UNCHANGED <<file, taken, bad>>
        BY <2>1 DEF FlushTest, FlushDrain, DequeueLoad, walVars, queueVars
      <3> QED BY <1>0, <3>1 DEF Written
    <2>2. CASE Write
      BY <1>0, <2>2, WriteKept
    <2>3. CASE DequeueTake("write") /\ UNCHANGED walVars
      <3>1. /\ cpc = "take" /\ cpc' = "write" /\ taken' = Append(taken, data[ahead])
            /\ UNCHANGED <<file, bad>>
        BY <2>3 DEF DequeueTake, walVars
      <3>2. data[ahead] \in Item
        <4>1. 2 \in 2..Len(list) /\ ahead = list[2]
          BY <1>0, <3>1 DEF Loaded, Typed
        <4> QED BY <1>0, <4>1 DEF Chain
      <3>3. Len(taken') = Len(taken) + 1 /\ \A i \in 1..Len(taken) : taken'[i] = taken[i]
        BY <1>0, <3>1, <3>2 DEF Typed
      <3>4. \A i \in 1..Len(file) : i \in 1..Len(taken)
        BY <1>0 DEF Written, Typed
      <3> QED BY <1>0, <3>1, <3>3, <3>4 DEF Written, Typed
    <2> QED BY <2>1, <2>2, <2>3 DEF FlushStep
  <1> QED BY <1>0, <1>2, <1>3, <1>4, FlushKeepsQueue DEF LogInv

\* start and stop.
LEMMA ControlKept ==
  ASSUME LogInv, start \/ StartFails \/ stop \/ StopStep
  PROVE  LogInv'
  <1>0. Inv /\ Life /\ Calm /\ Written
    BY DEF LogInv
  <1>1. UNCHANGED <<pc, list, taken, file, bad>>
    BY DEF start, StartFails, stop, StopStep, close, mpscVars, queueVars
  <1>2. Life'
    <2>1. CASE start \/ StartFails
      <3>1. CASE start
        <4>1. spc' = "running" /\ running' = TRUE /\ cpc' = "loop" /\ quiet' = quiet
          BY <3>1 DEF start
        <4> QED BY <1>0, <1>1, <4>1 DEF Life
      <3>2. CASE StartFails
        <4>1. spc = "created" /\ spc' = "failed" /\ running' = running /\ cpc' = cpc /\ quiet' = quiet
          BY <3>2 DEF StartFails, mpscVars
        <4> QED BY <1>0, <1>1, <4>1 DEF Life
      <3> QED BY <2>1, <3>1, <3>2
    <2>2. CASE stop
      <3>1. quiet' \in BOOLEAN
        BY <2>2 DEF stop
      <3>2. spc = "running" /\ spc' = "close" /\ running' = FALSE /\ cpc' = cpc
        BY <2>2 DEF stop, mpscVars
      <3> QED BY <1>0, <1>1, <3>1, <3>2 DEF Life
    <2>3. CASE StopStep
      BY <1>0, <1>1, <2>3 DEF StopStep, close, mpscVars, Life
    <2> QED BY <2>1, <2>2, <2>3
  <1>3. Calm'
    BY <1>0, <1>1 DEF start, StartFails, stop, StopStep, close, mpscVars, Life, Calm
  <1>4. Written'
    <2>1. cpc' = cpc \/ (cpc' # "write" /\ cpc # "write")
      BY <1>0 DEF start, StartFails, stop, StopStep, close, mpscVars, Life
    <2> QED BY <1>0, <1>1, <2>1 DEF Written
  <1> QED BY <1>0, <1>2, <1>3, <1>4, FlushKeepsQueue DEF LogInv

\* LogInv is inductive: the log keeps the queue in order and the file in step
\* with it, whatever the threads that log, the flush thread and the thread that
\* stops the log do in between.
THEOREM LogInvariant == Spec => []LogInv
  <1>1. Init => LogInv
    <2> SUFFICES ASSUME Init PROVE LogInv
      OBVIOUS
    <2>1. Inv
      BY InitInv DEF Init
    <2>2. Life /\ Calm
      BY DEF Init, Life, Calm
    <2>3. file \in Seq(Item) /\ Len(file) = 0 /\ taken = <<>> /\ cpc = "none"
      BY DEF Init, QueueInit
    <2> QED BY <2>1, <2>2, <2>3 DEF LogInv, Written
  <1>2. ASSUME LogInv, [Next]_vars PROVE LogInv'
    <2>1. ASSUME NEW p \in Producer, Log(p) \/ LogStep(p) PROVE LogInv'
      BY <1>2, <2>1, LogKept
    <2>2. CASE FlushStep
      BY <1>2, <2>2, FlushKept
    <2>3. CASE start \/ StartFails \/ stop \/ StopStep
      BY <1>2, <2>3, ControlKept
    <2>4. CASE UNCHANGED vars
      <3>1. UNCHANGED queueVars /\ UNCHANGED <<pc, sent, cpc, walVars>>
        BY <2>4 DEF vars, mpscVars
      <3>2. Inv'
        BY <1>2, <3>1, OutsideQueue DEF LogInv, Inv, Typed
      <3> QED BY <1>2, <3>1, <3>2 DEF LogInv, Life, Calm, Written, walVars, queueVars
    <2> QED BY <1>2, <2>1, <2>2, <2>3, <2>4 DEF Next
  <1> QED BY <1>1, <1>2, PTL DEF Spec

\* The log's threads never touch a queue node that dequeue has deleted.
THEOREM LogMemorySafe == Spec => []NoUseAfterFree
  <1>1. LogInv => NoUseAfterFree
    BY InvIsSafe DEF LogInv
  <1> QED BY <1>1, LogInvariant, PTL

\* Under the log's retry loop, flush thread and shutdown the queue still
\* implements RelaxedQueue: what the flush thread takes is what was logged, in
\* the order in which the log_ calls took effect.
THEOREM LogFifo == Spec => FifoAtExchange
  <1>1. Init => RQ!RQInit
    <2> SUFFICES ASSUME Init PROVE RQ!RQInit
      OBVIOUS
    <2>1. Inv /\ taken = <<>> /\ Len(list) = 1
      BY InitInv DEF Init, QueueInit
    <2>2. Waiting \in Seq(Item) /\ Len(Waiting) = 0
      BY <2>1, WaitingSeq
    <2>3. Waiting = <<>>
      BY <2>2
    <2> QED BY <2>1, <2>3 DEF RQ!RQInit
  <1>2. ASSUME LogInv, LogInv', [Next]_vars
        PROVE  [RQ!RQNext]_<<Waiting, taken>>
    <2>0. Inv /\ Inv'
      BY <1>2 DEF LogInv
    <2>1. ASSUME NEW p \in Producer, EnqueueExchange(p) PROVE RQ!RQNext
      BY <2>0, <2>1, WaitingGrows DEF RQ!RQNext
    <2>2. CASE DequeueTake("write")
      BY <2>0, <2>2, WaitingShrinks DEF RQ!RQNext
    <2>3. ASSUME NEW p \in Producer, Log(p) \/ LogStep(p), ~EnqueueExchange(p)
          PROVE  list' = list /\ data' = data /\ taken' = taken
      BY <2>3 DEF Log, LogStep, Retry, EnqueueCheck, EnqueueLink, queueVars
    <2>4. ASSUME FlushStep, ~DequeueTake("write")
          PROVE  list' = list /\ data' = data /\ taken' = taken
      BY <2>4 DEF FlushStep, FlushTest, FlushDrain, Write, DequeueLoad, queueVars
    <2>5. ASSUME start \/ StartFails \/ stop \/ StopStep \/ UNCHANGED vars
          PROVE  list' = list /\ data' = data /\ taken' = taken
      BY <2>5 DEF start, StartFails, stop, StopStep, close, vars, mpscVars, queueVars
    <2> QED BY <1>2, <2>1, <2>2, <2>3, <2>4, <2>5, WaitingSame DEF Next
  <1> QED BY <1>1, <1>2, LogInvariant, PTL DEF Spec, FifoAtExchange, RQ!RQSpec

\* Whenever the program dies, the file holds the first entries of the order in
\* which the log_ calls took effect, with no gap and no repetition.
THEOREM LogPrefix == Spec => []FileIsPrefix
  <1>1. ASSUME LogInv PROVE FileIsPrefix
    <2>1. /\ file \in Seq(Item) /\ taken \in Seq(Item) /\ Len(file) <= Len(taken)
          /\ \A i \in 1..Len(file) : file[i] = taken[i]
      BY <1>1 DEF LogInv, Inv, Typed, Written
    <2> QED BY <2>1 DEF FileIsPrefix
  <1> QED BY <1>1, LogInvariant, PTL

\* A stop() that began with no log_ call in progress leaves the queue empty and
\* every entry in the file.
THEOREM LogCleanStop == Spec => []CleanStopKeepsAll
  <1>1. ASSUME LogInv PROVE CleanStopKeepsAll
    <2> SUFFICES ASSUME spc = "stopped", quiet, ~bad PROVE Waiting = <<>> /\ file = taken
      BY DEF CleanStopKeepsAll
    <2>0. Inv /\ Typed /\ Life /\ Calm /\ Written
      BY <1>1 DEF LogInv, Inv
    <2>1. cpc = "exit" /\ Len(list) = 1
      BY <2>0 DEF Life, Calm
    <2>2. Waiting \in Seq(Item) /\ Len(Waiting) = 0
      BY <2>0, <2>1, WaitingSeq
    <2>3. Waiting = <<>>
      BY <2>2
    <2>4. Len(file) = Len(taken) /\ file \in Seq(Item) /\ taken \in Seq(Item)
      BY <2>0, <2>1 DEF Written, Typed
    <2>5. file = taken
      BY <2>0, <2>4, SeqEqual DEF Written
    <2> QED BY <2>3, <2>5
  <1> QED BY <1>1, LogInvariant, PTL
=============================================================================
