-------------------------- MODULE ThreadPoolProofs --------------------------
(***************************************************************************)
(* Proofs about ThreadPool, for every number of producers and workers and  *)
(* every capacity: no wakeup is lost, nobody sleeps on a closed queue, and *)
(* shutdown drains the queue.                                              *)
(***************************************************************************)
EXTENDS ThreadPool, FiniteSetTheorems, TLAPS

ProducerPc == {"idle", "enqueue", "waitPush"}
WorkerPc == {"none", "dequeue", "waitPop", "work", "exited"}
MainPc == {"created", "running", "close", "notifyPop", "notifyPush", "join", "stopped"}

\* Each thread is at a point of its own program.
Places ==
    /\ pc = [t \in Thread |-> pc[t]]
    /\ \A p \in Producer : pc[p] \in ProducerPc
    /\ \A w \in Worker : pc[w] \in WorkerPc
    /\ pc[Main] \in MainPc

\* How far Main has come, and what that says about the flag and the workers.
Phases ==
    /\ closed \in BOOLEAN
    /\ closed <=> pc[Main] \in {"notifyPop", "notifyPush", "join", "stopped"}
    /\ pc[Main] = "created" => \A w \in Worker : pc[w] = "none"
    /\ pc[Main] # "created" => \A w \in Worker : pc[w] # "none"
    /\ pc[Main] = "stopped" => \A w \in Worker : pc[w] = "exited"

\* Nobody sleeps once the notify_all for him has been sent.
Awake ==
    /\ pc[Main] \in {"notifyPush", "join", "stopped"} => \A w \in Worker : pc[w] # "waitPop"
    /\ pc[Main] \in {"join", "stopped"} => \A p \in Producer : pc[p] # "waitPush"

Data ==
    /\ queue \in Seq(Task) /\ accepted \subseteq Task /\ finished \subseteq Task
    /\ stop \in BOOLEAN
    /\ sent \in [Producer -> 0..MaxSubmit]
    /\ held \in [Worker -> Task \cup {<<>>}]
    /\ \A w \in Worker : pc[w] = "work" => held[w] \in Task
    /\ \A p \in Producer : pc[p] # "idle" => sent[p] >= 1

\* An accepted task is in the queue, in the hands of a worker or processed.
Account ==
    accepted = finished \cup Range(queue) \cup {held[w] : w \in At(Worker, "work")}

\* A producer that comes back from waiting tests the length of the queue again.
Bounded == Len(queue) <= Capacity

\* A worker ends only when the queue is closed and drained.
ExitDrained == \A w \in Worker : pc[w] = "exited" => closed /\ queue = <<>>

WakeWorkers ==
    ~closed /\ At(Worker, "waitPop") # {} => Len(queue) <= Cardinality(At(Worker, "dequeue"))

WakeProducers ==
    ~closed /\ At(Producer, "waitPush") # {} =>
        Capacity - Len(queue) <= Cardinality(At(Producer, "enqueue"))

Control == Places /\ Phases /\ Awake

Inv == Control /\ Data /\ Bounded /\ Account /\ ExitDrained /\ WakeWorkers /\ WakeProducers
-----------------------------------------------------------------------------
(* Facts about sets of threads. *)

\* The threads of one kind at one place are finitely many.
LEMMA AtFinite ==
  /\ \A l : IsFiniteSet(At(Worker, l)) /\ Cardinality(At(Worker, l)) \in Nat
  /\ \A l : IsFiniteSet(At(Producer, l)) /\ Cardinality(At(Producer, l)) \in Nat
  <1>1. ASSUME NEW S, IsFiniteSet(S), NEW l
        PROVE  IsFiniteSet(At(S, l)) /\ Cardinality(At(S, l)) \in Nat
    <2>1. At(S, l) \subseteq S
      BY DEF At
    <2> QED BY <1>1, <2>1, FS_Subset, FS_CardinalityType
  <1> QED BY <1>1, PoolAssumption

\* One thread more, one thread less.
LEMMA CountChange ==
  ASSUME NEW S, IsFiniteSet(S), NEW x
  PROVE  /\ x \notin S => Cardinality(S \cup {x}) = Cardinality(S) + 1
         /\ x \in S => Cardinality(S \ {x}) = Cardinality(S) - 1
         /\ Cardinality(S) \in Nat
  BY FS_AddElement, FS_RemoveElement, FS_CardinalityType

\* The three kinds of threads are disjoint.
LEMMA Kinds ==
  /\ \A p \in Producer : p \in Thread /\ p # Main /\ p \notin Worker
  /\ \A w \in Worker : w \in Thread /\ w # Main /\ w \notin Producer
  /\ Main \in Thread /\ Main \notin Producer /\ Main \notin Worker
  BY PoolAssumption DEF Thread
-----------------------------------------------------------------------------
(* Control. *)

\* The places of the threads and the phases of Main fit together at any time.
LEMMA ControlKept == Inv /\ [Next]_vars => Control'
  <1> SUFFICES ASSUME Inv, [Next]_vars PROVE Control'
    OBVIOUS
  <1> USE Kinds DEF Control, Places, Phases, Awake, ProducerPc, WorkerPc, MainPc
  <1>0. Control /\ ExitDrained
    BY DEF Inv
  <1>1. ASSUME NEW p \in Producer, submit(p) \/ EnqueueWaits(p) \/ EnqueueRefused(p)
        PROVE  Control'
    <2>1. CASE submit(p)
      BY <1>0, <2>1 DEF submit, Goto
    <2>2. CASE EnqueueWaits(p)
      BY <1>0, <2>2 DEF EnqueueWaits, Goto
    <2>3. CASE EnqueueRefused(p)
      BY <1>0, <2>3 DEF EnqueueRefused, Goto
    <2> QED BY <1>1, <2>1, <2>2, <2>3
  <1>2. ASSUME NEW p \in Producer, EnqueuePushes(p) PROVE Control'
    BY <1>0, <1>2 DEF EnqueuePushes, NotifyOne, Goto, At
  <1>3. ASSUME NEW w \in Worker, DequeueWaits(w) \/ DequeueEnds(w) \/ Process(w) PROVE Control'
    <2>1. CASE DequeueWaits(w)
      BY <1>0, <2>1 DEF DequeueWaits, Goto
    <2>2. CASE DequeueEnds(w)
      BY <1>0, <2>2 DEF DequeueEnds, Goto
    <2>3. CASE Process(w)
      BY <1>0, <2>3 DEF Process, Goto
    <2> QED BY <1>3, <2>1, <2>2, <2>3
  <1>4. ASSUME NEW w \in Worker, DequeueTakes(w) PROVE Control'
    BY <1>0, <1>4 DEF DequeueTakes, NotifyOne, Goto, At
  <1>5. CASE start
    BY <1>0, <1>5 DEF start
  <1>6. CASE shutdown \/ join
    BY <1>0, <1>6 DEF shutdown, join, Goto
  <1>6a. CASE close
    BY <1>0, <1>6a DEF close, Goto
  <1>7. CASE NotifyPop
    BY <1>0, <1>7 DEF NotifyPop, NotifyAll, At
  <1>8. CASE NotifyPush
    BY <1>0, <1>8 DEF NotifyPush, NotifyAll, At
  <1>9. ASSUME NEW t \in Producer \cup Worker, SpuriousWakeup(t) PROVE Control'
    BY <1>0, <1>9 DEF SpuriousWakeup, Goto
  <1>10. CASE UNCHANGED vars
    BY <1>0, <1>10 DEF vars
  <1> QED BY <1>1, <1>2, <1>3, <1>4, <1>5, <1>6, <1>6a, <1>7, <1>8, <1>9, <1>10
          DEF Next, ProducerStep, WorkerStep, CloseStep
-----------------------------------------------------------------------------
(* Data. *)

\* What the workers hold changes only in DequeueTakes and Process.
LEMMA DataKept == Inv /\ [Next]_vars => Data'
  <1> SUFFICES ASSUME Inv, [Next]_vars PROVE Data'
    OBVIOUS
  <1> USE Kinds DEF Data
  <1>0. Control /\ Data
    BY DEF Inv
  <1> USE DEF Control, Places, Phases, ProducerPc, WorkerPc, MainPc
  <1>1. ASSUME NEW p \in Producer, submit(p) PROVE Data'
    <2>1. sent[p] \in 0..MaxSubmit /\ MaxSubmit \in Nat /\ sent[p] < MaxSubmit
      BY <1>0, <1>1, PoolAssumption DEF submit
    <2>2. sent[p] + 1 \in 0..MaxSubmit /\ sent[p] + 1 >= 1
      BY <2>1
    <2>3. sent' = [sent EXCEPT ![p] = sent[p] + 1]
      BY <1>1 DEF submit
    <2>4. sent' \in [Producer -> 0..MaxSubmit] /\ sent'[p] >= 1 /\ \A r \in Producer \ {p} : sent'[r] = sent[r]
      BY <1>0, <2>2, <2>3
    <2>5. /\ \A w \in Worker : pc'[w] = pc[w]
          /\ \A r \in Producer \ {p} : pc'[r] = pc[r]
      BY <1>0, <1>1 DEF submit, Goto
    <2> QED BY <1>0, <1>1, <2>4, <2>5 DEF submit
  <1>2. ASSUME NEW p \in Producer, EnqueueWaits(p) \/ EnqueueRefused(p) PROVE Data'
    BY <1>0, <1>2 DEF EnqueueWaits, EnqueueRefused, Goto
  <1>3. ASSUME NEW p \in Producer, EnqueuePushes(p) PROVE Data'
    <2>1. <<p, sent[p]>> \in Task
      <3>1. sent[p] \in 0..MaxSubmit /\ sent[p] >= 1 /\ MaxSubmit \in Nat
        BY <1>0, <1>3, PoolAssumption DEF EnqueuePushes
      <3>2. sent[p] \in 1..MaxSubmit
        BY <3>1
      <3> QED BY <3>2 DEF Task
    <2>2. queue' \in Seq(Task) /\ accepted' \subseteq Task
      <3> DEFINE x == <<p, sent[p]>>
      <3>1. x \in Task /\ queue \in Seq(Task) /\ accepted \subseteq Task
        BY <1>0, <2>1
      <3>2. queue' = Append(queue, x) /\ accepted' = accepted \cup {x}
        BY <1>3 DEF EnqueuePushes
      <3> HIDE DEF x
      <3> QED BY <3>1, <3>2
    <2>3. \A w \in Worker : pc'[w] = "work" => pc[w] = "work"
      BY <1>0, <1>3 DEF EnqueuePushes, NotifyOne, Goto, At
    <2>4. \A r \in Producer : pc'[r] # "idle" => pc[r] # "idle"
      BY <1>0, <1>3 DEF EnqueuePushes, NotifyOne, Goto, At
    <2> QED BY <1>0, <1>3, <2>2, <2>3, <2>4 DEF EnqueuePushes
  <1>4. ASSUME NEW w \in Worker, DequeueWaits(w) \/ DequeueEnds(w) PROVE Data'
    BY <1>0, <1>4 DEF DequeueWaits, DequeueEnds, Goto
  <1>5. ASSUME NEW w \in Worker, DequeueTakes(w) PROVE Data'
    <2>1. Head(queue) \in Task /\ Tail(queue) \in Seq(Task)
      BY <1>0, <1>5 DEF DequeueTakes
    <2>2. held' = [held EXCEPT ![w] = Head(queue)] /\ held' \in [Worker -> Task \cup {<<>>}]
      BY <1>0, <1>5, <2>1 DEF DequeueTakes
    <2>3. \A v \in Worker \ {w} : pc'[v] = "work" => pc[v] = "work"
      BY <1>0, <1>5 DEF DequeueTakes, NotifyOne, Goto, At
    <2>4. \A r \in Producer : pc'[r] # "idle" => pc[r] # "idle"
      BY <1>0, <1>5 DEF DequeueTakes, NotifyOne, Goto, At
    <2> QED BY <1>0, <1>5, <2>1, <2>2, <2>3, <2>4 DEF DequeueTakes
  <1>6. ASSUME NEW w \in Worker, Process(w) PROVE Data'
    BY <1>0, <1>6 DEF Process, Goto
  <1>7. CASE start
    BY <1>0, <1>7 DEF start
  <1>8. CASE shutdown \/ close \/ join
    BY <1>0, <1>8 DEF shutdown, close, join, Goto
  <1>9. CASE NotifyPop \/ NotifyPush
    BY <1>0, <1>9 DEF NotifyPop, NotifyPush, NotifyAll, At
  <1>10. ASSUME NEW t \in Producer \cup Worker, SpuriousWakeup(t) PROVE Data'
    BY <1>0, <1>10 DEF SpuriousWakeup, Goto
  <1>11. CASE UNCHANGED vars
    BY <1>0, <1>11 DEF vars
  <1> QED BY <1>1, <1>2, <1>3, <1>4, <1>5, <1>6, <1>7, <1>8, <1>9, <1>10, <1>11
          DEF Next, ProducerStep, WorkerStep, CloseStep

\* Only EnqueuePushes makes the queue longer.
LEMMA BoundKept == Inv /\ [Next]_vars => Bounded'
  <1> SUFFICES ASSUME Inv, [Next]_vars PROVE Bounded'
    OBVIOUS
  <1>0. queue \in Seq(Task) /\ Len(queue) \in Nat /\ Len(queue) <= Capacity /\ Capacity \in Nat
    BY PoolAssumption DEF Inv, Data, Bounded
  <1>1. ASSUME NEW p \in Producer, EnqueuePushes(p) PROVE Bounded'
    <2>1. Len(queue) < Capacity /\ \E x : queue' = Append(queue, x)
      BY <1>1 DEF EnqueuePushes
    <2>2. Len(queue') = Len(queue) + 1
      BY <1>0, <2>1
    <2> QED BY <1>0, <2>1, <2>2 DEF Bounded
  <1>2. ASSUME NEW w \in Worker, DequeueTakes(w) PROVE Bounded'
    <2>1. queue # <<>> /\ queue' = Tail(queue)
      BY <1>2 DEF DequeueTakes
    <2>2. Len(queue') = Len(queue) - 1
      BY <1>0, <2>1
    <2> QED BY <1>0, <2>2 DEF Bounded
  <1>3. CASE queue' = queue
    BY <1>0, <1>3 DEF Bounded
  <1> QED BY <1>1, <1>2, <1>3
          DEF Next, ProducerStep, WorkerStep, CloseStep, submit, EnqueueWaits, EnqueueRefused, DequeueWaits,
              DequeueEnds, Process, start, shutdown, close, join, NotifyPop, NotifyPush, SpuriousWakeup, vars

\* No accepted task is lost between the queue, the workers and the end.
LEMMA AccountKept == Inv /\ [Next]_vars => Account'
  <1> SUFFICES ASSUME Inv, [Next]_vars PROVE Account'
    OBVIOUS
  <1> DEFINE InHand == {held[w] : w \in At(Worker, "work")}
  <1>0. Control /\ Data /\ Account /\ queue \in Seq(Task)
    BY DEF Inv, Data
  <1>1. ASSUME UNCHANGED <<queue, accepted, finished, held>>, At(Worker, "work")' = At(Worker, "work")
        PROVE  Account'
    BY <1>0, <1>1 DEF Account
  <1> USE Kinds DEF Control, Places, Phases, ProducerPc, WorkerPc, MainPc
  <1>2. ASSUME NEW p \in Producer, submit(p) \/ EnqueueWaits(p) \/ EnqueueRefused(p) PROVE Account'
    BY <1>0, <1>1, <1>2 DEF submit, EnqueueWaits, EnqueueRefused, Goto, At
  <1>3. ASSUME NEW p \in Producer, EnqueuePushes(p) PROVE Account'
    <2>1. At(Worker, "work")' = At(Worker, "work")
      BY <1>0, <1>3 DEF EnqueuePushes, NotifyOne, Goto, At
    <2>2. Range(queue') = Range(queue) \cup {<<p, sent[p]>>}
      BY <1>0, <1>3 DEF EnqueuePushes, Range
    <2>3. /\ accepted' = accepted \cup {<<p, sent[p]>>}
          /\ finished' = finished /\ held' = held
      BY <1>3 DEF EnqueuePushes
    <2> QED BY <1>0, <2>1, <2>2, <2>3 DEF Account
  <1>4. ASSUME NEW w \in Worker, DequeueWaits(w) \/ DequeueEnds(w) PROVE Account'
    BY <1>0, <1>1, <1>4 DEF DequeueWaits, DequeueEnds, Goto, At
  <1>5. ASSUME NEW w \in Worker, DequeueTakes(w) PROVE Account'
    <2>1. At(Worker, "work")' = At(Worker, "work") \cup {w} /\ w \notin At(Worker, "work")
      BY <1>0, <1>5 DEF DequeueTakes, NotifyOne, Goto, At
    <2>2. Range(queue) = Range(queue') \cup {Head(queue)}
      <3> DEFINE q == queue
                 t == Tail(queue)
      <3>1. q \in Seq(Task) /\ q # <<>> /\ queue' = t
        BY <1>0, <1>5 DEF DequeueTakes
      <3>2. t \in Seq(Task) /\ Len(t) = Len(q) - 1 /\ \A i \in 1..Len(t) : t[i] = q[i + 1]
        BY <3>1
      <3>3. \A i \in 1..Len(q) : i = 1 \/ (i - 1 \in 1..Len(t) /\ q[i] = t[i - 1])
        BY <3>1, <3>2
      <3>4. Head(q) = q[1] /\ 1 \in 1..Len(q) /\ DOMAIN q = 1..Len(q) /\ DOMAIN t = 1..Len(t)
        BY <3>1, <3>2
      <3>5. \A i \in 1..Len(t) : i + 1 \in 1..Len(q)
        BY <3>1, <3>2
      <3> HIDE DEF q, t
      <3>6. ASSUME NEW x \in Range(q) PROVE x \in Range(t) \cup {Head(q)}
        <4>1. PICK i \in 1..Len(q) : x = q[i]
          BY <3>4, <3>6 DEF Range
        <4> QED BY <3>3, <3>4, <4>1 DEF Range
      <3>7. ASSUME NEW x \in Range(t) PROVE x \in Range(q)
        <4>1. PICK i \in 1..Len(t) : x = t[i]
          BY <3>4, <3>7 DEF Range
        <4> QED BY <3>2, <3>4, <3>5, <4>1 DEF Range
      <3>8. Head(q) \in Range(q)
        BY <3>4 DEF Range
      <3>9. Range(q) = Range(t) \cup {Head(q)}
        BY <3>6, <3>7, <3>8
      <3> QED BY <3>1, <3>9 DEF q
    <2>3. /\ held' = [held EXCEPT ![w] = Head(queue)]
          /\ accepted' = accepted /\ finished' = finished
      BY <1>5 DEF DequeueTakes
    <2>4. held'[w] = Head(queue) /\ \A v \in Worker \ {w} : held'[v] = held[v]
      BY <1>0, <2>3 DEF Data
    <2>5. InHand' = InHand \cup {Head(queue)}
      BY <2>1, <2>4 DEF At
    <2> QED BY <1>0, <2>2, <2>3, <2>5 DEF Account
  <1>6. ASSUME NEW w \in Worker, Process(w) PROVE Account'
    <2>1. At(Worker, "work")' = At(Worker, "work") \ {w} /\ w \in At(Worker, "work")
      BY <1>0, <1>6 DEF Process, Goto, At
    <2>2. /\ held' = [held EXCEPT ![w] = <<>>]
          /\ accepted' = accepted /\ finished' = finished \cup {held[w]} /\ queue' = queue
      BY <1>6 DEF Process
    <2>3. \A v \in Worker \ {w} : held'[v] = held[v]
      BY <1>0, <2>2 DEF Data
    <2>4. InHand \cup {held[w]} = InHand' \cup {held[w]}
      BY <2>1, <2>3 DEF At
    <2>5. held[w] \in InHand
      BY <2>1
    <2> QED BY <1>0, <2>2, <2>4, <2>5 DEF Account
  <1>7. CASE start
    BY <1>0, <1>1, <1>7 DEF start, At
  <1>8. CASE shutdown \/ close \/ join
    BY <1>0, <1>1, <1>8 DEF shutdown, close, join, Goto, At
  <1>9. CASE NotifyPop \/ NotifyPush
    BY <1>0, <1>1, <1>9 DEF NotifyPop, NotifyPush, NotifyAll, At
  <1>10. ASSUME NEW t \in Producer \cup Worker, SpuriousWakeup(t) PROVE Account'
    BY <1>0, <1>1, <1>10 DEF SpuriousWakeup, Goto, At
  <1>11. CASE UNCHANGED vars
    BY <1>0, <1>1, <1>11 DEF vars, At
  <1> QED BY <1>2, <1>3, <1>4, <1>5, <1>6, <1>7, <1>8, <1>9, <1>10, <1>11
          DEF Next, ProducerStep, WorkerStep, CloseStep

\* Nothing is pushed onto a closed queue, so a drained one stays drained.
LEMMA ExitKept == Inv /\ [Next]_vars => ExitDrained'
  <1> SUFFICES ASSUME Inv, [Next]_vars PROVE ExitDrained'
    OBVIOUS
  <1> USE Kinds DEF Control, Places, Phases, ProducerPc, WorkerPc, MainPc, ExitDrained
  <1>0. Control /\ ExitDrained
    BY DEF Inv
  <1>1. ASSUME NEW p \in Producer, submit(p) \/ EnqueueWaits(p) \/ EnqueueRefused(p)
        PROVE  ExitDrained'
    BY <1>0, <1>1 DEF submit, EnqueueWaits, EnqueueRefused, Goto
  <1>2. ASSUME NEW p \in Producer, EnqueuePushes(p) PROVE ExitDrained'
    BY <1>0, <1>2 DEF EnqueuePushes, NotifyOne, Goto, At
  <1>3. ASSUME NEW w \in Worker, DequeueWaits(w) \/ DequeueEnds(w) \/ Process(w) PROVE ExitDrained'
    BY <1>0, <1>3 DEF DequeueWaits, DequeueEnds, Process, Goto
  <1>4. ASSUME NEW w \in Worker, DequeueTakes(w) PROVE ExitDrained'
    BY <1>0, <1>4 DEF DequeueTakes, NotifyOne, Goto, At
  <1>5. CASE start
    BY <1>0, <1>5 DEF start
  <1>6. CASE shutdown \/ close \/ join
    BY <1>0, <1>6 DEF shutdown, close, join, Goto
  <1>7. CASE NotifyPop \/ NotifyPush
    BY <1>0, <1>7 DEF NotifyPop, NotifyPush, NotifyAll, At
  <1>8. ASSUME NEW t \in Producer \cup Worker, SpuriousWakeup(t) PROVE ExitDrained'
    BY <1>0, <1>8 DEF SpuriousWakeup, Goto
  <1>9. CASE UNCHANGED vars
    BY <1>0, <1>9 DEF vars
  <1> QED BY <1>1, <1>2, <1>3, <1>4, <1>5, <1>6, <1>7, <1>8, <1>9
          DEF Next, ProducerStep, WorkerStep, CloseStep
-----------------------------------------------------------------------------
(* Wakeups. *)

\* A step that leaves the queue alone, wakes workers but puts none to sleep and
\* takes none from its way to the queue cannot lose a wakeup; nor can a step
\* that leaves no worker asleep.
LEMMA WorkersGrow ==
  ASSUME Inv, queue' = queue,
         At(Worker, "waitPop")' \subseteq At(Worker, "waitPop"),
         At(Worker, "dequeue") \subseteq At(Worker, "dequeue")',
         closed' = closed
  PROVE  WakeWorkers'
  <1>1. At(Worker, "dequeue")' \subseteq Worker
    BY DEF At
  <1>2. IsFiniteSet(At(Worker, "dequeue")')
    BY <1>1, FS_Subset, PoolAssumption
  <1>3. Cardinality(At(Worker, "dequeue")) <= Cardinality(At(Worker, "dequeue")')
    BY <1>2, FS_Subset
  <1>4. /\ Cardinality(At(Worker, "dequeue")) \in Nat /\ Cardinality(At(Worker, "dequeue")') \in Nat
        /\ Len(queue) \in Nat
    BY <1>2, AtFinite, FS_CardinalityType DEF Inv, Data
  <1> QED BY <1>3, <1>4 DEF Inv, WakeWorkers

\* The same for producers.
LEMMA ProducersGrow ==
  ASSUME Inv, queue' = queue,
         At(Producer, "waitPush")' \subseteq At(Producer, "waitPush"),
         At(Producer, "enqueue") \subseteq At(Producer, "enqueue")',
         closed' = closed
  PROVE  WakeProducers'
  <1>1. At(Producer, "enqueue")' \subseteq Producer
    BY DEF At
  <1>2. IsFiniteSet(At(Producer, "enqueue")')
    BY <1>1, FS_Subset, PoolAssumption
  <1>3. Cardinality(At(Producer, "enqueue")) <= Cardinality(At(Producer, "enqueue")')
    BY <1>2, FS_Subset
  <1>4. /\ Cardinality(At(Producer, "enqueue")) \in Nat /\ Cardinality(At(Producer, "enqueue")') \in Nat
        /\ Len(queue) \in Nat /\ Capacity \in Nat
    BY <1>2, AtFinite, FS_CardinalityType, PoolAssumption DEF Inv, Data
  <1> QED BY <1>3, <1>4 DEF Inv, WakeProducers

\* No step loses a wakeup of a worker.
LEMMA WakeWorkersKept == Inv /\ [Next]_vars => WakeWorkers'
  <1> SUFFICES ASSUME Inv, [Next]_vars PROVE WakeWorkers'
    OBVIOUS
  <1>0. Control /\ WakeWorkers /\ queue \in Seq(Task) /\ Len(queue) \in Nat
    <2>1. Control /\ WakeWorkers /\ queue \in Seq(Task)
      BY DEF Inv, Data
    <2> QED BY <2>1
  <1> USE Kinds DEF Control, Places, Phases, ProducerPc, WorkerPc, MainPc
  <1>f. /\ IsFiniteSet(At(Worker, "dequeue")) /\ Cardinality(At(Worker, "dequeue")) \in Nat
        /\ Cardinality(At(Worker, "dequeue")') \in Nat
    <2>1. At(Worker, "dequeue")' \subseteq Worker
      BY DEF At
    <2> QED BY <2>1, AtFinite, FS_Subset, FS_CardinalityType, PoolAssumption
  <1>1. ASSUME NEW p \in Producer, submit(p) \/ EnqueueWaits(p) \/ EnqueueRefused(p)
        PROVE  WakeWorkers'
    BY <1>0, <1>1, WorkersGrow DEF submit, EnqueueWaits, EnqueueRefused, Goto, At
  <1>2. ASSUME NEW p \in Producer, EnqueuePushes(p) PROVE WakeWorkers'
    <2>1. Len(queue') = Len(queue) + 1 /\ closed' = closed
      BY <1>0, <1>2 DEF EnqueuePushes
    <2>2. CASE At(Worker, "waitPop") = {}
      <3>1. At(Worker, "waitPop")' = {}
        BY <1>0, <1>2, <2>2 DEF EnqueuePushes, NotifyOne, Goto, At
      <3> QED BY <3>1 DEF WakeWorkers
    <2>3. CASE At(Worker, "waitPop") # {}
      <3>1. PICK u \in At(Worker, "waitPop") : pc' = [pc EXCEPT ![p] = "idle", ![u] = "dequeue"]
        BY <1>2, <2>3 DEF EnqueuePushes, NotifyOne
      <3>2. u \notin At(Worker, "dequeue") /\ At(Worker, "dequeue")' = At(Worker, "dequeue") \cup {u}
        BY <1>0, <3>1 DEF At
      <3>3. Cardinality(At(Worker, "dequeue")') = Cardinality(At(Worker, "dequeue")) + 1
        BY <1>f, <3>2, CountChange
      <3> QED BY <1>0, <1>f, <2>1, <2>3, <3>3 DEF WakeWorkers
    <2> QED BY <2>2, <2>3
  <1>3. ASSUME NEW w \in Worker, DequeueWaits(w) PROVE WakeWorkers'
    <2>1. Len(queue') = 0
      BY <1>3 DEF DequeueWaits
    <2> QED BY <1>f, <2>1 DEF WakeWorkers
  <1>4. ASSUME NEW w \in Worker, DequeueEnds(w) PROVE WakeWorkers'
    BY <1>4 DEF DequeueEnds, WakeWorkers
  <1>5. ASSUME NEW w \in Worker, DequeueTakes(w) PROVE WakeWorkers'
    <2>1. Len(queue') = Len(queue) - 1 /\ closed' = closed
      BY <1>0, <1>5 DEF DequeueTakes
    <2>2. At(Worker, "waitPop")' = At(Worker, "waitPop")
      BY <1>0, <1>5 DEF DequeueTakes, NotifyOne, Goto, At
    <2>3. w \in At(Worker, "dequeue") /\ At(Worker, "dequeue")' = At(Worker, "dequeue") \ {w}
      BY <1>0, <1>5 DEF DequeueTakes, NotifyOne, Goto, At
    <2>4. Cardinality(At(Worker, "dequeue")') = Cardinality(At(Worker, "dequeue")) - 1
      BY <1>f, <2>3, CountChange
    <2> QED BY <1>0, <1>f, <2>1, <2>2, <2>4 DEF WakeWorkers
  <1>6. ASSUME NEW w \in Worker, Process(w) PROVE WakeWorkers'
    BY <1>0, <1>6, WorkersGrow DEF Process, Goto, At
  <1>7. CASE start
    <2>1. At(Worker, "waitPop")' = {}
      BY <1>0, <1>7 DEF start, At
    <2> QED BY <2>1 DEF WakeWorkers
  <1>8. CASE shutdown \/ join
    BY <1>0, <1>8, WorkersGrow DEF shutdown, join, Goto, At
  <1>9. CASE close
    BY <1>9 DEF close, WakeWorkers
  <1>10. CASE NotifyPop \/ NotifyPush
    <2>1. closed' = TRUE
      BY <1>0, <1>10 DEF NotifyPop, NotifyPush
    <2> QED BY <2>1 DEF WakeWorkers
  <1>11. ASSUME NEW t \in Producer \cup Worker, SpuriousWakeup(t) PROVE WakeWorkers'
    BY <1>0, <1>11, WorkersGrow DEF SpuriousWakeup, Goto, At
  <1>12. CASE UNCHANGED vars
    BY <1>0, <1>12, WorkersGrow DEF vars, At
  <1> QED BY <1>1, <1>2, <1>3, <1>4, <1>5, <1>6, <1>7, <1>8, <1>9, <1>10, <1>11, <1>12
          DEF Next, ProducerStep, WorkerStep, CloseStep

\* No step loses a wakeup of a producer.
LEMMA WakeProducersKept == Inv /\ [Next]_vars => WakeProducers'
  <1> SUFFICES ASSUME Inv, [Next]_vars PROVE WakeProducers'
    OBVIOUS
  <1>0. Control /\ WakeProducers /\ queue \in Seq(Task) /\ Len(queue) \in Nat /\ Capacity \in Nat
    <2>1. Control /\ WakeProducers /\ queue \in Seq(Task)
      BY DEF Inv, Data
    <2> QED BY <2>1, PoolAssumption
  <1> USE Kinds DEF Control, Places, Phases, ProducerPc, WorkerPc, MainPc
  <1>f. /\ IsFiniteSet(At(Producer, "enqueue")) /\ Cardinality(At(Producer, "enqueue")) \in Nat
        /\ Cardinality(At(Producer, "enqueue")') \in Nat
    <2>1. At(Producer, "enqueue")' \subseteq Producer
      BY DEF At
    <2> QED BY <2>1, AtFinite, FS_Subset, FS_CardinalityType, PoolAssumption
  <1>1. ASSUME NEW p \in Producer, submit(p) PROVE WakeProducers'
    BY <1>0, <1>1, ProducersGrow DEF submit, Goto, At
  <1>2. ASSUME NEW p \in Producer, EnqueueWaits(p) PROVE WakeProducers'
    <2>1. queue' = queue /\ Capacity - Len(queue) <= 0
      BY <1>0, <1>2 DEF EnqueueWaits
    <2> QED BY <1>0, <1>f, <2>1 DEF WakeProducers
  <1>3. ASSUME NEW p \in Producer, EnqueueRefused(p) PROVE WakeProducers'
    BY <1>3 DEF EnqueueRefused, WakeProducers
  <1>4. ASSUME NEW p \in Producer, EnqueuePushes(p) PROVE WakeProducers'
    <2>1. Len(queue') = Len(queue) + 1 /\ closed' = closed
      BY <1>0, <1>4 DEF EnqueuePushes
    <2>2. At(Producer, "waitPush")' = At(Producer, "waitPush")
      BY <1>0, <1>4 DEF EnqueuePushes, NotifyOne, Goto, At
    <2>3. p \in At(Producer, "enqueue") /\ At(Producer, "enqueue")' = At(Producer, "enqueue") \ {p}
      BY <1>0, <1>4 DEF EnqueuePushes, NotifyOne, Goto, At
    <2>4. Cardinality(At(Producer, "enqueue")') = Cardinality(At(Producer, "enqueue")) - 1
      BY <1>f, <2>3, CountChange
    <2> QED BY <1>0, <1>f, <2>1, <2>2, <2>4 DEF WakeProducers
  <1>5. ASSUME NEW w \in Worker, DequeueWaits(w) \/ DequeueEnds(w) \/ Process(w) PROVE WakeProducers'
    BY <1>0, <1>5, ProducersGrow DEF DequeueWaits, DequeueEnds, Process, Goto, At
  <1>6. ASSUME NEW w \in Worker, DequeueTakes(w) PROVE WakeProducers'
    <2>1. Len(queue') = Len(queue) - 1 /\ closed' = closed
      BY <1>0, <1>6 DEF DequeueTakes
    <2>2. CASE At(Producer, "waitPush") = {}
      <3>1. At(Producer, "waitPush")' = {}
        BY <1>0, <1>6, <2>2 DEF DequeueTakes, NotifyOne, Goto, At
      <3> QED BY <3>1 DEF WakeProducers
    <2>3. CASE At(Producer, "waitPush") # {}
      <3>1. PICK u \in At(Producer, "waitPush") : pc' = [pc EXCEPT ![w] = "work", ![u] = "enqueue"]
        BY <1>6, <2>3 DEF DequeueTakes, NotifyOne
      <3>2. u \notin At(Producer, "enqueue") /\ At(Producer, "enqueue")' = At(Producer, "enqueue") \cup {u}
        BY <1>0, <3>1 DEF At
      <3>3. Cardinality(At(Producer, "enqueue")') = Cardinality(At(Producer, "enqueue")) + 1
        BY <1>f, <3>2, CountChange
      <3> QED BY <1>0, <1>f, <2>1, <2>3, <3>3 DEF WakeProducers
    <2> QED BY <2>2, <2>3
  <1>7. CASE start \/ shutdown \/ join
    BY <1>0, <1>7, ProducersGrow DEF start, shutdown, join, Goto, At
  <1>8. CASE close
    BY <1>8 DEF close, WakeProducers
  <1>9. CASE NotifyPop \/ NotifyPush
    <2>1. closed' = TRUE
      BY <1>0, <1>9 DEF NotifyPop, NotifyPush
    <2> QED BY <2>1 DEF WakeProducers
  <1>10. ASSUME NEW t \in Producer \cup Worker, SpuriousWakeup(t) PROVE WakeProducers'
    BY <1>0, <1>10, ProducersGrow DEF SpuriousWakeup, Goto, At
  <1>11. CASE UNCHANGED vars
    BY <1>0, <1>11, ProducersGrow DEF vars, At
  <1> QED BY <1>1, <1>2, <1>3, <1>4, <1>5, <1>6, <1>7, <1>8, <1>9, <1>10, <1>11
          DEF Next, ProducerStep, WorkerStep, CloseStep
-----------------------------------------------------------------------------
(* The theorems. *)

\* The invariant holds before start().
LEMMA InitInv == Init => Inv
  <1> SUFFICES ASSUME Init PROVE Inv
    OBVIOUS
  <1>1. Control
    <2>1. /\ pc = [t \in Thread |-> pc[t]] /\ pc[Main] = "created" /\ closed = FALSE
          /\ \A p \in Producer : pc[p] = "idle"
          /\ \A w \in Worker : pc[w] = "none"
      BY Kinds DEF Init
    <2>2. Places /\ Awake
      BY <2>1 DEF Places, Awake, ProducerPc, WorkerPc, MainPc
    <2>3. ~(pc[Main] \in {"notifyPop", "notifyPush", "join", "stopped"})
      BY <2>1
    <2>4. closed \in BOOLEAN /\ (closed <=> pc[Main] \in {"notifyPop", "notifyPush", "join", "stopped"})
      BY <2>1, <2>3, Zenon
    <2>5. pc[Main] # "stopped"
      BY <2>1
    <2> QED BY <2>1, <2>2, <2>4, <2>5 DEF Control, Phases
  <1>2. /\ At(Worker, "work") = {} /\ At(Worker, "waitPop") = {} /\ At(Producer, "waitPush") = {}
    BY Kinds DEF Init, At
  <1>3. Data
    <2>1. 0 \in 0..MaxSubmit
      BY PoolAssumption
    <2>2. sent \in [Producer -> 0..MaxSubmit] /\ held \in [Worker -> Task \cup {<<>>}]
      BY <2>1 DEF Init
    <2>3. queue = <<>> /\ accepted \subseteq Task /\ finished \subseteq Task /\ stop \in BOOLEAN
      BY Zenon DEF Init
    <2>5. queue \in Seq(Task)
      BY <2>3
    <2>4. (\A w \in Worker : pc[w] # "work") /\ (\A p \in Producer : pc[p] = "idle")
      BY Kinds DEF Init
    <2> QED BY <2>2, <2>3, <2>4, <2>5 DEF Data
  <1>4. Account
    BY <1>2 DEF Init, Account, Range
  <1>5. ExitDrained
    BY Kinds DEF Init, ExitDrained
  <1>6. Bounded
    <2>1. Len(queue) = 0 /\ Capacity \in Nat
      BY PoolAssumption DEF Init
    <2> QED BY <2>1 DEF Bounded
  <1> QED BY <1>1, <1>2, <1>3, <1>4, <1>5, <1>6 DEF Inv, WakeWorkers, WakeProducers

\* The invariant of the pool holds in every reachable state.
THEOREM PoolInvariant == Spec => []Inv
  <1>1. Inv /\ [Next]_vars => Inv'
    BY ControlKept, DataKept, BoundKept, AccountKept, ExitKept, WakeWorkersKept, WakeProducersKept DEF Inv
  <1> QED BY <1>1, InitInv, PTL DEF Spec

\* The pool's variables keep their types, and the queue its bound, for any
\* number of producers that wait for room.
THEOREM PoolTyped == Spec => []TypeOK
  <1>1. Inv => TypeOK
    <2> SUFFICES ASSUME Inv PROVE TypeOK
      OBVIOUS
    <2>1. Places /\ Phases /\ Data /\ Len(queue) <= Capacity
      BY DEF Inv, Control, Bounded
    <2>2. \A t \in Thread : pc[t] \in ProducerPc \cup WorkerPc \cup MainPc
      BY <2>1 DEF Places, Thread
    <2>3. pc \in [Thread -> ProducerPc \cup WorkerPc \cup MainPc]
      BY <2>1, <2>2 DEF Places
    <2>4. ProducerPc \cup WorkerPc \cup MainPc =
            {"idle", "enqueue", "waitPush", "none", "dequeue", "waitPop", "work", "exited",
             "created", "running", "close", "notifyPop", "notifyPush", "join", "stopped"}
      BY DEF ProducerPc, WorkerPc, MainPc
    <2>5. closed \in BOOLEAN /\ stop \in BOOLEAN
      BY <2>1 DEF Phases, Data
    <2> QED BY <2>1, <2>3, <2>4, <2>5, Zenon DEF Data, TypeOK
  <1> QED BY <1>1, PoolInvariant, PTL

\* A sleeping worker or producer is never overlooked, for any number of
\* threads and any capacity: the notify_one calls of SafeQueue suffice.
THEOREM WakeupsSuffice == Spec => []NoLostWakeup
  <1>1. Inv => NoLostWakeup
    BY DEF Inv, NoLostWakeup, WakeWorkers, WakeProducers
  <1> QED BY <1>1, PoolInvariant, PTL

\* After close() nobody sleeps on the queue.
THEOREM CloseWakesAll == Spec => []NobodySleepsWhenClosed
  <1>1. Inv => NobodySleepsWhenClosed
    BY DEF Inv, Control, Awake, NobodySleepsWhenClosed, At
  <1> QED BY <1>1, PoolInvariant, PTL

\* When shutdown() returns, every accepted task has been processed.
THEOREM ShutdownDrains == Spec => []Drained
  <1>1. Inv => Drained
    <2> SUFFICES ASSUME Inv, pc[Main] = "stopped" PROVE accepted = finished
      BY DEF Drained
    <2>1. \A w \in Worker : pc[w] = "exited"
      BY DEF Inv, Control, Phases
    <2>2. queue = <<>>
      BY <2>1, PoolAssumption DEF Inv, ExitDrained
    <2>3. At(Worker, "work") = {} /\ Range(queue) = {}
      BY <2>1, <2>2 DEF At, Range
    <2> QED BY <2>3 DEF Inv, Account
  <1> QED BY <1>1, PoolInvariant, PTL
=============================================================================
