----------------------- MODULE ExecutionPipelineProofs -----------------------
(***************************************************************************)
(* Proofs about ExecutionPipeline, for any number of workers and clients   *)
(* and any results: a session is sent its client's reports in order and    *)
(* without a gap, and a clean stop leaves none behind.                     *)
(***************************************************************************)
EXTENDS ExecutionPipeline, SequenceTheorems, TLAPS

Report == [kind : {"report"}, client : Client, from : Worker \X Nat \X Nat]
Trade == [kind : {"trade"}, from : Worker \X Nat \X Nat]
Entry == [item : Report \cup Trade, linked : BOOLEAN]

PTyped ==
    /\ queue \in [Kind -> Seq(Entry)]
    /\ \A k \in Kind : \A i \in 1..Len(queue[k]) : queue[k][i].item.kind = k
    /\ pc \in [Worker -> {"idle", "try", "check", "exchange", "link"}]
    /\ todo \in [Worker -> Seq(Report \cup Trade)]
    /\ \A w \in Worker : pc[w] # "idle" => todo[w] # <<>>
    /\ calls \in [Worker -> Nat]
    /\ dpc \in {"lookup", "send"} => hand \in Report
    /\ sessions \subseteq Client
    /\ order \in [Client -> Seq(Report)] /\ delivered \in [Client -> Seq(Report)]

\* An entry that is not linked belongs to a worker between exchange and link.
Unlinked ==
    \A k \in Kind : \A i \in 1..Len(queue[k]) :
        ~queue[k][i].linked => \E w \in Worker : pc[w] = "link" /\ Head(todo[w]) = queue[k][i].item

\* running_ is set exactly between start and stop; the dispatch thread looks
\* at the queues for the last time only after that, and stop joins it.
Life ==
    /\ spc \in {"created", "running", "closeReports", "closeTrades", "join", "stopped"}
    /\ running \in BOOLEAN /\ quiet \in BOOLEAN
    /\ running <=> spc = "running"
    /\ spc = "created" => dpc = "none"
    /\ dpc \in {"testReports", "testTrades", "exit"} => spc \in {"closeReports", "closeTrades", "join", "stopped"}
    /\ spc = "stopped" => dpc = "exit"

\* After a stop that began with nobody publishing, nothing more is enqueued,
\* and the queues the dispatch thread has passed in its last tests are empty.
Calm ==
    quiet => /\ spc \in {"closeReports", "closeTrades", "join", "stopped"}
             /\ \A w \in Worker : pc[w] \in {"idle", "try"}
             /\ dpc \in {"testTrades", "exit"} => queue["report"] = <<>>
             /\ dpc = "exit" => queue["trade"] = <<>>

\* The reports to client c that have left the queue, if c still has a session.
Base(c) ==
    IF dpc \in {"lookup", "send"} /\ hand.client = c THEN Len(delivered[c]) + 1 ELSE Len(delivered[c])

\* The client entry i of the report queue goes to.
To(i) == queue["report"][i].item.client

\* pos gives for each entry of the report queue its place in the order of its
\* client's reports: behind those that have left the queue, ...
Fits(pos) ==
    \A i \in 1..Len(queue["report"]) : To(i) \in sessions =>
        /\ Base(To(i)) < pos[i] /\ pos[i] <= Len(order[To(i)])
        /\ order[To(i)][pos[i]] = queue["report"][i].item

\* ... in the order of the queue, ...
Rising(pos) ==
    \A i, j \in 1..Len(queue["report"]) :
        i < j /\ To(i) = To(j) /\ To(i) \in sessions => pos[i] < pos[j]

\* ... and none is missing.
Complete(pos) ==
    \A c \in sessions : \A m \in 1..Len(order[c]) :
        m > Base(c) => \E i \in 1..Len(queue["report"]) : To(i) = c /\ pos[i] = m

Placed(pos) == Fits(pos) /\ Rising(pos) /\ Complete(pos)

Queued == \E pos \in [1..Len(queue["report"]) -> Nat] : Placed(pos)

\* What was sent is a prefix of the order, and the report about to be sent is next.
Sent ==
    /\ \A c \in Client : /\ Len(delivered[c]) <= Len(order[c])
                         /\ \A m \in 1..Len(delivered[c]) : delivered[c][m] = order[c][m]
    /\ dpc = "send" \/ (dpc = "lookup" /\ hand.client \in sessions) =>
          /\ Len(delivered[hand.client]) < Len(order[hand.client])
          /\ order[hand.client][Len(delivered[hand.client]) + 1] = hand

PipeInv == PTyped /\ Unlinked /\ Life /\ Calm /\ Queued /\ Sent
-----------------------------------------------------------------------------
(* What an item is, and when the invariant's parts are left alone. *)

\* An item's kind tells whether it is a report.
LEMMA ItemKinds ==
  /\ "report" \in Kind /\ "trade" \in Kind /\ "report" # "trade"
  /\ \A e \in Report : e.kind = "report" /\ e.client \in Client
  /\ \A e \in Trade : e.kind = "trade"
  /\ \A e \in Report \cup Trade : e.kind \in Kind /\ (e.kind = "report" => e \in Report)
  BY DEF Kind, Report, Trade

\* An entry has an item and a flag.
LEMMA EntryFields ==
  /\ \A e \in Report \cup Trade, l \in BOOLEAN :
        /\ [item |-> e, linked |-> l] \in Entry
        /\ [item |-> e, linked |-> l].item = e /\ [item |-> e, linked |-> l].linked = l
  /\ \A x \in Entry : x.item \in Report \cup Trade /\ x.linked \in BOOLEAN
  /\ \A x \in Entry : /\ [x EXCEPT !.linked = TRUE] \in Entry
                       /\ [x EXCEPT !.linked = TRUE].item = x.item /\ [x EXCEPT !.linked = TRUE].linked
  BY DEF Entry

\* The report queue holds reports, each to a client.
LEMMA ReportQueue ==
  ASSUME PTyped
  PROVE  /\ queue["report"] \in Seq(Entry) /\ Len(queue["report"]) \in Nat
         /\ \A i \in 1..Len(queue["report"]) :
               /\ queue["report"][i] \in Entry /\ queue["report"][i].item \in Report
               /\ To(i) \in Client
  <1>1. queue["report"] \in Seq(Entry)
    BY ItemKinds DEF PTyped
  <1>2. ASSUME NEW i \in 1..Len(queue["report"])
        PROVE  queue["report"][i] \in Entry /\ queue["report"][i].item \in Report
    <2>1. queue["report"][i] \in Entry
      BY <1>1
    <2>2. queue["report"][i].item \in Report \cup Trade
      BY <2>1, EntryFields
    <2>3. queue["report"][i].item.kind = "report"
      BY ItemKinds DEF PTyped
    <2> QED BY <2>1, <2>2, <2>3, ItemKinds
  <1> QED BY <1>1, <1>2, ItemKinds DEF To

\* A function on 1..m is a sequence of length m.
LEMMA FunctionIsSeq ==
  ASSUME NEW S, NEW m \in Nat, NEW f \in [1..m -> S]
  PROVE  f \in Seq(S) /\ Len(f) = m
  OBVIOUS

\* The places of the reports do not change while the queue keeps its items and
\* every client that stays connected is owed the same ones.
LEMMA QueuedKept ==
  ASSUME Queued, order' = order, sessions' \subseteq sessions,
         Len(queue'["report"]) = Len(queue["report"]),
         \A i \in 1..Len(queue["report"]) : queue'["report"][i].item = queue["report"][i].item,
         \A c \in sessions' : Base(c)' = Base(c)
  PROVE  Queued'
  <1>1. PICK pos \in [1..Len(queue["report"]) -> Nat] : Placed(pos)
    BY DEF Queued
  <1>2. \A i \in 1..Len(queue["report"]) : To(i)' = To(i)
    BY DEF To
  <1>3. Fits(pos)'
    BY <1>1, <1>2 DEF Placed, Fits
  <1>4. Rising(pos)'
    BY <1>1, <1>2 DEF Placed, Rising
  <1>5. Complete(pos)'
    BY <1>1, <1>2 DEF Placed, Complete
  <1> QED BY <1>3, <1>4, <1>5 DEF Queued, Placed

\* The whole invariant, when only the control of the workers or of the
\* dispatch thread changes.
LEMMA ControlOnly ==
  ASSUME PipeInv, UNCHANGED <<queue, order, delivered, hand>>, sessions' \subseteq sessions,
         dpc' = dpc \/ {dpc, dpc'} \cap {"lookup", "send"} = {}
  PROVE  Queued' /\ Sent'
  <1>0. PTyped /\ Queued /\ Sent
    BY DEF PipeInv
  <1>1. \A c \in sessions' : Base(c)' = Base(c)
    BY DEF Base
  <1>2. Queued'
    BY <1>0, <1>1, QueuedKept
  <1>3. Sent'
    BY <1>0 DEF Sent
  <1> QED BY <1>2, <1>3

\* The reports to a connected client that have left the queue are among its reports.
LEMMA BaseBound ==
  ASSUME PTyped, Sent
  PROVE  \A c \in sessions : Base(c) \in Nat /\ Base(c) <= Len(order[c]) /\ Len(order[c]) \in Nat
  <1> SUFFICES ASSUME NEW c \in sessions
               PROVE  Base(c) \in Nat /\ Base(c) <= Len(order[c]) /\ Len(order[c]) \in Nat
    OBVIOUS
  <1>1. c \in Client /\ Len(order[c]) \in Nat /\ Len(delivered[c]) \in Nat
    BY DEF PTyped
  <1>2. Len(delivered[c]) <= Len(order[c])
    BY <1>1 DEF Sent
  <1>3. CASE dpc \in {"lookup", "send"} /\ hand.client = c
    BY <1>1, <1>3 DEF Base, Sent
  <1>4. CASE ~(dpc \in {"lookup", "send"} /\ hand.client = c)
    BY <1>1, <1>2, <1>4 DEF Base
  <1> QED BY <1>1, <1>3, <1>4
-----------------------------------------------------------------------------
(* The workers. *)

\* What a worker has to publish is a sequence of items, not empty.
LEMMA ResultItems ==
  ASSUME NEW w \in Worker, NEW n \in Nat, NEW r \in Result
  PROVE  LET t == [i \in 1..Len(r) |-> [kind |-> "report", client |-> r[i], from |-> <<w, n, i>>]]
                  \o [i \in 1..(Len(r) \div 2) |-> [kind |-> "trade", from |-> <<w, n, i>>]]
         IN  t \in Seq(Report \cup Trade) /\ t # <<>>
  <1> DEFINE f == [i \in 1..Len(r) |-> [kind |-> "report", client |-> r[i], from |-> <<w, n, i>>]]
             g == [i \in 1..(Len(r) \div 2) |-> [kind |-> "trade", from |-> <<w, n, i>>]]
  <1>1. r \in Seq(Client) /\ Len(r) \in Nat /\ Len(r) # 0 /\ Len(r) \div 2 \in Nat
    BY PipelineAssumption
  <1>2. ASSUME NEW i \in 1..Len(r)
        PROVE  [kind |-> "report", client |-> r[i], from |-> <<w, n, i>>] \in Report \cup Trade
    BY <1>1 DEF Report
  <1>3. f \in [1..Len(r) -> Report \cup Trade]
    BY <1>2
  <1>4. ASSUME NEW i \in 1..(Len(r) \div 2)
        PROVE  [kind |-> "trade", from |-> <<w, n, i>>] \in Report \cup Trade
    BY <1>1 DEF Trade
  <1>5. g \in [1..(Len(r) \div 2) -> Report \cup Trade]
    BY <1>4
  <1> HIDE DEF f, g
  <1>6. /\ f \in Seq(Report \cup Trade) /\ Len(f) = Len(r)
        /\ g \in Seq(Report \cup Trade) /\ Len(g) = Len(r) \div 2
    BY <1>1, <1>3, <1>5, FunctionIsSeq
  <1>7. f \o g \in Seq(Report \cup Trade) /\ Len(f \o g) = Len(f) + Len(g)
    BY <1>6, ConcatProperties
  <1>8. f \o g # <<>>
    BY <1>1, <1>6, <1>7
  <1> QED BY <1>7, <1>8 DEF f, g

\* A worker's call of publish_ ends: it goes on with what is left.
LEMMA ReturnsTyped ==
  ASSUME PTyped, NEW w \in Worker, pc[w] # "idle", Returns(w)
  PROVE  /\ pc' \in [Worker -> {"idle", "try", "check", "exchange", "link"}]
         /\ todo' \in [Worker -> Seq(Report \cup Trade)]
         /\ \A v \in Worker : pc'[v] # "idle" => todo'[v] # <<>>
         /\ pc'[w] \in {"idle", "try"} /\ todo'[w] = Tail(todo[w])
         /\ \A v \in Worker \ {w} : pc'[v] = pc[v] /\ todo'[v] = todo[v]
  <1>1. todo[w] \in Seq(Report \cup Trade) /\ todo[w] # <<>>
    BY DEF PTyped
  <1>2. /\ Tail(todo[w]) \in Seq(Report \cup Trade)
        /\ Len(todo[w]) # 1 => Tail(todo[w]) # <<>>
    <2>1. /\ Len(todo[w]) \in Nat /\ Len(todo[w]) >= 1
          /\ Tail(todo[w]) \in Seq(Report \cup Trade) /\ Len(Tail(todo[w])) = Len(todo[w]) - 1
      BY <1>1
    <2>2. Len(todo[w]) # 1 => Len(Tail(todo[w])) # 0
      BY <2>1
    <2>3. Len(<<>>) = 0
      OBVIOUS
    <2> QED BY <2>1, <2>2, <2>3, Zenon
  <1>3. /\ todo' = [todo EXCEPT ![w] = Tail(todo[w])]
        /\ pc' = [pc EXCEPT ![w] = IF Len(todo[w]) = 1 THEN "idle" ELSE "try"]
    BY DEF Returns
  <1> QED BY <1>2, <1>3 DEF PTyped

\* The steps of publish_ before the exchange.
LEMMA WorkerKept ==
  ASSUME PipeInv, NEW w \in Worker,
         (\E r \in Result : BeginResult(w, r)) \/ TestRunning(w) \/ CheckClosed(w)
  PROVE  PipeInv'
  <1>0. PTyped /\ Unlinked /\ Life /\ Calm
    BY DEF PipeInv
  <1>1. UNCHANGED <<queue, running, dpc, hand, spc, sessions, order, delivered, quiet>>
    BY DEF BeginResult, TestRunning, CheckClosed
  <1>2. Queued' /\ Sent'
    BY <1>1, ControlOnly
  <1>3. Life'
    BY <1>0, <1>1 DEF Life
  <1>4. /\ pc' \in [Worker -> {"idle", "try", "check", "exchange", "link"}]
        /\ todo' \in [Worker -> Seq(Report \cup Trade)] /\ calls' \in [Worker -> Nat]
        /\ \A v \in Worker : pc'[v] # "idle" => todo'[v] # <<>>
        /\ pc[w] # "link" /\ \A v \in Worker \ {w} : pc'[v] = pc[v] /\ todo'[v] = todo[v]
        /\ quiet => pc'[w] \in {"idle", "try"}
    <2>1. ASSUME NEW r \in Result, BeginResult(w, r) PROVE <1>4!:
      <3> DEFINE t == [i \in 1..Len(r) |-> [kind |-> "report", client |-> r[i], from |-> <<w, calls[w], i>>]]
                      \o [i \in 1..(Len(r) \div 2) |-> [kind |-> "trade", from |-> <<w, calls[w], i>>]]
      <3>1. calls[w] \in Nat
        BY <1>0 DEF PTyped
      <3>2. t \in Seq(Report \cup Trade) /\ t # <<>>
        BY <3>1, ResultItems
      <3>3. /\ todo' = [todo EXCEPT ![w] = t] /\ pc' = [pc EXCEPT ![w] = "try"] /\ pc[w] = "idle"
            /\ calls' = [calls EXCEPT ![w] = calls[w] + 1]
        BY <2>1 DEF BeginResult
      <3> HIDE DEF t
      <3> QED BY <1>0, <3>1, <3>2, <3>3 DEF PTyped
    <2>2. CASE TestRunning(w) /\ running
      <3>1. pc' = [pc EXCEPT ![w] = "check"] /\ pc[w] = "try" /\ todo' = todo /\ calls' = calls
        BY <2>2 DEF TestRunning
      <3>2. ~quiet
        BY <1>0, <2>2 DEF Calm, Life
      <3> QED BY <1>0, <3>1, <3>2 DEF PTyped
    <2>3. CASE TestRunning(w) /\ ~running
      <3>1. pc[w] = "try" /\ Returns(w) /\ calls' = calls
        BY <2>3 DEF TestRunning
      <3> QED BY <1>0, <3>1, ReturnsTyped DEF PTyped
    <2>4. CASE CheckClosed(w)
      <3>1. /\ pc[w] = "check" /\ todo' = todo /\ calls' = calls
            /\ \E x \in {"try", "exchange"} : pc' = [pc EXCEPT ![w] = x]
        BY <2>4 DEF CheckClosed
      <3> QED BY <1>0, <3>1 DEF PTyped, Calm
    <2> QED BY <2>1, <2>2, <2>3, <2>4
  <1>5. PTyped'
    BY <1>0, <1>1, <1>4 DEF PTyped
  <1>6. Unlinked'
    <2> SUFFICES ASSUME NEW k \in Kind, NEW i \in 1..Len(queue[k]), ~queue[k][i].linked
                 PROVE  \E v \in Worker : pc'[v] = "link" /\ Head(todo'[v]) = queue[k][i].item
      BY <1>1 DEF Unlinked
    <2>1. PICK v \in Worker : pc[v] = "link" /\ Head(todo[v]) = queue[k][i].item
      BY <1>0 DEF Unlinked
    <2>2. pc'[v] = pc[v] /\ todo'[v] = todo[v]
      BY <1>4, <2>1
    <2> QED BY <2>1, <2>2
  <1>7. Calm'
    BY <1>0, <1>1, <1>4 DEF Calm
  <1> QED BY <1>2, <1>3, <1>5, <1>6, <1>7 DEF PipeInv

\* The exchange appends an entry to its queue, and a report to its client's order.
LEMMA ExchangeKept ==
  ASSUME PipeInv, NEW w \in Worker, Exchange(w)
  PROVE  PipeInv'
  <1>0. PTyped /\ Unlinked /\ Life /\ Calm /\ Queued /\ Sent
    BY DEF PipeInv
  <1> DEFINE e == Head(todo[w])
             x == [item |-> e, linked |-> FALSE]
  <1>1. /\ pc[w] = "exchange" /\ pc' = [pc EXCEPT ![w] = "link"]
        /\ queue' = [queue EXCEPT ![e.kind] = Append(queue[e.kind], x)]
        /\ order' = IF e.kind = "report" THEN [order EXCEPT ![e.client] = Append(order[e.client], e)] ELSE order
        /\ UNCHANGED <<running, todo, calls, dpc, hand, spc, sessions, delivered, quiet>>
    BY DEF Exchange
  <1>2. e \in Report \cup Trade
    BY <1>0, <1>1 DEF PTyped
  <1>3. x \in Entry /\ x.item = e /\ x.linked = FALSE
    BY <1>2, EntryFields
  <1> HIDE DEF e, x
  <1>4. e.kind \in Kind /\ (e.kind = "report" => e \in Report /\ e.client \in Client)
    BY <1>2, ItemKinds
  <1>5. /\ queue' \in [Kind -> Seq(Entry)] /\ Len(queue'[e.kind]) = Len(queue[e.kind]) + 1
        /\ queue'[e.kind][Len(queue[e.kind]) + 1] = x /\ Len(queue[e.kind]) \in Nat
        /\ \A i \in 1..Len(queue[e.kind]) : queue'[e.kind][i] = queue[e.kind][i]
        /\ \A k \in Kind : k # e.kind => queue'[k] = queue[k]
    <2>1. queue[e.kind] \in Seq(Entry) /\ queue \in [Kind -> Seq(Entry)]
      BY <1>0, <1>4 DEF PTyped
    <2> DEFINE q == Append(queue[e.kind], x)
    <2>2. /\ q \in Seq(Entry) /\ Len(q) = Len(queue[e.kind]) + 1 /\ q[Len(queue[e.kind]) + 1] = x
          /\ \A i \in 1..Len(queue[e.kind]) : q[i] = queue[e.kind][i]
      BY <1>3, <2>1, AppendProperties
    <2>3. queue' = [queue EXCEPT ![e.kind] = q]
      BY <1>1
    <2> HIDE DEF q
    <2> QED BY <1>4, <2>1, <2>2, <2>3
  <1>6. /\ pc' \in [Worker -> {"idle", "try", "check", "exchange", "link"}]
        /\ pc'[w] = "link" /\ \A v \in Worker \ {w} : pc'[v] = pc[v]
    BY <1>0, <1>1 DEF PTyped
  <1>7. /\ order' \in [Client -> Seq(Report)]
        /\ \A c \in Client : /\ Len(order[c]) \in Nat /\ Len(order'[c]) >= Len(order[c])
                             /\ \A m \in 1..Len(order[c]) : order'[c][m] = order[c][m]
    <2>1. CASE e.kind # "report"
      BY <1>0, <1>1, <2>1 DEF PTyped
    <2>2. CASE e.kind = "report"
      <3>1. e \in Report /\ e.client \in Client /\ order[e.client] \in Seq(Report)
        BY <1>0, <1>4, <2>2 DEF PTyped
      <3> DEFINE o == Append(order[e.client], e)
      <3>2. /\ o \in Seq(Report) /\ Len(o) = Len(order[e.client]) + 1
            /\ \A m \in 1..Len(order[e.client]) : o[m] = order[e.client][m]
        BY <3>1, AppendProperties
      <3>3. order' = [order EXCEPT ![e.client] = o]
        BY <1>1, <2>2
      <3> HIDE DEF o
      <3> QED BY <1>0, <3>1, <3>2, <3>3 DEF PTyped
    <2> QED BY <2>1, <2>2
  <1>8. PTyped'
    <2>1. ASSUME NEW k \in Kind, NEW i \in 1..Len(queue'[k]) PROVE queue'[k][i].item.kind = k
      <3>1. CASE k = e.kind
        <4>1. i \in 1..Len(queue[k]) \/ i = Len(queue[k]) + 1
          BY <1>5, <3>1
        <4>2. CASE i \in 1..Len(queue[k])
          BY <1>0, <1>5, <3>1, <4>2, ZenonT(60) DEF PTyped
        <4>3. CASE i = Len(queue[k]) + 1
          <5>1. queue'[k][i] = x
            BY <1>5, <3>1, <4>3
          <5> QED BY <1>3, <3>1, <5>1
        <4> QED BY <4>1, <4>2, <4>3
      <3>2. CASE k # e.kind
        BY <1>0, <1>5, <3>2 DEF PTyped
      <3> QED BY <3>1, <3>2
    <2>2. \A v \in Worker : pc'[v] # "idle" => todo[v] # <<>>
      BY <1>0, <1>1, <1>6 DEF PTyped
    <2> QED BY <1>0, <1>1, <1>5, <1>6, <1>7, <2>1, <2>2 DEF PTyped
  <1>9. Unlinked'
    <2> SUFFICES ASSUME NEW k \in Kind, NEW i \in 1..Len(queue'[k]), ~queue'[k][i].linked
                 PROVE  \E v \in Worker : pc'[v] = "link" /\ Head(todo[v]) = queue'[k][i].item
      BY <1>1 DEF Unlinked
    <2>1. CASE i \in 1..Len(queue[k])
      <3>1. queue'[k][i] = queue[k][i]
        BY <1>5, <2>1
      <3>2. PICK v \in Worker : pc[v] = "link" /\ Head(todo[v]) = queue[k][i].item
        BY <1>0, <2>1, <3>1 DEF Unlinked
      <3> QED BY <1>1, <1>6, <3>1, <3>2
    <2>2. CASE i \notin 1..Len(queue[k])
      <3>1. k = e.kind /\ i = Len(queue[k]) + 1
        BY <1>5, <2>2
      <3>2. queue'[k][i].item = e
        BY <1>3, <1>5, <3>1
      <3> QED BY <1>6, <3>2 DEF e
    <2> QED BY <2>1, <2>2
  <1>10. Life'
    BY <1>0, <1>1 DEF Life
  <1>11. Calm'
    <2>1. ~quiet
      BY <1>0, <1>1 DEF Calm
    <2> QED BY <1>1, <2>1 DEF Calm
  <1>12. Sent'
    <2>1. \A c \in Client : Len(delivered[c]) \in Nat
      BY <1>0 DEF PTyped
    <2>2. \A c \in Client : Len(delivered[c]) <= Len(order'[c])
      BY <1>0, <1>7, <2>1 DEF Sent, PTyped
    <2>3. \A c \in Client : \A m \in 1..Len(delivered[c]) : delivered[c][m] = order'[c][m]
      BY <1>0, <1>7, <2>1 DEF Sent
    <2>4. ASSUME dpc = "send" \/ (dpc = "lookup" /\ hand.client \in sessions)
          PROVE  /\ Len(delivered[hand.client]) < Len(order'[hand.client])
                 /\ order'[hand.client][Len(delivered[hand.client]) + 1] = hand
      <3>1. hand.client \in Client
        BY <1>0, <2>4, ItemKinds DEF PTyped
      <3>2. /\ Len(delivered[hand.client]) < Len(order[hand.client])
            /\ order[hand.client][Len(delivered[hand.client]) + 1] = hand
        BY <1>0, <2>4 DEF Sent
      <3>3. PICK c \in Client : c = hand.client
        BY <3>1
      <3>4. PICK d \in Nat, l \in Nat, m \in Nat : d = Len(delivered[c]) /\ l = Len(order[c]) /\ m = Len(order'[c])
        BY <1>7, <2>1
      <3>5. d < l /\ l <= m /\ order[c][d + 1] = hand
        BY <1>7, <3>2, <3>3, <3>4
      <3>6. d + 1 \in 1..l /\ d < m
        BY <3>4, <3>5
      <3>7. order'[c][d + 1] = order[c][d + 1]
        BY <1>7, <3>4, <3>6
      <3> QED BY <3>3, <3>4, <3>5, <3>6, <3>7
    <2> QED BY <1>1, <2>2, <2>3, <2>4 DEF Sent
  <1>13. Queued'
    <2>0. \A c : Base(c)' = Base(c)
      BY <1>1 DEF Base
    <2>1. CASE e.kind # "report"
      <3>1. queue'["report"] = queue["report"] /\ order' = order
        BY <1>1, <1>5, <2>1, ItemKinds
      <3> QED BY <1>0, <1>1, <2>0, <3>1, QueuedKept
    <2>2. CASE e.kind = "report"
      <3>a. PICK n \in Nat : n = Len(queue["report"])
        BY <1>5, <2>2
      <3>b. PICK d \in Client : d = e.client
        BY <1>4, <2>2
      <3>c. PICK m0 \in Nat : m0 = Len(order[d]) + 1
        BY <1>7
      <3>1. PICK pos \in [1..n -> Nat] : Placed(pos)
        BY <1>0, <3>a DEF Queued
      <3>2. /\ Len(queue'["report"]) = n + 1
            /\ To(n + 1)' = d /\ \A i \in 1..n : To(i)' = To(i) /\ queue'["report"][i] = queue["report"][i]
            /\ queue'["report"][n + 1].item = e
        BY <1>3, <1>5, <2>2, <3>a, <3>b DEF To
      <3>3. /\ order'[d] = Append(order[d], e) /\ order[d] \in Seq(Report) /\ e \in Report
            /\ \A c \in Client : c # d => order'[c] = order[c]
        BY <1>0, <1>1, <1>4, <2>2, <3>b DEF PTyped
      <3>4. Len(order'[d]) = m0 /\ order'[d][m0] = e /\ \A m \in 1..(m0 - 1) : order'[d][m] = order[d][m]
        BY <3>3, <3>c, AppendProperties
      <3>5. PICK new \in [1..(n + 1) -> Nat] : new[n + 1] = m0 /\ \A i \in 1..n : new[i] = pos[i]
        <4> DEFINE f == [i \in 1..(n + 1) |-> IF i = n + 1 THEN m0 ELSE pos[i]]
        <4>1. f \in [1..(n + 1) -> Nat] /\ f[n + 1] = m0 /\ \A i \in 1..n : f[i] = pos[i]
          BY <3>1
        <4> QED BY <4>1
      <3>6. \A i \in 1..(n + 1) : i \in 1..n \/ i = n + 1
        OBVIOUS
      <3>7. d \in sessions => Base(d) < m0
        BY <1>0, <3>c, BaseBound
      <3>8. \A i \in 1..n : To(i) \in sessions =>
               /\ Base(To(i)) < pos[i] /\ pos[i] <= Len(order[To(i)]) /\ pos[i] \in 1..Len(order[To(i)])
               /\ order[To(i)][pos[i]] = queue["report"][i].item
        <4>1. \A c \in sessions : c \in Client /\ Base(c) \in Nat /\ Len(order[c]) \in Nat
          BY <1>0, BaseBound DEF PTyped
        <4> QED BY <3>1, <3>a, <4>1 DEF Placed, Fits
      <3>9. Fits(new)'
        <4> SUFFICES ASSUME NEW i \in 1..(n + 1), To(i)' \in sessions
                     PROVE  /\ Base(To(i)') < new[i] /\ new[i] <= Len(order'[To(i)'])
                            /\ order'[To(i)'][new[i]] = queue'["report"][i].item
          BY <1>1, <2>0, <3>2 DEF Fits
        <4>1. CASE i \in 1..n
          <5>1. To(i)' = To(i) /\ new[i] = pos[i] /\ To(i) \in sessions /\ To(i) \in Client
            BY <1>0, <3>2, <3>5, <4>1 DEF PTyped
          <5>2. pos[i] \in 1..Len(order[To(i)]) /\ Base(To(i)) < pos[i] /\ pos[i] <= Len(order[To(i)])
            BY <3>8, <4>1, <5>1
          <5>3. order'[To(i)][pos[i]] = queue["report"][i].item
            BY <1>7, <3>8, <4>1, <5>1, <5>2
          <5>4. pos[i] <= Len(order'[To(i)])
            BY <1>7, <5>1, <5>2
          <5> QED BY <3>2, <4>1, <5>1, <5>2, <5>3, <5>4
        <4>2. CASE i = n + 1
          BY <3>2, <3>4, <3>5, <3>7, <4>2
        <4> QED BY <3>6, <4>1, <4>2
      <3>10. Rising(new)'
        <4> SUFFICES ASSUME NEW i \in 1..(n + 1), NEW j \in 1..(n + 1), i < j,
                            To(i)' = To(j)', To(i)' \in sessions
                     PROVE  new[i] < new[j]
          BY <1>1, <3>2 DEF Rising
        <4>1. i \in 1..n
          BY <3>2
        <4>2. CASE j \in 1..n
          BY <3>1, <3>2, <3>5, <3>a, <4>1, <4>2 DEF Placed, Rising
        <4>3. CASE j = n + 1
          <5>1. To(i) = d /\ To(i) \in sessions
            BY <3>2, <4>1, <4>3
          <5>2. pos[i] \in 1..Len(order[d])
            BY <3>8, <4>1, <5>1
          <5> QED BY <3>5, <3>c, <4>1, <4>3, <5>2
        <4> QED BY <3>6, <4>2, <4>3
      <3>11. Complete(new)'
        <4> SUFFICES ASSUME NEW c \in sessions, NEW m \in 1..Len(order'[c]), m > Base(c)
                     PROVE  \E i \in 1..(n + 1) : To(i)' = c /\ new[i] = m
          BY <1>1, <2>0, <3>2 DEF Complete
        <4>1. c \in Client
          BY <1>0 DEF PTyped
        <4>2. CASE m \in 1..Len(order[c])
          <5>1. PICK i \in 1..n : To(i) = c /\ pos[i] = m
            BY <3>1, <3>a, <4>2 DEF Placed, Complete
          <5> QED BY <3>2, <3>5, <5>1
        <4>3. CASE m \notin 1..Len(order[c])
          <5>1. c = d /\ m = m0
            BY <3>3, <3>4, <3>c, <4>1, <4>3
          <5> QED BY <3>2, <3>5, <5>1
        <4> QED BY <4>2, <4>3
      <3> QED BY <3>2, <3>5, <3>9, <3>10, <3>11 DEF Queued, Placed
    <2> QED BY <2>1, <2>2
  <1> QED BY <1>8, <1>9, <1>10, <1>11, <1>12, <1>13 DEF PipeInv

\* The link makes the worker's own entry visible and changes no item.
LEMMA LinkKept ==
  ASSUME PipeInv, NEW w \in Worker, Link(w)
  PROVE  PipeInv'
  <1>0. PTyped /\ Unlinked /\ Life /\ Calm /\ Queued /\ Sent
    BY DEF PipeInv
  <1> DEFINE e == Head(todo[w])
             q == queue[e.kind]
             f == [i \in DOMAIN q |-> IF q[i].item = e THEN [q[i] EXCEPT !.linked = TRUE] ELSE q[i]]
  <1>1. /\ pc[w] = "link" /\ queue' = [queue EXCEPT ![e.kind] = f] /\ Returns(w)
        /\ UNCHANGED <<running, calls, dpc, hand, spc, sessions, order, delivered, quiet>>
    BY DEF Link
  <1>2. e \in Report \cup Trade
    BY <1>0, <1>1 DEF PTyped
  <1>3. e.kind \in Kind
    BY <1>2, ItemKinds
  <1>4. q \in Seq(Entry) /\ DOMAIN q = 1..Len(q) /\ Len(q) \in Nat /\ \A i \in 1..Len(q) : q[i] \in Entry
    BY <1>0, <1>3 DEF PTyped
  <1> HIDE DEF e, q
  <1>5. \A i \in 1..Len(q) : /\ f[i] \in Entry /\ f[i].item = q[i].item
                             /\ ~f[i].linked => ~q[i].linked /\ q[i].item # e
    BY <1>4, EntryFields
  <1>6. f \in [1..Len(q) -> Entry]
    BY <1>4, <1>5
  <1> HIDE DEF f
  <1>7. f \in Seq(Entry) /\ Len(f) = Len(q)
    BY <1>4, <1>6, FunctionIsSeq
  <1>8. /\ queue' \in [Kind -> Seq(Entry)]
        /\ \A k \in Kind : /\ Len(queue'[k]) = Len(queue[k])
                           /\ \A i \in 1..Len(queue[k]) :
                                 /\ queue'[k][i].item = queue[k][i].item
                                 /\ ~queue'[k][i].linked => ~queue[k][i].linked
    BY <1>0, <1>1, <1>3, <1>5, <1>7 DEF PTyped, q
  <1>9. /\ pc' \in [Worker -> {"idle", "try", "check", "exchange", "link"}]
        /\ todo' \in [Worker -> Seq(Report \cup Trade)]
        /\ \A v \in Worker : pc'[v] # "idle" => todo'[v] # <<>>
        /\ pc'[w] \in {"idle", "try"} /\ \A v \in Worker \ {w} : pc'[v] = pc[v] /\ todo'[v] = todo[v]
    BY <1>0, <1>1, ReturnsTyped
  <1>10. PTyped'
    BY <1>0, <1>1, <1>8, <1>9, ItemKinds DEF PTyped
  <1>11. Unlinked'
    <2> SUFFICES ASSUME NEW k \in Kind, NEW i \in 1..Len(queue'[k]), ~queue'[k][i].linked
                 PROVE  \E v \in Worker : pc'[v] = "link" /\ Head(todo'[v]) = queue'[k][i].item
      BY DEF Unlinked
    <2>1. i \in 1..Len(queue[k]) /\ ~queue[k][i].linked /\ queue'[k][i].item = queue[k][i].item
      BY <1>8
    <2>2. PICK v \in Worker : pc[v] = "link" /\ Head(todo[v]) = queue[k][i].item
      BY <1>0, <2>1 DEF Unlinked
    <2>3. v # w
      <3> SUFFICES ASSUME v = w PROVE FALSE
        OBVIOUS
      <3>1. queue[k][i].item = e
        BY <2>2 DEF e
      <3>2. CASE k = e.kind
        <4>1. queue'[k] = f /\ queue[k] = q
          BY <1>0, <1>1, <1>3, <3>2 DEF PTyped, q
        <4> QED BY <1>5, <2>1, <3>1, <4>1
      <3>3. CASE k # e.kind
        BY <1>0, <2>1, <3>1, <3>3 DEF PTyped
      <3> QED BY <3>2, <3>3
    <2> QED BY <1>9, <2>1, <2>2, <2>3
  <1>12. Life'
    BY <1>0, <1>1 DEF Life
  <1>13. Calm'
    <2>1. ~quiet
      BY <1>0, <1>1 DEF Calm
    <2> QED BY <1>1, <2>1 DEF Calm
  <1>14. Sent'
    BY <1>0, <1>1 DEF Sent
  <1>15. Queued'
    <2>1. \A c \in sessions' : Base(c)' = Base(c)
      BY <1>1 DEF Base
    <2> QED BY <1>0, <1>1, <1>8, <2>1, QueuedKept, ItemKinds
  <1> QED BY <1>10, <1>11, <1>12, <1>13, <1>14, <1>15 DEF PipeInv
-----------------------------------------------------------------------------
(* The dispatch thread. *)

\* When nobody is between exchange and link, a queue that is not empty shows
\* its first entry.
LEMMA AllVisible ==
  ASSUME PTyped, Unlinked, Calm, quiet, NEW k \in Kind, ~Visible(k)
  PROVE  queue[k] = <<>>
  <1> SUFFICES ASSUME queue[k] # <<>> PROVE FALSE
    OBVIOUS
  <1>1. queue[k] \in Seq(Entry)
    BY DEF PTyped
  <1>2. 1 \in 1..Len(queue[k]) /\ ~queue[k][1].linked
    BY <1>1 DEF Visible
  <1> QED BY <1>2 DEF Unlinked, Calm

\* The loop condition, and a look at a queue that finds nothing.
LEMMA LoopTestKept ==
  ASSUME PipeInv, LoopTest
  PROVE  PipeInv'
  <1>0. PTyped /\ Unlinked /\ Life /\ Calm /\ Queued /\ Sent
    BY DEF PipeInv
  <1>1. UNCHANGED <<queue, running, pc, todo, calls, hand, spc, sessions, order, delivered, quiet>>
    BY DEF LoopTest
  <1>2. \/ dpc = "loop" /\ running /\ dpc' = "report"
        \/ dpc = "loop" /\ ~running /\ dpc' = "testReports"
        \/ dpc = "testReports" /\ Visible("report") /\ dpc' = "report"
        \/ dpc = "testReports" /\ ~Visible("report") /\ dpc' = "testTrades"
        \/ dpc = "testTrades" /\ Visible("trade") /\ dpc' = "report"
        \/ dpc = "testTrades" /\ ~Visible("trade") /\ dpc' = "exit"
    BY DEF LoopTest
  <1>3. {dpc, dpc'} \cap {"lookup", "send"} = {}
    BY <1>2
  <1>4. Queued' /\ Sent'
    BY <1>1, <1>3, ControlOnly
  <1>5. PTyped'
    BY <1>0, <1>1, <1>3 DEF PTyped
  <1>6. Unlinked'
    BY <1>0, <1>1 DEF Unlinked
  <1>7. Life'
    BY <1>0, <1>1, <1>2 DEF Life
  <1>8. Calm'
    <2> SUFFICES ASSUME quiet
                 PROVE  /\ dpc' \in {"testTrades", "exit"} => queue["report"] = <<>>
                        /\ dpc' = "exit" => queue["trade"] = <<>>
      BY <1>0, <1>1 DEF Calm
    <2>1. \A k \in Kind : ~Visible(k) => queue[k] = <<>>
      BY <1>0, AllVisible
    <2> QED BY <1>0, <1>2, <2>1, ItemKinds DEF Calm
  <1> QED BY <1>4, <1>5, <1>6, <1>7, <1>8 DEF PipeInv

\* The first report in the queue is the next one its client is owed.
LEMMA HeadIsNext ==
  ASSUME PipeInv, NEW pos \in [1..Len(queue["report"]) -> Nat], Placed(pos),
         queue["report"] # <<>>, To(1) \in sessions
  PROVE  pos[1] = Base(To(1)) + 1
  <1>0. PTyped /\ Sent
    BY DEF PipeInv
  <1>1. 1 \in 1..Len(queue["report"]) /\ Len(queue["report"]) \in Nat
    BY <1>0, ReportQueue
  <1>2. PICK d : d = To(1)
    OBVIOUS
  <1>3. Base(d) \in Nat /\ Len(order[d]) \in Nat /\ d \in sessions
    BY <1>0, <1>2, BaseBound
  <1>4. Base(d) < pos[1] /\ pos[1] <= Len(order[d]) /\ pos[1] \in Nat
    BY <1>1, <1>2, <1>3 DEF Placed, Fits
  <1>5. PICK i \in 1..Len(queue["report"]) : To(i) = d /\ pos[i] = Base(d) + 1
    <2>1. Base(d) + 1 \in 1..Len(order[d]) /\ Base(d) + 1 > Base(d)
      BY <1>3, <1>4
    <2> QED BY <1>3, <2>1 DEF Placed, Complete
  <1>6. i = 1
    <2> SUFFICES ASSUME 1 < i PROVE FALSE
      BY <1>1, <1>5
    <2>1. pos[1] < pos[i]
      BY <1>1, <1>2, <1>3, <1>5 DEF Placed, Rising
    <2> QED BY <1>3, <1>4, <1>5, <2>1
  <1> QED BY <1>2, <1>5, <1>6

\* Taking the first entry of a queue leaves the others as they are.
LEMMA TakeTyped ==
  ASSUME PTyped, Unlinked, NEW k \in Kind, queue[k] # <<>>,
         queue' = [queue EXCEPT ![k] = Tail(queue[k])], UNCHANGED <<pc, todo>>
  PROVE  /\ queue' \in [Kind -> Seq(Entry)]
         /\ \A j \in Kind : \A i \in 1..Len(queue'[j]) : queue'[j][i].item.kind = j
         /\ Unlinked'
         /\ Len(queue[k]) \in Nat /\ Len(queue[k]) >= 1 /\ Len(queue'[k]) = Len(queue[k]) - 1
         /\ \A i \in 1..(Len(queue[k]) - 1) : queue'[k][i] = queue[k][i + 1]
         /\ \A j \in Kind : j # k => queue'[j] = queue[j]
  <1>1. queue \in [Kind -> Seq(Entry)] /\ queue[k] \in Seq(Entry)
    BY DEF PTyped
  <1> DEFINE t == Tail(queue[k])
  <1>2. /\ Len(queue[k]) \in Nat /\ Len(queue[k]) >= 1
        /\ t \in Seq(Entry) /\ Len(t) = Len(queue[k]) - 1
        /\ \A i \in 1..(Len(queue[k]) - 1) : t[i] = queue[k][i + 1]
    BY <1>1
  <1>3. queue' = [queue EXCEPT ![k] = t]
    OBVIOUS
  <1> HIDE DEF t
  <1>4. queue' \in [Kind -> Seq(Entry)] /\ queue'[k] = t /\ \A j \in Kind : j # k => queue'[j] = queue[j]
    BY <1>1, <1>2, <1>3
  <1>5. ASSUME NEW j \in Kind, NEW i \in 1..Len(queue'[j])
        PROVE  \E h \in 1..Len(queue[j]) : queue'[j][i] = queue[j][h]
    <2>1. CASE j = k
      <3>1. i \in 1..(Len(queue[k]) - 1) /\ i + 1 \in 1..Len(queue[k])
        BY <1>2, <1>4, <2>1
      <3> QED BY <1>2, <1>4, <2>1, <3>1
    <2>2. CASE j # k
      BY <1>4, <2>2
    <2> QED BY <2>1, <2>2
  <1>6. \A j \in Kind : \A i \in 1..Len(queue'[j]) : queue'[j][i].item.kind = j
    BY <1>5 DEF PTyped
  <1>7. Unlinked'
    BY <1>5 DEF Unlinked
  <1> QED BY <1>2, <1>4, <1>6, <1>7

\* The dispatch thread takes the first report.
LEMMA TakeReportKept ==
  ASSUME PipeInv, TakeReport
  PROVE  PipeInv'
  <1>0. PTyped /\ Unlinked /\ Life /\ Calm /\ Queued /\ Sent
    BY DEF PipeInv
  <1>1. /\ dpc = "report"
        /\ UNCHANGED <<running, pc, todo, calls, spc, sessions, order, delivered, quiet>>
    BY DEF TakeReport
  <1>2. CASE ~Visible("report")
    <2>1. dpc' = "trade" /\ UNCHANGED <<queue, hand>>
      BY <1>2 DEF TakeReport
    <2>2. Queued' /\ Sent'
      BY <1>1, <2>1, ControlOnly
    <2> QED BY <1>0, <1>1, <2>1, <2>2 DEF PipeInv, PTyped, Unlinked, Life, Calm
  <1>3. CASE Visible("report")
    <2>1. /\ dpc' = "lookup" /\ queue["report"] # <<>>
          /\ queue' = [queue EXCEPT !["report"] = Tail(queue["report"])]
          /\ hand' = Head(queue["report"]).item
      BY <1>3 DEF TakeReport, Visible
    <2>2. /\ queue' \in [Kind -> Seq(Entry)]
          /\ \A j \in Kind : \A i \in 1..Len(queue'[j]) : queue'[j][i].item.kind = j
          /\ Unlinked' /\ queue'["trade"] = queue["trade"]
          /\ Len(queue["report"]) \in Nat /\ Len(queue["report"]) >= 1
          /\ Len(queue'["report"]) = Len(queue["report"]) - 1
          /\ \A i \in 1..(Len(queue["report"]) - 1) : queue'["report"][i] = queue["report"][i + 1]
      BY <1>0, <1>1, <2>1, TakeTyped, ItemKinds, ZenonT(60)
    <2>3. PICK n \in Nat : n = Len(queue["report"]) /\ n >= 1
      BY <2>2
    <2>4. PICK d \in Client : d = To(1)
      BY <1>0, <2>3, ReportQueue
    <2>5. hand' = queue["report"][1].item /\ hand' \in Report /\ hand'.client = d
      <3>1. 1 \in 1..Len(queue["report"]) /\ Head(queue["report"]) = queue["report"][1]
        BY <1>0, <2>1, <2>2, ReportQueue
      <3> QED BY <1>0, <2>1, <2>4, <3>1, ReportQueue DEF To
    <2>6. PTyped'
      BY <1>0, <1>1, <2>2, <2>5 DEF PTyped
    <2>7. Life'
      BY <1>0, <1>1, <2>1 DEF Life
    <2>8. Calm'
      BY <1>0, <1>1, <2>1 DEF Calm
    <2>9. PICK pos \in [1..n -> Nat] : Placed(pos)
      BY <1>0, <2>3 DEF Queued
    <2>10. /\ Base(d)' = Len(delivered[d]) + 1 /\ Base(d) = Len(delivered[d])
           /\ \A c \in Client : c # d => Base(c)' = Base(c)
      BY <1>1, <2>1, <2>5 DEF Base
    <2>11. ASSUME d \in sessions
           PROVE  /\ pos[1] = Len(delivered[d]) + 1 /\ pos[1] <= Len(order[d])
                  /\ order[d][Len(delivered[d]) + 1] = hand'
      <3>1. pos[1] = Base(d) + 1
        BY <2>1, <2>3, <2>4, <2>9, <2>11, HeadIsNext
      <3>2. 1 \in 1..n
        BY <2>3
      <3>3. pos[1] <= Len(order[d]) /\ order[d][pos[1]] = queue["report"][1].item
        BY <2>3, <2>4, <2>9, <2>11, <3>2 DEF Placed, Fits
      <3> QED BY <2>5, <2>10, <3>1, <3>3
    <2>12. Sent'
      <3>1. d \in sessions => Len(delivered[d]) < Len(order[d])
        BY <1>0, <2>11 DEF PTyped
      <3> QED BY <1>0, <1>1, <2>1, <2>5, <2>11, <3>1 DEF Sent
    <2>13. Queued'
      <3>1. PICK new \in [1..(n - 1) -> Nat] : \A i \in 1..(n - 1) : new[i] = pos[i + 1]
        <4> DEFINE f == [i \in 1..(n - 1) |-> pos[i + 1]]
        <4>1. f \in [1..(n - 1) -> Nat] /\ \A i \in 1..(n - 1) : f[i] = pos[i + 1]
          BY <2>3, <2>9
        <4> QED BY <4>1
      <3>2. /\ Len(queue'["report"]) = n - 1
            /\ \A i \in 1..(n - 1) : /\ i + 1 \in 1..n /\ To(i)' = To(i + 1) /\ To(i + 1) \in Client
                                     /\ queue'["report"][i] = queue["report"][i + 1]
        BY <1>0, <2>2, <2>3, ReportQueue DEF To
      <3>3. Fits(new)'
        <4> SUFFICES ASSUME NEW i \in 1..(n - 1), NEW c \in sessions, c = To(i)'
                     PROVE  /\ Base(c)' < new[i] /\ new[i] <= Len(order[c])
                            /\ order[c][new[i]] = queue'["report"][i].item
          BY <1>1, <3>2 DEF Fits
        <4>1. i + 1 \in 1..n /\ To(i + 1) = c /\ new[i] = pos[i + 1] /\ c \in Client
          BY <1>0, <3>1, <3>2 DEF PTyped
        <4>2. /\ Base(c) < pos[i + 1] /\ pos[i + 1] <= Len(order[c])
              /\ order[c][pos[i + 1]] = queue["report"][i + 1].item
          BY <2>3, <2>9, <4>1 DEF Placed, Fits
        <4>3. Base(c)' < pos[i + 1]
          <5>1. CASE c = d
            <6>1. 1 \in 1..n /\ 1 < i + 1
              BY <2>3
            <6>2. pos[1] < pos[i + 1]
              BY <2>3, <2>4, <2>9, <4>1, <5>1, <6>1 DEF Placed, Rising
            <6> QED BY <2>10, <2>11, <5>1, <6>2
          <5>2. CASE c # d
            BY <2>10, <4>1, <4>2, <5>2
          <5> QED BY <5>1, <5>2
        <4> QED BY <3>2, <4>1, <4>2, <4>3
      <3>4. Rising(new)'
        <4> SUFFICES ASSUME NEW i \in 1..(n - 1), NEW j \in 1..(n - 1), i < j,
                            To(i)' = To(j)', To(i)' \in sessions
                     PROVE  new[i] < new[j]
          BY <1>1, <3>2 DEF Rising
        <4>1. /\ i + 1 \in 1..n /\ j + 1 \in 1..n /\ i + 1 < j + 1
              /\ To(i + 1) = To(j + 1) /\ To(i + 1) \in sessions
          BY <3>2
        <4> QED BY <2>3, <2>9, <3>1, <4>1 DEF Placed, Rising
      <3>5. Complete(new)'
        <4> SUFFICES ASSUME NEW c \in sessions, NEW m \in 1..Len(order[c]), m > Base(c)'
                     PROVE  \E i \in 1..(n - 1) : To(i)' = c /\ new[i] = m
          BY <1>1, <3>2 DEF Complete
        <4>1. c \in Client /\ Len(delivered[c]) \in Nat
          BY <1>0 DEF PTyped
        <4>2. m > Base(c)
          BY <2>10, <4>1
        <4>3. PICK h \in 1..n : To(h) = c /\ pos[h] = m
          BY <2>3, <2>9, <4>2 DEF Placed, Complete
        <4>4. h # 1
          BY <2>4, <2>10, <2>11, <4>1, <4>3
        <4>5. PICK i \in 1..(n - 1) : i + 1 = h
          <5>1. h - 1 \in 1..(n - 1) /\ (h - 1) + 1 = h
            BY <2>3, <4>4
          <5> QED BY <5>1
        <4> QED BY <3>1, <3>2, <4>3, <4>5
      <3> QED BY <3>2, <3>3, <3>4, <3>5 DEF Queued, Placed
    <2> QED BY <2>2, <2>6, <2>7, <2>8, <2>12, <2>13 DEF PipeInv
  <1> QED BY <1>2, <1>3

\* A report to a client without a session is dropped, any other one is sent.
LEMMA LookupKept ==
  ASSUME PipeInv, Lookup
  PROVE  PipeInv'
  <1>0. PTyped /\ Unlinked /\ Life /\ Calm /\ Queued /\ Sent
    BY DEF PipeInv
  <1>1. /\ dpc = "lookup" /\ dpc' = (IF hand.client \in sessions THEN "send" ELSE "trade")
        /\ UNCHANGED <<queue, running, pc, todo, calls, hand, spc, sessions, order, delivered, quiet>>
    BY DEF Lookup
  <1>2. PTyped' /\ Unlinked' /\ Life' /\ Calm'
    BY <1>0, <1>1 DEF PTyped, Unlinked, Life, Calm
  <1>3. Sent'
    BY <1>0, <1>1 DEF Sent
  <1>4. \A c \in sessions' : Base(c)' = Base(c)
    BY <1>1 DEF Base
  <1>5. Queued'
    BY <1>0, <1>1, <1>4, QueuedKept
  <1> QED BY <1>2, <1>3, <1>5 DEF PipeInv

\* The report in hand is the next one of its client.
LEMMA SendKept ==
  ASSUME PipeInv, Send
  PROVE  PipeInv'
  <1>0. PTyped /\ Unlinked /\ Life /\ Calm /\ Queued /\ Sent
    BY DEF PipeInv
  <1>1. /\ dpc = "send" /\ dpc' = "trade"
        /\ delivered' = [delivered EXCEPT ![hand.client] = Append(delivered[hand.client], hand)]
        /\ UNCHANGED <<queue, running, pc, todo, calls, hand, spc, sessions, order, quiet>>
    BY DEF Send
  <1>2. PICK d \in Client : d = hand.client /\ hand \in Report
    BY <1>0, <1>1, ItemKinds DEF PTyped
  <1>3. delivered[d] \in Seq(Report) /\ order[d] \in Seq(Report)
    BY <1>0 DEF PTyped
  <1> DEFINE t == Append(delivered[d], hand)
  <1>4. /\ t \in Seq(Report) /\ Len(t) = Len(delivered[d]) + 1 /\ t[Len(delivered[d]) + 1] = hand
        /\ \A m \in 1..Len(delivered[d]) : t[m] = delivered[d][m] /\ Len(delivered[d]) \in Nat
    BY <1>2, <1>3, AppendProperties
  <1>5. delivered' = [delivered EXCEPT ![d] = t]
    BY <1>1, <1>2
  <1> HIDE DEF t
  <1>6. /\ delivered' \in [Client -> Seq(Report)] /\ delivered'[d] = t
        /\ \A c \in Client : c # d => delivered'[c] = delivered[c]
    BY <1>0, <1>4, <1>5 DEF PTyped
  <1>7. PTyped' /\ Unlinked' /\ Life' /\ Calm'
    BY <1>0, <1>1, <1>6 DEF PTyped, Unlinked, Life, Calm
  <1>8. Sent'
    <2>1. Len(delivered[d]) < Len(order[d]) /\ order[d][Len(delivered[d]) + 1] = hand
      BY <1>0, <1>1, <1>2 DEF Sent
    <2>2. Len(delivered[d]) \in Nat /\ Len(order[d]) \in Nat
      BY <1>3
    <2>3. ASSUME NEW m \in 1..Len(t) PROVE t[m] = order[d][m]
      <3>1. m \in 1..Len(delivered[d]) \/ m = Len(delivered[d]) + 1
        BY <1>4, <2>2
      <3> QED BY <1>0, <1>4, <2>1, <3>1 DEF Sent
    <2>4. Len(t) <= Len(order[d])
      BY <1>4, <2>1, <2>2
    <2> QED BY <1>0, <1>1, <1>6, <2>3, <2>4 DEF Sent
  <1>9. ASSUME NEW c \in sessions PROVE Base(c)' = Base(c)
    <2>1. c \in Client
      BY <1>0 DEF PTyped
    <2> QED BY <1>1, <1>2, <1>4, <1>6, <2>1 DEF Base
  <1>10. Queued'
    BY <1>0, <1>1, <1>9, QueuedKept
  <1> QED BY <1>7, <1>8, <1>10 DEF PipeInv

\* The round ends with a look at the trades.
LEMMA TakeTradeKept ==
  ASSUME PipeInv, TakeTrade
  PROVE  PipeInv'
  <1>0. PTyped /\ Unlinked /\ Life /\ Calm /\ Queued /\ Sent
    BY DEF PipeInv
  <1>1. /\ dpc = "trade" /\ dpc' = "loop"
        /\ queue' = (IF Visible("trade") THEN [queue EXCEPT !["trade"] = Tail(queue["trade"])] ELSE queue)
        /\ UNCHANGED <<running, pc, todo, calls, spc, sessions, order, delivered, quiet>>
    BY DEF TakeTrade
  <1>2. /\ queue' \in [Kind -> Seq(Entry)] /\ queue'["report"] = queue["report"] /\ Unlinked'
        /\ \A k \in Kind : \A i \in 1..Len(queue'[k]) : queue'[k][i].item.kind = k
    <2>1. CASE Visible("trade")
      <3>1. queue["trade"] # <<>> /\ queue' = [queue EXCEPT !["trade"] = Tail(queue["trade"])]
        BY <1>1, <2>1 DEF Visible
      <3> QED BY <1>0, <1>1, <3>1, TakeTyped, ItemKinds
    <2>2. CASE ~Visible("trade")
      BY <1>0, <1>1, <2>2 DEF PTyped, Unlinked
    <2> QED BY <2>1, <2>2
  <1>3. PTyped'
    BY <1>0, <1>1, <1>2 DEF PTyped
  <1>4. Life'
    BY <1>0, <1>1 DEF Life
  <1>5. Calm'
    BY <1>0, <1>1 DEF Calm
  <1>6. Sent'
    BY <1>0, <1>1 DEF Sent
  <1>7. \A c \in sessions : Base(c)' = Base(c)
    BY <1>1 DEF Base
  <1>8. Queued'
    BY <1>0, <1>1, <1>2, <1>7, QueuedKept
  <1> QED BY <1>2, <1>3, <1>4, <1>5, <1>6, <1>8 DEF PipeInv
-----------------------------------------------------------------------------
(* Start, stop and disconnects, and the theorems. *)

\* start, stop, a session that closes, and steps of somebody else.
LEMMA ControlKept ==
  ASSUME PipeInv, start \/ stop \/ StopStep \/ (\E c \in Client : Disconnect(c)) \/ UNCHANGED vars
  PROVE  PipeInv'
  <1>0. PTyped /\ Unlinked /\ Life /\ Calm
    BY DEF PipeInv
  <1>1. /\ UNCHANGED <<queue, pc, todo, calls, hand, order, delivered>> /\ sessions' \subseteq sessions
        /\ dpc' = dpc \/ {dpc, dpc'} \cap {"lookup", "send"} = {}
    BY <1>0 DEF start, stop, StopStep, Disconnect, vars, Life
  <1>2. Queued' /\ Sent'
    BY <1>1, ControlOnly
  <1>3. Unlinked'
    BY <1>0, <1>1 DEF Unlinked
  <1>4. PTyped'
    BY <1>0, <1>1 DEF PTyped
  <1>5. Life' /\ Calm'
    <2>1. CASE start
      <3>1. spc = "created" /\ spc' = "running" /\ running' = TRUE /\ dpc' = "loop" /\ quiet' = quiet
        BY <2>1 DEF start
      <3> QED BY <1>0, <1>1, <3>1 DEF Life, Calm
    <2>2. CASE stop
      <3>1. /\ spc = "running" /\ spc' = "closeReports" /\ running' = FALSE /\ dpc' = dpc
            /\ quiet' \in BOOLEAN
            /\ quiet' => \A w \in Worker : pc[w] = "idle"
        BY <2>2 DEF stop
      <3> QED BY <1>0, <1>1, <3>1 DEF Life, Calm
    <2>3. CASE StopStep
      <3>1. /\ UNCHANGED <<running, dpc, quiet>>
            /\ spc \in {"closeReports", "closeTrades", "join"} /\ spc' \in {"closeTrades", "join", "stopped"}
            /\ spc' = "stopped" => dpc = "exit"
        BY <2>3 DEF StopStep
      <3> QED BY <1>0, <1>1, <3>1 DEF Life, Calm
    <2>4. CASE UNCHANGED <<running, dpc, quiet, spc>>
      BY <1>0, <1>1, <2>4 DEF Life, Calm
    <2> QED BY <2>1, <2>2, <2>3, <2>4 DEF Disconnect, vars
  <1> QED BY <1>2, <1>3, <1>4, <1>5 DEF PipeInv

\* Nothing is queued at first.
LEMMA InitKept == Init => PipeInv
  <1> SUFFICES ASSUME Init PROVE PipeInv
    OBVIOUS
  <1>1. /\ \A k \in Kind : queue[k] = <<>> /\ Len(queue[k]) = 0
        /\ \A c \in Client : order[c] = <<>> /\ Len(order[c]) = 0 /\ delivered[c] = <<>> /\ Len(delivered[c]) = 0
    BY DEF Init
  <1>2. PTyped
    <2>1. queue \in [Kind -> Seq(Entry)] /\ todo \in [Worker -> Seq(Report \cup Trade)]
      BY DEF Init
    <2>2. order \in [Client -> Seq(Report)] /\ delivered \in [Client -> Seq(Report)]
      BY DEF Init
    <2> QED BY <1>1, <2>1, <2>2 DEF Init, PTyped
  <1>3. Unlinked /\ Life /\ Calm /\ Sent
    <2>1. Unlinked
      BY <1>1 DEF Unlinked
    <2>2. Life /\ Calm
      BY DEF Init, Life, Calm
    <2>3. dpc # "send" /\ dpc # "lookup"
      BY DEF Init
    <2> QED BY <1>1, <2>1, <2>2, <2>3 DEF Sent
  <1>4. Queued
    <2>1. Len(queue["report"]) = 0
      BY <1>1, ItemKinds
    <2>2. PICK pos \in [1..Len(queue["report"]) -> Nat] : TRUE
      <3>1. [i \in 1..Len(queue["report"]) |-> 0] \in [1..Len(queue["report"]) -> Nat]
        OBVIOUS
      <3> QED BY <3>1
    <2>3. sessions = Client
      BY DEF Init
    <2>4. Placed(pos)
      BY <1>1, <2>1, <2>3 DEF Placed, Fits, Rising, Complete
    <2> QED BY <2>4 DEF Queued
  <1> QED BY <1>2, <1>3, <1>4 DEF PipeInv

\* PipeInv is inductive: the report queue keeps, for every client that stays
\* connected, exactly the reports it is still owed, whatever the workers, the
\* dispatch thread, disconnects and stop() do in between.
THEOREM PipelineInvariant == Spec => []PipeInv
  <1>1. ASSUME PipeInv, [Next]_vars PROVE PipeInv'
    <2>1. ASSUME NEW w \in Worker, (\E r \in Result : BeginResult(w, r)) \/ PublishStep(w) PROVE PipeInv'
      BY <1>1, <2>1, WorkerKept, ExchangeKept, LinkKept DEF PublishStep
    <2>2. CASE DispatchStep
      BY <1>1, <2>2, LoopTestKept, TakeReportKept, LookupKept, SendKept, TakeTradeKept DEF DispatchStep
    <2>3. CASE start \/ stop \/ StopStep \/ (\E c \in Client : Disconnect(c)) \/ UNCHANGED vars
      BY <1>1, <2>3, ControlKept
    <2> QED BY <1>1, <2>1, <2>2, <2>3 DEF Next
  <1> QED BY <1>1, InitKept, PTL DEF Spec

\* A session is sent its client's reports in the order in which they were
\* enqueued, each once and without a gap.
THEOREM InOrder == Spec => []DeliveredInOrder
  <1>1. ASSUME PipeInv PROVE DeliveredInOrder
    <2> SUFFICES ASSUME NEW c \in Client PROVE IsPrefix(delivered[c], order[c])
      BY DEF DeliveredInOrder
    <2>1. /\ delivered[c] \in Seq(Report) /\ order[c] \in Seq(Report) /\ Len(delivered[c]) <= Len(order[c])
          /\ \A m \in 1..Len(delivered[c]) : delivered[c][m] = order[c][m]
      BY <1>1 DEF PipeInv, PTyped, Sent
    <2> QED BY <2>1 DEF IsPrefix
  <1> QED BY <1>1, PipelineInvariant, PTL

\* A stop() that began with nobody publishing leaves both queues empty and has
\* sent every report of every client that is still connected.
THEOREM CleanStop == Spec => []CleanStopDelivers
  <1>1. ASSUME PipeInv PROVE CleanStopDelivers
    <2> SUFFICES ASSUME spc = "stopped", quiet
                 PROVE  /\ \A k \in Kind : queue[k] = <<>>
                        /\ \A c \in sessions : delivered[c] = order[c]
      BY DEF CleanStopDelivers
    <2>0. PTyped /\ Life /\ Calm /\ Queued /\ Sent
      BY <1>1 DEF PipeInv
    <2>1. dpc = "exit" /\ queue["report"] = <<>> /\ queue["trade"] = <<>>
      BY <2>0 DEF Life, Calm
    <2>2. \A k \in Kind : queue[k] = <<>>
      BY <2>1 DEF Kind
    <2>3. ASSUME NEW c \in sessions PROVE delivered[c] = order[c]
      <3>1. delivered[c] \in Seq(Report) /\ order[c] \in Seq(Report) /\ c \in Client
        BY <2>0 DEF PTyped
      <3>2. /\ Len(delivered[c]) \in Nat /\ Len(order[c]) \in Nat /\ Len(delivered[c]) <= Len(order[c])
            /\ \A m \in 1..Len(delivered[c]) : delivered[c][m] = order[c][m]
        BY <2>0, <3>1 DEF Sent
      <3>3. Base(c) = Len(delivered[c]) /\ Len(queue["report"]) = 0
        BY <2>1 DEF Base
      <3>4. PICK pos \in [1..Len(queue["report"]) -> Nat] : Placed(pos)
        BY <2>0 DEF Queued
      <3>5. \A m \in 1..Len(order[c]) : ~(m > Len(delivered[c]))
        BY <3>3, <3>4 DEF Placed, Complete
      <3>6. Len(order[c]) = Len(delivered[c])
        BY <3>2, <3>5
      <3> QED BY <3>1, <3>2, <3>6, SeqEqual
    <2> QED BY <2>2, <2>3
  <1> QED BY <1>1, PipelineInvariant, PTL
=============================================================================
