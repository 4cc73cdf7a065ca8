---------------------------- MODULE GatewayProofs ----------------------------
(***************************************************************************)
(* Proofs about Gateway, for any number of clients, any capacity of the    *)
(* task queue and any requests: what a client receives, the buffers of     *)
(* outstanding writes, and the shutdown's use of the pool.                 *)
(***************************************************************************)
EXTENDS Gateway, SequenceTheorems, TLAPS

\* Requests, and so reports, are named by the client and its count of requests.
Id == Client \X Nat
Message == [to : Client, report : Id]
Part == [id : Id, part : {"header", "body"}]
Piece == [report : Id, piece : 1..2]
Writing == [report : Id, done : 0..2]

GTyped ==
    /\ peer \in [Client -> {"away", "there", "gone"}]
    /\ sess \in [Client -> {"none", "open", "closed"}]
    /\ sends \in [Client -> Nat]
    /\ stream \in [Client -> Seq(Part)]
    /\ got \in [Client -> Seq(Piece)]
    /\ write_queue \in [Client -> Seq(Id)] /\ writes \in [Client -> Seq(Writing)]
    /\ posted \in Seq(Message) /\ order \in [Client -> Seq(Id)]
    /\ io = "submit" => task \in Id
    /\ tasks \in Seq(Id) /\ reports \in Seq(Message)
    /\ hand # <<>> => hand[1] \in Message
    /\ owners \subseteq Client

\* The io thread is stopped before the pool is shut down.
StopOrder ==
    /\ io \in {"ready", "submit", "ended"}
    /\ io = "ready" => main = "serving"
    /\ io = "submit" => main \in {"serving", "stop"}

\* A session is closed only when its peer is gone, and there is at most one
\* write under way, of the first report in the queue.
OneWrite ==
    \A c \in Client :
        /\ sess[c] = "closed" => peer[c] = "gone"
        /\ Len(writes[c]) <= 1
        /\ writes[c] # <<>> => write_queue[c] # <<>> /\ writes[c][1].report = write_queue[c][1]

\* What the outstanding write of c has sent.
Done(c) == IF writes[c] = <<>> THEN 0 ELSE writes[c][1].done

\* fin counts for each client the reports whose write is done.  The write queue
\* holds the reports behind them, ...
QueueFits(fin) ==
    \A c \in Client :
        /\ fin[c] + Len(write_queue[c]) <= Len(order[c])
        /\ \A i \in 1..Len(write_queue[c]) : write_queue[c][i] = order[c][fin[c] + i]

\* ... what the client has received ends in the write under way, ...
Received(fin) == \A c \in Client : peer[c] # "gone" => Len(got[c]) = 2 * fin[c] + Done(c)

\* ... and pos gives for each posted handler the place of its report in the
\* order of its client: behind the write queue, ...
PostedFits(fin, pos) ==
    \A i \in 1..Len(posted) :
        /\ fin[posted[i].to] + Len(write_queue[posted[i].to]) < pos[i]
        /\ pos[i] <= Len(order[posted[i].to])
        /\ order[posted[i].to][pos[i]] = posted[i].report

\* ... in the order of posting, ...
PostedRising(pos) ==
    \A i, j \in 1..Len(posted) : i < j /\ posted[i].to = posted[j].to => pos[i] < pos[j]

\* ... and none is missing.
PostedComplete(fin, pos) ==
    \A c \in Client : \A m \in 1..Len(order[c]) :
        m > fin[c] + Len(write_queue[c]) => \E i \in 1..Len(posted) : posted[i].to = c /\ pos[i] = m

Placed(fin, pos) ==
    QueueFits(fin) /\ Received(fin) /\ PostedFits(fin, pos) /\ PostedRising(pos) /\ PostedComplete(fin, pos)

Tracked == \E fin \in [Client -> Nat], pos \in [1..Len(posted) -> Nat] : Placed(fin, pos)

GateInv == GTyped /\ StopOrder /\ OneWrite /\ Tracked /\ StreamWhole /\ PoolTakesAll
-----------------------------------------------------------------------------
(* The parts of the invariant that a step leaves alone. *)

\* Reading, accepting and what is behind the gateway do not touch a session's
\* way out; a client that goes only weakens what is said of it.
LEMMA WayOutKept ==
  ASSUME GateInv, UNCHANGED <<posted, order, write_queue, writes, got>>,
         \A c \in Client : peer'[c] # "gone" => peer[c] # "gone",
         \A c \in Client : sess'[c] = "closed" => peer'[c] = "gone"
  PROVE  OneWrite' /\ Tracked' /\ StreamWhole'
  <1>0. OneWrite /\ Tracked /\ StreamWhole
    BY DEF GateInv
  <1>1. OneWrite'
    BY <1>0 DEF OneWrite
  <1>2. StreamWhole'
    BY <1>0 DEF StreamWhole
  <1>3. PICK fin \in [Client -> Nat], pos \in [1..Len(posted) -> Nat] : Placed(fin, pos)
    BY <1>0 DEF Tracked
  <1>4. Received(fin)'
    BY <1>3 DEF Placed, Received, Done
  <1>5. (QueueFits(fin) /\ PostedFits(fin, pos) /\ PostedRising(pos) /\ PostedComplete(fin, pos))'
    BY <1>3 DEF Placed, QueueFits, PostedFits, PostedRising, PostedComplete
  <1> QED BY <1>1, <1>2, <1>4, <1>5 DEF Tracked, Placed

\* The lengths of the queues are numbers.
LEMMA Lengths ==
  ASSUME GTyped
  PROVE  /\ Len(posted) \in Nat
         /\ \A c \in Client : Len(order[c]) \in Nat /\ Len(write_queue[c]) \in Nat /\ Len(got[c]) \in Nat
         /\ \A i \in 1..Len(posted) : posted[i].to \in Client /\ posted[i].report \in Id
  <1>1. Len(posted) \in Nat /\ \A i \in 1..Len(posted) : posted[i] \in Message
    BY DEF GTyped
  <1>2. \A x \in Message : x.to \in Client /\ x.report \in Id
    BY DEF Message
  <1>3. \A c \in Client : Len(order[c]) \in Nat /\ Len(write_queue[c]) \in Nat /\ Len(got[c]) \in Nat
    BY DEF GTyped
  <1> QED BY <1>1, <1>2, <1>3

\* A handler is posted: its report is the last one of its client.
LEMMA PostKept ==
  ASSUME GateInv, NEW d \in Client, NEW r \in Id, Post(d, r),
         UNCHANGED <<peer, sess, write_queue, writes, got>>
  PROVE  /\ posted' \in Seq(Message) /\ order' \in [Client -> Seq(Id)]
         /\ OneWrite' /\ Tracked' /\ StreamWhole'
  <1>0. GTyped /\ OneWrite /\ Tracked /\ StreamWhole
    BY DEF GateInv
  <1> DEFINE x == [to |-> d, report |-> r]
  <1>1. posted' = Append(posted, x) /\ order' = [order EXCEPT ![d] = Append(order[d], r)]
    BY DEF Post
  <1>2. x \in Message /\ x.to = d /\ x.report = r
    BY DEF Message
  <1> HIDE DEF x
  <1>3. PICK n \in Nat : n = Len(posted)
    BY <1>0, Lengths
  <1>4. PICK m0 \in Nat : m0 = Len(order[d]) + 1
    BY <1>0, Lengths
  <1>5. /\ posted' \in Seq(Message) /\ Len(posted') = n + 1 /\ posted'[n + 1] = x
        /\ \A i \in 1..n : posted'[i] = posted[i]
    BY <1>0, <1>1, <1>2, <1>3, AppendProperties DEF GTyped
  <1>6. /\ order' \in [Client -> Seq(Id)] /\ Len(order'[d]) = m0 /\ order'[d][m0] = r
        /\ \A m \in 1..(m0 - 1) : order'[d][m] = order[d][m]
        /\ \A c \in Client : c # d => order'[c] = order[c]
    <2> DEFINE o == Append(order[d], r)
    <2>1. /\ o \in Seq(Id) /\ Len(o) = m0 /\ o[m0] = r /\ \A m \in 1..(m0 - 1) : o[m] = order[d][m]
      BY <1>0, <1>4, AppendProperties DEF GTyped
    <2>2. order' = [order EXCEPT ![d] = o]
      BY <1>1
    <2> HIDE DEF o
    <2> QED BY <1>0, <2>1, <2>2 DEF GTyped
  <1>7. /\ \A c \in Client : /\ Len(order[c]) \in Nat /\ Len(order'[c]) \in Nat /\ Len(order'[c]) >= Len(order[c])
                             /\ \A m \in 1..Len(order[c]) : order'[c][m] = order[c][m]
    BY <1>0, <1>4, <1>6, Lengths, SMTT(30)
  <1>8. PICK fin \in [Client -> Nat], pos \in [1..n -> Nat] : Placed(fin, pos)
    BY <1>0, <1>3 DEF Tracked
  <1>9. PICK new \in [1..(n + 1) -> Nat] : new[n + 1] = m0 /\ \A i \in 1..n : new[i] = pos[i]
    <2> DEFINE f == [i \in 1..(n + 1) |-> IF i = n + 1 THEN m0 ELSE pos[i]]
    <2>1. f \in [1..(n + 1) -> Nat] /\ f[n + 1] = m0 /\ \A i \in 1..n : f[i] = pos[i]
      BY <1>8
    <2> QED BY <2>1
  <1>10. \A i \in 1..(n + 1) : i \in 1..n \/ i = n + 1
    OBVIOUS
  <1>11. OneWrite'
    BY <1>0 DEF OneWrite
  <1>12. Received(fin)'
    BY <1>8 DEF Placed, Received, Done
  <1>13. QueueFits(fin)'
    <2> SUFFICES ASSUME NEW c \in Client
                 PROVE  /\ fin[c] + Len(write_queue[c]) <= Len(order'[c])
                        /\ \A i \in 1..Len(write_queue[c]) : write_queue[c][i] = order'[c][fin[c] + i]
      BY DEF QueueFits
    <2>1. /\ fin[c] \in Nat /\ Len(write_queue[c]) \in Nat /\ fin[c] + Len(write_queue[c]) <= Len(order[c])
          /\ \A i \in 1..Len(write_queue[c]) : write_queue[c][i] = order[c][fin[c] + i]
      BY <1>0, <1>8, Lengths DEF Placed, QueueFits
    <2>2. \A i \in 1..Len(write_queue[c]) : fin[c] + i \in 1..Len(order[c])
      BY <1>7, <2>1
    <2>3. Len(order[c]) <= Len(order'[c]) /\ Len(order[c]) \in Nat /\ Len(order'[c]) \in Nat
      BY <1>7
    <2>4. fin[c] + Len(write_queue[c]) <= Len(order'[c])
      BY <2>1, <2>3
    <2>5. ASSUME NEW i \in 1..Len(write_queue[c]) PROVE write_queue[c][i] = order'[c][fin[c] + i]
      <3>1. PICK m \in 1..Len(order[c]) : m = fin[c] + i
        BY <2>2
      <3>2. order'[c][m] = order[c][m]
        BY <1>7
      <3> QED BY <2>1, <3>1, <3>2
    <2> QED BY <2>4, <2>5
  <1>14. \A i \in 1..n : /\ posted[i].to \in Client /\ pos[i] \in 1..Len(order[posted[i].to])
                         /\ fin[posted[i].to] + Len(write_queue[posted[i].to]) < pos[i]
                         /\ order[posted[i].to][pos[i]] = posted[i].report
    <2> SUFFICES ASSUME NEW i \in 1..n, NEW c, c = posted[i].to
                 PROVE  /\ c \in Client /\ pos[i] \in 1..Len(order[c])
                        /\ fin[c] + Len(write_queue[c]) < pos[i] /\ order[c][pos[i]] = posted[i].report
      OBVIOUS
    <2>1. c \in Client /\ fin[c] \in Nat /\ Len(write_queue[c]) \in Nat /\ Len(order[c]) \in Nat /\ pos[i] \in Nat
      BY <1>0, <1>3, <1>8, Lengths
    <2>2. /\ fin[c] + Len(write_queue[c]) < pos[i] /\ pos[i] <= Len(order[c])
          /\ order[c][pos[i]] = posted[i].report
      BY <1>3, <1>8 DEF Placed, PostedFits
    <2> QED BY <2>1, <2>2, SMTT(30)
  <1>15. PostedFits(fin, new)'
    <2> SUFFICES ASSUME NEW i \in 1..(n + 1), NEW c, c = posted'[i].to
                 PROVE  /\ fin[c] + Len(write_queue[c]) < new[i] /\ new[i] <= Len(order'[c])
                        /\ order'[c][new[i]] = posted'[i].report
      BY <1>5 DEF PostedFits
    <2>1. CASE i \in 1..n
      <3>1. posted'[i] = posted[i] /\ new[i] = pos[i] /\ c \in Client /\ pos[i] \in 1..Len(order[c])
        BY <1>5, <1>9, <1>14, <2>1
      <3>2. fin[c] + Len(write_queue[c]) < pos[i] /\ order[c][pos[i]] = posted[i].report
        BY <1>14, <2>1, <3>1
      <3>3. pos[i] <= Len(order'[c]) /\ order'[c][pos[i]] = order[c][pos[i]]
        <4>1. PICK m \in 1..Len(order[c]) : m = pos[i]
          BY <3>1
        <4>2. Len(order[c]) \in Nat /\ Len(order'[c]) \in Nat /\ Len(order'[c]) >= Len(order[c])
          BY <1>7, <3>1
        <4>3. m <= Len(order'[c])
          BY <4>2
        <4>4. order'[c][m] = order[c][m]
          BY <1>7, <3>1
        <4> QED BY <4>1, <4>3, <4>4, Zenon
      <3> QED BY <3>1, <3>2, <3>3
    <2>2. CASE i = n + 1
      <3>1. c = d /\ new[i] = m0 /\ posted'[i].report = r
        BY <1>2, <1>5, <1>9, <2>2
      <3>2. fin[d] + Len(write_queue[d]) < m0
        BY <1>0, <1>4, <1>8, Lengths DEF Placed, QueueFits
      <3> QED BY <1>6, <3>1, <3>2
    <2> QED BY <1>10, <2>1, <2>2
  <1>16. PostedRising(new)'
    <2> SUFFICES ASSUME NEW i \in 1..(n + 1), NEW j \in 1..(n + 1), i < j, posted'[i].to = posted'[j].to
                 PROVE  new[i] < new[j]
      BY <1>5 DEF PostedRising
    <2>1. i \in 1..n
      OBVIOUS
    <2>2. CASE j \in 1..n
      BY <1>3, <1>5, <1>8, <1>9, <2>1, <2>2 DEF Placed, PostedRising
    <2>3. CASE j = n + 1
      <3>1. posted[i].to = d
        BY <1>2, <1>5, <2>1, <2>3
      <3>2. pos[i] \in 1..Len(order[d])
        BY <1>14, <2>1, <3>1
      <3> QED BY <1>4, <1>7, <1>9, <2>1, <2>3, <3>2, SMTT(30)
    <2> QED BY <1>10, <2>2, <2>3
  <1>17. PostedComplete(fin, new)'
    <2> SUFFICES ASSUME NEW c \in Client, NEW m \in 1..Len(order'[c]), m > fin[c] + Len(write_queue[c])
                 PROVE  \E i \in 1..(n + 1) : posted'[i].to = c /\ new[i] = m
      BY <1>5 DEF PostedComplete
    <2>1. CASE m \in 1..Len(order[c])
      <3>1. PICK i \in 1..n : posted[i].to = c /\ pos[i] = m
        BY <1>3, <1>8, <2>1 DEF Placed, PostedComplete
      <3> QED BY <1>5, <1>9, <3>1
    <2>2. CASE m \notin 1..Len(order[c])
      <3>1. c = d /\ m = m0
        BY <1>4, <1>6, <1>7, <2>2, SMTT(30)
      <3> QED BY <1>2, <1>5, <1>9, <3>1
    <2> QED BY <2>1, <2>2
  <1>18. StreamWhole'
    <2> SUFFICES ASSUME NEW c \in Client
                 PROVE  /\ Len(got[c]) <= 2 * Len(order'[c])
                        /\ \A i \in DOMAIN order'[c], j \in 1..2 : 2 * (i - 1) + j <= Len(got[c])
                              => got[c][2 * (i - 1) + j] = Pieces(order'[c][i])[j]
      BY DEF StreamWhole, Pieces
    <2>1. /\ Len(got[c]) <= 2 * Len(order[c]) /\ Len(got[c]) \in Nat
          /\ DOMAIN order[c] = 1..Len(order[c]) /\ DOMAIN order'[c] = 1..Len(order'[c])
      BY <1>0, <1>6, Lengths DEF StreamWhole, GTyped
    <2>2. Len(got[c]) <= 2 * Len(order'[c])
      BY <1>7, <2>1
    <2>3. ASSUME NEW i \in DOMAIN order'[c], NEW j \in 1..2, 2 * (i - 1) + j <= Len(got[c])
          PROVE  got[c][2 * (i - 1) + j] = Pieces(order'[c][i])[j]
      <3>1. i \in 1..Len(order[c])
        BY <1>7, <2>1, <2>3
      <3>2. order'[c][i] = order[c][i]
        BY <1>7, <3>1
      <3>3. got[c][2 * (i - 1) + j] = Pieces(order[c][i])[j]
        BY <1>0, <2>1, <2>3, <3>1, ZenonT(60) DEF StreamWhole
      <3> QED BY <3>2, <3>3
    <2> QED BY <2>2, <2>3
  <1> QED BY <1>5, <1>6, <1>9, <1>11, <1>12, <1>13, <1>15, <1>16, <1>17, <1>18 DEF Tracked, Placed
-----------------------------------------------------------------------------
(* The way out of a session. *)

\* The first posted handler has the report behind those in the write queue.
LEMMA HeadIsNext ==
  ASSUME GTyped, NEW fin \in [Client -> Nat], NEW pos \in [1..Len(posted) -> Nat], Placed(fin, pos),
         posted # <<>>, NEW d \in Client, d = posted[1].to
  PROVE  /\ pos[1] = fin[d] + Len(write_queue[d]) + 1 /\ pos[1] <= Len(order[d])
         /\ order[d][pos[1]] = posted[1].report
  <1>1. 1 \in 1..Len(posted) /\ Len(posted) \in Nat
    BY DEF GTyped
  <1>2. PICK b \in Nat : b = fin[d] + Len(write_queue[d])
    BY Lengths
  <1>3. b < pos[1] /\ pos[1] <= Len(order[d]) /\ order[d][pos[1]] = posted[1].report
    BY <1>1, <1>2 DEF Placed, PostedFits
  <1>4. b + 1 \in 1..Len(order[d]) /\ b + 1 > b
    BY <1>1, <1>3, Lengths
  <1>5. PICK i \in 1..Len(posted) : posted[i].to = d /\ pos[i] = b + 1
    BY <1>2, <1>4 DEF Placed, PostedComplete
  <1>6. i = 1
    <2> SUFFICES ASSUME 1 < i PROVE FALSE
      BY <1>1, <1>5
    <2>1. pos[1] < pos[i]
      BY <1>1, <1>5 DEF Placed, PostedRising
    <2> QED BY <1>1, <1>3, <1>5, <2>1
  <1> QED BY <1>2, <1>3, <1>5, <1>6

\* The report moves from the posted handlers to the write queue.
LEMMA RunPostedKept ==
  ASSUME GateInv, RunPosted
  PROVE  GateInv'
  <1>0. GTyped /\ StopOrder /\ OneWrite /\ Tracked /\ StreamWhole /\ PoolTakesAll
    BY DEF GateInv
  <1>1. /\ posted # <<>> /\ posted' = Tail(posted)
        /\ UNCHANGED <<clientVars, sess, reading, sessions, order, io, task, backVars>>
    BY DEF RunPosted
  <1>2. PICK n \in Nat : n = Len(posted) /\ n >= 1
    BY <1>0, <1>1 DEF GTyped
  <1>3. /\ posted' \in Seq(Message) /\ Len(posted') = n - 1 /\ Head(posted) = posted[1]
        /\ \A i \in 1..(n - 1) : posted'[i] = posted[i + 1] /\ i + 1 \in 1..n
    BY <1>0, <1>1, <1>2 DEF GTyped
  <1>4. PICK d \in Client, r \in Id : d = posted[1].to /\ r = posted[1].report
    BY <1>0, <1>2, Lengths
  <1>5. PICK k \in Nat : k = Len(write_queue[d])
    BY <1>0, Lengths
  <1> DEFINE q == Append(write_queue[d], r)
  <1>6. /\ q \in Seq(Id) /\ Len(q) = k + 1 /\ q[k + 1] = r
        /\ \A i \in 1..k : q[i] = write_queue[d][i]
    BY <1>0, <1>4, <1>5, AppendProperties DEF GTyped
  <1>7. /\ write_queue' = [write_queue EXCEPT ![d] = q]
        /\ IF write_queue[d] = <<>>
           THEN writes' = [writes EXCEPT ![d] = Append(writes[d], [report |-> Head(q), done |-> 0])]
           ELSE UNCHANGED writes
    BY <1>3, <1>4 DEF RunPosted, write_next
  <1> HIDE DEF q
  <1>8. /\ write_queue' \in [Client -> Seq(Id)] /\ write_queue'[d] = q
        /\ \A c \in Client : c # d => write_queue'[c] = write_queue[c]
    BY <1>0, <1>6, <1>7 DEF GTyped
  <1>9. /\ writes' \in [Client -> Seq(Writing)] /\ \A c \in Client : Done(c)' = Done(c)
        /\ OneWrite'
    <2>1. CASE write_queue[d] = <<>>
      <3> DEFINE x == [report |-> Head(q), done |-> 0]
      <3>1. k = 0 /\ writes[d] = <<>> /\ Head(q) = r /\ q # <<>> /\ q[1] = r
        <4>1. k = 0
          BY <1>5, <2>1
        <4>2. writes[d] = <<>>
          BY <1>0, <2>1 DEF OneWrite
        <4>3. q \in Seq(Id) /\ Len(q) = 1 /\ q[1] = r
          BY <1>6, <4>1
        <4>4. q # <<>>
          BY <4>3
        <4>5. Head(q) = q[1]
          BY <4>3, <4>4
        <4> QED BY <4>1, <4>2, <4>3, <4>4, <4>5
      <3>2. x \in Writing /\ x.report = r /\ x.done = 0
        BY <1>4, <3>1 DEF Writing
      <3>3. Append(writes[d], x) = <<x>>
        BY <3>1
      <3>4. writes' = [writes EXCEPT ![d] = <<x>>]
        BY <1>7, <2>1, <3>3
      <3> HIDE DEF x
      <3>5. <<x>> \in Seq(Writing) /\ Len(<<x>>) = 1 /\ <<x>>[1] = x /\ <<x>> # <<>>
        BY <3>2
      <3>6. /\ writes' \in [Client -> Seq(Writing)] /\ writes'[d] = <<x>>
            /\ \A c \in Client : c # d => writes'[c] = writes[c]
        BY <1>0, <3>4, <3>5 DEF GTyped
      <3>7. ASSUME NEW c \in Client PROVE Done(c)' = Done(c)
        BY <3>1, <3>2, <3>5, <3>6 DEF Done
      <3>8. OneWrite'
        <4> SUFFICES ASSUME NEW c \in Client
                     PROVE  /\ Len(writes'[c]) <= 1
                            /\ writes'[c] # <<>> => write_queue'[c] # <<>> /\ writes'[c][1].report = write_queue'[c][1]
          BY <1>0, <1>1 DEF OneWrite, clientVars
        <4>1. CASE c = d
          <5>1. Len(writes'[c]) = 1 /\ writes'[c][1].report = r
            BY <3>2, <3>5, <3>6, <4>1
          <5>2. write_queue'[c] # <<>> /\ write_queue'[c][1] = r
            BY <1>8, <3>1, <4>1
          <5> QED BY <5>1, <5>2
        <4>2. CASE c # d
          BY <1>0, <1>8, <3>6, <4>2 DEF OneWrite
        <4> QED BY <4>1, <4>2
      <3> QED BY <3>6, <3>7, <3>8
    <2>2. CASE write_queue[d] # <<>>
      <3>1. writes' = writes
        BY <1>7, <2>2
      <3>2. k >= 1 /\ q # <<>> /\ q[1] = write_queue[d][1]
        BY <1>0, <1>5, <1>6, <2>2 DEF GTyped
      <3>3. OneWrite'
        BY <1>0, <1>1, <1>8, <2>2, <3>1, <3>2 DEF OneWrite, clientVars
      <3> QED BY <1>0, <3>1, <3>3 DEF GTyped, Done
    <2> QED BY <2>1, <2>2
  <1>10. GTyped' /\ StopOrder' /\ PoolTakesAll'
    BY <1>0, <1>1, <1>3, <1>8, <1>9 DEF GTyped, StopOrder, PoolTakesAll, clientVars, backVars
  <1>11. StreamWhole'
    BY <1>0, <1>1 DEF StreamWhole, clientVars
  <1>12. PICK fin \in [Client -> Nat], pos \in [1..n -> Nat] : Placed(fin, pos)
    BY <1>0, <1>2 DEF Tracked
  <1>13. /\ pos[1] = fin[d] + k + 1 /\ pos[1] <= Len(order[d]) /\ order[d][pos[1]] = r
    BY <1>0, <1>1, <1>2, <1>4, <1>5, <1>12, HeadIsNext
  <1>14. PICK new \in [1..(n - 1) -> Nat] : \A i \in 1..(n - 1) : new[i] = pos[i + 1]
    <2> DEFINE f == [i \in 1..(n - 1) |-> pos[i + 1]]
    <2>1. f \in [1..(n - 1) -> Nat] /\ \A i \in 1..(n - 1) : f[i] = pos[i + 1]
      BY <1>2, <1>12
    <2> QED BY <2>1
  <1>15. Received(fin)'
    BY <1>1, <1>9, <1>12 DEF Placed, Received, clientVars
  <1>16. QueueFits(fin)'
    <2> SUFFICES ASSUME NEW c \in Client
                 PROVE  /\ fin[c] + Len(write_queue'[c]) <= Len(order[c])
                        /\ \A i \in 1..Len(write_queue'[c]) : write_queue'[c][i] = order[c][fin[c] + i]
      BY <1>1 DEF QueueFits
    <2>1. CASE c # d
      BY <1>8, <1>12, <2>1 DEF Placed, QueueFits
    <2>2. CASE c = d
      <3>1. fin[d] + (k + 1) <= Len(order[d]) /\ fin[d] \in Nat
        BY <1>12, <1>13
      <3>2. ASSUME NEW i \in 1..(k + 1) PROVE q[i] = order[d][fin[d] + i]
        <4>1. CASE i \in 1..k
          BY <1>5, <1>6, <1>12, <4>1 DEF Placed, QueueFits
        <4>2. CASE i = k + 1
          <5>1. fin[d] + i = pos[1]
            BY <1>13, <3>1, <4>2
          <5> QED BY <1>6, <1>13, <4>2, <5>1
        <4> QED BY <4>1, <4>2
      <3> QED BY <1>6, <1>8, <2>2, <3>1, <3>2
    <2> QED BY <2>1, <2>2
  <1>17. PostedFits(fin, new)'
    <2> SUFFICES ASSUME NEW i \in 1..(n - 1), NEW c, c = posted'[i].to
                 PROVE  /\ fin[c] + Len(write_queue'[c]) < new[i] /\ new[i] <= Len(order[c])
                        /\ order[c][new[i]] = posted'[i].report
      BY <1>1, <1>3 DEF PostedFits
    <2>1. i + 1 \in 1..n /\ posted'[i] = posted[i + 1] /\ new[i] = pos[i + 1] /\ c \in Client
      BY <1>0, <1>2, <1>3, <1>14, Lengths
    <2>2. /\ fin[c] + Len(write_queue[c]) < pos[i + 1] /\ pos[i + 1] <= Len(order[c])
          /\ order[c][pos[i + 1]] = posted[i + 1].report
      BY <1>2, <1>12, <2>1 DEF Placed, PostedFits
    <2>3. fin[c] + Len(write_queue'[c]) < pos[i + 1]
      <3>1. CASE c = d
        <4>1. 1 \in 1..n /\ 1 < i + 1
          BY <1>2
        <4>2. pos[1] < pos[i + 1]
          BY <1>2, <1>4, <1>12, <2>1, <3>1, <4>1 DEF Placed, PostedRising
        <4>3. fin[d] + Len(write_queue'[d]) = pos[1]
          <5>1. Len(write_queue'[d]) = k + 1 /\ fin[d] \in Nat
            BY <1>6, <1>8, <1>12
          <5> QED BY <1>13, <5>1
        <4> QED BY <3>1, <4>2, <4>3
      <3>2. CASE c # d
        BY <1>8, <2>1, <2>2, <3>2
      <3> QED BY <3>1, <3>2
    <2> QED BY <2>1, <2>2, <2>3
  <1>18. PostedRising(new)'
    <2> SUFFICES ASSUME NEW i \in 1..(n - 1), NEW j \in 1..(n - 1), i < j, posted'[i].to = posted'[j].to
                 PROVE  new[i] < new[j]
      BY <1>3 DEF PostedRising
    <2>1. /\ i + 1 \in 1..n /\ j + 1 \in 1..n /\ i + 1 < j + 1 /\ posted[i + 1].to = posted[j + 1].to
      <3>1. i + 1 \in 1..n /\ j + 1 \in 1..n /\ i + 1 < j + 1
        BY <1>3
      <3>2. posted'[i] = posted[i + 1] /\ posted'[j] = posted[j + 1]
        BY <1>3
      <3> QED BY <3>1, <3>2
    <2> QED BY <1>2, <1>12, <1>14, <2>1 DEF Placed, PostedRising
  <1>19. PostedComplete(fin, new)'
    <2> SUFFICES ASSUME NEW c \in Client, NEW m \in 1..Len(order[c]), m > fin[c] + Len(write_queue'[c])
                 PROVE  \E i \in 1..(n - 1) : posted'[i].to = c /\ new[i] = m
      BY <1>1, <1>3 DEF PostedComplete
    <2>1. m > fin[c] + Len(write_queue[c]) /\ (c = d => m # pos[1])
      <3>1. fin[c] \in Nat /\ Len(write_queue[c]) \in Nat
        BY <1>0, <1>12, Lengths
      <3>2. CASE c = d
        <4>1. Len(write_queue'[d]) = k + 1 /\ fin[d] \in Nat
          BY <1>6, <1>8, <1>12
        <4> QED BY <1>5, <1>13, <3>2, <4>1
      <3>3. CASE c # d
        BY <1>8, <3>3
      <3> QED BY <3>2, <3>3
    <2>2. PICK h \in 1..n : posted[h].to = c /\ pos[h] = m
      BY <1>2, <1>12, <2>1 DEF Placed, PostedComplete
    <2>3. h # 1
      BY <1>4, <2>1, <2>2
    <2>4. PICK i \in 1..(n - 1) : i + 1 = h
      <3>1. h - 1 \in 1..(n - 1) /\ (h - 1) + 1 = h
        BY <1>2, <2>3
      <3> QED BY <3>1
    <2> QED BY <1>3, <1>14, <2>2, <2>4
  <1>20. Tracked'
    BY <1>3, <1>14, <1>15, <1>16, <1>17, <1>18, <1>19 DEF Tracked, Placed
  <1> QED BY <1>9, <1>10, <1>11, <1>20 DEF GateInv

\* A piece goes out: it is the next one of the first report in the queue.
LEMMA WriteSomeKept ==
  ASSUME GateInv, NEW d \in Client, WriteSome(d)
  PROVE  GateInv'
  <1>0. GTyped /\ StopOrder /\ OneWrite /\ Tracked /\ StreamWhole /\ PoolTakesAll
    BY DEF GateInv
  <1>1. UNCHANGED <<peer, stream, script, sends, sess, reading, write_queue, sessions, ioVars, backVars>>
    BY DEF WriteSome
  <1>2. PICK i \in DOMAIN writes[d] :
          /\ writes[d][i].done < 2
          /\ writes' = [writes EXCEPT ![d] = [writes[d] EXCEPT ![i] = [writes[d][i] EXCEPT !.done = writes[d][i].done + 1]]]
          /\ got' = IF peer[d] = "gone" THEN got
                    ELSE [got EXCEPT ![d] = Append(got[d], Pieces(writes[d][i].report)[writes[d][i].done + 1])]
    BY DEF WriteSome
  <1>3. /\ writes[d] \in Seq(Writing) /\ Len(writes[d]) = 1 /\ i = 1 /\ DOMAIN writes[d] = {1}
        /\ writes[d][1] \in Writing
    <2>1. writes[d] \in Seq(Writing) /\ Len(writes[d]) <= 1
      BY <1>0 DEF GTyped, OneWrite
    <2>2. Len(writes[d]) \in Nat /\ DOMAIN writes[d] = 1..Len(writes[d]) /\ i \in 1..Len(writes[d])
      BY <1>2, <2>1
    <2>3. Len(writes[d]) = 1 /\ i = 1
      <3>1. PICK l \in Nat : l = Len(writes[d])
        BY <2>2
      <3>2. l <= 1 /\ i \in 1..l
        BY <2>1, <2>2, <3>1
      <3>3. l = 1 /\ i = 1
        BY <3>2
      <3> QED BY <3>1, <3>3
    <2> QED BY <2>1, <2>2, <2>3
  <1>4. PICK r \in Id, k \in 0..1 : r = writes[d][1].report /\ k = writes[d][1].done
    BY <1>2, <1>3 DEF Writing
  <1>5. r = write_queue[d][1] /\ write_queue[d] # <<>>
    <2>1. writes[d] # <<>>
      BY <1>3
    <2> QED BY <1>0, <1>4, <2>1 DEF OneWrite
  <1> DEFINE x == [writes[d][1] EXCEPT !.done = k + 1]
             ws == [writes[d] EXCEPT ![1] = x]
             y == Pieces(r)[k + 1]
  <1>6. x \in Writing /\ x.report = r /\ x.done = k + 1
    BY <1>3, <1>4 DEF Writing
  <1>7. y \in Piece
    BY DEF Pieces, Piece
  <1>8. /\ writes' = [writes EXCEPT ![d] = ws]
        /\ got' = IF peer[d] = "gone" THEN got ELSE [got EXCEPT ![d] = Append(got[d], y)]
    BY <1>2, <1>3, <1>4
  <1> HIDE DEF x, y
  <1>9. ws \in Seq(Writing) /\ Len(ws) = 1 /\ ws[1] = x /\ ws # <<>>
    BY <1>3, <1>6
  <1> HIDE DEF ws
  <1>10. /\ writes' \in [Client -> Seq(Writing)] /\ writes'[d] = ws
         /\ \A c \in Client : c # d => writes'[c] = writes[c]
    BY <1>0, <1>8, <1>9 DEF GTyped
  <1>11. PICK fin \in [Client -> Nat], pos \in [1..Len(posted) -> Nat] : Placed(fin, pos)
    BY <1>0 DEF Tracked
  <1>12. PICK g \in Nat : g = Len(got[d])
    BY <1>0, Lengths
  <1>13. /\ got' \in [Client -> Seq(Piece)]
         /\ \A c \in Client : c # d => got'[c] = got[c]
         /\ peer[d] = "gone" => got'[d] = got[d]
         /\ peer[d] # "gone" => /\ Len(got'[d]) = g + 1 /\ got'[d][g + 1] = y
                               /\ \A m \in 1..g : got'[d][m] = got[d][m]
    <2> DEFINE t == Append(got[d], y)
    <2>1. /\ t \in Seq(Piece) /\ Len(t) = g + 1 /\ t[g + 1] = y
          /\ \A m \in 1..g : t[m] = got[d][m]
      BY <1>0, <1>7, <1>12, AppendProperties DEF GTyped
    <2>2. got' = IF peer[d] = "gone" THEN got ELSE [got EXCEPT ![d] = t]
      BY <1>8
    <2> HIDE DEF t
    <2> QED BY <1>0, <2>1, <2>2 DEF GTyped
  <1>14. GTyped' /\ StopOrder' /\ PoolTakesAll'
    BY <1>0, <1>1, <1>10, <1>13 DEF GTyped, StopOrder, PoolTakesAll, ioVars, backVars
  <1>15. OneWrite'
    <2> SUFFICES ASSUME NEW c \in Client
                 PROVE  /\ Len(writes'[c]) <= 1
                        /\ writes'[c] # <<>> => write_queue[c] # <<>> /\ writes'[c][1].report = write_queue[c][1]
      BY <1>0, <1>1 DEF OneWrite
    <2>1. CASE c = d
      <3>1. Len(writes'[d]) = 1 /\ writes'[d][1].report = r
        BY <1>6, <1>9, <1>10
      <3> QED BY <1>5, <2>1, <3>1
    <2>2. CASE c # d
      BY <1>0, <1>10, <2>2 DEF OneWrite
    <2> QED BY <2>1, <2>2
  <1>16. Done(d) = k /\ Done(d)' = k + 1 /\ \A c \in Client : c # d => Done(c)' = Done(c)
    BY <1>3, <1>4, <1>6, <1>9, <1>10 DEF Done
  <1>17. /\ fin[d] \in Nat /\ peer[d] # "gone" => g = 2 * fin[d] + k
    BY <1>11, <1>12, <1>16 DEF Placed, Received
  <1>18. Tracked'
    <2>1. Received(fin)'
      <3> SUFFICES ASSUME NEW c \in Client, peer[c] # "gone" PROVE Len(got'[c]) = 2 * fin[c] + Done(c)'
        BY <1>1 DEF Received
      <3>1. CASE c = d
        BY <1>11, <1>13, <1>16, <1>17, <3>1
      <3>2. CASE c # d
        BY <1>11, <1>13, <1>16, <3>2 DEF Placed, Received
      <3> QED BY <3>1, <3>2
    <2>2. (QueueFits(fin) /\ PostedFits(fin, pos) /\ PostedRising(pos) /\ PostedComplete(fin, pos))'
      BY <1>1, <1>11 DEF Placed, QueueFits, PostedFits, PostedRising, PostedComplete, ioVars
    <2> QED BY <1>1, <2>1, <2>2 DEF Tracked, Placed, ioVars
  <1>19. StreamWhole'
    <2> SUFFICES ASSUME NEW c \in Client
                 PROVE  /\ Len(got'[c]) <= 2 * Len(order[c])
                        /\ \A h \in DOMAIN order[c], j \in 1..2 : 2 * (h - 1) + j <= Len(got'[c])
                              => got'[c][2 * (h - 1) + j] = Pieces(order[c][h])[j]
      BY <1>1 DEF StreamWhole, ioVars
    <2>1. CASE c # d \/ peer[d] = "gone"
      <3>1. got'[c] = got[c]
        BY <1>13, <2>1
      <3> QED BY <1>0, <3>1 DEF StreamWhole
    <2>2. CASE c = d /\ peer[d] # "gone"
      <3>1. /\ Len(order[d]) \in Nat /\ DOMAIN order[d] = 1..Len(order[d])
            /\ fin[d] \in Nat /\ fin[d] + 1 <= Len(order[d]) /\ order[d][fin[d] + 1] = r
        <4>1. 1 \in 1..Len(write_queue[d]) /\ Len(write_queue[d]) \in Nat
          BY <1>0, <1>5, SMTT(30) DEF GTyped
        <4>2. /\ fin[d] + Len(write_queue[d]) <= Len(order[d])
              /\ write_queue[d][1] = order[d][fin[d] + 1]
          BY <1>11, <4>1 DEF Placed, QueueFits
        <4>3. Len(order[d]) \in Nat /\ DOMAIN order[d] = 1..Len(order[d])
          BY <1>0 DEF GTyped
        <4> QED BY <1>5, <1>17, <4>1, <4>2, <4>3
      <3>2. g = 2 * fin[d] + k /\ Len(got'[d]) = g + 1
        BY <1>13, <1>17, <2>2
      <3>3. Len(got'[d]) <= 2 * Len(order[d])
        BY <3>1, <3>2
      <3>4. ASSUME NEW h \in DOMAIN order[d], NEW j \in 1..2, 2 * (h - 1) + j <= Len(got'[d])
            PROVE  got'[d][2 * (h - 1) + j] = Pieces(order[d][h])[j]
        <4>1. h \in 1..Len(order[d])
          BY <3>1
        <4>2. CASE 2 * (h - 1) + j <= g
          <5>1. PICK m \in 1..g : m = 2 * (h - 1) + j
            BY <4>1, <4>2
          <5>2. got'[d][m] = got[d][m]
            BY <1>13, <2>2
          <5>3. got[d][2 * (h - 1) + j] = Pieces(order[d][h])[j]
            BY <1>0, <1>12, <4>2 DEF StreamWhole
          <5> QED BY <5>1, <5>2, <5>3
        <4>3. CASE ~(2 * (h - 1) + j <= g)
          <5>1. h = fin[d] + 1 /\ j = k + 1 /\ 2 * (h - 1) + j = g + 1
            <6>1. PICK a \in Nat : a = fin[d]
              BY <3>1
            <6>2. 2 * (h - 1) + j = 2 * a + k + 1
              <7>1. h \in Nat /\ j \in Nat /\ k \in Nat
                BY <3>1, <4>1
              <7>2. 2 * (h - 1) + j <= g + 1
                BY <3>2, <3>4
              <7>3. g = 2 * a + k
                BY <3>2, <6>1
              <7> QED BY <4>3, <7>1, <7>2, <7>3
            <6>3. h = a + 1 /\ j = k + 1
              <7>1. h \in Nat /\ (j = 1 \/ j = 2) /\ (k = 0 \/ k = 1)
                BY <3>1, <4>1
              <7> QED BY <6>2, <7>1
            <6> QED BY <3>2, <6>1, <6>2, <6>3
          <5> QED BY <1>13, <2>2, <3>1, <5>1 DEF y
        <4> QED BY <4>2, <4>3
      <3> QED BY <2>2, <3>3, <3>4
    <2> QED BY <2>1, <2>2
  <1> QED BY <1>14, <1>15, <1>18, <1>19 DEF GateInv

\* With at most one write under way, its end leaves none.
LEMMA OnlyWrite ==
  ASSUME GTyped, OneWrite, NEW d \in Client, writes[d] # <<>>
  PROVE  /\ writes[d] \in Seq(Writing) /\ Len(writes[d]) = 1 /\ Tail(writes[d]) = <<>>
         /\ Head(writes[d]) = writes[d][1] /\ writes[d][1] \in Writing
  <1>1. writes[d] \in Seq(Writing) /\ Len(writes[d]) <= 1
    BY DEF GTyped, OneWrite
  <1>2. Len(writes[d]) = 1
    <2>1. PICK l \in Nat : l = Len(writes[d])
      BY <1>1
    <2>2. l # 0
      BY <1>1, <2>1, EmptySeq
    <2>3. l <= 1
      BY <1>1, <2>1
    <2>4. l = 1
      BY <2>2, <2>3
    <2> QED BY <2>1, <2>4
  <1>3. Tail(writes[d]) \in Seq(Writing) /\ Len(Tail(writes[d])) = 0
    BY <1>1, <1>2
  <1>4. Tail(writes[d]) = <<>>
    BY <1>3, EmptySeq
  <1> QED BY <1>1, <1>2, <1>4

\* A write is done: its report leaves the queue and the next one begins.
LEMMA WriteDoneKept ==
  ASSUME GateInv, NEW d \in Client, WriteDone(d)
  PROVE  GateInv'
  <1>0. GTyped /\ StopOrder /\ OneWrite /\ Tracked /\ StreamWhole /\ PoolTakesAll
    BY DEF GateInv
  <1>1. /\ writes[d] # <<>> /\ Head(writes[d]).done = 2
        /\ UNCHANGED <<clientVars, sess, reading, sessions, ioVars, backVars>>
    BY DEF WriteDone
  <1>2. /\ writes[d] \in Seq(Writing) /\ Len(writes[d]) = 1 /\ Tail(writes[d]) = <<>>
        /\ writes[d][1].done = 2 /\ write_queue[d] # <<>>
    BY <1>0, <1>1, OnlyWrite DEF OneWrite
  <1>3. PICK k \in Nat : k = Len(write_queue[d]) /\ k >= 1
    <2>1. write_queue[d] \in Seq(Id)
      BY <1>0 DEF GTyped
    <2> QED BY <1>2, <2>1, EmptySeq
  <1> DEFINE q == Tail(write_queue[d])
             ws == IF q = <<>> THEN <<>> ELSE <<[report |-> Head(q), done |-> 0]>>
  <1>4. q \in Seq(Id) /\ Len(q) = k - 1 /\ \A i \in 1..(k - 1) : q[i] = write_queue[d][i + 1]
    BY <1>0, <1>2, <1>3 DEF GTyped
  <1>a. /\ write_queue' = [write_queue EXCEPT ![d] = q]
        /\ writes' = [writes EXCEPT ![d] = Tail(writes[d]) \o ws]
    BY DEF WriteDone
  <1> HIDE DEF q
  <1>6. /\ write_queue' \in [Client -> Seq(Id)] /\ write_queue'[d] = q
        /\ \A c \in Client : c # d => write_queue'[c] = write_queue[c]
    BY <1>0, <1>4, <1>a DEF GTyped
  <1>7. /\ ws \in Seq(Writing) /\ Len(ws) <= 1
        /\ ws # <<>> => q # <<>> /\ ws[1].report = q[1] /\ ws[1].done = 0
    <2>1. CASE q = <<>>
      BY <2>1
    <2>2. CASE q # <<>>
      <3> DEFINE x == [report |-> Head(q), done |-> 0]
      <3>1. Head(q) = q[1] /\ Head(q) \in Id
        BY <1>4, <2>2
      <3>2. x \in Writing /\ x.report = q[1] /\ x.done = 0
        BY <3>1 DEF Writing
      <3>3. ws = <<x>>
        BY <2>2
      <3> HIDE DEF x, ws
      <3> QED BY <2>2, <3>2, <3>3
    <2> QED BY <2>1, <2>2
  <1> HIDE DEF ws
  <1>5. writes' = [writes EXCEPT ![d] = ws]
    BY <1>2, <1>7, <1>a, ConcatEmptySeq
  <1>8. /\ writes' \in [Client -> Seq(Writing)] /\ writes'[d] = ws
        /\ \A c \in Client : c # d => writes'[c] = writes[c]
    BY <1>0, <1>5, <1>7 DEF GTyped
  <1>9. Done(d) = 2 /\ Done(d)' = 0 /\ \A c \in Client : c # d => Done(c)' = Done(c)
    BY <1>1, <1>2, <1>7, <1>8 DEF Done
  <1>10. GTyped' /\ StopOrder' /\ PoolTakesAll'
    BY <1>0, <1>1, <1>6, <1>8 DEF GTyped, StopOrder, PoolTakesAll, clientVars, ioVars, backVars
  <1>11. OneWrite'
    <2> SUFFICES ASSUME NEW c \in Client
                 PROVE  /\ Len(writes'[c]) <= 1
                        /\ writes'[c] # <<>> => write_queue'[c] # <<>> /\ writes'[c][1].report = write_queue'[c][1]
      BY <1>0, <1>1 DEF OneWrite, clientVars
    <2>1. CASE c = d
      BY <1>6, <1>7, <1>8, <2>1
    <2>2. CASE c # d
      BY <1>0, <1>6, <1>8, <2>2 DEF OneWrite
    <2> QED BY <2>1, <2>2
  <1>12. StreamWhole'
    BY <1>0, <1>1 DEF StreamWhole, clientVars, ioVars
  <1>13. PICK fin \in [Client -> Nat], pos \in [1..Len(posted) -> Nat] : Placed(fin, pos)
    BY <1>0 DEF Tracked
  <1>14. PICK f \in [Client -> Nat] : f[d] = fin[d] + 1 /\ \A c \in Client : c # d => f[c] = fin[c]
    <2>1. /\ [fin EXCEPT ![d] = fin[d] + 1] \in [Client -> Nat]
          /\ [fin EXCEPT ![d] = fin[d] + 1][d] = fin[d] + 1
          /\ \A c \in Client : c # d => [fin EXCEPT ![d] = fin[d] + 1][c] = fin[c]
      BY <1>13
    <2> QED BY <2>1
  <1>15. ASSUME NEW c \in Client
         PROVE  /\ f[c] + Len(write_queue'[c]) = fin[c] + Len(write_queue[c])
                /\ fin[c] \in Nat /\ Len(write_queue[c]) \in Nat
    <2>1. fin[c] \in Nat /\ f[c] \in Nat /\ Len(write_queue[c]) \in Nat
      BY <1>0, <1>13, <1>14, Lengths
    <2>2. CASE c = d
      <3>1. Len(write_queue'[d]) = k - 1 /\ Len(write_queue[d]) = k
        BY <1>3, <1>4, <1>6
      <3> QED BY <1>14, <2>1, <2>2, <3>1
    <2>3. CASE c # d
      BY <1>6, <1>14, <2>1, <2>3
    <2> QED BY <2>1, <2>2, <2>3
  <1>16. Received(f)'
    <2> SUFFICES ASSUME NEW c \in Client, peer[c] # "gone" PROVE Len(got[c]) = 2 * f[c] + Done(c)'
      BY <1>1 DEF Received, clientVars
    <2>1. Len(got[c]) = 2 * fin[c] + Done(c)
      BY <1>13 DEF Placed, Received
    <2>2. CASE c = d
      BY <1>9, <1>13, <1>14, <2>1, <2>2
    <2>3. CASE c # d
      BY <1>9, <1>14, <2>1, <2>3
    <2> QED BY <2>2, <2>3
  <1>17. QueueFits(f)'
    <2> SUFFICES ASSUME NEW c \in Client
                 PROVE  /\ f[c] + Len(write_queue'[c]) <= Len(order[c])
                        /\ \A i \in 1..Len(write_queue'[c]) : write_queue'[c][i] = order[c][f[c] + i]
      BY <1>1 DEF QueueFits, ioVars
    <2>0. /\ fin[c] + Len(write_queue[c]) <= Len(order[c])
          /\ \A i \in 1..Len(write_queue[c]) : write_queue[c][i] = order[c][fin[c] + i]
      BY <1>13 DEF Placed, QueueFits
    <2>1. CASE c = d
      <3>1. ASSUME NEW i \in 1..(k - 1) PROVE q[i] = order[d][f[d] + i]
        <4>1. i + 1 \in 1..k /\ q[i] = write_queue[d][i + 1]
          BY <1>3, <1>4
        <4>2. write_queue[d][i + 1] = order[d][fin[d] + (i + 1)]
          BY <1>3, <2>0, <2>1, <4>1
        <4>3. fin[d] + (i + 1) = f[d] + i
          BY <1>13, <1>14
        <4> QED BY <4>1, <4>2, <4>3
      <3> QED BY <1>4, <1>6, <1>15, <2>0, <2>1, <3>1
    <2>2. CASE c # d
      BY <1>6, <1>14, <2>0, <2>2
    <2> QED BY <2>1, <2>2
  <1>18. PostedFits(f, pos)'
    <2> SUFFICES ASSUME NEW i \in 1..Len(posted), NEW c, c = posted[i].to
                 PROVE  /\ f[c] + Len(write_queue'[c]) < pos[i] /\ pos[i] <= Len(order[c])
                        /\ order[c][pos[i]] = posted[i].report
      BY <1>1 DEF PostedFits, ioVars
    <2>1. c \in Client
      BY <1>0, Lengths
    <2> QED BY <1>13, <1>15, <2>1 DEF Placed, PostedFits
  <1>19. PostedComplete(f, pos)'
    <2> SUFFICES ASSUME NEW c \in Client, NEW m \in 1..Len(order[c]), m > f[c] + Len(write_queue'[c])
                 PROVE  \E i \in 1..Len(posted) : posted[i].to = c /\ pos[i] = m
      BY <1>1 DEF PostedComplete, ioVars
    <2> QED BY <1>13, <1>15 DEF Placed, PostedComplete
  <1>20. PostedRising(pos)'
    BY <1>1, <1>13 DEF Placed, PostedRising, ioVars
  <1>21. Tracked'
    BY <1>1, <1>16, <1>17, <1>18, <1>19, <1>20 DEF Tracked, Placed, ioVars
  <1> QED BY <1>10, <1>11, <1>12, <1>21 DEF GateInv

\* A write fails: the peer is gone, and nothing is written any more.
LEMMA WriteFailsKept ==
  ASSUME GateInv, NEW d \in Client, WriteFails(d)
  PROVE  GateInv'
  <1>0. GTyped /\ StopOrder /\ OneWrite /\ Tracked /\ StreamWhole /\ PoolTakesAll
    BY DEF GateInv
  <1>1. /\ writes[d] # <<>> /\ Broken(d) /\ writes' = [writes EXCEPT ![d] = Tail(writes[d])]
        /\ sess' = [sess EXCEPT ![d] = "closed"]
        /\ UNCHANGED <<clientVars, reading, write_queue, ioVars, backVars>>
    BY DEF WriteFails, Close
  <1>2. peer[d] = "gone"
    BY <1>0, <1>1 DEF Broken, OneWrite
  <1>3. /\ writes' \in [Client -> Seq(Writing)] /\ writes'[d] = <<>>
        /\ \A c \in Client : c # d => writes'[c] = writes[c]
    <2>1. Tail(writes[d]) = <<>>
      BY <1>0, <1>1, OnlyWrite
    <2> QED BY <1>0, <1>1, <2>1 DEF GTyped
  <1>4. /\ sess' \in [Client -> {"none", "open", "closed"}]
        /\ \A c \in Client : c # d => sess'[c] = sess[c]
    BY <1>0, <1>1 DEF GTyped
  <1>5. GTyped' /\ StopOrder' /\ PoolTakesAll'
    BY <1>0, <1>1, <1>3, <1>4 DEF GTyped, StopOrder, PoolTakesAll, clientVars, ioVars, backVars
  <1>6. OneWrite'
    BY <1>0, <1>1, <1>2, <1>3, <1>4 DEF OneWrite, clientVars
  <1>7. StreamWhole'
    BY <1>0, <1>1 DEF StreamWhole, clientVars, ioVars
  <1>8. PICK fin \in [Client -> Nat], pos \in [1..Len(posted) -> Nat] : Placed(fin, pos)
    BY <1>0 DEF Tracked
  <1>9. Received(fin)'
    BY <1>1, <1>2, <1>3, <1>8 DEF Placed, Received, Done, clientVars
  <1>10. (QueueFits(fin) /\ PostedFits(fin, pos) /\ PostedRising(pos) /\ PostedComplete(fin, pos))'
    BY <1>1, <1>8 DEF Placed, QueueFits, PostedFits, PostedRising, PostedComplete, ioVars
  <1>11. Tracked'
    BY <1>1, <1>9, <1>10 DEF Tracked, Placed, ioVars
  <1> QED BY <1>5, <1>6, <1>7, <1>11 DEF GateInv
-----------------------------------------------------------------------------
(* Clients, reading, and what is behind the gateway. *)

\* What a client does.
LEMMA ClientKept ==
  ASSUME GateInv, NEW d \in Client, Connect(d) \/ Request(d) \/ Disconnect(d)
  PROVE  GateInv'
  <1>0. GTyped /\ StopOrder /\ OneWrite /\ PoolTakesAll
    BY DEF GateInv
  <1>1. UNCHANGED <<script, got, sessionVars, ioVars, backVars>>
    BY DEF Connect, Request, Disconnect
  <1>2. /\ peer' \in [Client -> {"away", "there", "gone"}]
        /\ \A c \in Client : (peer'[c] # "gone" => peer[c] # "gone") /\ (peer[c] = "gone" => peer'[c] = "gone")
    BY <1>0 DEF GTyped, Connect, Request, Disconnect
  <1>3. stream' \in [Client -> Seq(Part)] /\ sends' \in [Client -> Nat]
    <2>1. CASE Connect(d)
      BY <1>0, <2>1 DEF GTyped, Connect
    <2>2. CASE Request(d)
      <3> DEFINE x == [i \in 1..2 |-> [id |-> <<d, sends[d] + 1>>, part |-> <<"header", "body">>[i]]]
      <3>1. sends[d] + 1 \in Nat /\ stream[d] \in Seq(Part)
        BY <1>0 DEF GTyped
      <3>2. \A i \in 1..2 : <<"header", "body">>[i] \in {"header", "body"}
        OBVIOUS
      <3>3. \A i \in 1..2 : [id |-> <<d, sends[d] + 1>>, part |-> <<"header", "body">>[i]] \in Part
        BY <3>1, <3>2 DEF Part, Id
      <3>4. x \in Seq(Part)
        BY <3>3
      <3>5. stream' = [stream EXCEPT ![d] = stream[d] \o x] /\ sends' = [sends EXCEPT ![d] = sends[d] + 1]
        BY <2>2 DEF Request
      <3> HIDE DEF x
      <3>6. stream[d] \o x \in Seq(Part)
        BY <3>1, <3>4, ConcatProperties
      <3> QED BY <1>0, <3>1, <3>5, <3>6 DEF GTyped
    <2>3. CASE Disconnect(d)
      <3>1. PICK k \in 0..Len(stream[d]) : stream' = [stream EXCEPT ![d] = SubSeq(stream[d], 1, k)]
        BY <2>3 DEF Disconnect
      <3>2. stream[d] \in Seq(Part)
        BY <1>0 DEF GTyped
      <3>3. SubSeq(stream[d], 1, k) \in Seq(Part)
        BY <3>2
      <3> QED BY <1>0, <2>3, <3>1, <3>3 DEF GTyped, Disconnect
    <2> QED BY <2>1, <2>2, <2>3
  <1>4. GTyped' /\ StopOrder' /\ PoolTakesAll'
    BY <1>0, <1>1, <1>2, <1>3 DEF GTyped, StopOrder, PoolTakesAll, sessionVars, ioVars, backVars
  <1>5. OneWrite' /\ Tracked' /\ StreamWhole'
    BY <1>0, <1>1, <1>2, WayOutKept DEF OneWrite, sessionVars, ioVars
  <1> QED BY <1>4, <1>5 DEF GateInv

\* The handlers of accept and read.
LEMMA ReadKept ==
  ASSUME GateInv, NEW d \in Client, do_accept(d) \/ ReadStep(d)
  PROVE  GateInv'
  <1>0. GTyped /\ StopOrder /\ OneWrite /\ PoolTakesAll
    BY DEF GateInv
  <1>1. UNCHANGED <<peer, script, sends, got, write_queue, writes, backVars>> /\ io = "ready"
    BY DEF do_accept, ReadStep, ReadHeader, ReadBody, ReadFails, clientVars
  <1>2. /\ sess' \in [Client -> {"none", "open", "closed"}]
        /\ \A c \in Client : sess'[c] = "closed" => peer[c] = "gone"
    <2>1. CASE do_accept(d)
      BY <1>0, <2>1 DEF do_accept, GTyped, OneWrite
    <2>2. CASE ReadHeader(d) \/ ReadBody(d)
      BY <1>0, <2>2 DEF ReadHeader, ReadBody, GTyped, OneWrite
    <2>3. CASE ReadFails(d)
      BY <1>0, <2>3 DEF ReadFails, Close, Broken, GTyped, OneWrite
    <2> QED BY <2>1, <2>2, <2>3 DEF ReadStep
  <1>3. stream' \in [Client -> Seq(Part)]
    <2>1. CASE do_accept(d) \/ ReadFails(d)
      BY <1>0, <2>1 DEF do_accept, ReadFails, GTyped, clientVars
    <2>2. CASE ReadHeader(d) \/ ReadBody(d)
      <3>1. stream' = [stream EXCEPT ![d] = Tail(stream[d])] /\ stream[d] # <<>>
        BY <2>2 DEF ReadHeader, ReadBody
      <3>2. Tail(stream[d]) \in Seq(Part)
        BY <1>0, <3>1 DEF GTyped
      <3> QED BY <1>0, <3>1, <3>2 DEF GTyped
    <2> QED BY <2>1, <2>2 DEF ReadStep
  <1>4. CASE UNCHANGED ioVars
    <2>1. GTyped' /\ StopOrder' /\ PoolTakesAll'
      BY <1>0, <1>1, <1>2, <1>3, <1>4 DEF GTyped, StopOrder, PoolTakesAll, ioVars, backVars
    <2>2. OneWrite' /\ Tracked' /\ StreamWhole'
      BY <1>1, <1>2, <1>4, WayOutKept DEF ioVars
    <2> QED BY <2>1, <2>2 DEF GateInv
  <1>5. CASE ReadBody(d)
    <2> DEFINE id == Head(stream[d]).id
    <2>1. id \in Id
      <3>1. Head(stream[d]) \in Part
        BY <1>0, <1>5 DEF ReadBody, GTyped
      <3> QED BY <3>1 DEF Part
    <2>2. /\ sess' = sess
          /\ \/ io' = "submit" /\ task' = id /\ UNCHANGED <<posted, order>>
             \/ Post(d, id) /\ UNCHANGED <<io, task>>
             \/ UNCHANGED <<posted, order, io, task>>
      BY <1>5 DEF ReadBody
    <2> HIDE DEF id
    <2>3. CASE Post(d, id) /\ UNCHANGED <<io, task>>
      <3>1. /\ posted' \in Seq(Message) /\ order' \in [Client -> Seq(Id)]
            /\ OneWrite' /\ Tracked' /\ StreamWhole'
        BY <1>1, <2>1, <2>2, <2>3, PostKept
      <3>2. GTyped' /\ StopOrder' /\ PoolTakesAll'
        BY <1>0, <1>1, <1>2, <1>3, <2>3, <3>1 DEF GTyped, StopOrder, PoolTakesAll, backVars
      <3> QED BY <3>1, <3>2 DEF GateInv
    <2>4. CASE io' = "submit" /\ task' = id /\ UNCHANGED <<posted, order>>
      <3>1. OneWrite' /\ Tracked' /\ StreamWhole'
        BY <1>1, <1>2, <2>4, WayOutKept
      <3>2. GTyped' /\ StopOrder' /\ PoolTakesAll'
        BY <1>0, <1>1, <1>2, <1>3, <2>1, <2>4 DEF GTyped, StopOrder, PoolTakesAll, backVars
      <3> QED BY <3>1, <3>2 DEF GateInv
    <2>5. CASE UNCHANGED <<posted, order, io, task>>
      BY <1>4, <2>5 DEF ioVars
    <2> QED BY <2>2, <2>3, <2>4, <2>5
  <1>6. ReadBody(d) \/ UNCHANGED ioVars
    BY DEF do_accept, ReadStep, ReadHeader, ReadFails
  <1> QED BY <1>4, <1>5, <1>6

\* The reports of a call go to clients.
LEMMA MatchedReports ==
  ASSUME owners \subseteq Client, NEW o \in Client, NEW to \in Matched(o), NEW id \in Id, NEW q \in Seq(Message)
  PROVE  q \o [i \in 1..Len(to) |-> [to |-> to[i], report |-> id]] \in Seq(Message)
  <1>1. PICK m \in Nat : to \in [1..m -> Client]
    <2>1. PICK m \in 0..MaxReports : to \in [1..m -> owners \cup {o}]
      BY DEF Matched, SeqOf
    <2>2. m \in Nat /\ owners \cup {o} \subseteq Client
      BY GatewayAssumption, <2>1
    <2> QED BY <2>1, <2>2
  <1>2. Len(to) = m
    BY <1>1
  <1>3. \A i \in 1..m : [to |-> to[i], report |-> id] \in Message
    BY <1>1 DEF Message
  <1>4. PICK s : s = [i \in 1..m |-> [to |-> to[i], report |-> id]]
    OBVIOUS
  <1>5. s \in Seq(Message)
    BY <1>1, <1>3, <1>4
  <1>6. q \o s \in Seq(Message)
    BY <1>5, ConcatProperties
  <1> QED BY <1>2, <1>4, <1>6

\* Submission, the workers, the dispatch thread and the shutdown: the io thread
\* waits in submit() only while the pool takes tasks.
LEMMA BehindKept ==
  ASSUME GateInv, Submitted \/ Work \/ TakeReport \/ Send \/ shutdown \/ UNCHANGED vars
  PROVE  GateInv'
  <1>0. GTyped /\ StopOrder /\ OneWrite /\ PoolTakesAll
    BY DEF GateInv
  <1>1. UNCHANGED <<clientVars, sess, write_queue, writes>>
    BY DEF Submitted, Work, TakeReport, Send, shutdown, vars, sessionVars
  <1>2. ASSUME UNCHANGED <<posted, order>>, StopOrder', PoolTakesAll', tasks' \in Seq(Id), reports' \in Seq(Message),
               io' = "submit" => task' \in Id, hand' # <<>> => hand'[1] \in Message, owners' \subseteq Client
        PROVE  GateInv'
    <2>1. GTyped'
      BY <1>0, <1>1, <1>2 DEF GTyped, clientVars
    <2>2. OneWrite' /\ Tracked' /\ StreamWhole'
      BY <1>0, <1>1, <1>2, WayOutKept DEF OneWrite, clientVars
    <2> QED BY <1>2, <2>1, <2>2 DEF GateInv
  <1>3. CASE Submitted
    <2>1. io = "submit" /\ main \in {"serving", "stop"} /\ task \in Id
      BY <1>0, <1>3 DEF Submitted, StopOrder, GTyped
    <2>2. /\ tasks' = Append(tasks, task) /\ UNCHANGED <<refused, posted, order, reports, hand, owners, main>>
          /\ io' = (IF main = "stop" THEN "ended" ELSE "ready")
      BY <1>3, <2>1 DEF Submitted
    <2>3. tasks' \in Seq(Id)
      BY <1>0, <2>1, <2>2 DEF GTyped
    <2>4. StopOrder' /\ PoolTakesAll' /\ io' # "submit"
      BY <1>0, <2>1, <2>2 DEF StopOrder, PoolTakesAll
    <2> QED BY <1>0, <1>2, <2>2, <2>3, <2>4 DEF GTyped
  <1>4. CASE Work
    <2>1. tasks # <<>> /\ tasks' = Tail(tasks) /\ UNCHANGED <<ioVars, hand, main, refused>>
      BY <1>4 DEF Work
    <2>2. tasks' \in Seq(Id) /\ Head(tasks) \in Id
      BY <1>0, <2>1 DEF GTyped
    <2>3. PICK c \in Client, id \in Id : id = Head(tasks) /\ c = id[1]
      BY <2>2 DEF Id
    <2>4. /\ owners' = owners \/ owners' = owners \cup {c}
          /\ \/ reports' = reports
             \/ \E o \in owners \cup {c} : \E to \in Matched(o) :
                   reports' = reports \o [i \in 1..Len(to) |-> [to |-> to[i], report |-> id]]
      BY <1>4, <2>3 DEF Work
    <2>5. owners' \subseteq Client
      BY <1>0, <2>4 DEF GTyped
    <2>6. ASSUME NEW o \in Client, NEW to \in Matched(o)
          PROVE  reports \o [i \in 1..Len(to) |-> [to |-> to[i], report |-> id]] \in Seq(Message)
      <3>1. owners \subseteq Client /\ reports \in Seq(Message)
        BY <1>0 DEF GTyped
      <3> QED BY ONLY <2>6, <3>1, MatchedReports, id \in Id
    <2>7. reports' \in Seq(Message)
      <3>1. reports \in Seq(Message) /\ owners \cup {c} \subseteq Client
        BY <1>0 DEF GTyped
      <3> QED BY <2>4, <2>6, <3>1
    <2> QED BY <1>0, <1>2, <2>1, <2>2, <2>5, <2>7 DEF GTyped, StopOrder, PoolTakesAll, ioVars
  <1>5. CASE TakeReport
    <2>1. /\ reports # <<>> /\ reports' = Tail(reports) /\ UNCHANGED <<ioVars, tasks, owners, main, refused>>
          /\ hand' = <<Head(reports)>> \/ hand' = <<>>
      BY <1>5 DEF TakeReport
    <2>2. reports' \in Seq(Message) /\ Head(reports) \in Message
      BY <1>0, <2>1 DEF GTyped
    <2>3. hand' # <<>> => hand'[1] \in Message
      BY <2>1, <2>2
    <2> QED BY <1>0, <1>2, <2>1, <2>2, <2>3 DEF GTyped, StopOrder, PoolTakesAll, ioVars
  <1>6. CASE Send
    <2>1. /\ hand # <<>> /\ hand' = <<>> /\ Post(hand[1].to, hand[1].report)
          /\ UNCHANGED <<clientVars, sessionVars, io, task, tasks, reports, owners, main, refused>>
      BY <1>6 DEF Send
    <2>2. hand[1].to \in Client /\ hand[1].report \in Id
      <3>1. hand[1] \in Message
        BY <1>0, <2>1 DEF GTyped
      <3> QED BY <3>1 DEF Message
    <2>3. /\ posted' \in Seq(Message) /\ order' \in [Client -> Seq(Id)]
          /\ OneWrite' /\ Tracked' /\ StreamWhole'
      BY <2>1, <2>2, PostKept DEF clientVars, sessionVars
    <2>4. GTyped' /\ StopOrder' /\ PoolTakesAll'
      BY <1>0, <2>1, <2>3 DEF GTyped, StopOrder, PoolTakesAll, clientVars, sessionVars
    <2> QED BY <2>3, <2>4 DEF GateInv
  <1>7. CASE shutdown
    <2>1. UNCHANGED <<posted, order, task, tasks, reports, hand, owners, refused>>
      BY <1>7 DEF shutdown
    <2>2. StopOrder' /\ (io' = "submit" => io = "submit")
      BY <1>0, <1>7 DEF shutdown, StopIo, StopOrder
    <2> QED BY <1>0, <1>2, <2>1, <2>2 DEF GTyped, PoolTakesAll
  <1>8. CASE UNCHANGED vars
    BY <1>0, <1>2, <1>8 DEF GTyped, StopOrder, PoolTakesAll, vars, ioVars, backVars
  <1> QED BY <1>3, <1>4, <1>5, <1>6, <1>7, <1>8
-----------------------------------------------------------------------------
(* The theorems. *)

\* Nothing has been sent or posted at first.
LEMMA InitKept == Init => GateInv
  <1> SUFFICES ASSUME Init PROVE GateInv
    OBVIOUS
  <1>1. GTyped
    BY DEF Init, GTyped
  <1>2. StopOrder /\ PoolTakesAll
    BY DEF Init, StopOrder, PoolTakesAll
  <1>3. /\ \A c \in Client : /\ writes[c] = <<>> /\ write_queue[c] = <<>> /\ order[c] = <<>> /\ got[c] = <<>>
                             /\ sess[c] = "none"
        /\ posted = <<>>
    BY DEF Init
  <1>4. OneWrite /\ StreamWhole
    BY <1>3 DEF OneWrite, StreamWhole
  <1>5. Tracked
    <2>1. PICK fin \in [Client -> Nat] : \A c \in Client : fin[c] = 0
      <3>1. [c \in Client |-> 0] \in [Client -> Nat] /\ \A c \in Client : [d \in Client |-> 0][c] = 0
        OBVIOUS
      <3> QED BY <3>1
    <2>2. PICK pos \in [1..Len(posted) -> Nat] : TRUE
      <3>1. [i \in 1..Len(posted) |-> 0] \in [1..Len(posted) -> Nat]
        OBVIOUS
      <3> QED BY <3>1
    <2>3. Len(posted) = 0 /\ \A c \in Client : Len(order[c]) = 0 /\ Len(write_queue[c]) = 0 /\ Len(got[c]) = 0
      BY <1>3
    <2>4. QueueFits(fin) /\ Received(fin)
      <3>1. QueueFits(fin)
        BY <2>1, <2>3 DEF QueueFits
      <3>2. \A c \in Client : Done(c) = 0
        BY <1>3 DEF Done
      <3>3. Received(fin)
        <4>1. ASSUME NEW c \in Client PROVE Len(got[c]) = 2 * fin[c] + Done(c)
          <5>1. Len(got[c]) = 0 /\ fin[c] = 0 /\ Done(c) = 0
            BY <2>1, <2>3, <3>2
          <5> QED BY <5>1
        <4> QED BY <4>1 DEF Received
      <3> QED BY <3>1, <3>3
    <2>5. PostedFits(fin, pos) /\ PostedRising(pos) /\ PostedComplete(fin, pos)
      BY <2>3 DEF PostedFits, PostedRising, PostedComplete
    <2> QED BY <2>4, <2>5 DEF Tracked, Placed
  <1> QED BY <1>1, <1>2, <1>4, <1>5 DEF GateInv

\* GateInv is inductive: every report posted to a session is received, being
\* written, in the write queue or in a posted handler, in that order.
THEOREM GatewayInvariant == Spec => []GateInv
  <1>1. ASSUME GateInv, [Next]_vars PROVE GateInv'
    <2>1. ASSUME NEW c \in Client, Connect(c) \/ Disconnect(c) \/ Request(c) PROVE GateInv'
      BY <1>1, <2>1, ClientKept
    <2>2. ASSUME NEW c \in Client, do_accept(c) \/ ReadStep(c) PROVE GateInv'
      BY <1>1, <2>2, ReadKept
    <2>3. ASSUME NEW c \in Client, WriteStep(c) PROVE GateInv'
      BY <1>1, <2>3, WriteSomeKept, WriteDoneKept, WriteFailsKept DEF WriteStep
    <2>4. CASE RunPosted
      BY <1>1, <2>4, RunPostedKept
    <2>5. CASE Submitted \/ Work \/ TakeReport \/ Send \/ shutdown \/ UNCHANGED vars
      BY <1>1, <2>5, BehindKept
    <2> QED BY <1>1, <2>1, <2>2, <2>3, <2>4, <2>5 DEF Next
  <1> QED BY <1>1, InitKept, PTL DEF Spec

\* A client receives the beginning of the reports posted to its session, whole
\* and in order, whatever is posted while a write is under way or has failed.
THEOREM StreamsWhole == Spec => []StreamWhole
  <1>1. GateInv => StreamWhole
    BY DEF GateInv
  <1> QED BY <1>1, GatewayInvariant, PTL

\* The buffer of an outstanding async_write is the front of write_queue_.
THEOREM BuffersAlive == Spec => []BufferAlive
  <1>1. ASSUME GateInv PROVE BufferAlive
    <2> SUFFICES ASSUME NEW c \in Client, NEW i \in DOMAIN writes[c]
                 PROVE  write_queue[c] # <<>> /\ writes[c][i].report = Head(write_queue[c])
      BY DEF BufferAlive
    <2>0. GTyped /\ OneWrite
      BY <1>1 DEF GateInv
    <2>1. writes[c] \in Seq(Writing) /\ DOMAIN writes[c] = 1..Len(writes[c]) /\ writes[c] # <<>>
      BY <2>0 DEF GTyped
    <2>2. Len(writes[c]) = 1
      BY <2>0, <2>1, OnlyWrite
    <2>3. i = 1
      BY <2>1, <2>2
    <2>4. write_queue[c] # <<>> /\ writes[c][1].report = write_queue[c][1] /\ write_queue[c] \in Seq(Id)
      BY <2>0, <2>1 DEF OneWrite, GTyped
    <2> QED BY <2>3, <2>4
  <1> QED BY <1>1, GatewayInvariant, PTL

\* The pool refuses no task of the gateway: the program joins the io thread
\* before it shuts the pool down.
THEOREM NoTaskRefused == Spec => []PoolTakesAll
  <1>1. GateInv => PoolTakesAll
    BY DEF GateInv
  <1> QED BY <1>1, GatewayInvariant, PTL
=============================================================================
