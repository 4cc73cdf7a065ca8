-------------------------- MODULE MPSCQueueProofs --------------------------
(***************************************************************************)
(* Proofs about MPSCQueue, for any number of producers and addresses: no   *)
(* thread touches a freed node, and the queue implements RelaxedQueue.     *)
(***************************************************************************)
EXTENDS MPSCQueue, SequenceTheorems, TLAPS

\* Where a thread that enqueues can be; "try" is the retry loop of the callers.
Steps == {"idle", "try", "check", "exchange", "link"}

Typed ==
    /\ tail \in Node /\ head \in Node /\ ahead \in Node /\ live \subseteq Node
    /\ next \in [Node -> Node \cup {Null}]
    /\ data \in [Node -> Item \cup {<<>>}]
    /\ mine \in [Producer -> Node] /\ prev \in [Producer -> Node]
    /\ sent \in [Producer -> 0..MaxSend]
    /\ list \in Seq(Node) /\ taken \in Seq(Item)
    /\ pc \in [Producer -> Steps]
    /\ \A p \in Producer : pc[p] # "idle" => sent[p] >= 1

\* list runs from head_ to tail_ through live, different nodes that carry items.
Chain ==
    /\ Len(list) >= 1 /\ list[1] = head /\ list[Len(list)] = tail
    /\ \A i, j \in 1..Len(list) : list[i] = list[j] => i = j
    /\ \A i \in 1..Len(list) : list[i] \in live
    /\ \A i \in 2..Len(list) : data[list[i]] \in Item

\* A next pointer is null or leads to the following node of the list.
Links ==
    \A i \in 1..Len(list) :
        \/ next[list[i]] = Null
        \/ i < Len(list) /\ next[list[i]] = list[i + 1]

\* A producer between exchange and link closes a gap of its own.
Pending ==
    /\ \A p \in Producer : pc[p] = "link" =>
          \E i \in 1..(Len(list) - 1) :
              prev[p] = list[i] /\ mine[p] = list[i + 1] /\ next[list[i]] = Null
    /\ \A p, q \in Producer : pc[p] = "link" /\ pc[q] = "link" /\ p # q => mine[p] # mine[q]

\* Only a producer that is about to link leaves a gap behind.
Gaps ==
    \A i \in 1..(Len(list) - 1) : next[list[i]] = Null =>
        \E p \in Producer : pc[p] = "link" /\ prev[p] = list[i] /\ mine[p] = list[i + 1]

\* What the consumer has loaded is the second node.
Loaded == cpc = "take" => Len(list) >= 2 /\ ahead = list[2] /\ next[head] = ahead

Inv == Typed /\ Chain /\ Links /\ Pending /\ Gaps /\ Loaded
-----------------------------------------------------------------------------
\* The constructor establishes the invariant.
LEMMA InitInv ==
  ASSUME QueueInit, pc = [p \in Producer |-> "idle"], sent = [p \in Producer |-> 0], cpc # "take"
  PROVE  Inv
  <1>1. PICK stub \in Node :
          /\ tail = stub /\ head = stub /\ live = {stub} /\ list = <<stub>>
          /\ mine = [p \in Producer |-> stub] /\ prev = [p \in Producer |-> stub] /\ ahead = stub
    BY DEF QueueInit
  <1>2. list \in Seq(Node) /\ Len(list) = 1 /\ list[1] = stub
    BY <1>1
  <1>3. /\ next = [n \in Node |-> Null] /\ data = [n \in Node |-> <<>>] /\ taken = <<>>
        /\ pc = [p \in Producer |-> "idle"] /\ sent = [p \in Producer |-> 0] /\ cpc # "take"
    BY DEF QueueInit
  <1>4. Typed
    <2>1. taken \in Seq(Item)
      BY <1>3
    <2>2. sent \in [Producer -> 0..MaxSend]
      BY <1>3, MPSCAssumption
    <2> QED BY <1>1, <1>2, <1>3, <2>1, <2>2 DEF Typed, Steps
  <1>5. Chain
    BY <1>1, <1>2 DEF Chain
  <1>6. Links /\ Pending /\ Gaps /\ Loaded
    BY <1>1, <1>2, <1>3 DEF Links, Pending, Gaps, Loaded
  <1> QED BY <1>4, <1>5, <1>6 DEF Inv

\* Steps that leave the nodes alone.
LEMMA QuietStep ==
  ASSUME Inv, UNCHANGED <<tail, head, next, data, live, mine, prev, list, taken>>,
         Typed', \A p \in Producer : pc'[p] = "link" <=> pc[p] = "link",
         Loaded'
  PROVE  Inv'
  BY DEF Inv, Chain, Links, Pending, Gaps

\* Call, EnqueueCheck and close leave the nodes alone.
LEMMA CallKept ==
  ASSUME Inv, NEW fail \in {"idle", "try"},
         \/ \E p \in Producer : Call(p) \/ EnqueueCheck(p, fail)
         \/ close
  PROVE  Inv'
  <1>0. Typed /\ Loaded
    BY DEF Inv
  <1>1. ASSUME NEW p \in Producer, Call(p) PROVE Inv'
    <2>1. UNCHANGED queueVars /\ UNCHANGED cpc
      BY <1>1 DEF Call
    <2>2. Typed'
      <3>1. sent' \in [Producer -> 0..MaxSend] /\ sent'[p] >= 1 /\ \A q \in Producer \ {p} : sent'[q] = sent[q]
        BY <1>0, <1>1, MPSCAssumption DEF Call, Typed
      <3>2. pc' \in [Producer -> Steps] /\ \A q \in Producer \ {p} : pc'[q] = pc[q]
        BY <1>0, <1>1 DEF Call, Typed, Steps
      <3> QED BY <1>0, <2>1, <3>1, <3>2 DEF Typed, queueVars
    <2>3. \A q \in Producer : pc'[q] = "link" <=> pc[q] = "link"
      BY <1>0, <1>1 DEF Call, Typed, Steps
    <2> QED BY <1>0, <2>1, <2>2, <2>3, QuietStep DEF Loaded, queueVars
  <1>2. ASSUME NEW p \in Producer, EnqueueCheck(p, fail) PROVE Inv'
    <2>1. UNCHANGED queueVars /\ UNCHANGED <<cpc, sent>>
      BY <1>2 DEF EnqueueCheck
    <2>2. Typed'
      BY <1>0, <1>2, <2>1 DEF Typed, Steps, queueVars, EnqueueCheck
    <2>3. \A q \in Producer : pc'[q] = "link" <=> pc[q] = "link"
      BY <1>0, <1>2 DEF EnqueueCheck, Typed
    <2> QED BY <1>0, <2>1, <2>2, <2>3, QuietStep DEF Loaded, queueVars
  <1>3. ASSUME close PROVE Inv'
    BY <1>0, <1>3, QuietStep DEF close, Typed, Loaded
  <1> QED BY <1>1, <1>2, <1>3

\* The exchange appends a fresh node.
LEMMA ExchangeKept ==
  ASSUME Inv, NEW p \in Producer, EnqueueExchange(p)
  PROVE  Inv'
  <1>0. Typed /\ Chain /\ Links /\ Pending /\ Gaps /\ Loaded
    BY DEF Inv
  <1>1. PICK n \in Node \ live :
          /\ live' = live \cup {n}
          /\ data' = [data EXCEPT ![n] = <<p, sent[p]>>]
          /\ next' = [next EXCEPT ![n] = Null]
          /\ mine' = [mine EXCEPT ![p] = n]
          /\ prev' = [prev EXCEPT ![p] = tail]
          /\ tail' = n
          /\ list' = Append(list, n)
    BY DEF EnqueueExchange
  <1>2. /\ pc[p] = "exchange" /\ pc' = [pc EXCEPT ![p] = "link"]
        /\ UNCHANGED <<head, sent, cpc, ahead, taken>>
    BY DEF EnqueueExchange
  <1> DEFINE k == Len(list)
  <1>3. /\ k \in Nat /\ k >= 1
        /\ list' \in Seq(Node) /\ Len(list') = k + 1
        /\ list'[k + 1] = n /\ \A i \in 1..k : list'[i] = list[i]
    BY <1>0, <1>1 DEF Typed, Chain
  <1>4. \A i \in 1..k : list[i] # n /\ list[i] \in live /\ list[i] \in Node
    BY <1>0, <1>1 DEF Chain, Typed
  <1>5. /\ next' \in [Node -> Node \cup {Null}] /\ next'[n] = Null
        /\ \A i \in 1..k : next'[list[i]] = next[list[i]]
    BY <1>0, <1>1, <1>4 DEF Typed
  <1>6. <<p, sent[p]>> \in Item
    <2>1. sent[p] \in 1..MaxSend
      BY <1>0, <1>2, MPSCAssumption DEF Typed
    <2> QED BY <2>1 DEF Item
  <1>7. /\ data' \in [Node -> Item \cup {<<>>}] /\ data'[n] \in Item
        /\ \A i \in 1..k : data'[list[i]] = data[list[i]]
    <2> DEFINE x == <<p, sent[p]>>
    <2>1. x \in Item /\ data' = [data EXCEPT ![n] = x] /\ data \in [Node -> Item \cup {<<>>}]
      BY <1>0, <1>1, <1>6 DEF Typed
    <2> HIDE DEF x
    <2> QED BY <1>4, <2>1
  <1>8. Typed'
    <2>1. mine' \in [Producer -> Node] /\ prev' \in [Producer -> Node]
      BY <1>0, <1>1 DEF Typed
    <2>2. /\ pc' \in [Producer -> Steps]
          /\ \A q \in Producer : pc'[q] # "idle" => pc[q] # "idle"
      BY <1>0, <1>2 DEF Typed, Steps
    <2> QED BY <1>0, <1>1, <1>2, <1>3, <1>5, <1>7, <2>1, <2>2 DEF Typed
  <1> HIDE DEF k
  <1>9. Chain'
    <2>1. list'[1] = head' /\ list'[Len(list')] = tail' /\ Len(list') >= 1
      BY <1>0, <1>1, <1>2, <1>3 DEF Chain, k
    <2>2. \A i \in 1..(k + 1) : i = k + 1 \/ i \in 1..k
      BY <1>3
    <2>3. \A i \in 1..Len(list') : list'[i] \in live'
      BY <1>1, <1>3, <1>4, <2>2
    <2>4. ASSUME NEW i \in 1..Len(list'), NEW j \in 1..Len(list'), list'[i] = list'[j] PROVE i = j
      <3>1. CASE i \in 1..k /\ j \in 1..k
        BY <1>0, <1>3, <2>4, <3>1 DEF Chain, k
      <3>2. CASE i = k + 1 /\ j \in 1..k
        BY <1>3, <1>4, <2>4, <3>2
      <3>3. CASE j = k + 1 /\ i \in 1..k
        BY <1>3, <1>4, <2>4, <3>3
      <3> QED BY <1>3, <2>2, <3>1, <3>2, <3>3
    <2>5. \A i \in 2..Len(list') : data'[list'[i]] \in Item
      <3>1. \A i \in 2..k : data'[list'[i]] \in Item
        BY <1>0, <1>3, <1>7 DEF Chain, k
      <3>2. data'[list'[k + 1]] \in Item
        BY <1>3, <1>7
      <3>3. \A i \in 2..(k + 1) : i \in 2..k \/ i = k + 1
        BY <1>3
      <3> QED BY <1>3, <3>1, <3>2, <3>3
    <2> QED BY <2>1, <2>3, <2>4, <2>5 DEF Chain
  <1>10. Links'
    <2> SUFFICES ASSUME NEW i \in 1..Len(list')
                 PROVE  \/ next'[list'[i]] = Null
                        \/ i < Len(list') /\ next'[list'[i]] = list'[i + 1]
      BY DEF Links
    <2>1. CASE i \in 1..k
      <3>1. next'[list'[i]] = next[list[i]]
        BY <1>3, <1>5, <2>1
      <3>2. next[list[i]] = Null \/ (i < k /\ next[list[i]] = list[i + 1])
        BY <1>0, <2>1 DEF Links, k
      <3>3. i < k => list'[i + 1] = list[i + 1]
        BY <1>3, <2>1
      <3> QED BY <1>3, <3>1, <3>2, <3>3
    <2>2. CASE i = k + 1
      BY <1>3, <1>5, <2>2
    <2> QED BY <1>3, <2>1, <2>2
  <1>11. Pending'
    <2>1. /\ mine'[p] = n /\ prev'[p] = tail
          /\ \A q \in Producer \ {p} : mine'[q] = mine[q] /\ prev'[q] = prev[q] /\ pc'[q] = pc[q]
      BY <1>0, <1>1, <1>2 DEF Typed
    <2>2. \E i \in 1..(Len(list') - 1) :
              prev'[p] = list'[i] /\ mine'[p] = list'[i + 1] /\ next'[list'[i]] = Null
      <3>1. k \in 1..(Len(list') - 1) /\ list'[k] = list[k] /\ list[k] = tail
        BY <1>0, <1>3 DEF Chain, k
      <3>2. next'[list[k]] = next[list[k]] /\ next[list[k]] = Null
        BY <1>0, <1>3, <1>5 DEF Links, k
      <3> QED BY <1>3, <2>1, <3>1, <3>2
    <2>3. ASSUME NEW q \in Producer \ {p}, pc'[q] = "link"
          PROVE  /\ \E i \in 1..(Len(list') - 1) :
                       prev'[q] = list'[i] /\ mine'[q] = list'[i + 1] /\ next'[list'[i]] = Null
                 /\ mine'[q] # n
      <3>1. PICK i \in 1..(k - 1) : prev[q] = list[i] /\ mine[q] = list[i + 1] /\ next[list[i]] = Null
        BY <1>0, <2>1, <2>3 DEF Pending, k
      <3>2. i \in 1..k /\ i + 1 \in 1..k /\ i \in 1..(Len(list') - 1)
        BY <1>3
      <3>3. list'[i] = list[i] /\ list'[i + 1] = list[i + 1] /\ next'[list[i]] = next[list[i]]
        BY <1>3, <1>5, <3>2
      <3> QED BY <1>4, <2>1, <3>1, <3>2, <3>3
    <2> QED BY <1>0, <2>1, <2>2, <2>3 DEF Pending
  <1>12. Loaded'
    BY <1>0, <1>2, <1>3, <1>5 DEF Loaded, Chain, k
  <1>13. Gaps'
    <2> SUFFICES ASSUME NEW i \in 1..k, next'[list'[i]] = Null
                 PROVE  \E q \in Producer : /\ pc'[q] = "link" /\ prev'[q] = list'[i]
                                            /\ mine'[q] = list'[i + 1]
      BY <1>3 DEF Gaps
    <2>1. CASE i = k
      BY <1>0, <1>1, <1>2, <1>3, <2>1 DEF Typed, Chain, k
    <2>2. CASE i # k
      <3>1. i \in 1..(k - 1) /\ i + 1 \in 1..k /\ next[list[i]] = Null
        BY <1>3, <1>5, <2>2
      <3>2. PICK q \in Producer : pc[q] = "link" /\ prev[q] = list[i] /\ mine[q] = list[i + 1]
        BY <1>0, <3>1 DEF Gaps, k
      <3>3. q # p
        BY <1>2, <3>2
      <3>4. pc'[q] = pc[q] /\ prev'[q] = prev[q] /\ mine'[q] = mine[q]
        BY <1>0, <1>1, <1>2, <3>3 DEF Typed
      <3> QED BY <1>3, <3>1, <3>2, <3>4
    <2> QED BY <2>1, <2>2
  <1> QED BY <1>8, <1>9, <1>10, <1>11, <1>12, <1>13 DEF Inv

\* The link closes the producer's own gap and no other.
LEMMA LinkKept ==
  ASSUME Inv, NEW p \in Producer, EnqueueLink(p)
  PROVE  Inv'
  <1>0. Typed /\ Chain /\ Links /\ Pending /\ Gaps /\ Loaded
    BY DEF Inv
  <1>1. /\ pc[p] = "link" /\ pc' = [pc EXCEPT ![p] = "idle"]
        /\ next' = [next EXCEPT ![prev[p]] = mine[p]]
        /\ UNCHANGED <<tail, head, data, live, sent, mine, prev, cpc, ahead, list, taken>>
    BY DEF EnqueueLink
  <1> DEFINE k == Len(list)
  <1>2. PICK i \in 1..(k - 1) : prev[p] = list[i] /\ mine[p] = list[i + 1] /\ next[list[i]] = Null
    BY <1>0, <1>1 DEF Pending
  <1>3. /\ k \in Nat /\ i \in 1..k /\ i + 1 \in 1..k
        /\ \A j \in 1..k : list[j] \in Node /\ (list[j] = list[i] => j = i)
    BY <1>0, <1>2 DEF Typed, Chain
  <1>4. /\ next' \in [Node -> Node \cup {Null}] /\ next'[list[i]] = list[i + 1]
        /\ \A j \in 1..k : j # i => next'[list[j]] = next[list[j]]
    BY <1>0, <1>1, <1>2, <1>3 DEF Typed
  <1>5. /\ pc' \in [Producer -> Steps]
        /\ \A q \in Producer : pc'[q] = pc[q] \/ pc'[q] = "idle"
        /\ pc'[p] = "idle" /\ \A q \in Producer \ {p} : pc'[q] = pc[q]
    BY <1>0, <1>1 DEF Typed, Steps
  <1>6. Typed'
    BY <1>0, <1>1, <1>4, <1>5 DEF Typed
  <1>7. Chain'
    BY <1>0, <1>1 DEF Chain
  <1>8. Links'
    BY <1>0, <1>1, <1>2, <1>3, <1>4 DEF Links
  <1>9. Pending'
    <2>1. ASSUME NEW q \in Producer, pc'[q] = "link"
          PROVE  \E j \in 1..(Len(list') - 1) :
                    prev'[q] = list'[j] /\ mine'[q] = list'[j + 1] /\ next'[list'[j]] = Null
      <3>1. q # p /\ pc[q] = "link"
        BY <1>5, <2>1
      <3>2. PICK j \in 1..(k - 1) : prev[q] = list[j] /\ mine[q] = list[j + 1] /\ next[list[j]] = Null
        BY <1>0, <3>1 DEF Pending
      <3>3. j # i
        BY <1>0, <1>1, <1>2, <3>1, <3>2 DEF Pending
      <3>4. j \in 1..k
        BY <1>3, <3>2
      <3> QED BY <1>1, <1>4, <3>2, <3>3, <3>4
    <2>2. \A q \in Producer : pc'[q] = "link" => pc[q] = "link"
      BY <1>5
    <2> QED BY <1>0, <1>1, <2>1, <2>2 DEF Pending
  <1>10. Loaded'
    <2> SUFFICES ASSUME cpc = "take" PROVE next'[head] = ahead
      BY <1>0, <1>1 DEF Loaded
    <2>1. head = list[1] /\ 1 \in 1..k /\ next[list[1]] = ahead /\ ahead \in Node
      BY <1>0, <1>3 DEF Loaded, Chain, Typed
    <2>2. i # 1
      BY <1>2, <2>1, MPSCAssumption
    <2> QED BY <1>4, <2>1, <2>2
  <1>11. Gaps'
    <2> SUFFICES ASSUME NEW j \in 1..(k - 1), next'[list[j]] = Null
                 PROVE  \E q \in Producer : pc'[q] = "link" /\ prev[q] = list[j] /\ mine[q] = list[j + 1]
      BY <1>1 DEF Gaps
    <2>1. j # i /\ j \in 1..k
      BY <1>3, <1>4, MPSCAssumption
    <2>2. PICK q \in Producer : pc[q] = "link" /\ prev[q] = list[j] /\ mine[q] = list[j + 1]
      BY <1>0, <1>4, <2>1 DEF Gaps
    <2>3. q # p
      BY <1>2, <1>3, <2>1, <2>2
    <2> QED BY <1>5, <2>2, <2>3
  <1> QED BY <1>6, <1>7, <1>8, <1>9, <1>10, <1>11 DEF Inv

\* The consumer loads the second node, or finds nothing.
LEMMA LoadKept ==
  ASSUME Inv, NEW none, none # "take", DequeueLoad(none)
  PROVE  Inv'
  <1>0. Typed /\ Chain /\ Links
    BY DEF Inv
  <1>1. UNCHANGED <<tail, head, next, data, live, pc, sent, mine, prev, list, taken>>
    BY DEF DequeueLoad
  <1>2. CASE empty
    BY <1>0, <1>1, <1>2, QuietStep DEF DequeueLoad, Typed, Loaded
  <1>3. CASE ~empty
    <2>1. ahead' = next[head] /\ cpc' = "take" /\ next[head] # Null
      BY <1>3 DEF DequeueLoad, empty
    <2>2. head = list[1] /\ 1 \in 1..Len(list)
      BY <1>0 DEF Chain, Typed
    <2>3. Len(list) >= 2 /\ next[head] = list[2]
      BY <1>0, <2>1, <2>2 DEF Links, Typed
    <2>4. Loaded'
      BY <1>1, <2>1, <2>3 DEF Loaded
    <2>5. Typed'
      BY <1>0, <1>1, <2>1 DEF Typed
    <2> QED BY <1>1, <2>4, <2>5, QuietStep
  <1> QED BY <1>2, <1>3

\* The consumer drops the first node: no producer is about to write to it.
LEMMA TakeKept ==
  ASSUME Inv, NEW then, then # "take", DequeueTake(then)
  PROVE  Inv'
  <1>0. Typed /\ Chain /\ Links /\ Pending /\ Gaps /\ Loaded
    BY DEF Inv
  <1>1. /\ cpc = "take" /\ cpc' # "take"
        /\ taken' = Append(taken, data[ahead])
        /\ head' = ahead /\ live' = live \ {head} /\ list' = Tail(list)
        /\ UNCHANGED <<tail, next, data, pc, sent, mine, prev, ahead>>
    BY DEF DequeueTake
  <1> DEFINE k == Len(list)
  <1>2. /\ k \in Nat /\ k >= 2 /\ list[1] = head /\ list[2] = ahead
        /\ next[list[1]] = ahead /\ ahead \in Node /\ ahead # Null
    BY <1>0, <1>1, MPSCAssumption DEF Loaded, Chain, Typed
  <1>3. /\ list' \in Seq(Node) /\ Len(list') = k - 1
        /\ \A j \in 1..(k - 1) : list'[j] = list[j + 1]
    BY <1>0, <1>1, <1>2 DEF Typed
  <1> HIDE DEF k
  <1>4. Typed'
    <2>1. data[ahead] \in Item
      BY <1>0, <1>2 DEF Chain, k
    <2>2. taken' \in Seq(Item)
      BY <1>0, <1>1, <2>1 DEF Typed
    <2> QED BY <1>0, <1>1, <1>2, <1>3, <2>2 DEF Typed
  <1>5. Chain'
    <2>1. \A j \in 1..(k - 1) : j + 1 \in 1..k /\ j + 1 \in 2..k /\ j + 1 # 1
      BY <1>2
    <2>2. list'[1] = head' /\ list'[Len(list')] = tail' /\ Len(list') >= 1
      BY <1>0, <1>1, <1>2, <1>3 DEF Chain, k
    <2>3. \A i, j \in 1..Len(list') : list'[i] = list'[j] => i = j
      <3> SUFFICES ASSUME NEW i \in 1..(k - 1), NEW j \in 1..(k - 1), list[i + 1] = list[j + 1]
                   PROVE  i = j
        BY <1>3
      <3>1. i + 1 = j + 1
        BY <1>0, <2>1 DEF Chain, k
      <3> QED BY <1>2, <3>1
    <2>4. \A i \in 1..Len(list') : list'[i] \in live'
      <3> SUFFICES ASSUME NEW i \in 1..(k - 1) PROVE list[i + 1] \in live /\ list[i + 1] # head
        BY <1>1, <1>3
      <3>1. 1 \in 1..k /\ i + 1 \in 1..k /\ i + 1 # 1
        BY <1>2, <2>1
      <3> QED BY <1>0, <1>2, <3>1 DEF Chain, k
    <2>5. \A i \in 2..Len(list') : data'[list'[i]] \in Item
      BY <1>0, <1>1, <1>2, <1>3, <2>1 DEF Chain, k
    <2> QED BY <2>2, <2>3, <2>4, <2>5 DEF Chain
  <1>6. Links'
    <2> SUFFICES ASSUME NEW i \in 1..(k - 1)
                 PROVE  \/ next[list'[i]] = Null
                        \/ i < k - 1 /\ next[list'[i]] = list'[i + 1]
      BY <1>1, <1>3 DEF Links
    <2>1. i + 1 \in 1..k
      BY <1>2
    <2>2. next[list[i + 1]] = Null \/ (i + 1 < k /\ next[list[i + 1]] = list[(i + 1) + 1])
      BY <1>0, <2>1 DEF Links, k
    <2>3. i + 1 < k => i + 1 \in 1..(k - 1) /\ i < k - 1 /\ list'[i + 1] = list[(i + 1) + 1]
      BY <1>2, <1>3
    <2> QED BY <1>3, <2>2, <2>3
  <1>7. Pending'
    <2>1. ASSUME NEW q \in Producer, pc[q] = "link"
          PROVE  \E j \in 1..(Len(list') - 1) :
                    prev[q] = list'[j] /\ mine[q] = list'[j + 1] /\ next[list'[j]] = Null
      <3>1. PICK i \in 1..(k - 1) : prev[q] = list[i] /\ mine[q] = list[i + 1] /\ next[list[i]] = Null
        BY <1>0, <2>1 DEF Pending, k
      <3>2. i # 1
        BY <1>2, <3>1
      <3> DEFINE j == i - 1
      <3>3. /\ j \in 1..(Len(list') - 1) /\ j \in 1..(k - 1) /\ j + 1 \in 1..(k - 1)
            /\ j + 1 = i /\ (j + 1) + 1 = i + 1
        BY <1>2, <1>3, <3>2
      <3>4. list'[j] = list[i] /\ list'[j + 1] = list[i + 1]
        BY <1>3, <3>3
      <3> QED BY <3>1, <3>3, <3>4
    <2> QED BY <1>0, <1>1, <2>1 DEF Pending
  <1>8. Loaded'
    BY <1>1 DEF Loaded
  <1>9. Gaps'
    <2> SUFFICES ASSUME NEW j \in 1..((k - 1) - 1), next[list'[j]] = Null
                 PROVE  \E q \in Producer : /\ pc[q] = "link" /\ prev[q] = list'[j]
                                            /\ mine[q] = list'[j + 1]
      BY <1>1, <1>3 DEF Gaps
    <2>1. j \in 1..(k - 1) /\ j + 1 \in 1..(k - 1)
      BY <1>2
    <2>2. list'[j] = list[j + 1] /\ list'[j + 1] = list[(j + 1) + 1]
      BY <1>3, <2>1
    <2> QED BY <1>0, <2>1, <2>2 DEF Gaps, k
  <1> QED BY <1>4, <1>5, <1>6, <1>7, <1>8, <1>9 DEF Inv
-----------------------------------------------------------------------------
\* Inv is inductive: enqueue and dequeue keep the chain of nodes in order
\* however their steps interleave.
THEOREM QueueInvariant == MPSCSpec => []Inv
  <1>1. ASSUME Inv, [MPSCNext]_mpscVars PROVE Inv'
    <2>1. ASSUME NEW p \in Producer, EnqueueExchange(p) PROVE Inv'
      BY <1>1, <2>1, ExchangeKept
    <2>2. ASSUME NEW p \in Producer, EnqueueLink(p) PROVE Inv'
      BY <1>1, <2>2, LinkKept
    <2>3. ASSUME NEW p \in Producer, Call(p) \/ EnqueueCheck(p, "idle") PROVE Inv'
      BY <1>1, <2>3, CallKept
    <2>4. CASE close
      BY <1>1, <2>4, CallKept
    <2>5. CASE DequeueLoad("dequeue")
      BY <1>1, <2>5, LoadKept
    <2>6. CASE DequeueTake("dequeue")
      BY <1>1, <2>6, TakeKept
    <2>7. CASE UNCHANGED mpscVars
      <3>1. Typed' /\ Loaded'
        BY <1>1, <2>7 DEF Inv, Typed, Loaded, mpscVars, queueVars
      <3> QED BY <1>1, <2>7, <3>1, QuietStep DEF mpscVars, queueVars
    <2> QED BY <1>1, <2>1, <2>2, <2>3, <2>4, <2>5, <2>6, <2>7 DEF MPSCNext
  <1>2. MPSCInit => Inv
    BY InitInv DEF MPSCInit
  <1> QED BY <1>1, <1>2, PTL DEF MPSCSpec

\* The state stays well typed.
THEOREM QueueTyped == MPSCSpec => []TypeOK
  <1>1. Inv => TypeOK
    BY DEF Inv, Typed, TypeOK
  <1> QED BY <1>1, QueueInvariant, PTL

\* The invariant rules out every use of a deleted node.
LEMMA InvIsSafe == Inv => NoUseAfterFree
  <1> SUFFICES ASSUME Inv PROVE NoUseAfterFree
    OBVIOUS
  <1>0. Typed /\ Chain /\ Pending /\ Loaded
    BY DEF Inv
  <1>1. head \in live /\ tail \in live
    BY <1>0 DEF Chain, Typed
  <1>2. ASSUME NEW p \in Producer, pc[p] = "link" PROVE prev[p] \in live /\ mine[p] \in live
    <2>1. PICK i \in 1..(Len(list) - 1) : prev[p] = list[i] /\ mine[p] = list[i + 1]
      BY <1>0, <1>2 DEF Pending
    <2>2. i \in 1..Len(list) /\ i + 1 \in 1..Len(list)
      BY <1>0, <2>1 DEF Typed
    <2> QED BY <1>0, <2>1, <2>2 DEF Chain
  <1>3. ASSUME cpc = "take" PROVE ahead \in live /\ ahead # head
    <2>1. 1 \in 1..Len(list) /\ 2 \in 1..Len(list) /\ ahead = list[2] /\ head = list[1]
      BY <1>0, <1>3 DEF Loaded, Chain, Typed
    <2> QED BY <1>0, <2>1 DEF Chain
  <1> QED BY <1>1, <1>2, <1>3 DEF NoUseAfterFree

\* Neither a producer that is about to link its node nor the consumer that is
\* about to move past the head touches a node that dequeue has deleted.
THEOREM MemorySafe == MPSCSpec => []NoUseAfterFree
  BY InvIsSafe, QueueInvariant, PTL
-----------------------------------------------------------------------------
\* A function on 1..m is a sequence of length m.
LEMMA FunctionIsSeq ==
  ASSUME NEW S, NEW m \in Nat, NEW f \in [1..m -> S]
  PROVE  f \in Seq(S) /\ Len(f) = m
  OBVIOUS

\* The queue that RelaxedQueue sees, as a sequence of items.
LEMMA WaitingSeq ==
  ASSUME Inv
  PROVE  /\ Waiting \in Seq(Item) /\ Len(Waiting) = Len(list) - 1
         /\ \A i \in 1..(Len(list) - 1) : Waiting[i] = data[list[i + 1]]
  <1>1. Len(list) - 1 \in Nat
    BY DEF Inv, Chain, Typed
  <1>2. \A i \in 1..(Len(list) - 1) : data[list[i + 1]] \in Item
    BY <1>1 DEF Inv, Chain
  <1>3. Waiting \in [1..(Len(list) - 1) -> Item]
    BY <1>2 DEF Waiting
  <1>4. Waiting \in Seq(Item) /\ Len(Waiting) = Len(list) - 1
    BY <1>1, <1>3, FunctionIsSeq
  <1>5. \A i \in 1..(Len(list) - 1) : Waiting[i] = data[list[i + 1]]
    BY DEF Waiting
  <1> QED BY <1>4, <1>5

\* Steps that leave the nodes in the list and their data alone are invisible.
LEMMA WaitingSame ==
  ASSUME list' = list, data' = data
  PROVE  Waiting' = Waiting
  BY DEF Waiting

\* An exchange adds one item at the end.
LEMMA WaitingGrows ==
  ASSUME Inv, Inv', NEW p \in Producer, EnqueueExchange(p)
  PROVE  RQ!Enqueue
  <1>0. Typed /\ Chain
    BY DEF Inv
  <1>1. PICK n \in Node \ live :
          /\ data' = [data EXCEPT ![n] = <<p, sent[p]>>] /\ list' = Append(list, n)
    BY DEF EnqueueExchange
  <1>2. taken' = taken
    BY DEF EnqueueExchange
  <1> DEFINE k == Len(list)   x == data'[n]
  <1>3. /\ k \in Nat /\ k >= 1 /\ Len(list') = k + 1
        /\ list'[k + 1] = n /\ \A i \in 1..k : list'[i] = list[i] /\ list[i] # n /\ list[i] \in Node
    BY <1>0, <1>1 DEF Typed, Chain
  <1>4. \A i \in 1..k : data'[list[i]] = data[list[i]]
    BY <1>0, <1>1, <1>3 DEF Typed
  <1>5. x \in Item
    <2>1. Chain'
      BY DEF Inv
    <2>2. k + 1 \in 2..Len(list')
      BY <1>3
    <2> QED BY <1>3, <2>1, <2>2 DEF Chain
  <1>6. /\ Waiting \in Seq(Item) /\ Len(Waiting) = k - 1
        /\ \A i \in 1..(k - 1) : Waiting[i] = data[list[i + 1]]
    BY WaitingSeq
  <1>7. /\ Waiting' \in Seq(Item) /\ Len(Waiting') = k
        /\ \A i \in 1..k : Waiting'[i] = data'[list'[i + 1]]
    <2>1. /\ Waiting' \in Seq(Item) /\ Len(Waiting') = Len(list') - 1
          /\ \A i \in 1..(Len(list') - 1) : Waiting'[i] = data'[list'[i + 1]]
      <3>1. Len(list') - 1 \in Nat
        BY <1>3
      <3>2. \A i \in 1..(Len(list') - 1) : data'[list'[i + 1]] \in Item
        BY <3>1 DEF Inv, Chain
      <3>3. Waiting' \in [1..(Len(list') - 1) -> Item]
        BY <3>2 DEF Waiting
      <3>4. Waiting' \in Seq(Item) /\ Len(Waiting') = Len(list') - 1
        BY <3>1, <3>3, FunctionIsSeq
      <3>5. \A i \in 1..(Len(list') - 1) : Waiting'[i] = data'[list'[i + 1]]
        BY DEF Waiting
      <3> QED BY <3>4, <3>5
    <2> QED BY <1>3, <2>1
  <1> HIDE DEF k, x
  <1>8. Waiting' = Append(Waiting, x)
    <2> DEFINE w == Append(Waiting, x)
    <2>1. /\ w \in Seq(Item) /\ Len(w) = k /\ w[k] = x
          /\ \A i \in 1..(k - 1) : w[i] = Waiting[i]
      BY <1>3, <1>5, <1>6, AppendProperties
    <2>2. ASSUME NEW i \in 1..k PROVE Waiting'[i] = w[i]
      <3>1. CASE i = k
        BY <1>3, <1>7, <2>1, <3>1 DEF x
      <3>2. CASE i \in 1..(k - 1)
        <4>1. i + 1 \in 1..k
          BY <1>3, <3>2
        <4> QED BY <1>3, <1>4, <1>6, <1>7, <2>1, <3>2, <4>1
      <3>3. i = k \/ i \in 1..(k - 1)
        BY <1>3
      <3> QED BY <3>1, <3>2, <3>3
    <2> HIDE DEF w
    <2> QED BY <1>7, <2>1, <2>2, SeqEqual DEF w
  <1> QED BY <1>2, <1>5, <1>8 DEF RQ!Enqueue

\* A take removes the item at the front.
LEMMA WaitingShrinks ==
  ASSUME Inv, Inv', NEW then, DequeueTake(then)
  PROVE  RQ!Dequeue
  <1>0. Typed /\ Chain /\ Loaded
    BY DEF Inv
  <1>1. /\ cpc = "take" /\ taken' = Append(taken, data[ahead])
        /\ list' = Tail(list) /\ data' = data
    BY DEF DequeueTake
  <1> DEFINE k == Len(list)
  <1>2. k \in Nat /\ k >= 2 /\ list[2] = ahead
    BY <1>0, <1>1 DEF Loaded, Typed
  <1>3. Len(list') = k - 1 /\ \A j \in 1..(k - 1) : list'[j] = list[j + 1]
    BY <1>0, <1>1, <1>2 DEF Typed
  <1>4. /\ Waiting \in Seq(Item) /\ Len(Waiting) = k - 1
        /\ \A i \in 1..(k - 1) : Waiting[i] = data[list[i + 1]]
    BY WaitingSeq
  <1>5. /\ Waiting' \in Seq(Item) /\ Len(Waiting') = k - 2
        /\ \A i \in 1..(k - 2) : Waiting'[i] = data[list'[i + 1]]
    <2>1. Len(list') - 1 \in Nat /\ Len(list') - 1 = k - 2
      BY <1>2, <1>3
    <2>2. \A i \in 1..(Len(list') - 1) : data'[list'[i + 1]] \in Item
      BY <2>1 DEF Inv, Chain
    <2>3. Waiting' \in [1..(Len(list') - 1) -> Item]
      BY <2>2 DEF Waiting
    <2>4. Waiting' \in Seq(Item) /\ Len(Waiting') = Len(list') - 1
      BY <2>1, <2>3, FunctionIsSeq
    <2>5. \A i \in 1..(Len(list') - 1) : Waiting'[i] = data'[list'[i + 1]]
      BY DEF Waiting
    <2> QED BY <1>1, <2>1, <2>4, <2>5
  <1> HIDE DEF k
  <1>6. Waiting # <<>> /\ Head(Waiting) = data[ahead]
    BY <1>2, <1>4
  <1>7. Waiting' = Tail(Waiting)
    <2> DEFINE w == Tail(Waiting)
    <2>1. w \in Seq(Item) /\ Len(w) = k - 2 /\ \A i \in 1..(k - 2) : w[i] = Waiting[i + 1]
      BY <1>2, <1>4
    <2>2. ASSUME NEW i \in 1..(k - 2) PROVE Waiting'[i] = w[i]
      <3>1. i + 1 \in 1..(k - 1)
        BY <1>2
      <3> QED BY <1>3, <1>4, <1>5, <2>1, <3>1
    <2> HIDE DEF w
    <2> QED BY <1>5, <2>1, <2>2, SeqEqual DEF w
  <1> QED BY <1>1, <1>6, <1>7 DEF RQ!Dequeue

\* The queue implements RelaxedQueue: whatever the producers do between the
\* exchange and the link, no item is lost, repeated or overtaken.
THEOREM ImplementsFifo == MPSCSpec => FifoAtExchange
  <1>1. MPSCInit => RQ!RQInit
    <2> SUFFICES ASSUME MPSCInit PROVE RQ!RQInit
      OBVIOUS
    <2>1. taken = <<>> /\ Len(list) = 1
      BY DEF MPSCInit, QueueInit
    <2>2. Waiting \in Seq(Item) /\ Len(Waiting) = 0
      BY <2>1, InitInv, WaitingSeq DEF MPSCInit
    <2>3. Waiting = <<>>
      BY <2>2
    <2> QED BY <2>1, <2>3 DEF RQ!RQInit
  <1>2. ASSUME Inv, Inv', [MPSCNext]_mpscVars
        PROVE  [RQ!RQNext]_<<Waiting, taken>>
    <2>1. ASSUME NEW p \in Producer, EnqueueExchange(p) PROVE RQ!RQNext
      BY <1>2, <2>1, WaitingGrows DEF RQ!RQNext
    <2>2. CASE DequeueTake("dequeue")
      BY <1>2, <2>2, WaitingShrinks DEF RQ!RQNext
    <2>3. ASSUME NEW p \in Producer, Call(p) \/ EnqueueCheck(p, "idle") \/ EnqueueLink(p)
          PROVE  list' = list /\ data' = data /\ taken' = taken
      BY <2>3 DEF Call, EnqueueCheck, EnqueueLink, queueVars
    <2>4. CASE close \/ DequeueLoad("dequeue") \/ UNCHANGED mpscVars
      <3>1. list' = list /\ data' = data /\ taken' = taken
        BY <2>4 DEF close, DequeueLoad, mpscVars, queueVars
      <3> QED BY <3>1, WaitingSame
    <2> QED BY <1>2, <2>1, <2>2, <2>3, <2>4, WaitingSame DEF MPSCNext
  <1> QED BY <1>1, <1>2, QueueInvariant, PTL DEF MPSCSpec, FifoAtExchange, RQ!RQSpec
=============================================================================
