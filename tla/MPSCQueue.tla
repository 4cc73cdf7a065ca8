----------------------------- MODULE MPSCQueue -----------------------------
(***************************************************************************)
(* The lock-free queue of src/pipeline/mpsc_queue.hpp: any number of       *)
(* producers, one consumer.  A step has at most one access to an atomic    *)
(* variable.  enqueue is three steps (load closed_, exchange tail_, store  *)
(* prev_tail->next) and dequeue two (load head->next, then move the data,  *)
(* advance head_ and delete the old head, which no other thread may        *)
(* touch).  delete frees an address and new may hand it out again.         *)
(***************************************************************************)
EXTENDS Integers, Sequences, FiniteSets, Functions

CONSTANTS Producer,   \* threads that call enqueue
          Node,       \* addresses of queue nodes
          Null,       \* nullptr
          MaxSend     \* bound: calls of enqueue per producer

ASSUME MPSCAssumption == Null \notin Node /\ MaxSend \in Nat

Item == Producer \X (1..MaxSend)

VARIABLES tail,    \* tail_
          head,    \* head_
          next,    \* the next pointer of each node
          data,    \* the item in each node
          live,    \* the nodes that are allocated
          closed,  \* closed_
          pc,      \* what each producer is about to do
          sent,    \* how many items each producer has offered
          mine,    \* new_node of each producer
          prev,    \* prev_tail of each producer
          cpc,     \* what the consumer is about to do
          ahead,   \* next, the local variable of dequeue
          list,    \* history: the nodes from head_ on, in the order of the exchanges
          taken    \* history: the items dequeue has returned

queueVars == <<tail, head, next, data, live, closed, mine, prev, ahead, list, taken>>
mpscVars == <<queueVars, pc, sent, cpc>>

\* The constructor's stub is any node.
QueueInit ==
    /\ \E stub \in Node :
          /\ tail = stub /\ head = stub /\ live = {stub} /\ list = <<stub>>
          /\ mine = [p \in Producer |-> stub]
          /\ prev = [p \in Producer |-> stub]
          /\ ahead = stub
    /\ next = [n \in Node |-> Null]
    /\ data = [n \in Node |-> <<>>]
    /\ closed = FALSE /\ taken = <<>>

MPSCInit ==
    /\ QueueInit
    /\ pc = [p \in Producer |-> "idle"]
    /\ sent = [p \in Producer |-> 0]
    /\ cpc = "dequeue"
-----------------------------------------------------------------------------
(* enqueue. *)

\* A producer calls enqueue with its next item.
Call(p) ==
    /\ pc[p] = "idle" /\ sent[p] < MaxSend
    /\ sent' = [sent EXCEPT ![p] = @ + 1]
    /\ pc' = [pc EXCEPT ![p] = "check"]
    /\ UNCHANGED <<queueVars, cpc>>

\* closed_ is loaded; enqueue returns false, to "fail", when it is set.
EnqueueCheck(p, fail) ==
    /\ pc[p] = "check"
    /\ pc' = [pc EXCEPT ![p] = IF closed THEN fail ELSE "exchange"]
    /\ UNCHANGED <<queueVars, sent, cpc>>

\* Mutant: tail_ is loaded, and the new tail not stored.
EnqueueLoadTail(p) ==
    /\ pc[p] = "exchange"
    /\ \E n \in Node \ live :
          /\ live' = live \cup {n}
          /\ data' = [data EXCEPT ![n] = <<p, sent[p]>>]
          /\ next' = [next EXCEPT ![n] = Null]
          /\ mine' = [mine EXCEPT ![p] = n]
          /\ prev' = [prev EXCEPT ![p] = tail]
          /\ list' = Append(list, n)
    /\ pc' = [pc EXCEPT ![p] = "link"]
    /\ UNCHANGED <<tail, head, closed, sent, cpc, ahead, taken>>

\* A node is allocated and becomes the tail.
EnqueueExchange(p) ==
    /\ pc[p] = "exchange"
    /\ \E n \in Node \ live :
          /\ live' = live \cup {n}
          /\ data' = [data EXCEPT ![n] = <<p, sent[p]>>]
          /\ next' = [next EXCEPT ![n] = Null]
          /\ mine' = [mine EXCEPT ![p] = n]
          /\ prev' = [prev EXCEPT ![p] = tail]
          /\ tail' = n
          /\ list' = Append(list, n)
    /\ pc' = [pc EXCEPT ![p] = "link"]
    /\ UNCHANGED <<head, closed, sent, cpc, ahead, taken>>

\* Mutant: the new node is never linked.
EnqueueUnlinked(p) ==
    /\ pc[p] = "link"
    /\ pc' = [pc EXCEPT ![p] = "idle"]
    /\ UNCHANGED <<queueVars, sent, cpc>>

\* The node is linked behind the previous tail; only now can the consumer see it.
EnqueueLink(p) ==
    /\ pc[p] = "link"
    /\ next' = [next EXCEPT ![prev[p]] = mine[p]]
    /\ pc' = [pc EXCEPT ![p] = "idle"]
    /\ UNCHANGED <<tail, head, data, live, closed, sent, mine, prev, cpc, ahead, list, taken>>
-----------------------------------------------------------------------------
(* dequeue, empty and close. *)

empty == next[head] = Null

\* Mutant: the null test is missing.
DequeueLoadUnchecked(none) ==
    /\ cpc = "dequeue"
    /\ ahead' = next[head]
    /\ cpc' = "take"
    /\ UNCHANGED <<tail, head, next, data, live, closed, pc, sent, mine, prev, list, taken>>

\* head->next is loaded; dequeue returns nothing, to "none", when it is null.
DequeueLoad(none) ==
    /\ cpc = "dequeue"
    /\ ahead' = IF empty THEN ahead ELSE next[head]
    /\ cpc' = IF empty THEN none ELSE "take"
    /\ UNCHANGED <<tail, head, next, data, live, closed, pc, sent, mine, prev, list, taken>>

\* Mutant: the item is read from the old head.
DequeueTakeHead(then) ==
    /\ cpc = "take"
    /\ taken' = Append(taken, data[head])
    /\ head' = ahead
    /\ live' = live \ {head}
    /\ list' = Tail(list)
    /\ cpc' = then
    /\ UNCHANGED <<tail, next, data, closed, pc, sent, mine, prev, ahead>>

\* The item is moved out of the next node, which becomes the head.
DequeueTake(then) ==
    /\ cpc = "take"
    /\ taken' = Append(taken, data[ahead])
    /\ head' = ahead
    /\ live' = live \ {head}
    /\ list' = Tail(list)
    /\ cpc' = then
    /\ UNCHANGED <<tail, next, data, closed, pc, sent, mine, prev, ahead>>

close ==
    /\ closed' = TRUE
    /\ UNCHANGED <<tail, head, next, data, live, pc, sent, mine, prev, cpc, ahead, list, taken>>

MPSCNext ==
    \/ \E p \in Producer : \/ Call(p) \/ EnqueueCheck(p, "idle")
                           \/ EnqueueExchange(p) \/ EnqueueLink(p)
    \/ DequeueLoad("dequeue") \/ DequeueTake("dequeue")
    \/ close

MPSCSpec == MPSCInit /\ [][MPSCNext]_mpscVars
-----------------------------------------------------------------------------
(* Properties. *)

\* Type invariant: pointers point at nodes, or are null where they may be.
TypeOK ==
    /\ tail \in Node /\ head \in Node /\ ahead \in Node /\ live \subseteq Node
    /\ next \in [Node -> Node \cup {Null}]
    /\ data \in [Node -> Item \cup {<<>>}]
    /\ mine \in [Producer -> Node] /\ prev \in [Producer -> Node]
    /\ sent \in [Producer -> 0..MaxSend]
    /\ list \in Seq(Node) /\ taken \in Seq(Item)

\* No thread touches a freed node: not the producer that is about to write the
\* link behind the old tail while the consumer deletes heads, not the consumer
\* that has read a next pointer, and not the producer that will get the tail.
NoUseAfterFree ==
    /\ head \in live /\ tail \in live
    /\ \A p \in Producer : pc[p] = "link" => prev[p] \in live /\ mine[p] \in live
    /\ cpc = "take" => ahead \in live /\ ahead # head

\* The items of the nodes behind the head, linked or not.
Waiting == [i \in 1..(Len(list) - 1) |-> data[list[i + 1]]]

RQ == INSTANCE RelaxedQueue WITH items <- Waiting, out <- taken

\* Refinement: no item is lost, repeated or overtaken; the exchange of tail_
\* is the instant an enqueue takes effect.
FifoAtExchange == RQ!RQSpec
=============================================================================
