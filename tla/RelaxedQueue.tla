---------------------------- MODULE RelaxedQueue ----------------------------
(***************************************************************************)
(* What MPSCQueue promises: a queue in which an enqueue takes place at one *)
(* instant, and the consumer takes the items in the order of these         *)
(* instants, each once.  It is relaxed because the consumer may find       *)
(* nothing although items are there (that is a stuttering step).           *)
(***************************************************************************)
EXTENDS Sequences

CONSTANT Item

VARIABLES items,  \* Seq(Item): what is in the queue
          out     \* Seq(Item): what the consumer has taken

RQInit == items = <<>> /\ out = <<>>

Enqueue == \E x \in Item : items' = Append(items, x) /\ UNCHANGED out

Dequeue ==
    /\ items # <<>>
    /\ out' = Append(out, Head(items))
    /\ items' = Tail(items)

RQNext == Enqueue \/ Dequeue

RQSpec == RQInit /\ [][RQNext]_<<items, out>>
=============================================================================
