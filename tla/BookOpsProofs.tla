---------------------------- MODULE BookOpsProofs ----------------------------
(***************************************************************************)
(* Lemmas about the operations on a book (module BookOps), for every set   *)
(* of ids and nodes and every bound: lists and index stay consistent, and  *)
(* an uncrossed book stays uncrossed.  The proofs about OrderBook,         *)
(* GatedBook and Recovery rest on them.                                    *)
(***************************************************************************)
EXTENDS BookOps, SequenceTheorems, WellFoundedInduction, TLAPS

(* O = orders, H = heap and X = index of a book.                           *)

ListsTyped(O, H, X) ==
    /\ O = [s \in Side |-> O[s]]
    /\ \A s \in Side : IsMap(O[s], Price, Seq(Node))
    /\ IsMap(H, Node, Order)
    /\ IsMap(X, OrderId, OrderIndexEntry)

ListsLive(O, H) ==
    \A s \in Side : \A p \in DOMAIN O[s] :
        /\ O[s][p] # <<>>
        /\ \A i \in 1..Len(O[s][p]) :
              /\ O[s][p][i] \in DOMAIN H
              /\ H[O[s][p][i]].side = s
              /\ H[O[s][p][i]].price = p
              /\ H[O[s][p][i]].remaining_quantity > 0

ListsDistinct(O) ==
    \A s \in Side : \A p \in DOMAIN O[s] : \A i, j \in 1..Len(O[s][p]) :
        O[s][p][i] = O[s][p][j] => i = j

EntriesValid(O, H, X) ==
    \A id \in DOMAIN X :
        /\ X[id].price_level \in DOMAIN O[X[id].side]
        /\ \E i \in 1..Len(O[X[id].side][X[id].price_level]) :
              O[X[id].side][X[id].price_level][i] = X[id].position
        /\ X[id].position \in DOMAIN H
        /\ H[X[id].position].order_id = id

Struct(O, H, X) ==
    ListsTyped(O, H, X) /\ ListsLive(O, H) /\ ListsDistinct(O) /\ EntriesValid(O, H, X)
-----------------------------------------------------------------------------
(* Maps. *)

\* Drop removes one entry and keeps the others.
LEMMA DropMap ==
  ASSUME NEW S, NEW T, NEW f, IsMap(f, S, T), NEW x
  PROVE  /\ IsMap(Drop(f, x), S, T)
         /\ DOMAIN Drop(f, x) = DOMAIN f \ {x}
         /\ \A y \in DOMAIN f \ {x} : Drop(f, x)[y] = f[y]
  BY DEF IsMap, Drop, Restrict

\* Put sets one entry and keeps the others.
LEMMA PutMap ==
  ASSUME NEW S, NEW T, NEW f, IsMap(f, S, T), NEW x \in S, NEW v \in T
  PROVE  /\ IsMap(Put(f, x, v), S, T)
         /\ DOMAIN Put(f, x, v) = DOMAIN f \cup {x}
         /\ Put(f, x, v)[x] = v
         /\ \A y \in DOMAIN f \ {x} : Put(f, x, v)[y] = f[y]
  BY DEF IsMap, Put

\* The levels of a side after a list was replaced: the entry goes when the list is empty.
LEMMA SetLevelMap ==
  ASSUME NEW f, IsMap(f, Price, Seq(Node)), NEW p \in DOMAIN f, NEW q \in Seq(Node)
  PROVE  /\ IsMap(SetLevel(f, p, q), Price, Seq(Node))
         /\ DOMAIN SetLevel(f, p, q) = IF q = <<>> THEN DOMAIN f \ {p} ELSE DOMAIN f
         /\ q # <<>> => SetLevel(f, p, q)[p] = q
         /\ \A y \in DOMAIN f \ {p} : SetLevel(f, p, q)[y] = f[y]
  <1>1. CASE q = <<>>
    BY <1>1 DEF SetLevel, Drop, Restrict, IsMap
  <1>2. CASE q # <<>>
    BY <1>2 DEF SetLevel, IsMap
  <1> QED BY <1>1, <1>2
-----------------------------------------------------------------------------
(* Lists. *)

\* The element at position i goes, the others keep their order.
LEMMA RemoveAtSeq ==
  ASSUME NEW S, NEW q \in Seq(S), NEW i \in 1..Len(q)
  PROVE  /\ RemoveAt(q, i) \in Seq(S)
         /\ Len(RemoveAt(q, i)) = Len(q) - 1
         /\ \A j \in 1..(Len(q) - 1) : RemoveAt(q, i)[j] = q[IF j < i THEN j ELSE j + 1]
  <1> DEFINE a == SubSeq(q, 1, i - 1)
             b == SubSeq(q, i + 1, Len(q))
  <1>1. /\ a \in Seq(S) /\ Len(a) = i - 1
        /\ \A j \in 1..(i - 1) : a[j] = q[j]
    OBVIOUS
  <1>2. /\ b \in Seq(S) /\ Len(b) = Len(q) - i
        /\ \A j \in 1..(Len(q) - i) : b[j] = q[i + j]
    OBVIOUS
  <1>3. RemoveAt(q, i) = a \o b
    BY DEF RemoveAt
  <1> HIDE DEF a, b
  <1>4. /\ a \o b \in Seq(S)
        /\ Len(a \o b) = Len(a) + Len(b)
        /\ \A j \in 1..(Len(a) + Len(b)) : (a \o b)[j] = IF j <= Len(a) THEN a[j] ELSE b[j - Len(a)]
    BY <1>1, <1>2, ConcatProperties
  <1>5. \A j \in 1..(Len(q) - 1) : (a \o b)[j] = q[IF j < i THEN j ELSE j + 1]
    <2> DEFINE c == a \o b
    <2>1. \A j \in 1..(Len(a) + Len(b)) : c[j] = IF j <= Len(a) THEN a[j] ELSE b[j - Len(a)]
      BY <1>4
    <2> HIDE DEF c
    <2>2. Len(a) = i - 1 /\ Len(b) = Len(q) - i /\ Len(q) \in Nat /\ i \in Nat
      BY <1>1, <1>2
    <2> SUFFICES ASSUME NEW j \in 1..(Len(q) - 1) PROVE c[j] = q[IF j < i THEN j ELSE j + 1]
      BY DEF c
    <2>3. CASE j < i
      <3>1. j \in 1..(Len(a) + Len(b)) /\ j <= Len(a) /\ j \in 1..(i - 1)
        BY <2>2, <2>3
      <3>2. c[j] = a[j]
        BY <2>1, <3>1
      <3> QED BY <1>1, <2>3, <3>1, <3>2
    <2>4. CASE ~(j < i)
      <3> DEFINE k == j - Len(a)
      <3>1. j \in 1..(Len(a) + Len(b)) /\ ~(j <= Len(a)) /\ k \in 1..(Len(q) - i) /\ i + k = j + 1
        BY <2>2, <2>4
      <3>2. c[j] = b[k]
        BY <2>1, <3>1
      <3> HIDE DEF k
      <3>3. b[k] = q[i + k]
        BY <1>2, <3>1
      <3> QED BY <2>4, <3>1, <3>2, <3>3
    <2> QED BY <2>3, <2>4
  <1> QED BY <1>1, <1>2, <1>3, <1>4, <1>5

\* The node at position i is unlinked.
LEMMA RemoveAtList ==
  ASSUME NEW q \in Seq(Node), NEW i \in 1..Len(q)
  PROVE  /\ RemoveAt(q, i) \in Seq(Node)
         /\ Len(RemoveAt(q, i)) = Len(q) - 1
         /\ \A j \in 1..(Len(q) - 1) : RemoveAt(q, i)[j] = q[IF j < i THEN j ELSE j + 1]
  BY RemoveAtSeq

\* What ListsLive says of one position of one list.
LEMMA LiveAt ==
  ASSUME NEW O, NEW H, ListsLive(O, H), NEW s \in Side, NEW p \in DOMAIN O[s], NEW i \in 1..Len(O[s][p])
  PROVE  /\ O[s][p][i] \in DOMAIN H /\ H[O[s][p][i]].side = s
         /\ H[O[s][p][i]].price = p /\ H[O[s][p][i]].remaining_quantity > 0
  BY DEF ListsLive

\* q is the list of level p on side s without its position i, and O2, H2, X2
\* are the components after the node there was erased with its index entry.
Erased(O, H, X, s, p, i, q, O2, H2, X2) ==
    /\ s \in Side /\ p \in DOMAIN O[s] /\ i \in 1..Len(O[s][p])
    /\ q \in Seq(Node) /\ Len(q) = Len(O[s][p]) - 1
    /\ \A j \in 1..Len(q) : q[j] = O[s][p][IF j < i THEN j ELSE j + 1]
    /\ O2 = [O EXCEPT ![s] = SetLevel(O[s], p, q)]
    /\ H2 = Drop(H, O[s][p][i])
    /\ X2 = Drop(X, H[O[s][p][i]].order_id)

\* Erasing node n from position i of level p on side s, its heap cell and the
\* index entry of its id keeps the structure: no entry for another id can
\* point at n.
LEMMA EraseStruct ==
  ASSUME NEW O, NEW H, NEW X, Struct(O, H, X), NEW s, NEW p, NEW i, NEW q, NEW O2, NEW H2, NEW X2,
         Erased(O, H, X, s, p, i, q, O2, H2, X2)
  PROVE  Struct(O2, H2, X2) /\ \A t \in Side : DOMAIN O2[t] \subseteq DOMAIN O[t]
  <1>0. /\ s \in Side /\ p \in DOMAIN O[s] /\ i \in 1..Len(O[s][p])
        /\ q \in Seq(Node) /\ Len(q) = Len(O[s][p]) - 1
        /\ \A j \in 1..Len(q) : q[j] = O[s][p][IF j < i THEN j ELSE j + 1]
        /\ O2 = [O EXCEPT ![s] = SetLevel(O[s], p, q)]
        /\ H2 = Drop(H, O[s][p][i])
        /\ X2 = Drop(X, H[O[s][p][i]].order_id)
    BY DEF Erased
  <1> USE <1>0
  <1> DEFINE n == O[s][p][i]
             L == SetLevel(O[s], p, q)
  <1>1. /\ IsMap(L, Price, Seq(Node))
        /\ DOMAIN L = IF q = <<>> THEN DOMAIN O[s] \ {p} ELSE DOMAIN O[s]
        /\ q # <<>> => L[p] = q
        /\ \A y \in DOMAIN O[s] \ {p} : L[y] = O[s][y]
    BY SetLevelMap DEF Struct, ListsTyped
  <1>2. O2[s] = L /\ O2 = [t \in Side |-> O2[t]] /\ \A t \in Side \ {s} : O2[t] = O[t]
    BY DEF Struct, ListsTyped
  <1>3. /\ IsMap(H2, Node, Order)
        /\ DOMAIN H2 = DOMAIN H \ {n}
        /\ \A y \in DOMAIN H \ {n} : H2[y] = H[y]
    BY DEF Struct, ListsTyped, IsMap, Drop, Restrict
  <1>4. /\ IsMap(X2, OrderId, OrderIndexEntry)
        /\ DOMAIN X2 = DOMAIN X \ {H[n].order_id}
        /\ \A y \in DOMAIN X2 : X2[y] = X[y]
    BY DEF Struct, ListsTyped, IsMap, Drop, Restrict
  <1> HIDE DEF L
  <1>5. ListsTyped(O2, H2, X2)
    BY <1>1, <1>2, <1>3, <1>4 DEF Struct, ListsTyped
  <1> DEFINE old(t, r, j) == IF t = s /\ r = p /\ j >= i THEN j + 1 ELSE j
  <1>6. ASSUME NEW t \in Side, NEW r \in DOMAIN O2[t]
        PROVE  /\ r \in DOMAIN O[t]
               /\ O2[t][r] \in Seq(Node) /\ O2[t][r] # <<>>
               /\ \A j \in 1..Len(O2[t][r]) : /\ old(t, r, j) \in 1..Len(O[t][r])
                                              /\ O2[t][r][j] = O[t][r][old(t, r, j)]
    <2>1. CASE t = s /\ r = p
      <3>1. O2[t][r] = q /\ q # <<>> /\ r \in DOMAIN O[t]
        BY <1>1, <1>2, <2>1
      <3>2. O[s][p] \in Seq(Node)
        BY DEF Struct, ListsTyped, IsMap
      <3> QED BY <2>1, <3>1, <3>2
    <2>2. CASE ~(t = s /\ r = p)
      <3>1. r \in DOMAIN O[t] /\ O2[t][r] = O[t][r]
        BY <1>1, <1>2, <2>2
      <3>2. O[t][r] \in Seq(Node) /\ O[t][r] # <<>>
        BY <3>1 DEF Struct, ListsTyped, IsMap, ListsLive
      <3> QED BY <2>2, <3>1, <3>2
    <2> QED BY <2>1, <2>2
  <1>7. ASSUME NEW t \in Side, NEW r \in DOMAIN O2[t], NEW j \in 1..Len(O2[t][r])
        PROVE  O2[t][r][j] # n
    <2>1. old(t, r, j) \in 1..Len(O[t][r]) /\ O2[t][r][j] = O[t][r][old(t, r, j)] /\ r \in DOMAIN O[t]
      BY <1>6, ZenonT(60)
    <2>2. CASE t = s /\ r = p
      <3>1. old(t, r, j) # i
        BY <1>6, <2>2
      <3> QED BY <2>1, <2>2, <3>1 DEF Struct, ListsDistinct
    <2>3. CASE ~(t = s /\ r = p)
      BY <2>1, <2>3 DEF Struct, ListsLive
    <2> QED BY <2>2, <2>3
  <1>8. ListsLive(O2, H2)
    <2> SUFFICES ASSUME NEW t \in Side, NEW r \in DOMAIN O2[t]
                 PROVE  /\ O2[t][r] # <<>>
                        /\ \A j \in 1..Len(O2[t][r]) :
                              /\ O2[t][r][j] \in DOMAIN H2
                              /\ H2[O2[t][r][j]].side = t
                              /\ H2[O2[t][r][j]].price = r
                              /\ H2[O2[t][r][j]].remaining_quantity > 0
      BY DEF ListsLive
    <2>1. ASSUME NEW j \in 1..Len(O2[t][r])
          PROVE  /\ O2[t][r][j] \in DOMAIN H2
                 /\ H2[O2[t][r][j]].side = t
                 /\ H2[O2[t][r][j]].price = r
                 /\ H2[O2[t][r][j]].remaining_quantity > 0
      <3> DEFINE k == old(t, r, j)
      <3>1. r \in DOMAIN O[t] /\ k \in 1..Len(O[t][r]) /\ O2[t][r][j] = O[t][r][k]
        BY <1>6, ZenonT(60)
      <3> HIDE DEF k, old
      <3>2. /\ O[t][r][k] \in DOMAIN H /\ H[O[t][r][k]].side = t
            /\ H[O[t][r][k]].price = r /\ H[O[t][r][k]].remaining_quantity > 0
        <4>1. ListsLive(O, H)
          BY DEF Struct
        <4> QED BY <3>1, <4>1, LiveAt, Zenon
      <3>3. O2[t][r][j] # n
        BY <1>7
      <3> QED BY <1>3, <3>1, <3>2, <3>3
    <2> QED BY <1>6, <2>1
  <1>9. ListsDistinct(O2)
    <2> SUFFICES ASSUME NEW t \in Side, NEW r \in DOMAIN O2[t],
                        NEW j \in 1..Len(O2[t][r]), NEW k \in 1..Len(O2[t][r]),
                        O2[t][r][j] = O2[t][r][k]
                 PROVE  j = k
      BY DEF ListsDistinct
    <2>0. /\ r \in DOMAIN O[t]
          /\ old(t, r, j) \in 1..Len(O[t][r]) /\ old(t, r, k) \in 1..Len(O[t][r])
          /\ O[t][r][old(t, r, j)] = O[t][r][old(t, r, k)]
      <3> HIDE DEF old
      <3>1. \A l \in 1..Len(O2[t][r]) : /\ old(t, r, l) \in 1..Len(O[t][r])
                                        /\ O2[t][r][l] = O[t][r][old(t, r, l)]
        BY <1>6
      <3> QED BY <1>6, <3>1
    <2>1. old(t, r, j) = old(t, r, k)
      <3> HIDE DEF old
      <3> QED BY <2>0 DEF Struct, ListsDistinct
    <2>2. j \in Int /\ k \in Int /\ i \in Int
      OBVIOUS
    <2> QED BY <2>1, <2>2
  <1>10. EntriesValid(O2, H2, X2)
    <2> SUFFICES ASSUME NEW id \in DOMAIN X2
                 PROVE  /\ X2[id].price_level \in DOMAIN O2[X2[id].side]
                        /\ \E j \in 1..Len(O2[X2[id].side][X2[id].price_level]) :
                              O2[X2[id].side][X2[id].price_level][j] = X2[id].position
                        /\ X2[id].position \in DOMAIN H2
                        /\ H2[X2[id].position].order_id = id
      BY DEF EntriesValid
    <2> DEFINE e == X[id]
    <2>1. X2[id] = e /\ id \in DOMAIN X /\ id # H[n].order_id /\ e \in OrderIndexEntry
      BY <1>4 DEF Struct, ListsTyped, IsMap
    <2>2. /\ e.price_level \in DOMAIN O[e.side]
          /\ e.position \in DOMAIN H /\ H[e.position].order_id = id
          /\ e.side \in Side
      BY <2>1 DEF Struct, EntriesValid, OrderIndexEntry
    <2>3. PICK k \in 1..Len(O[e.side][e.price_level]) : O[e.side][e.price_level][k] = e.position
      BY <2>1 DEF Struct, EntriesValid
    <2>4. e.position # n /\ e.position \in DOMAIN H2 /\ H2[e.position].order_id = id
      BY <1>3, <2>1, <2>2
    <2>5. CASE e.side = s /\ e.price_level = p
      <3>1. k # i
        BY <2>3, <2>4, <2>5
      <3>2. O[s][p] \in Seq(Node) /\ Len(O[s][p]) \in Nat /\ i \in Int /\ k \in 1..Len(O[s][p])
        BY <2>3, <2>5 DEF Struct, ListsTyped, IsMap
      <3>3. PICK j \in 1..Len(q) : j = IF k < i THEN k ELSE k - 1
        BY <3>1, <3>2
      <3>4. q[j] = e.position /\ q # <<>>
        BY <2>3, <2>5, <3>1, <3>2, <3>3
      <3>5. p \in DOMAIN O2[s] /\ O2[s][p] = q
        BY <1>1, <1>2, <3>4
      <3> QED BY <2>1, <2>4, <2>5, <3>4, <3>5
    <2>6. CASE ~(e.side = s /\ e.price_level = p)
      <3>1. e.price_level \in DOMAIN O2[e.side] /\ O2[e.side][e.price_level] = O[e.side][e.price_level]
        BY <1>1, <1>2, <2>2, <2>6
      <3> QED BY <2>1, <2>2, <2>3, <2>4, <3>1
    <2> QED BY <2>5, <2>6
  <1> QED BY <1>1, <1>2, <1>5, <1>8, <1>9, <1>10 DEF Struct

\* O2, H2, X2 are the components after the new node n, which holds order o, was
\* appended to the list q of its side and price.
Pushed(O, H, X, o, n, q, O2, H2, X2) ==
    /\ o \in Order /\ o.remaining_quantity > 0
    /\ n \in Node /\ n \notin DOMAIN H
    /\ q = IF o.price \in DOMAIN O[o.side] THEN O[o.side][o.price] ELSE <<>>
    /\ O2 = [O EXCEPT ![o.side] = Put(O[o.side], o.price, Append(q, n))]
    /\ H2 = Put(H, n, o)
    /\ X2 = Put(X, o.order_id, [side |-> o.side, price_level |-> o.price, position |-> n])

\* Appending a new node with an index entry, new or overwritten, for its id
\* keeps the structure.
LEMMA PushStruct ==
  ASSUME NEW O, NEW H, NEW X, Struct(O, H, X), NEW o, NEW n, NEW q, NEW O2, NEW H2, NEW X2,
         Pushed(O, H, X, o, n, q, O2, H2, X2)
  PROVE  Struct(O2, H2, X2)
  <1>p. /\ o \in Order /\ o.remaining_quantity > 0
        /\ n \in Node /\ n \notin DOMAIN H
        /\ q = IF o.price \in DOMAIN O[o.side] THEN O[o.side][o.price] ELSE <<>>
        /\ O2 = [O EXCEPT ![o.side] = Put(O[o.side], o.price, Append(q, n))]
        /\ H2 = Put(H, n, o)
        /\ X2 = Put(X, o.order_id, [side |-> o.side, price_level |-> o.price, position |-> n])
    BY DEF Pushed
  <1> USE <1>p
  <1> DEFINE s == o.side
             p == o.price
             e == [side |-> o.side, price_level |-> o.price, position |-> n]
             Q == Append(q, n)
             L == Put(O[s], p, Q)
  <1>0. s \in Side /\ p \in Price /\ o.order_id \in OrderId /\ e \in OrderIndexEntry
    BY DEF Order, OrderIndexEntry
  <1>q. q \in Seq(Node)
    BY <1>0 DEF Struct, ListsTyped, IsMap
  <1>1. /\ Len(q) \in Nat
        /\ Q \in Seq(Node) /\ Len(Q) = Len(q) + 1 /\ Q # <<>>
        /\ Q[Len(q) + 1] = n
        /\ \A j \in 1..Len(q) : Q[j] = q[j]
    BY <1>q
  <1>2. /\ IsMap(L, Price, Seq(Node))
        /\ DOMAIN L = DOMAIN O[s] \cup {p}
        /\ L[p] = Q
        /\ \A y \in DOMAIN O[s] \ {p} : L[y] = O[s][y]
    <2> HIDE DEF Q
    <2> QED BY <1>0, <1>1 DEF Struct, ListsTyped, IsMap, Put
  <1>3. O2[s] = L /\ O2 = [t \in Side |-> O2[t]] /\ \A t \in Side \ {s} : O2[t] = O[t]
    BY <1>0 DEF Struct, ListsTyped
  <1>4. /\ IsMap(H2, Node, Order)
        /\ DOMAIN H2 = DOMAIN H \cup {n}
        /\ H2[n] = o
        /\ \A y \in DOMAIN H : H2[y] = H[y]
    BY DEF Struct, ListsTyped, IsMap, Put
  <1>5. /\ IsMap(X2, OrderId, OrderIndexEntry)
        /\ DOMAIN X2 = DOMAIN X \cup {o.order_id}
        /\ X2[o.order_id] = e
        /\ \A y \in DOMAIN X \ {o.order_id} : X2[y] = X[y]
    BY <1>0 DEF Struct, ListsTyped, IsMap, Put
  <1> HIDE DEF L, Q, e
  <1>6. ListsTyped(O2, H2, X2)
    BY <1>2, <1>3, <1>4, <1>5 DEF Struct, ListsTyped
  <1>7. ASSUME NEW t \in Side, NEW r \in DOMAIN O2[t], ~(t = s /\ r = p)
        PROVE  r \in DOMAIN O[t] /\ O2[t][r] = O[t][r]
    BY <1>2, <1>3, <1>7
  <1>8. O2[s][p] = Q /\ p \in DOMAIN O2[s]
    BY <1>2, <1>3
  <1>9. \A j \in 1..Len(q) : /\ q[j] \in DOMAIN H
                             /\ H[q[j]].side = s
                             /\ H[q[j]].price = p
                             /\ H[q[j]].remaining_quantity > 0
    <2>1. CASE p \in DOMAIN O[s]
      <3>1. q = O[s][p] /\ ListsLive(O, H)
        BY <2>1 DEF Struct
      <3> QED BY <1>0, <2>1, <3>1, LiveAt
    <2>2. CASE p \notin DOMAIN O[s]
      <3>1. q = <<>>
        BY <2>2
      <3> QED BY <3>1
    <2> QED BY <2>1, <2>2
  <1>10. ListsLive(O2, H2)
    <2> SUFFICES ASSUME NEW t \in Side, NEW r \in DOMAIN O2[t]
                 PROVE  /\ O2[t][r] # <<>>
                        /\ \A j \in 1..Len(O2[t][r]) :
                              /\ O2[t][r][j] \in DOMAIN H2
                              /\ H2[O2[t][r][j]].side = t
                              /\ H2[O2[t][r][j]].price = r
                              /\ H2[O2[t][r][j]].remaining_quantity > 0
      BY DEF ListsLive
    <2>1. CASE t = s /\ r = p
      <3>1. O2[t][r] = Q
        BY <1>8, <2>1
      <3>2. ASSUME NEW j \in 1..Len(Q)
            PROVE  /\ Q[j] \in DOMAIN H2
                   /\ H2[Q[j]].side = s
                   /\ H2[Q[j]].price = p
                   /\ H2[Q[j]].remaining_quantity > 0
        <4>1. CASE j \in 1..Len(q)
          <5>1. Q[j] = q[j]
            BY <1>1, <4>1
          <5>2. /\ q[j] \in DOMAIN H /\ H[q[j]].side = s
                /\ H[q[j]].price = p /\ H[q[j]].remaining_quantity > 0
            BY <1>9, <4>1
          <5> QED BY <1>4, <5>1, <5>2
        <4>2. CASE j = Len(q) + 1
          BY <1>1, <1>4, <4>2
        <4>3. j \in 1..Len(q) \/ j = Len(q) + 1
          BY <1>1
        <4> QED BY <4>1, <4>2, <4>3, Zenon
      <3> QED BY <1>1, <2>1, <3>1, <3>2, ZenonT(60)
    <2>2. CASE ~(t = s /\ r = p)
      <3>1. r \in DOMAIN O[t] /\ O2[t][r] = O[t][r]
        BY <1>7, <2>2
      <3>2. ASSUME NEW j \in 1..Len(O[t][r])
            PROVE  /\ O[t][r][j] \in DOMAIN H
                   /\ H[O[t][r][j]].side = t
                   /\ H[O[t][r][j]].price = r
                   /\ H[O[t][r][j]].remaining_quantity > 0
        BY <3>1 DEF Struct, ListsLive
      <3>3. O[t][r] # <<>>
        BY <3>1 DEF Struct, ListsLive
      <3>4. ASSUME NEW j \in 1..Len(O[t][r])
            PROVE  /\ O[t][r][j] \in DOMAIN H2
                   /\ H2[O[t][r][j]].side = t
                   /\ H2[O[t][r][j]].price = r
                   /\ H2[O[t][r][j]].remaining_quantity > 0
        BY <1>4, <3>2
      <3> QED BY <3>1, <3>3, <3>4
    <2> QED BY <2>1, <2>2
  <1>11. ListsDistinct(O2)
    <2> SUFFICES ASSUME NEW t \in Side, NEW r \in DOMAIN O2[t],
                        NEW j \in 1..Len(O2[t][r]), NEW k \in 1..Len(O2[t][r]),
                        O2[t][r][j] = O2[t][r][k]
                 PROVE  j = k
      BY DEF ListsDistinct
    <2>1. CASE t = s /\ r = p
      <3>1. O2[t][r] = Q
        BY <1>8, <2>1
      <3>2. \A l \in 1..Len(q) : q[l] # n /\ Q[l] = q[l]
        <4>1. \A l \in 1..Len(q) : q[l] # n
          BY <1>9
        <4> QED BY <1>1, <4>1
      <3>3. \A l, m \in 1..Len(q) : q[l] = q[m] => l = m
        <4>1. CASE p \in DOMAIN O[s]
          <5>1. q = O[s][p] /\ ListsDistinct(O)
            BY <4>1 DEF Struct
          <5> QED BY <1>0, <4>1, <5>1 DEF ListsDistinct
        <4>2. CASE p \notin DOMAIN O[s]
          <5>1. q = <<>>
            BY <4>2
          <5> QED BY <5>1
        <4> QED BY <4>1, <4>2
      <3>4. j \in 1..(Len(q) + 1) /\ k \in 1..(Len(q) + 1) /\ Q[j] = Q[k]
        BY <1>1, <3>1
      <3>5. CASE j \in 1..Len(q) /\ k \in 1..Len(q)
        <4>1. Q[j] = q[j] /\ Q[k] = q[k]
          BY <3>2, <3>5
        <4>2. q[j] = q[k]
          BY <3>4, <4>1
        <4> QED BY <3>3, <3>5, <4>2, Zenon
      <3>6. CASE j = Len(q) + 1 /\ k \in 1..Len(q)
        BY <1>1, <3>2, <3>4, <3>6
      <3>7. CASE k = Len(q) + 1 /\ j \in 1..Len(q)
        BY <1>1, <3>2, <3>4, <3>7
      <3>8. \A i \in 1..(Len(q) + 1) : i \in 1..Len(q) \/ i = Len(q) + 1
        <4>1. Len(q) \in Nat
          BY <1>1
        <4> QED BY ONLY <4>1
      <3>9. CASE j = Len(q) + 1 /\ k = Len(q) + 1
        BY <3>9
      <3> QED BY <3>4, <3>5, <3>6, <3>7, <3>8, <3>9, Zenon
    <2>2. CASE ~(t = s /\ r = p)
      <3>1. r \in DOMAIN O[t] /\ O2[t][r] = O[t][r]
        BY <1>7, <2>2
      <3> QED BY <3>1 DEF Struct, ListsDistinct
    <2> QED BY <2>1, <2>2
  <1>12. EntriesValid(O2, H2, X2)
    <2> SUFFICES ASSUME NEW id \in DOMAIN X2
                 PROVE  /\ X2[id].price_level \in DOMAIN O2[X2[id].side]
                        /\ \E j \in 1..Len(O2[X2[id].side][X2[id].price_level]) :
                              O2[X2[id].side][X2[id].price_level][j] = X2[id].position
                        /\ X2[id].position \in DOMAIN H2
                        /\ H2[X2[id].position].order_id = id
      BY DEF EntriesValid
    <2>1. CASE id = o.order_id
      <3>1. X2[id].side = s /\ X2[id].price_level = p /\ X2[id].position = n
        BY <1>5, <2>1 DEF e
      <3>2. \E j \in 1..Len(Q) : Q[j] = n
        BY <1>1
      <3> QED BY <1>4, <1>8, <2>1, <3>1, <3>2
    <2>2. CASE id # o.order_id
      <3> DEFINE f == X[id]
      <3>1. X2[id] = f /\ id \in DOMAIN X /\ f.side \in Side
        BY <1>5, <2>2 DEF Struct, ListsTyped, IsMap, OrderIndexEntry
      <3>2. /\ f.price_level \in DOMAIN O[f.side]
            /\ f.position \in DOMAIN H /\ H[f.position].order_id = id
        BY <3>1 DEF Struct, EntriesValid
      <3>3. PICK k \in 1..Len(O[f.side][f.price_level]) : O[f.side][f.price_level][k] = f.position
        BY <3>1 DEF Struct, EntriesValid
      <3>4. CASE f.side = s /\ f.price_level = p
        <4>1. O[f.side][f.price_level] = q
          BY <3>2, <3>4
        <4>2. \E j \in 1..Len(Q) : Q[j] = f.position
          BY <1>1, <3>3, <4>1
        <4>3. O2[f.side][f.price_level] = Q /\ f.price_level \in DOMAIN O2[f.side]
          BY <1>8, <3>4
        <4> QED BY <1>4, <3>1, <3>2, <4>2, <4>3
      <3>5. CASE ~(f.side = s /\ f.price_level = p)
        <4>1. f.price_level \in DOMAIN O2[f.side] /\ O2[f.side][f.price_level] = O[f.side][f.price_level]
          BY <1>2, <1>3, <3>1, <3>2, <3>5
        <4> QED BY <1>4, <3>1, <3>2, <3>3, <4>1
      <3> QED BY <3>4, <3>5
    <2> QED BY <2>1, <2>2
  <1> QED BY <1>6, <1>10, <1>11, <1>12 DEF Struct

\* Replacing what a live node holds by an order of the same id, side and price
\* with something left to trade keeps the structure.
LEMMA UpdateStruct ==
  ASSUME NEW O, NEW H, NEW X, Struct(O, H, X),
         NEW n \in DOMAIN H, NEW o \in Order, o.remaining_quantity > 0,
         o.side = H[n].side, o.price = H[n].price, o.order_id = H[n].order_id
  PROVE  Struct(O, [H EXCEPT ![n] = o], X)
  <1> DEFINE H2 == [H EXCEPT ![n] = o]
  <1>1. /\ IsMap(H2, Node, Order) /\ DOMAIN H2 = DOMAIN H /\ H2[n] = o
        /\ \A y \in DOMAIN H \ {n} : H2[y] = H[y]
    BY DEF Struct, ListsTyped, IsMap
  <1> HIDE DEF H2
  <1>2. ListsTyped(O, H2, X)
    BY <1>1 DEF Struct, ListsTyped
  <1>3. ListsLive(O, H2)
    BY <1>1 DEF Struct, ListsLive
  <1>4. EntriesValid(O, H2, X)
    BY <1>1 DEF Struct, EntriesValid
  <1> QED BY <1>2, <1>3, <1>4 DEF Struct, H2
-----------------------------------------------------------------------------
(* The best price of a side. *)

\* A non-empty set of naturals has a least element.
LEMMA LeastNat ==
  ASSUME NEW T, T \subseteq Nat, T # {}
  PROVE  \E x \in T : \A y \in T : x <= y
  <1>1. PICK x \in T : \A y \in T : ~(<<y, x>> \in OpToRel(<, Nat))
    BY WFMin, NatLessThanWellFounded
  <1>2. \A y \in T : ~(y < x)
    BY <1>1 DEF OpToRel
  <1> QED BY <1>2

\* begin()->first of a side that is not empty is a price of that side, and no
\* price of the side is better.
LEMMA BestPriceIsBest ==
  ASSUME NEW levels, DOMAIN levels \subseteq Price, DOMAIN levels # {}, NEW s \in Side
  PROVE  /\ BestPrice(levels, s) \in DOMAIN levels
         /\ s = "Buy" => \A p \in DOMAIN levels : p <= BestPrice(levels, s)
         /\ s = "Sell" => \A p \in DOMAIN levels : BestPrice(levels, s) <= p
  <1>0. Price \subseteq Nat /\ MaxPrice \in Nat
    BY BoundsAssumption DEF Price
  <1>1. CASE s = "Buy"
    <2> DEFINE D == DOMAIN levels
               T == {MaxPrice - p : p \in D}
    <2>1. T \subseteq Nat /\ T # {}
      BY <1>0 DEF Price
    <2>2. PICK x \in T : \A y \in T : x <= y
      BY <2>1, LeastNat
    <2>3. PICK m \in D : x = MaxPrice - m
      OBVIOUS
    <2>4. ASSUME NEW p \in D PROVE m >= p
      <3>1. MaxPrice - p \in T
        OBVIOUS
      <3>2. x <= MaxPrice - p
        BY <2>2, <3>1
      <3>3. m \in Nat /\ p \in Nat
        BY <1>0
      <3> QED BY <1>0, <2>3, <3>2, <3>3
    <2>5. Max(D) \in D /\ \A p \in D : Max(D) >= p
      BY <2>4 DEF Max
    <2> QED BY <1>0, <1>1, <2>5 DEF BestPrice
  <1>2. CASE s = "Sell"
    <2> DEFINE D == DOMAIN levels
    <2>1. PICK m \in D : \A p \in D : m <= p
      BY <1>0, LeastNat
    <2>2. Min(D) \in D /\ \A p \in D : Min(D) <= p
      BY <2>1 DEF Min
    <2> QED BY <1>2, <2>2 DEF BestPrice
  <1> QED BY <1>1, <1>2 DEF Side
-----------------------------------------------------------------------------
(* A good book. *)

Uncrossed(O) == \A p \in DOMAIN O["Buy"], q \in DOMAIN O["Sell"] : p < q

BookTyped(b) ==
    /\ b = [orders |-> b.orders, heap |-> b.heap, index |-> b.index,
            incoming |-> b.incoming, fills |-> b.fills, reports |-> b.reports]
    /\ b.incoming \in Order \cup {NoOrder}
    /\ b.fills \in Seq(Fill)
    /\ b.reports \in Seq(ExecutionReport)

Good(b) == BookTyped(b) /\ Struct(b.orders, b.heap, b.index) /\ Uncrossed(b.orders)

\* The empty book is good.
LEMMA EmptyGood == Good(EmptyBook)
  <1> DEFINE b == EmptyBook
  <1>1. /\ b.orders = [s \in Side |-> EmptyMap] /\ b.heap = EmptyMap
        /\ b.index = EmptyMap /\ b.incoming = NoOrder
        /\ b.fills = <<>> /\ b.reports = <<>>
    BY DEF EmptyBook
  <1>2. DOMAIN EmptyMap = {}
    BY DEF EmptyMap
  <1>3. \A S, T : IsMap(EmptyMap, S, T)
    BY DEF IsMap, EmptyMap
  <1>4. BookTyped(b)
    BY DEF EmptyBook, BookTyped
  <1> HIDE DEF EmptyMap, b
  <1>5. Struct(b.orders, b.heap, b.index)
    BY <1>1, <1>2, <1>3 DEF Struct, ListsTyped, ListsLive, ListsDistinct, EntriesValid
  <1>6. Uncrossed(b.orders)
    BY <1>1, <1>2 DEF Uncrossed, Side
  <1>7. Good(b)
    BY <1>4, <1>5, <1>6 DEF Good
  <1> QED BY <1>7 DEF b
-----------------------------------------------------------------------------
(* The operations keep a book good. *)

\* Another remainder leaves an order an order.
LEMMA OrderRemainder ==
  ASSUME NEW o \in Order, NEW k \in Quantity
  PROVE  LET m == [o EXCEPT !.remaining_quantity = k]
         IN  /\ m \in Order /\ m.remaining_quantity = k
             /\ m.side = o.side /\ m.price = o.price /\ m.order_id = o.order_id
             /\ m.timestamp = o.timestamp
  BY DEF Order

\* Reports and fills have the type of the structs they model.
LEMMA ReportTyped ==
  ASSUME NEW o \in Order, NEW k \in Quantity, NEW x \in Nat, NEW st \in OrderStatus
  PROVE  TradeReport(o, k, x) \in ExecutionReport /\ PlainReport(o, st) \in ExecutionReport
  <1>1. 0 \in Quantity /\ 0 \in Nat
    BY BoundsAssumption DEF Quantity
  <1> QED BY <1>1 DEF TradeReport, PlainReport, ExecutionReport, Order, OrderStatus

\* A node in a list is allocated and has something left to trade.
LEMMA LiveNode ==
  ASSUME NEW O, NEW H, ListsLive(O, H), NEW s \in Side, NEW p \in DOMAIN O[s], NEW i \in 1..Len(O[s][p])
  PROVE  O[s][p][i] \in DOMAIN H /\ H[O[s][p][i]].remaining_quantity > 0
  BY DEF ListsLive

\* The facts about the next resting order the incoming order meets.
LEMMA FrontFacts ==
  ASSUME NEW b, Good(b), b.incoming \in Order, CanMatch(b),
         NEW s, s = Opposite(b.incoming.side),
         NEW p, p = BestPrice(b.orders[s], s)
  PROVE  /\ s \in Side
         /\ p \in DOMAIN b.orders[s] /\ b.orders[s][p] \in Seq(Node)
         /\ 1 \in 1..Len(b.orders[s][p])
         /\ FrontNode(b) = b.orders[s][p][1]
         /\ FrontNode(b) \in DOMAIN b.heap /\ b.heap[FrontNode(b)] \in Order
         /\ MatchQty(b) \in Quantity /\ MatchQty(b) > 0
         /\ b.incoming.remaining_quantity - MatchQty(b) \in Quantity
         /\ b.heap[FrontNode(b)].remaining_quantity - MatchQty(b) \in Quantity
  <1>1. s \in Side /\ b.incoming.side \in Side
    BY DEF Order, Opposite, Side
  <1>2. IsMap(b.orders[s], Price, Seq(Node)) /\ IsMap(b.heap, Node, Order)
    BY <1>1 DEF Good, Struct, ListsTyped
  <1>3. p \in DOMAIN b.orders[s]
    BY <1>1, <1>2, BestPriceIsBest DEF CanMatch, IsMap
  <1>4. b.orders[s][p] \in Seq(Node) /\ b.orders[s][p] # <<>>
    BY <1>1, <1>2, <1>3 DEF IsMap, Good, Struct, ListsLive
  <1>5. 1 \in 1..Len(b.orders[s][p]) /\ FrontNode(b) = b.orders[s][p][1]
    BY <1>4 DEF FrontNode
  <1>6. /\ FrontNode(b) \in DOMAIN b.heap
        /\ b.heap[FrontNode(b)].remaining_quantity > 0
    <2>1. ListsLive(b.orders, b.heap)
      BY DEF Good, Struct
    <2>2. /\ b.orders[s][p][1] \in DOMAIN b.heap
          /\ b.heap[b.orders[s][p][1]].remaining_quantity > 0
      BY <1>1, <1>3, <1>5, <2>1, LiveNode
    <2> QED BY <1>5, <2>2, Zenon
  <1>7. b.heap[FrontNode(b)] \in Order
    BY <1>2, <1>6 DEF IsMap
  <1>8. b.incoming.remaining_quantity \in Quantity /\ b.heap[FrontNode(b)].remaining_quantity \in Quantity
    BY <1>7 DEF Order
  <1>9. b.incoming.remaining_quantity > 0
    BY DEF CanMatch
  <1>10. /\ MatchQty(b) \in Quantity /\ MatchQty(b) > 0
         /\ b.incoming.remaining_quantity - MatchQty(b) \in Quantity
         /\ b.heap[FrontNode(b)].remaining_quantity - MatchQty(b) \in Quantity
    BY <1>6, <1>8, <1>9, BoundsAssumption DEF MatchQty, Quantity
  <1> QED BY <1>1, <1>3, <1>4, <1>5, <1>6, <1>7, <1>10

\* What matchOrders changes: both remainders, one fill, two reports.
LEMMA matchOrdersFacts ==
  ASSUME NEW b, Good(b), b.incoming \in Order, CanMatch(b), NEW tid \in Nat,
         NEW m, m = matchOrders(b, tid), NEW n, n = FrontNode(b)
  PROVE  /\ BookTyped(m) /\ m.incoming \in Order
         /\ m.orders = b.orders /\ m.index = b.index
         /\ m.heap = [b.heap EXCEPT ![n] = [b.heap[n] EXCEPT !.remaining_quantity = @ - MatchQty(b)]]
  <1> DEFINE qty  == MatchQty(b)
             inc  == [b.incoming EXCEPT !.remaining_quantity = @ - qty]
             rest == [b.heap[n] EXCEPT !.remaining_quantity = @ - qty]
             buy  == IF inc.side = "Buy" THEN inc ELSE rest
             sell == IF inc.side = "Buy" THEN rest ELSE inc
             px   == ExecPrice(buy, sell)
             fill == [trade_id |-> tid, buy_order_id |-> buy.order_id,
                      sell_order_id |-> sell.order_id, price |-> px, quantity |-> qty]
  <1>1. /\ qty \in Quantity /\ qty > 0 /\ n \in DOMAIN b.heap /\ b.heap[n] \in Order
        /\ b.incoming.remaining_quantity - qty \in Quantity
        /\ b.heap[n].remaining_quantity - qty \in Quantity
    BY FrontFacts
  <1>2. inc \in Order /\ rest \in Order
    BY <1>1, OrderRemainder
  <1>3. m = [b EXCEPT !.incoming = inc, !.heap[n] = rest,
                      !.fills = Append(@, fill),
                      !.reports = @ \o <<TradeReport(buy, qty, px), TradeReport(sell, qty, px)>>]
    BY <1>1 DEF matchOrders
  <1> HIDE DEF qty, inc, rest
  <1>4. buy \in Order /\ sell \in Order
    BY <1>2
  <1> HIDE DEF buy, sell
  <1>5. px \in Price /\ px \in Nat
    BY <1>4, BoundsAssumption DEF ExecPrice, Order, Price
  <1> HIDE DEF px
  <1>6. fill \in Fill
    BY <1>1, <1>4, <1>5 DEF Fill, Order
  <1>7. TradeReport(buy, qty, px) \in ExecutionReport /\ TradeReport(sell, qty, px) \in ExecutionReport
    BY <1>1, <1>4, <1>5, ReportTyped DEF OrderStatus
  <1> HIDE DEF fill
  <1>8. /\ m.incoming = inc
        /\ m.heap = [b.heap EXCEPT ![n] = rest]
        /\ m.fills = Append(b.fills, fill)
        /\ m.reports = b.reports \o <<TradeReport(buy, qty, px), TradeReport(sell, qty, px)>>
        /\ m.orders = b.orders /\ m.index = b.index
        /\ m = [orders |-> m.orders, heap |-> m.heap, index |-> m.index,
                incoming |-> m.incoming, fills |-> m.fills, reports |-> m.reports]
    BY <1>3 DEF Good, BookTyped
  <1>9. m.fills \in Seq(Fill)
    BY <1>6, <1>8 DEF Good, BookTyped
  <1>10. m.reports \in Seq(ExecutionReport)
    <2>1. <<TradeReport(buy, qty, px), TradeReport(sell, qty, px)>> \in Seq(ExecutionReport)
      BY <1>7
    <2> QED BY <1>8, <2>1, ConcatProperties DEF Good, BookTyped
  <1> QED BY <1>2, <1>8, <1>9, <1>10 DEF BookTyped, rest, qty

\* One iteration of the matching loop keeps the book good, and erases the
\* front node when it is used up.
LEMMA MatchOnceLists ==
  ASSUME NEW b, Good(b), b.incoming \in Order, CanMatch(b), NEW tid \in Nat,
         NEW side, side = Opposite(b.incoming.side), NEW best, best = BestPrice(b.orders[side], side)
  PROVE  /\ Good(MatchOnce(b, tid)) /\ MatchOnce(b, tid).incoming \in Order
         /\ [b.heap[FrontNode(b)] EXCEPT !.remaining_quantity = @ - MatchQty(b)].remaining_quantity = 0 =>
               Erased(b.orders, b.heap, b.index, side, best, 1, Tail(b.orders[side][best]),
                      MatchOnce(b, tid).orders, MatchOnce(b, tid).heap, MatchOnce(b, tid).index)
         /\ [b.heap[FrontNode(b)] EXCEPT !.remaining_quantity = @ - MatchQty(b)].remaining_quantity # 0 =>
               MatchOnce(b, tid).orders = b.orders
  <1> DEFINE s == Opposite(b.incoming.side)
             p == BestPrice(b.orders[s], s)
             n == FrontNode(b)
             m == matchOrders(b, tid)
             r == MatchOnce(b, tid)
             rest == [b.heap[n] EXCEPT !.remaining_quantity = @ - MatchQty(b)]
  <1>1. /\ s \in Side /\ p \in DOMAIN b.orders[s] /\ b.orders[s][p] \in Seq(Node)
        /\ 1 \in 1..Len(b.orders[s][p]) /\ n = b.orders[s][p][1]
        /\ n \in DOMAIN b.heap /\ b.heap[n] \in Order
        /\ b.heap[n].remaining_quantity - MatchQty(b) \in Quantity
    BY FrontFacts
  <1>2. /\ BookTyped(m) /\ m.incoming \in Order
        /\ m.orders = b.orders /\ m.index = b.index
        /\ m.heap = [b.heap EXCEPT ![n] = rest]
    BY matchOrdersFacts
  <1>3. /\ rest \in Order /\ rest.side = b.heap[n].side
        /\ rest.price = b.heap[n].price /\ rest.order_id = b.heap[n].order_id
    BY <1>1, OrderRemainder
  <1>4. m.heap[n] = rest /\ rest.remaining_quantity \in Quantity
    BY <1>1, <1>2, <1>3 DEF Order
  <1>5. Struct(b.orders, b.heap, b.index) /\ Uncrossed(b.orders)
    BY DEF Good
  <1> HIDE DEF rest, m, n, p, s
  <1>6. CASE rest.remaining_quantity = 0
    <2>1. r = PopFront(m, s, p)
      BY <1>4, <1>6 DEF MatchOnce, m, n, p, s
    <2> DEFINE q == Tail(b.orders[s][p])
               O2 == [b.orders EXCEPT ![s] = SetLevel(b.orders[s], p, q)]
               H2 == Drop(b.heap, n)
               X2 == Drop(b.index, b.heap[n].order_id)
    <2>2. /\ q \in Seq(Node) /\ Len(q) = Len(b.orders[s][p]) - 1
          /\ \A j \in 1..Len(q) : q[j] = b.orders[s][p][IF j < 1 THEN j ELSE j + 1]
      BY <1>1
    <2>3. Head(b.orders[s][p]) = n
      BY <1>1
    <2>4. Drop(m.heap, n) = H2
      BY <1>2, <1>5 DEF Drop, Restrict, Struct, ListsTyped, IsMap
    <2>5. r = [m EXCEPT !.index = X2, !.heap = H2, !.orders = O2]
      <3> HIDE DEF q, H2
      <3>1. r = [m EXCEPT !.index = Drop(@, m.heap[n].order_id), !.heap = Drop(@, n),
                          !.orders[s] = SetLevel(@, p, q)]
        BY <1>2, <2>1, <2>3 DEF PopFront, q
      <3>2. m.heap[n].order_id = b.heap[n].order_id
        BY <1>3, <1>4
      <3>3. s \in DOMAIN b.orders
        BY <1>1, <1>5 DEF Struct, ListsTyped
      <3> QED BY <1>2, <2>4, <3>1, <3>2, <3>3 DEF BookTyped
    <2>e. Erased(b.orders, b.heap, b.index, s, p, 1, q, O2, H2, X2)
      BY <1>1, <2>2 DEF Erased
    <2>6. Struct(O2, H2, X2) /\ \A t \in Side : DOMAIN O2[t] \subseteq DOMAIN b.orders[t]
      <3> HIDE DEF q, O2, H2, X2
      <3> QED BY <1>5, <2>e, EraseStruct
    <2> HIDE DEF q, O2, H2, X2
    <2>7. BookTyped(r) /\ r.incoming = m.incoming /\ r.orders = O2 /\ r.heap = H2 /\ r.index = X2
      BY <1>2, <2>5 DEF BookTyped
    <2>8. Uncrossed(O2)
      BY <1>5, <2>6 DEF Uncrossed, Side
    <2>9. Good(r) /\ r.incoming \in Order
      BY <1>2, <2>6, <2>7, <2>8 DEF Good
    <2>10. Erased(b.orders, b.heap, b.index, s, p, 1, q, r.orders, r.heap, r.index)
      BY <2>e, <2>7
    <2> QED BY <1>6, <2>9, <2>10 DEF rest, n, s, p, q
  <1>7. CASE rest.remaining_quantity # 0
    <2>1. r = m
      BY <1>4, <1>7 DEF MatchOnce, m, n, p, s
    <2>2. rest.remaining_quantity > 0
      BY <1>4, <1>7, BoundsAssumption DEF Quantity
    <2>3. Struct(b.orders, m.heap, b.index)
      BY <1>1, <1>2, <1>3, <1>5, <2>2, UpdateStruct
    <2>4. Good(r) /\ r.incoming \in Order /\ r.orders = b.orders
      BY <1>2, <1>5, <2>1, <2>3 DEF Good
    <2> QED BY <1>7, <2>4 DEF rest, n
  <1> QED BY <1>6, <1>7

\* One iteration of the matching loop keeps the book good.
LEMMA MatchOnceGood ==
  ASSUME NEW b, Good(b), b.incoming \in Order, CanMatch(b), NEW tid \in Nat
  PROVE  Good(MatchOnce(b, tid)) /\ MatchOnce(b, tid).incoming \in Order
  BY MatchOnceLists

\* An order that crosses nothing comes to rest at the end of its level: the
\* book stays good.
LEMMA RestLists ==
  ASSUME NEW b, Good(b), b.incoming \in Order, ~CanMatch(b),
         b.incoming.remaining_quantity > 0, b.incoming.type = "Limit",
         NEW n \in Node, n \notin DOMAIN b.heap
  PROVE  /\ Good(Rest(b, n)) /\ Rest(b, n).incoming = NoOrder
         /\ \E list : Pushed(b.orders, b.heap, b.index, b.incoming, n, list,
                            Rest(b, n).orders, Rest(b, n).heap, Rest(b, n).index)
  <1> DEFINE o == b.incoming
             s == o.side
             q == IF o.price \in DOMAIN b.orders[s] THEN b.orders[s][o.price] ELSE <<>>
             O2 == [b.orders EXCEPT ![s] = Put(b.orders[s], o.price, Append(q, n))]
             H2 == Put(b.heap, n, o)
             X2 == Put(b.index, o.order_id, [side |-> o.side, price_level |-> o.price, position |-> n])
             R2 == IF o.remaining_quantity = o.quantity
                   THEN Append(b.reports, PlainReport(o, "New")) ELSE b.reports
             r == Rest(b, n)
  <1>1. Struct(b.orders, b.heap, b.index) /\ Uncrossed(b.orders) /\ BookTyped(b)
    BY DEF Good
  <1>2. s \in Side /\ o.price \in Price /\ s \in DOMAIN b.orders
    BY <1>1 DEF Order, Struct, ListsTyped
  <1>p. Pushed(b.orders, b.heap, b.index, o, n, q, O2, H2, X2)
    BY DEF Pushed
  <1>3. Struct(O2, H2, X2)
    <2> HIDE DEF q, O2, H2, X2
    <2> QED BY <1>1, <1>p, PushStruct
  <1>4. r = [b EXCEPT !.orders = O2, !.heap = H2, !.index = X2, !.incoming = NoOrder, !.reports = R2]
    <2> HIDE DEF q, H2, X2, R2
    <2>1. r = [b EXCEPT !.orders[s] = Put(@, o.price, Append(q, n)), !.heap = H2, !.index = X2,
                        !.incoming = NoOrder, !.reports = R2]
      BY DEF Rest, q, H2, X2, R2
    <2> QED BY <1>1, <1>2, <2>1 DEF BookTyped
  <1>5. R2 \in Seq(ExecutionReport)
    <2>1. PlainReport(o, "New") \in ExecutionReport
      <3>1. 0 \in Quantity /\ 0 \in Nat
        BY BoundsAssumption DEF Quantity
      <3> QED BY <3>1, ReportTyped DEF OrderStatus
    <2> QED BY <1>1, <2>1 DEF BookTyped
  <1>6. DOMAIN O2[s] = DOMAIN b.orders[s] \cup {o.price} /\ \A t \in Side \ {s} : O2[t] = b.orders[t]
    BY <1>1, <1>2 DEF Struct, ListsTyped, Put
  <1> HIDE DEF q, O2, H2, X2, R2
  <1>7. BookTyped(r) /\ r.orders = O2 /\ r.heap = H2 /\ r.index = X2 /\ r.incoming = NoOrder
    BY <1>1, <1>4, <1>5 DEF BookTyped
  <1>8. Uncrossed(O2)
    <2> DEFINE t == Opposite(s)
               best == BestPrice(b.orders[t], t)
    <2>1. t \in Side /\ DOMAIN b.orders[t] \subseteq Price /\ DOMAIN b.orders[s] \subseteq Price
      BY <1>1, <1>2 DEF Opposite, Side, Struct, ListsTyped, IsMap
    <2>2. DOMAIN b.orders[t] = {} \/ ~Crosses(o, best)
      BY DEF CanMatch
    <2>3. \A x \in Price : x \in Int
      BY DEF Price
    <2>4. DOMAIN b.orders[t] # {} => best \in DOMAIN b.orders[t]
      BY <2>1, BestPriceIsBest
    <2>5. CASE s = "Buy"
      <3>1. t = "Sell" /\ DOMAIN O2["Sell"] = DOMAIN b.orders["Sell"]
            /\ DOMAIN O2["Buy"] = DOMAIN b.orders["Buy"] \cup {o.price}
        BY <1>6, <2>5 DEF Opposite, Side
      <3>2. \A x \in DOMAIN b.orders["Sell"] : best <= x
        BY <2>1, <3>1, BestPriceIsBest DEF Side
      <3>3. DOMAIN b.orders["Sell"] # {} => o.price < best
        BY <1>2, <2>1, <2>2, <2>3, <2>4, <2>5, <3>1 DEF Crosses
      <3>4. \A x \in DOMAIN b.orders["Sell"] : o.price < x
        BY <1>2, <2>1, <2>3, <2>4, <3>1, <3>2, <3>3
      <3> QED BY <1>1, <3>1, <3>4 DEF Uncrossed
    <2>6. CASE s = "Sell"
      <3>1. t = "Buy" /\ DOMAIN O2["Buy"] = DOMAIN b.orders["Buy"]
            /\ DOMAIN O2["Sell"] = DOMAIN b.orders["Sell"] \cup {o.price}
        BY <1>6, <2>6 DEF Opposite, Side
      <3>2. \A x \in DOMAIN b.orders["Buy"] : x <= best
        BY <2>1, <3>1, BestPriceIsBest DEF Side
      <3>3. DOMAIN b.orders["Buy"] # {} => best < o.price
        BY <1>2, <2>1, <2>2, <2>3, <2>4, <2>6, <3>1 DEF Crosses
      <3>4. \A x \in DOMAIN b.orders["Buy"] : x < o.price
        BY <1>2, <2>1, <2>3, <2>4, <3>1, <3>2, <3>3
      <3> QED BY <1>1, <3>1, <3>4 DEF Uncrossed
    <2> QED BY <1>2, <2>5, <2>6 DEF Side
  <1>9. Good(r) /\ r.incoming = NoOrder
    BY <1>3, <1>7, <1>8 DEF Good
  <1>10. Pushed(b.orders, b.heap, b.index, o, n, q, r.orders, r.heap, r.index)
    BY <1>p, <1>7
  <1> QED BY <1>9, <1>10

\* The book stays good when an order comes to rest.
LEMMA RestGood ==
  ASSUME NEW b, Good(b), b.incoming \in Order, ~CanMatch(b),
         b.incoming.remaining_quantity > 0, b.incoming.type = "Limit",
         NEW n \in Node, n \notin DOMAIN b.heap
  PROVE  Good(Rest(b, n)) /\ Rest(b, n).incoming = NoOrder
  BY RestLists

\* Erasing through the index entry of an id that is in the index, and dropping
\* that entry, removes exactly the node of that id: the iterator is valid and
\* its level is found, so the test "it != end()" of cancelOrder never fails.
LEMMA EraseLists ==
  ASSUME NEW b, Good(b), NEW id \in DOMAIN b.index,
         NEW e, e = b.index[id], NEW r, r = EraseEntry(b, e),
         NEW X2, X2 = Drop(b.index, id)
  PROVE  /\ \E k, list : /\ b.orders[e.side][e.price_level][k] = e.position
                         /\ list = RemoveAt(b.orders[e.side][e.price_level], k)
                         /\ Erased(b.orders, b.heap, b.index, e.side, e.price_level, k, list,
                                   r.orders, r.heap, X2)
         /\ BookTyped(r) /\ r.incoming = b.incoming /\ r.index = b.index
         /\ r.reports = b.reports
         /\ Struct(r.orders, r.heap, X2) /\ Uncrossed(r.orders)
         /\ e \in OrderIndexEntry /\ b.heap[e.position] \in Order
  <1> DEFINE s == e.side
             p == e.price_level
             n == e.position
             list == b.orders[s][p]
             i == CHOOSE k \in DOMAIN list : list[k] = n
             q == RemoveAt(list, i)
             O2 == [b.orders EXCEPT ![s] = SetLevel(b.orders[s], p, q)]
             H2 == Drop(b.heap, n)
  <1>1. Struct(b.orders, b.heap, b.index) /\ Uncrossed(b.orders) /\ BookTyped(b)
    BY DEF Good
  <1>2. e \in OrderIndexEntry /\ s \in Side /\ s \in DOMAIN b.orders
    BY <1>1 DEF Struct, ListsTyped, IsMap, OrderIndexEntry
  <1>3. p \in DOMAIN b.orders[s] /\ n \in DOMAIN b.heap /\ b.heap[n].order_id = id
    BY <1>1 DEF Struct, EntriesValid
  <1>4. list \in Seq(Node) /\ b.heap[n] \in Order
    BY <1>1, <1>2, <1>3 DEF Struct, ListsTyped, IsMap
  <1>5. i \in 1..Len(list) /\ list[i] = n
    <2>1. \E k \in 1..Len(list) : list[k] = n
      BY <1>1 DEF Struct, EntriesValid
    <2>2. DOMAIN list = 1..Len(list)
      BY <1>4
    <2> HIDE DEF list, n
    <2> QED BY <2>1, <2>2
  <1> HIDE DEF i
  <1>6. /\ q \in Seq(Node) /\ Len(q) = Len(list) - 1
        /\ \A j \in 1..(Len(list) - 1) : q[j] = list[IF j < i THEN j ELSE j + 1]
    BY <1>4, <1>5, RemoveAtList
  <1>7. r = [b EXCEPT !.orders = O2, !.heap = H2]
    <2>1. Unlink(list, n) = q
      BY DEF Unlink, i
    <2> HIDE DEF q, H2
    <2>2. r = [b EXCEPT !.orders[s] = SetLevel(@, p, q), !.heap = H2]
      BY <1>3, <2>1 DEF EraseEntry, H2
    <2> QED BY <1>1, <1>2, <2>2 DEF BookTyped
  <1>e. Erased(b.orders, b.heap, b.index, s, p, i, q, O2, H2, X2)
    <2> HIDE DEF q
    <2> QED BY <1>2, <1>3, <1>5, <1>6 DEF Erased
  <1>8. Struct(O2, H2, X2) /\ \A t \in Side : DOMAIN O2[t] \subseteq DOMAIN b.orders[t]
    <2> HIDE DEF q, O2, H2
    <2> QED BY <1>1, <1>e, EraseStruct
  <1> HIDE DEF q, O2, H2
  <1>9. /\ BookTyped(r) /\ r.orders = O2 /\ r.heap = H2 /\ r.incoming = b.incoming
        /\ r.index = b.index /\ r.reports = b.reports
    BY <1>1, <1>7 DEF BookTyped
  <1>10. Uncrossed(O2)
    BY <1>1, <1>8 DEF Uncrossed, Side
  <1>11. Erased(b.orders, b.heap, b.index, s, p, i, q, r.orders, r.heap, X2)
    BY <1>e, <1>9
  <1>12. \E k, l : /\ list[k] = n /\ l = RemoveAt(list, k)
                   /\ Erased(b.orders, b.heap, b.index, s, p, k, l, r.orders, r.heap, X2)
    BY <1>5, <1>11 DEF q
  <1> QED BY <1>2, <1>4, <1>8, <1>9, <1>10, <1>12

\* The book stays good when an order is erased through its index entry.
LEMMA EraseGood ==
  ASSUME NEW b, Good(b), NEW id \in DOMAIN b.index,
         NEW e, e = b.index[id], NEW r, r = EraseEntry(b, e),
         NEW X2, X2 = Drop(b.index, id)
  PROVE  /\ BookTyped(r) /\ r.incoming = b.incoming /\ r.index = b.index
         /\ r.reports = b.reports
         /\ Struct(r.orders, r.heap, X2) /\ Uncrossed(r.orders)
         /\ e \in OrderIndexEntry /\ b.heap[e.position] \in Order
  BY EraseLists

\* A cancel of an order in the index keeps the book good.
LEMMA CancelGood ==
  ASSUME NEW b, Good(b), NEW id \in DOMAIN b.index
  PROVE  Good(CancelFound(b, id)) /\ CancelFound(b, id).incoming = b.incoming
  <1> DEFINE e == b.index[id]
             r == EraseEntry(b, e)
             X2 == Drop(b.index, id)
             rep == [order_id |-> id, side |-> e.side, status |-> "Cancelled",
                     price |-> e.price_level, quantity |-> 0,
                     remaining_quantity |-> 0, last_qty |-> 0, last_px |-> 0,
                     client_id |-> b.heap[e.position].client_id]
             c == CancelFound(b, id)
  <1>1. /\ BookTyped(r) /\ r.incoming = b.incoming /\ r.index = b.index
        /\ r.reports = b.reports
        /\ Struct(r.orders, r.heap, X2) /\ Uncrossed(r.orders)
        /\ e \in OrderIndexEntry /\ b.heap[e.position] \in Order
    BY EraseGood
  <1>2. id \in OrderId
    BY DEF Good, Struct, ListsTyped, IsMap
  <1>3. rep \in ExecutionReport
    <2>1. 0 \in Quantity
      BY BoundsAssumption DEF Quantity
    <2> QED BY <1>1, <1>2, <2>1 DEF ExecutionReport, OrderIndexEntry, Order, OrderStatus
  <1>4. c = [r EXCEPT !.index = Drop(@, id), !.reports = Append(@, rep)]
    BY DEF CancelFound
  <1> HIDE DEF rep, r, e
  <1>5. c = [r EXCEPT !.index = X2, !.reports = Append(r.reports, rep)]
    BY <1>1, <1>4 DEF BookTyped
  <1> HIDE DEF X2, c
  <1>6. /\ BookTyped(c) /\ c.orders = r.orders /\ c.heap = r.heap /\ c.index = X2
        /\ c.incoming = r.incoming
    <2>1. Append(r.reports, rep) \in Seq(ExecutionReport)
      BY <1>1, <1>3 DEF BookTyped
    <2> DEFINE rs == Append(r.reports, rep)
    <2> HIDE DEF rs
    <2>2. c = [r EXCEPT !.index = X2, !.reports = rs] /\ rs \in Seq(ExecutionReport)
      BY <1>5, <2>1 DEF rs
    <2> QED BY <1>1, <2>2 DEF BookTyped
  <1>7. Good(c) /\ c.incoming = b.incoming
    BY <1>1, <1>6 DEF Good
  <1> QED BY <1>7 DEF c

\* A modify takes the order out of a good book and makes it the incoming order.
LEMMA ModifyGood ==
  ASSUME NEW b, Good(b), NEW req, req.order_id \in DOMAIN b.index,
         req.price \in Price, req.quantity \in Quantity, req.timestamp \in Timestamp
  PROVE  Good(ModifyFound(b, req)) /\ ModifyFound(b, req).incoming \in Order
  <1> DEFINE id == req.order_id
             e == b.index[id]
             r == EraseEntry(b, e)
             X2 == Drop(b.index, id)
             o == b.heap[e.position]
             inc == [o EXCEPT !.price = req.price, !.quantity = req.quantity,
                              !.remaining_quantity = req.quantity, !.timestamp = req.timestamp]
             c == ModifyFound(b, req)
  <1>1. /\ BookTyped(r) /\ r.index = b.index
        /\ Struct(r.orders, r.heap, X2) /\ Uncrossed(r.orders)
        /\ o \in Order
    BY EraseGood
  <1>2. inc \in Order
    BY <1>1 DEF Order
  <1>3. c = [r EXCEPT !.index = Drop(@, id), !.incoming = inc]
    BY DEF ModifyFound
  <1> HIDE DEF inc, r, e, o
  <1>4. c = [r EXCEPT !.index = X2, !.incoming = inc]
    BY <1>1, <1>3 DEF BookTyped
  <1> HIDE DEF X2, c
  <1>5. BookTyped(c) /\ c.orders = r.orders /\ c.heap = r.heap /\ c.index = X2 /\ c.incoming = inc
    BY <1>1, <1>2, <1>4 DEF BookTyped
  <1>6. Good(c) /\ c.incoming \in Order
    BY <1>1, <1>2, <1>5 DEF Good
  <1> QED BY <1>6 DEF c

\* c is the book b with another incoming order and another result.
Renewed(b, inc, fs, rs, c) ==
    /\ inc \in Order \cup {NoOrder} /\ fs \in Seq(Fill) /\ rs \in Seq(ExecutionReport)
    /\ c = [b EXCEPT !.incoming = inc, !.fills = fs, !.reports = rs]

\* Only the incoming order and the result change: the book stays good.
LEMMA ResultGood ==
  ASSUME NEW b, Good(b), NEW inc, NEW fs, NEW rs, NEW c, Renewed(b, inc, fs, rs, c)
  PROVE  Good(c) /\ c.incoming = inc
  <1>1. /\ BookTyped(c) /\ c.orders = b.orders /\ c.heap = b.heap /\ c.index = b.index
        /\ c.incoming = inc
    BY DEF Renewed, Good, BookTyped
  <1> QED BY <1>1 DEF Good
-----------------------------------------------------------------------------
(* What the operations do, part by part. *)

\* Two elements put behind a sequence.
LEMMA ConcatTwo ==
  ASSUME NEW S, NEW s \in Seq(S), NEW x \in S, NEW y \in S, NEW t, t = s \o <<x, y>>,
         NEW n \in Nat, n = Len(s)
  PROVE  /\ t \in Seq(S) /\ Len(t) = n + 2 /\ t[n + 1] = x /\ t[n + 2] = y
         /\ \A k \in 1..n : t[k] = s[k]
  <1> DEFINE d == <<x, y>>
  <1>1. d \in Seq(S) /\ Len(d) = 2 /\ d[1] = x /\ d[2] = y
    OBVIOUS
  <1>2. t = s \o d
    OBVIOUS
  <1> HIDE DEF d
  <1>3. /\ t \in Seq(S) /\ Len(t) = n + 2
        /\ \A k \in 1..(n + 2) : t[k] = IF k <= n THEN s[k] ELSE d[k - n]
    BY <1>1, <1>2, ConcatProperties
  <1>4. t[n + 1] = d[1] /\ t[n + 2] = d[2] /\ \A k \in 1..n : t[k] = s[k]
    BY <1>3
  <1> QED BY <1>1, <1>3, <1>4

\* The two parties after the next trade, as buyer and seller, and its price.
IncAfter(b) == [b.incoming EXCEPT !.remaining_quantity = @ - MatchQty(b)]
RestAfter(b) == [b.heap[FrontNode(b)] EXCEPT !.remaining_quantity = @ - MatchQty(b)]
Buyer(b) == IF IncAfter(b).side = "Buy" THEN IncAfter(b) ELSE RestAfter(b)
Seller(b) == IF IncAfter(b).side = "Buy" THEN RestAfter(b) ELSE IncAfter(b)
TradePrice(b) == ExecPrice(Buyer(b), Seller(b))
FillOf(b, tid) == [trade_id |-> tid, buy_order_id |-> Buyer(b).order_id,
                   sell_order_id |-> Seller(b).order_id, price |-> TradePrice(b), quantity |-> MatchQty(b)]
ReportsOf(b) == <<TradeReport(Buyer(b), MatchQty(b), TradePrice(b)),
                  TradeReport(Seller(b), MatchQty(b), TradePrice(b))>>

\* The incoming order trades with an order of the other side whose price it
\* crosses, and neither trades more than it has left.
LEMMA PartiesOfTrade ==
  ASSUME NEW b, Good(b), b.incoming \in Order, CanMatch(b), NEW n, n = FrontNode(b)
  PROVE  /\ n \in DOMAIN b.heap /\ b.heap[n] \in Order /\ b.heap[n].remaining_quantity > 0
         /\ b.heap[n].side = Opposite(b.incoming.side)
         /\ b.heap[n].price = BestPrice(b.orders[Opposite(b.incoming.side)], Opposite(b.incoming.side))
         /\ Crosses(b.incoming, b.heap[n].price)
         /\ MatchQty(b) \in Quantity /\ MatchQty(b) > 0
         /\ IncAfter(b) \in Order /\ RestAfter(b) \in Order
         /\ IncAfter(b).remaining_quantity = b.incoming.remaining_quantity - MatchQty(b)
         /\ RestAfter(b).remaining_quantity = b.heap[n].remaining_quantity - MatchQty(b)
         /\ \A f \in {"order_id", "symbol", "side", "type", "price", "quantity", "timestamp", "client_id"} :
               IncAfter(b)[f] = b.incoming[f] /\ RestAfter(b)[f] = b.heap[n][f]
  <1> DEFINE s == Opposite(b.incoming.side)
             p == BestPrice(b.orders[s], s)
  <1>1. /\ s \in Side /\ p \in DOMAIN b.orders[s]
        /\ 1 \in 1..Len(b.orders[s][p]) /\ n = b.orders[s][p][1]
        /\ n \in DOMAIN b.heap /\ b.heap[n] \in Order
        /\ MatchQty(b) \in Quantity /\ MatchQty(b) > 0
        /\ b.incoming.remaining_quantity - MatchQty(b) \in Quantity
        /\ b.heap[n].remaining_quantity - MatchQty(b) \in Quantity
    BY FrontFacts
  <1>2. Crosses(b.incoming, p)
    BY DEF CanMatch
  <1>3. ListsLive(b.orders, b.heap)
    BY DEF Good, Struct
  <1> HIDE DEF s, p
  <1>4. b.heap[n].side = s /\ b.heap[n].price = p /\ b.heap[n].remaining_quantity > 0
    BY <1>1, <1>3, LiveAt
  <1> DEFINE qi == b.incoming.remaining_quantity - MatchQty(b)
             qr == b.heap[n].remaining_quantity - MatchQty(b)
  <1>5. IncAfter(b) = [b.incoming EXCEPT !.remaining_quantity = qi]
    BY DEF IncAfter
  <1>6. RestAfter(b) = [b.heap[n] EXCEPT !.remaining_quantity = qr]
    BY DEF RestAfter
  <1>7. qi \in Quantity /\ qr \in Quantity
    BY <1>1
  <1> HIDE DEF qi, qr
  <1>8. /\ IncAfter(b) \in Order /\ IncAfter(b).remaining_quantity = qi
        /\ \A f \in {"order_id", "symbol", "side", "type", "price", "quantity", "timestamp", "client_id"} :
              IncAfter(b)[f] = b.incoming[f]
    BY <1>5, <1>7 DEF Order
  <1>9. /\ RestAfter(b) \in Order /\ RestAfter(b).remaining_quantity = qr
        /\ \A f \in {"order_id", "symbol", "side", "type", "price", "quantity", "timestamp", "client_id"} :
              RestAfter(b)[f] = b.heap[n][f]
    BY <1>1, <1>6, <1>7 DEF Order
  <1> QED BY <1>1, <1>2, <1>4, <1>8, <1>9 DEF qi, qr, s, p

\* Buyer, seller, price and reports of a trade have their types.
LEMMA TradeTyped ==
  ASSUME NEW b, Good(b), b.incoming \in Order, CanMatch(b)
  PROVE  /\ Buyer(b) \in Order /\ Seller(b) \in Order /\ TradePrice(b) \in Price /\ TradePrice(b) \in Nat
         /\ TradeReport(Buyer(b), MatchQty(b), TradePrice(b)) \in ExecutionReport
         /\ TradeReport(Seller(b), MatchQty(b), TradePrice(b)) \in ExecutionReport
  <1>1. IncAfter(b) \in Order /\ RestAfter(b) \in Order /\ MatchQty(b) \in Quantity
    BY PartiesOfTrade
  <1>2. Buyer(b) \in Order /\ Seller(b) \in Order
    BY <1>1 DEF Buyer, Seller
  <1>3. TradePrice(b) \in Price /\ TradePrice(b) \in Nat
    BY <1>2, BoundsAssumption DEF TradePrice, ExecPrice, Order, Price
  <1> QED BY <1>1, <1>2, <1>3, ReportTyped DEF OrderStatus

\* One iteration of the matching loop, part by part.
LEMMA MatchShape ==
  ASSUME NEW b, Good(b), b.incoming \in Order, CanMatch(b), NEW tid \in Nat,
         NEW c, c = MatchOnce(b, tid), NEW n, n = FrontNode(b)
  PROVE  /\ c.incoming = IncAfter(b)
         /\ c.fills = Append(b.fills, FillOf(b, tid)) /\ c.reports = b.reports \o ReportsOf(b)
         /\ RestAfter(b).remaining_quantity = 0 =>
               c.heap = Drop(b.heap, n) /\ c.index = Drop(b.index, b.heap[n].order_id)
         /\ RestAfter(b).remaining_quantity # 0 =>
               c.heap = [b.heap EXCEPT ![n] = RestAfter(b)] /\ c.index = b.index
  <1> DEFINE m == matchOrders(b, tid)
             s == Opposite(b.incoming.side)
             p == BestPrice(b.orders[s], s)
  <1>1. /\ n \in DOMAIN b.heap /\ b.heap[n] \in Order /\ MatchQty(b) > 0 /\ MatchQty(b) \in Quantity
        /\ RestAfter(b)["order_id"] = b.heap[n]["order_id"]
    BY PartiesOfTrade
  <1>2. m = [b EXCEPT !.incoming = IncAfter(b), !.heap[n] = RestAfter(b),
                      !.fills = Append(@, FillOf(b, tid)), !.reports = @ \o ReportsOf(b)]
    <2>1. MatchQty(b) # 0
      BY <1>1, BoundsAssumption DEF Quantity
    <2> QED BY <2>1 DEF matchOrders, IncAfter, RestAfter, Buyer, Seller, TradePrice, FillOf, ReportsOf
  <1>3. BookTyped(b)
    BY DEF Good
  <1>4. /\ m.incoming = IncAfter(b) /\ m.heap = [b.heap EXCEPT ![n] = RestAfter(b)]
        /\ m.fills = Append(b.fills, FillOf(b, tid)) /\ m.reports = b.reports \o ReportsOf(b)
        /\ m.orders = b.orders /\ m.index = b.index
        /\ m = [orders |-> m.orders, heap |-> m.heap, index |-> m.index,
                incoming |-> m.incoming, fills |-> m.fills, reports |-> m.reports]
    BY <1>2, <1>3 DEF BookTyped
  <1>5. m.heap[n] = RestAfter(b)
    BY <1>1, <1>4
  <1>6. c = IF m.heap[n].remaining_quantity = 0 THEN PopFront(m, s, p) ELSE m
    BY DEF MatchOnce
  <1>7. Head(b.orders[s][p]) = n
    BY DEF FrontNode
  <1> HIDE DEF m, s, p
  <1>8. CASE RestAfter(b).remaining_quantity = 0
    <2>1. c = PopFront(m, s, p)
      BY <1>5, <1>6, <1>8
    <2> DEFINE X2 == Drop(m.index, m.heap[n].order_id)
               H2 == Drop(m.heap, n)
               t == SetLevel(m.orders[s], p, Tail(m.orders[s][p]))
    <2>2. c = [m EXCEPT !.index = X2, !.heap = H2, !.orders[s] = t]
      BY <1>4, <1>7, <2>1 DEF PopFront
    <2>3. X2 = Drop(b.index, b.heap[n].order_id)
      BY <1>1, <1>4, <1>5
    <2>4. H2 = Drop(b.heap, n)
      BY <1>1, <1>4 DEF Drop, Restrict
    <2> HIDE DEF X2, H2, t
    <2>5. c.index = X2 /\ c.heap = H2 /\ c.incoming = m.incoming /\ c.fills = m.fills /\ c.reports = m.reports
      BY <1>4, <2>2
    <2> QED BY <1>4, <1>8, <2>3, <2>4, <2>5
  <1>9. CASE RestAfter(b).remaining_quantity # 0
    BY <1>4, <1>5, <1>6, <1>9
  <1> QED BY <1>8, <1>9

\* An order comes to rest, part by part.
LEMMA RestShape ==
  ASSUME NEW b, Good(b), NEW o \in Order, o = b.incoming, NEW n, NEW c, c = Rest(b, n)
  PROVE  /\ c.heap = Put(b.heap, n, o) /\ c.fills = b.fills
         /\ c.index = Put(b.index, o.order_id, [side |-> o.side, price_level |-> o.price, position |-> n])
         /\ c.reports = IF o.remaining_quantity = o.quantity
                        THEN Append(b.reports, PlainReport(o, "New")) ELSE b.reports
  <1>1. BookTyped(b)
    BY DEF Good
  <1> DEFINE levels == b.orders[o.side]
             q == IF o.price \in DOMAIN levels THEN levels[o.price] ELSE <<>>
             L2 == Put(b.orders[o.side], o.price, Append(q, n))
             H2 == Put(b.heap, n, o)
             X2 == Put(b.index, o.order_id, [side |-> o.side, price_level |-> o.price, position |-> n])
             R2 == IF o.remaining_quantity = o.quantity
                   THEN Append(b.reports, PlainReport(o, "New")) ELSE b.reports
  <1>2. c = [b EXCEPT !.orders[o.side] = L2, !.heap = H2, !.index = X2, !.incoming = NoOrder, !.reports = R2]
    BY <1>1 DEF Rest, BookTyped
  <1> HIDE DEF L2, H2, X2, R2
  <1>3. c.heap = H2 /\ c.index = X2 /\ c.reports = R2 /\ c.fills = b.fills
    BY <1>1, <1>2 DEF BookTyped
  <1> QED BY <1>3 DEF H2, X2, R2

\* Which nodes there are after that: the new one and the old ones.
LEMMA RestHeap ==
  ASSUME NEW b, Good(b), NEW o \in Order, o = b.incoming, NEW n
  PROVE  /\ Rest(b, n).fills = b.fills
         /\ DOMAIN Rest(b, n).heap = DOMAIN b.heap \cup {n} /\ Rest(b, n).heap[n] = o
         /\ \A m \in DOMAIN b.heap \ {n} : Rest(b, n).heap[m] = b.heap[m]
  <1>1. BookTyped(b)
    BY DEF Good
  <1> DEFINE levels == b.orders[o.side]
             q == IF o.price \in DOMAIN levels THEN levels[o.price] ELSE <<>>
             L2 == Put(b.orders[o.side], o.price, Append(q, n))
             X2 == Put(b.index, o.order_id, [side |-> o.side, price_level |-> o.price, position |-> n])
             R2 == IF o.remaining_quantity = o.quantity
                   THEN Append(b.reports, PlainReport(o, "New")) ELSE b.reports
  <1>2. PICK c : c = Rest(b, n)
    OBVIOUS
  <1>3. c = [b EXCEPT !.orders[o.side] = L2, !.heap = Put(b.heap, n, o), !.index = X2,
                      !.incoming = NoOrder, !.reports = R2]
    BY <1>1, <1>2 DEF Rest, BookTyped
  <1> HIDE DEF L2, X2, R2
  <1>4. c.heap = Put(b.heap, n, o) /\ c.fills = b.fills
    BY <1>1, <1>3 DEF BookTyped
  <1> QED BY <1>2, <1>4 DEF Put

\* An order is erased through its index entry, part by part.
LEMMA EraseShape ==
  ASSUME NEW b, Good(b), NEW id \in DOMAIN b.index, NEW e, e = b.index[id]
  PROVE  /\ e.position \in DOMAIN b.heap /\ b.heap[e.position] \in Order
         /\ b.heap[e.position].order_id = id
         /\ EraseEntry(b, e).heap = Drop(b.heap, e.position) /\ EraseEntry(b, e).fills = b.fills
         /\ EraseEntry(b, e).reports = b.reports
  <1> DEFINE t == SetLevel(b.orders[e.side], e.price_level, Unlink(b.orders[e.side][e.price_level], e.position))
             H2 == Drop(b.heap, e.position)
             r == EraseEntry(b, e)
  <1>1. BookTyped(b) /\ Struct(b.orders, b.heap, b.index)
    BY DEF Good
  <1>2. /\ e.price_level \in DOMAIN b.orders[e.side] /\ e.position \in DOMAIN b.heap
        /\ b.heap[e.position].order_id = id
    BY <1>1 DEF Struct, EntriesValid
  <1>3. r = [b EXCEPT !.orders[e.side] = t, !.heap = H2]
    BY <1>1, <1>2 DEF EraseEntry, BookTyped
  <1> HIDE DEF t, H2, r
  <1>4. r.heap = H2 /\ r.fills = b.fills /\ r.reports = b.reports
    BY <1>1, <1>3 DEF BookTyped
  <1>5. b.heap[e.position] \in Order
    BY <1>1, <1>2 DEF Struct, ListsTyped, IsMap
  <1> QED BY <1>2, <1>4, <1>5 DEF H2, r

\* The report of a cancelled order.
CancelReport(b, id) ==
    [order_id |-> id, side |-> b.index[id].side, status |-> "Cancelled",
     price |-> b.index[id].price_level, quantity |-> 0,
     remaining_quantity |-> 0, last_qty |-> 0, last_px |-> 0,
     client_id |-> b.heap[b.index[id].position].client_id]

\* The order a modify sends through matching again.
ModifiedOrder(b, req) ==
    [b.heap[b.index[req.order_id].position] EXCEPT !.price = req.price, !.quantity = req.quantity,
        !.remaining_quantity = req.quantity, !.timestamp = req.timestamp]

\* cancelOrder, part by part.
LEMMA CancelShape ==
  ASSUME NEW b, Good(b), NEW id \in DOMAIN b.index, NEW c, c = CancelFound(b, id)
  PROVE  /\ c.heap = Drop(b.heap, b.index[id].position) /\ c.index = Drop(b.index, id)
         /\ c.fills = b.fills /\ c.reports = Append(b.reports, CancelReport(b, id))
         /\ c.incoming = b.incoming /\ c.orders = EraseEntry(b, b.index[id]).orders
  <1> DEFINE e == b.index[id]
             r == EraseEntry(b, e)
             X2 == Drop(b.index, id)
             rs == Append(b.reports, CancelReport(b, id))
  <1>1. BookTyped(r) /\ r.incoming = b.incoming /\ r.index = b.index
    BY EraseGood
  <1>2. r.heap = Drop(b.heap, e.position) /\ r.fills = b.fills /\ r.reports = b.reports
    BY EraseShape
  <1>3. c = [r EXCEPT !.index = Drop(@, id), !.reports = Append(@, CancelReport(b, id))]
    BY DEF CancelFound, CancelReport
  <1> HIDE DEF r
  <1>4. c = [r EXCEPT !.index = X2, !.reports = rs]
    BY <1>1, <1>2, <1>3 DEF BookTyped
  <1> HIDE DEF X2, rs
  <1>5. c.heap = r.heap /\ c.index = X2 /\ c.fills = r.fills /\ c.reports = rs /\ c.incoming = r.incoming
        /\ c.orders = r.orders
    BY <1>1, <1>4 DEF BookTyped
  <1> QED BY <1>1, <1>2, <1>5 DEF X2, rs, r

\* modifyOrder, part by part.
LEMMA ModifyShape ==
  ASSUME NEW b, Good(b), NEW req, req.order_id \in DOMAIN b.index, NEW c, c = ModifyFound(b, req)
  PROVE  /\ c.heap = Drop(b.heap, b.index[req.order_id].position) /\ c.index = Drop(b.index, req.order_id)
         /\ c.fills = b.fills /\ c.reports = b.reports /\ c.incoming = ModifiedOrder(b, req)
         /\ c.orders = EraseEntry(b, b.index[req.order_id]).orders
  <1> DEFINE id == req.order_id
             e == b.index[id]
             r == EraseEntry(b, e)
             X2 == Drop(b.index, id)
             inc == ModifiedOrder(b, req)
  <1>1. BookTyped(r) /\ r.index = b.index
    BY EraseGood
  <1>2. r.heap = Drop(b.heap, e.position) /\ r.fills = b.fills /\ r.reports = b.reports
    BY EraseShape
  <1>3. c = [r EXCEPT !.index = Drop(@, id), !.incoming = inc]
    BY DEF ModifyFound, ModifiedOrder
  <1> HIDE DEF r
  <1>4. c = [r EXCEPT !.index = X2, !.incoming = inc]
    BY <1>1, <1>3 DEF BookTyped
  <1> HIDE DEF X2, inc
  <1>5. c.heap = r.heap /\ c.index = X2 /\ c.fills = r.fills /\ c.reports = r.reports /\ c.incoming = inc
        /\ c.orders = r.orders
    BY <1>1, <1>4 DEF BookTyped
  <1> QED BY <1>2, <1>5 DEF X2, inc, r
=============================================================================
