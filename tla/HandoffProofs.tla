--------------------------- MODULE HandoffProofs ----------------------------
(***************************************************************************)
(* Proofs about the two components that hand work from one thread to       *)
(* another, for any number of threads and calls.                           *)
(*                                                                         *)
(* MpscQueue, through which other threads hand functors to a loop: the     *)
(* list keeps its shape, no freed memory is used, the destructor leaks     *)
(* nothing, and the queue implements MpscFifo.                             *)
(*                                                                         *)
(* Resolver, whose calls are tasks for the threads of a pool: one callback *)
(* per call, and addresses that never go back to an earlier lookup.        *)
(***************************************************************************)
EXTENDS MpscQueue, Resolver, SequenceTheorems, TLAPS

(* Every step of the producers and of the consumer keeps the variables in
   their types, provided the payload an exchange appends is an item. *)
LEMMA TypeStep == TypeOK /\ ListShape /\ [Next]_vars => TypeOK'
<1> SUFFICES ASSUME TypeOK, ListShape, [Next]_vars
             PROVE  TypeOK'
  BY Zenon
<1> USE MpscAssumption DEF TypeOK, heap, prod, cons, hist
<1>1. ASSUME NEW p \in Producer, NEW x \in Item, EnqueueNew(p, x)
      PROVE  TypeOK'
  BY <1>1 DEF EnqueueNew
<1>2. ASSUME NEW p \in Producer, EnqueueExchange(p)
      PROVE  TypeOK'
  <2>1. cpc # "dead"
    BY <1>2, Zenon DEF EnqueueExchange, ListShape, DestructorShape
  <2>2. data[node[p]] \in Item
    BY <1>2, <2>1, Zenon DEF EnqueueExchange, ListShape, PrivateShape
  <2> QED
    BY <1>2, <2>2 DEF EnqueueExchange
<1>3. ASSUME NEW p \in Producer, EnqueueLink(p)
      PROVE  TypeOK'
  BY <1>3, Zenon DEF EnqueueLink
<1>4. CASE DequeueEmpty
  BY <1>4, Zenon DEF DequeueEmpty
<1>5. CASE DequeueLoad
  BY <1>5, Zenon DEF DequeueLoad
<1>6. CASE DequeueTake
  <2>1. cnext \in Node /\ data[cnext] \in Item
    BY <1>6 DEF DequeueTake, ListShape, ConsumerShape, QueueShape, PayloadShape,
                InQueue, taken
  <2> QED
    BY <1>6, <2>1, Zenon DEF DequeueTake
<1>7. CASE DequeueAdvance
  BY <1>7, Zenon DEF DequeueAdvance, ListShape, ConsumerShape
<1>8. CASE DequeueFree
  BY <1>8, Zenon DEF DequeueFree
<1>9. CASE Destroy
  BY <1>9, Zenon DEF Destroy
<1>10. CASE DestroyFront
  BY <1>10, Zenon DEF DestroyFront
<1>11. CASE UNCHANGED vars
  BY <1>11, Zenon DEF vars
<1> QED
  BY <1>1, <1>2, <1>3, <1>4, <1>5, <1>6, <1>7, <1>8, <1>9, <1>10, <1>11, Zenon
  DEF Next, Enqueue, Dequeue

(* new BufferNode: the new node is private, and no pointer leads to it. *)
LEMMA NewKeepsShape ==
  ASSUME TypeOK, ListShape, NEW p \in Producer, NEW x \in Item, EnqueueNew(p, x)
  PROVE  ListShape'
<1> USE MpscAssumption DEF TypeOK, heap, prod, cons, hist
<1>1. PICK n \in Node \ alive :
        /\ alive' = alive \cup {n}
        /\ next' = [next EXCEPT ![n] = NULL]
        /\ data' = [data EXCEPT ![n] = x]
        /\ node' = [node EXCEPT ![p] = n]
  BY Zenon DEF EnqueueNew
<1>2. /\ ppc[p] = "idle" /\ ppc' = [ppc EXCEPT ![p] = "exchange"]
      /\ ~dtor
      /\ UNCHANGED <<head, tail, prevhead, cons, hist>>
  BY Zenon DEF EnqueueNew
<1>3. DestructorShape' /\ cpc # "dead" /\ cpc # "deleteFront"
  BY <1>2, Zenon DEF ListShape, DestructorShape
<1>4. Private' = Private \cup {n} /\ n \notin Private
  BY <1>1, <1>2, <1>3 DEF Private, ListShape, PrivateShape
<1>5. InQueue' = InQueue /\ n \notin InQueue
  BY <1>1, <1>2, <1>3, <1>4, Zenon DEF InQueue, ListShape, ConsumerShape
<1>6. Pending' = Pending /\ taken' = taken /\ \A q \in Pending : node'[q] = node[q]
  BY <1>1, <1>2, Zenon DEF Pending, taken
<1>7. PrivateShape'
  BY <1>1, <1>2, <1>3, ZenonT(30) DEF ListShape, PrivateShape
<1>8. QueueShape'
  BY <1>1, <1>2, <1>3, <1>5, <1>6 DEF ListShape, QueueShape, InQueue
<1>9. PayloadShape'
  BY <1>1, <1>2, <1>3, <1>5, <1>6 DEF ListShape, PayloadShape, ConsumerShape, InQueue
<1>10. PendingShape'
  BY <1>1, <1>2, <1>3, <1>5, <1>6, SMTT(30) DEF ListShape, PendingShape, InQueue
<1>11. ConsumerShape'
  BY <1>1, <1>2, <1>3, <1>4, <1>5 DEF ListShape, ConsumerShape, QueueShape, InQueue
<1> QED
  BY <1>3, <1>7, <1>8, <1>9, <1>10, <1>11, Zenon DEF ListShape

(* head_.exchange: the private node becomes the last place of the queue, and
   its producer now stands between the exchange and the store. *)
LEMMA ExchangeKeepsShape ==
  ASSUME TypeOK, ListShape, NEW p \in Producer, EnqueueExchange(p)
  PROVE  ListShape'
<1> USE MpscAssumption DEF TypeOK, heap, prod, cons, hist
<1>1. /\ ppc[p] = "exchange" /\ ppc' = [ppc EXCEPT ![p] = "link"]
      /\ prevhead' = [prevhead EXCEPT ![p] = head]
      /\ head' = node[p]
      /\ claimed' = Append(claimed, data[node[p]])
      /\ stamp' = [stamp EXCEPT ![node[p]] = Len(claimed) + 1]
      /\ UNCHANGED <<alive, next, data, tail, node, cpc, ctail, cnext, dtor>>
  BY Zenon DEF EnqueueExchange
<1>2. DestructorShape' /\ cpc # "dead" /\ cpc # "deleteFront"
  BY <1>1, Zenon DEF ListShape, DestructorShape
<1>3. node[p] \in alive /\ next[node[p]] = NULL /\ data[node[p]] \in Item
  BY <1>1, <1>2, Zenon DEF ListShape, PrivateShape
<1>4. /\ claimed' \in Seq(Item)
      /\ Len(claimed') = Len(claimed) + 1
      /\ claimed'[Len(claimed) + 1] = data[node[p]]
      /\ \A i \in 1..Len(claimed) : claimed'[i] = claimed[i]
  BY <1>1, <1>3
<1>5. Private' = Private \ {node[p]} /\ node[p] \in Private
  BY <1>1, <1>2 DEF Private, ListShape, PrivateShape
<1>6. InQueue' = InQueue \cup {node[p]} /\ node[p] \notin InQueue
  BY <1>1, <1>2, <1>3, <1>5 DEF InQueue, ListShape, ConsumerShape
<1>7. Pending' = Pending \cup {p} /\ p \notin Pending
  BY <1>1, Zenon DEF Pending
<1>8. \A m \in InQueue : stamp'[m] = stamp[m]
  BY <1>1, <1>6, Zenon DEF InQueue
<1>9. stamp'[node[p]] = Len(claimed) + 1 /\ head \in InQueue /\ tail \in InQueue
      /\ stamp[head] = Len(claimed) /\ Len(claimed) \in Nat
  BY <1>1, <1>2 DEF ListShape, QueueShape
<1>10. taken' = taken /\ taken \in Nat /\ taken <= Len(claimed)
  <2>1. stamp'[tail] = stamp[tail] /\ stamp[tail] <= Len(claimed)
    BY <1>2, <1>8, <1>9 DEF ListShape, QueueShape
  <2>2. CASE cpc = "advance"
    <3>1. cnext \in InQueue /\ stamp[cnext] = stamp[tail] + 1 /\ stamp[cnext] <= Len(claimed)
      BY <2>2, <1>2, <1>9 DEF ListShape, QueueShape, ConsumerShape
    <3> QED
      BY <2>1, <2>2, <3>1, <1>1 DEF taken
  <2>3. CASE cpc # "advance"
    BY <2>1, <2>3, <1>1, Zenon DEF taken
  <2> QED
    BY <2>2, <2>3, Zenon
<1>11. PrivateShape'
  BY <1>1, <1>2, Zenon DEF ListShape, PrivateShape
<1>12. QueueShape'
  <2>1. head' \in InQueue' /\ tail' \in InQueue' /\ stamp'[head'] = Len(claimed')
    BY <1>1, <1>4, <1>6, <1>9, Zenon
  <2>2. ASSUME NEW m \in InQueue'
        PROVE  /\ stamp'[m] \in stamp'[tail']..Len(claimed')
               /\ \A n \in InQueue' : stamp'[m] = stamp'[n] => m = n
    BY <1>1, <1>2, <1>4, <1>6, <1>8, <1>9 DEF ListShape, QueueShape
  <2>3. ASSUME NEW m \in InQueue'
        PROVE  next'[m] # NULL => next'[m] \in InQueue' /\ stamp'[next'[m]] = stamp'[m] + 1
    BY <1>1, <1>2, <1>3, <1>6, <1>8, SMTT(30) DEF ListShape, QueueShape
  <2>4. ASSUME NEW m \in InQueue', next'[m] = NULL
        PROVE  m = head' \/ \E q \in Pending' : prevhead'[q] = m
    <3>1. CASE m = node[p]
      BY <3>1, <1>1, Zenon
    <3>2. CASE m = head
      BY <3>2, <1>1, <1>7, Zenon
    <3>3. CASE m \in InQueue /\ m # head
      <4>1. PICK q \in Pending : prevhead[q] = m
        BY <3>3, <2>4, <1>1, <1>2, Zenon DEF ListShape, QueueShape
      <4>2. q \in Pending' /\ prevhead'[q] = m
        BY <4>1, <1>1, <1>7, Zenon DEF Pending
      <4> QED
        BY <4>2, Zenon
    <3> QED
      BY <3>1, <3>2, <3>3, <1>6, Zenon
  <2> QED
    BY <2>1, <2>2, <2>3, <2>4, Zenon DEF QueueShape
<1>13. PayloadShape'
  <2>1. ASSUME NEW m \in InQueue'
        PROVE  data'[m] = IF stamp'[m] > taken' THEN claimed'[stamp'[m]] ELSE NoData
    <3>1. CASE m = node[p]
      BY <3>1, <1>1, <1>4, <1>9, <1>10
    <3>2. CASE m \in InQueue
      BY <3>2, <1>1, <1>2, <1>4, <1>8, <1>10 DEF ListShape, QueueShape, PayloadShape
    <3> QED
      BY <3>1, <3>2, <1>6, Zenon
  <2> QED
    BY <2>1, <1>1, <1>2, Zenon DEF ListShape, PayloadShape
<1>14. PendingShape'
  <2> SUFFICES ASSUME NEW q \in Pending'
               PROVE  /\ prevhead'[q] \in InQueue'
                      /\ node'[q] \in InQueue'
                      /\ next'[prevhead'[q]] = NULL
                      /\ stamp'[node'[q]] = stamp'[prevhead'[q]] + 1
                      /\ \A r \in Pending' : node'[r] = node'[q] => r = q
    BY Zenon DEF PendingShape
  <2>1. CASE q = p
    <3>1. next[head] = NULL
      BY <1>2, <1>9 DEF ListShape, QueueShape
    <3>2. \A r \in Pending : node[r] # node[p]
      BY <1>2, <1>6, Zenon DEF ListShape, PendingShape
    <3> QED
      BY <2>1, <3>1, <3>2, <1>1, <1>6, <1>7, <1>8, <1>9, Zenon
  <2>2. CASE q \in Pending /\ q # p
    <3>1. /\ prevhead[q] \in InQueue /\ node[q] \in InQueue /\ next[prevhead[q]] = NULL
          /\ stamp[node[q]] = stamp[prevhead[q]] + 1
          /\ \A r \in Pending : node[r] = node[q] => r = q
      BY <2>2, <1>2, Zenon DEF ListShape, PendingShape
    <3>2. q \in Producer /\ prevhead'[q] = prevhead[q]
      BY <2>2, <1>1, Zenon DEF Pending
    <3> QED
      BY <3>1, <3>2, <1>1, <1>6, <1>7, <1>8, Zenon
  <2> QED
    BY <2>1, <2>2, <1>7, Zenon
<1>15. ConsumerShape'
  BY <1>1, <1>2, <1>5, Zenon DEF ListShape, ConsumerShape
<1> QED
  BY <1>2, <1>11, <1>12, <1>13, <1>14, <1>15, Zenon DEF ListShape

(* prevhead->next_.store: the gap this producer left is closed. *)
LEMMA LinkKeepsShape ==
  ASSUME TypeOK, ListShape, NEW p \in Producer, EnqueueLink(p)
  PROVE  ListShape'
<1> USE MpscAssumption DEF TypeOK, heap, prod, cons, hist
<1>1. /\ ppc[p] = "link" /\ ppc' = [ppc EXCEPT ![p] = "idle"]
      /\ next' = [next EXCEPT ![prevhead[p]] = node[p]]
      /\ UNCHANGED <<alive, data, head, tail, node, prevhead, cons, hist>>
  BY Zenon DEF EnqueueLink
<1>2. DestructorShape' /\ cpc # "dead" /\ cpc # "deleteFront"
  BY <1>1, Zenon DEF ListShape, DestructorShape
<1>3. Private' = Private /\ InQueue' = InQueue /\ taken' = taken
  BY <1>1, SMTT(30) DEF Private, InQueue, taken
<1>4. Pending' = Pending \ {p} /\ p \in Pending
  BY <1>1, Zenon DEF Pending
<1>5. /\ prevhead[p] \in InQueue /\ node[p] \in InQueue
      /\ next[prevhead[p]] = NULL
      /\ stamp[node[p]] = stamp[prevhead[p]] + 1
  BY <1>2, <1>4, Zenon DEF ListShape, PendingShape
<1>6. \A q \in Pending' : prevhead[q] # prevhead[p] /\ prevhead[q] \in InQueue
  BY <1>2, <1>4, <1>5 DEF ListShape, PendingShape, QueueShape
<1>7. PrivateShape'
  BY <1>1, <1>2, <1>3, <1>5, ZenonT(30) DEF ListShape, PrivateShape, InQueue, Private
<1>8. QueueShape'
  <2>1. ASSUME NEW m \in InQueue', next'[m] = NULL
        PROVE  m = head' \/ \E q \in Pending' : prevhead'[q] = m
    <3>1. m # prevhead[p] /\ next[m] = NULL /\ m \in InQueue
      BY <2>1, <1>1, <1>3, <1>5, Zenon DEF InQueue
    <3> QED
      BY <3>1, <1>1, <1>2, <1>4, Zenon DEF ListShape, QueueShape
  <2>2. ASSUME NEW m \in InQueue', next'[m] # NULL
        PROVE  next'[m] \in InQueue' /\ stamp'[next'[m]] = stamp'[m] + 1
    BY <2>2, <1>1, <1>2, <1>3, <1>5, Zenon DEF ListShape, QueueShape, InQueue
  <2>3. ASSUME NEW m \in InQueue'
        PROVE  /\ stamp'[m] \in stamp'[tail']..Len(claimed')
               /\ \A n \in InQueue' : stamp'[m] = stamp'[n] => m = n
    BY <1>1, <1>2, <1>3, Zenon DEF ListShape, QueueShape
  <2>4. head' \in InQueue' /\ tail' \in InQueue' /\ stamp'[head'] = Len(claimed')
    BY <1>1, <1>2, <1>3, Zenon DEF ListShape, QueueShape
  <2> QED
    BY <2>1, <2>2, <2>3, <2>4, Zenon DEF QueueShape
<1>9. PayloadShape'
  BY <1>1, <1>2, <1>3, Zenon DEF ListShape, PayloadShape
<1>10. PendingShape'
  BY <1>1, <1>2, <1>3, <1>4, <1>6, SMTT(30) DEF ListShape, PendingShape
<1>11. ConsumerShape'
  BY <1>1, <1>2, <1>3, <1>5, Zenon DEF ListShape, ConsumerShape
<1> QED
  BY <1>2, <1>7, <1>8, <1>9, <1>10, <1>11, Zenon DEF ListShape

(* dequeue's two loads change nothing that is shared. *)
LEMMA LoadKeepsShape ==
  ASSUME TypeOK, ListShape, DequeueEmpty \/ DequeueLoad
  PROVE  ListShape'
<1> USE MpscAssumption DEF TypeOK, heap, prod, cons, hist
<1>1. /\ UNCHANGED <<alive, next, data, head, tail, ppc, node, prevhead, dtor, claimed, stamp>>
      /\ cpc = "idle"
      /\ \/ cpc' = "idle"
         \/ cpc' = "deleteFront" /\ dtor /\ next[tail] = NULL
         \/ cpc' = "take" /\ next[tail] # NULL /\ ctail' = tail /\ cnext' = next[tail]
  BY Zenon DEF DequeueEmpty, DequeueLoad
<1>2. DestructorShape'
  BY <1>1, Zenon DEF ListShape, DestructorShape
<1>3. Private' = Private /\ Pending' = Pending /\ InQueue' = InQueue /\ taken' = taken
  BY <1>1, Zenon DEF Private, Pending, InQueue, taken
<1>4. PrivateShape' /\ QueueShape' /\ PendingShape'
  BY <1>1, <1>3 DEF ListShape, PrivateShape, QueueShape, PendingShape
<1>5. PayloadShape'
  BY <1>1, <1>3, Zenon DEF ListShape, PayloadShape
<1>6. ConsumerShape'
  BY <1>1, <1>3, Zenon DEF ListShape, ConsumerShape
<1> QED
  BY <1>2, <1>4, <1>5, <1>6, Zenon DEF ListShape

(* Moving the payload out of next: exactly the first place not taken. *)
LEMMA TakeKeepsShape ==
  ASSUME TypeOK, ListShape, DequeueTake
  PROVE  ListShape'
<1> USE MpscAssumption DEF TypeOK, heap, prod, cons, hist
<1>1. /\ UNCHANGED <<alive, next, head, tail, ppc, node, prevhead, ctail, cnext, dtor, claimed, stamp>>
      /\ cpc = "take" /\ cpc' = "advance"
      /\ data' = [data EXCEPT ![cnext] = NoData]
  BY Zenon DEF DequeueTake
<1>2. DestructorShape'
  BY <1>1, Zenon DEF ListShape, DestructorShape
<1>3. Private' = Private /\ Pending' = Pending /\ InQueue' = InQueue
  BY <1>1 DEF Private, Pending, InQueue
<1>4. cnext \in InQueue /\ stamp[cnext] = stamp[tail] + 1
  BY <1>1, Zenon DEF ListShape, QueueShape, ConsumerShape
<1>5. taken = stamp[tail] /\ taken' = stamp[tail] + 1 /\ stamp[tail] \in Nat
  BY <1>1, Zenon DEF taken
<1>6. PrivateShape'
  BY <1>1, <1>4, Zenon DEF ListShape, PrivateShape, InQueue, Private
<1>7. QueueShape' /\ PendingShape'
  BY <1>1, <1>3 DEF ListShape, QueueShape, PendingShape
<1>8. PayloadShape'
  <2>1. ASSUME NEW m \in InQueue'
        PROVE  data'[m] = IF stamp'[m] > taken' THEN claimed'[stamp'[m]] ELSE NoData
    <3>1. m \in InQueue /\ m \in Node /\ stamp[m] \in Nat
      BY <1>3, Zenon DEF InQueue
    <3>2. CASE m = cnext
      BY <3>1, <3>2, <1>1, <1>4, <1>5
    <3>3. CASE m # cnext
      <4>1. stamp[m] # stamp[tail] + 1
        BY <3>1, <3>3, <1>1, <1>4 DEF ListShape, QueueShape
      <4>2. data[m] = IF stamp[m] > taken THEN claimed[stamp[m]] ELSE NoData
        BY <3>1, <1>1, Zenon DEF ListShape, PayloadShape
      <4> QED
        BY <3>1, <3>3, <4>1, <4>2, <1>1, <1>5
    <3> QED
      BY <3>2, <3>3, Zenon
  <2> QED
    BY <2>1, <1>1 DEF ListShape, PayloadShape
<1>9. ConsumerShape'
  BY <1>1, <1>3, Zenon DEF ListShape, ConsumerShape
<1> QED
  BY <1>2, <1>6, <1>7, <1>8, <1>9, Zenon DEF ListShape

(* tail_.store(next): the old tail leaves the queue.  No producer still
   holds it as prevhead, because its next_ is already set. *)
LEMMA AdvanceKeepsShape ==
  ASSUME TypeOK, ListShape, DequeueAdvance
  PROVE  ListShape'
<1> USE MpscAssumption DEF TypeOK, heap, prod, cons, hist
<1>1. /\ UNCHANGED <<alive, next, data, head, ppc, node, prevhead, ctail, cnext, dtor, claimed, stamp>>
      /\ cpc = "advance" /\ cpc' = "free" /\ tail' = cnext
  BY Zenon DEF DequeueAdvance
<1>2. DestructorShape'
  BY <1>1, Zenon DEF ListShape, DestructorShape
<1>3. Private' = Private /\ Pending' = Pending
  BY <1>1 DEF Private, Pending
<1>4. /\ ctail = tail /\ cnext = next[tail] /\ cnext # NULL
      /\ tail \in InQueue /\ cnext \in InQueue /\ stamp[cnext] = stamp[tail] + 1
      /\ stamp[cnext] <= Len(claimed) /\ stamp[head] = Len(claimed) /\ head \in InQueue
  BY <1>1 DEF ListShape, QueueShape, ConsumerShape
<1>5. InQueue' = InQueue \ {tail} /\ InQueue \subseteq Node
  BY <1>1, <1>3, <1>4, Zenon DEF InQueue
<1>6. taken = stamp[tail] + 1 /\ taken' = stamp[tail] + 1
  BY <1>1, <1>4, Zenon DEF taken
<1>7. \A m \in InQueue' : stamp[m] >= stamp[cnext] /\ stamp[m] <= Len(claimed)
  BY <1>1, <1>4, <1>5 DEF ListShape, QueueShape
<1>8. PrivateShape'
  BY <1>1, <1>3, Zenon DEF ListShape, PrivateShape
<1>9. QueueShape'
  <2>1. head' \in InQueue' /\ tail' \in InQueue' /\ stamp'[head'] = Len(claimed')
    BY <1>1, <1>4, <1>5
  <2>2. ASSUME NEW m \in InQueue'
        PROVE  /\ stamp'[m] \in stamp'[tail']..Len(claimed')
               /\ \A n \in InQueue' : stamp'[m] = stamp'[n] => m = n
    BY <1>1, <1>4, <1>5, <1>7 DEF ListShape, QueueShape
  <2>3. ASSUME NEW m \in InQueue', next'[m] # NULL
        PROVE  next'[m] \in InQueue' /\ stamp'[next'[m]] = stamp'[m] + 1
    BY <2>3, <1>1, <1>4, <1>5, <1>7 DEF ListShape, QueueShape
  <2>4. ASSUME NEW m \in InQueue', next'[m] = NULL
        PROVE  m = head' \/ \E q \in Pending' : prevhead'[q] = m
    BY <2>4, <1>1, <1>3, <1>5, Zenon DEF ListShape, QueueShape
  <2> QED
    BY <2>1, <2>2, <2>3, <2>4, Zenon DEF QueueShape
<1>10. PayloadShape'
  <2>1. data[tail] = NoData
    BY <1>1, <1>4, <1>6 DEF ListShape, PayloadShape
  <2> QED
    BY <2>1, <1>1, <1>4, <1>5, <1>6, Zenon DEF ListShape, PayloadShape
<1>11. PendingShape'
  <2>1. ASSUME NEW q \in Pending
        PROVE  prevhead[q] # tail /\ node[q] # tail
    BY <1>1, <1>4, <1>5 DEF ListShape, PendingShape, QueueShape
  <2> QED
    BY <2>1, <1>1, <1>3, <1>5, Zenon DEF ListShape, PendingShape
<1>12. ConsumerShape'
  BY <1>1, <1>3, <1>4 DEF InQueue, ConsumerShape
<1> QED
  BY <1>2, <1>8, <1>9, <1>10, <1>11, <1>12, Zenon DEF ListShape

(* delete tail: only a node outside the queue is freed. *)
LEMMA FreeKeepsShape ==
  ASSUME TypeOK, ListShape, DequeueFree
  PROVE  ListShape'
<1> USE MpscAssumption DEF TypeOK, heap, prod, cons, hist
<1>1. /\ UNCHANGED <<next, data, head, tail, ppc, node, prevhead, ctail, cnext, dtor, claimed, stamp>>
      /\ cpc = "free" /\ cpc' = "idle" /\ alive' = alive \ {ctail}
  BY Zenon DEF DequeueFree
<1>2. DestructorShape'
  BY <1>1, Zenon DEF ListShape, DestructorShape
<1>3. Private' = Private /\ Pending' = Pending /\ taken' = taken
  BY <1>1 DEF Private, Pending, taken
<1>4. ctail \in alive /\ ctail \notin Private /\ InQueue' = InQueue
  BY <1>1, <1>3, Zenon DEF InQueue, ListShape, ConsumerShape
<1>5. PrivateShape'
  BY <1>1, <1>3, <1>4, Zenon DEF ListShape, PrivateShape, Private
<1>6. QueueShape' /\ PendingShape'
  BY <1>1, <1>3, <1>4 DEF ListShape, QueueShape, PendingShape
<1>7. PayloadShape'
  BY <1>1, <1>3, <1>4, Zenon DEF ListShape, PayloadShape
<1>8. ConsumerShape'
  BY <1>1, Zenon DEF ConsumerShape
<1> QED
  BY <1>2, <1>5, <1>6, <1>7, <1>8, Zenon DEF ListShape

(* Beginning the destructor changes only dtor. *)
LEMMA DestroyKeepsShape ==
  ASSUME TypeOK, ListShape, Destroy
  PROVE  ListShape'
<1>1. Private' = Private /\ Pending' = Pending /\ InQueue' = InQueue /\ taken' = taken
  BY Zenon DEF Destroy, heap, prod, hist, Private, Pending, InQueue, taken
<1>2. DestructorShape'
  BY Zenon DEF Destroy, prod, DestructorShape
<1>3. PrivateShape' /\ QueueShape' /\ PayloadShape' /\ PendingShape' /\ ConsumerShape'
  BY <1>1 DEF Destroy, heap, prod, hist, ListShape,
              PrivateShape, QueueShape, PayloadShape, PendingShape, ConsumerShape
<1> QED
  BY <1>2, <1>3, Zenon DEF ListShape

(* The shape of the list is an inductive invariant. *)
LEMMA ShapeStep == TypeOK /\ ListShape /\ [Next]_vars => ListShape'
<1> SUFFICES ASSUME TypeOK, ListShape, [Next]_vars
             PROVE  ListShape'
  BY Zenon
<1>1. CASE DestroyFront
  BY <1>1, Zenon DEF DestroyFront, prod, ListShape, DestructorShape
<1>2. CASE UNCHANGED vars
  <2>1. Private' = Private /\ Pending' = Pending /\ InQueue' = InQueue /\ taken' = taken
    BY <1>2, Zenon DEF vars, heap, prod, cons, hist, Private, Pending, InQueue, taken
  <2> QED
    BY <1>2, <2>1 DEF vars, heap, prod, cons, hist, ListShape, DestructorShape,
                      PrivateShape, QueueShape, PayloadShape, PendingShape, ConsumerShape
<1> QED
  BY <1>1, <1>2, NewKeepsShape, ExchangeKeepsShape, LinkKeepsShape, LoadKeepsShape,
     TakeKeepsShape, AdvanceKeepsShape, FreeKeepsShape, DestroyKeepsShape, Zenon
  DEF Next, Enqueue, Dequeue

(* In every behaviour the variables keep their types and the list keeps its
   shape. *)
THEOREM ShapeInvariant == Spec => [](TypeOK /\ ListShape)
<1>1. Init => TypeOK /\ ListShape
  <2> SUFFICES ASSUME Init
               PROVE  TypeOK /\ ListShape
    BY Zenon
  <2> PICK dummy \in Node :
        /\ alive = {dummy} /\ head = dummy /\ tail = dummy /\ ctail = dummy
        /\ next = [n \in Node |-> NULL]
        /\ data = [n \in Node |-> NoData]
        /\ ppc = [p \in Producer |-> "idle"]
        /\ node = [p \in Producer |-> dummy]
        /\ prevhead = [p \in Producer |-> dummy]
        /\ cpc = "idle" /\ cnext = NULL /\ out = <<>> /\ dtor = FALSE
        /\ claimed = <<>>
        /\ stamp = [n \in Node |-> 0]
    BY Zenon DEF Init
  <2>1. TypeOK
    <3>1. claimed \in Seq(Item) /\ out \in {<<>>} \cup {<<x>> : x \in Item}
      OBVIOUS
    <3> QED
      BY <3>1, Zenon DEF TypeOK
  <2>2. Private = {} /\ Pending = {} /\ InQueue = {dummy} /\ taken = 0
    BY Zenon DEF Private, Pending, InQueue, taken
  <2>3. ListShape
    BY <2>2, MpscAssumption
    DEF ListShape, DestructorShape, PrivateShape, QueueShape, PayloadShape,
        PendingShape, ConsumerShape
  <2> QED
    BY <2>1, <2>3, Zenon
<1> QED
  BY <1>1, TypeStep, ShapeStep, PTL DEF Spec

(* No step of enqueue, dequeue or the destructor uses or frees memory that
   is not allocated, whatever the interleaving and however addresses are
   reused. *)
THEOREM MemorySafety == Spec => []MemorySafe
<1>1. TypeOK /\ ListShape => MemorySafe
  <2> SUFFICES ASSUME TypeOK, ListShape
               PROVE  MemorySafe
    BY Zenon
  <2> USE MpscAssumption DEF TypeOK
  <2>1. ASSUME NEW p \in Producer, ppc[p] = "exchange"
        PROVE  node[p] \in alive
    BY <2>1, Zenon DEF ListShape, DestructorShape, PrivateShape
  <2>2. ASSUME NEW p \in Pending
        PROVE  prevhead[p] \in alive
    BY Zenon DEF Pending, ListShape, DestructorShape, PendingShape, InQueue
  <2>3. cpc = "take" => cnext \in alive /\ data[cnext] # NoData
    <3> SUFFICES ASSUME cpc = "take"
                 PROVE  cnext \in alive /\ data[cnext] # NoData
      BY Zenon
    <3>1. /\ cnext \in InQueue /\ cnext \in Node /\ tail \in InQueue
          /\ stamp[cnext] = stamp[tail] + 1 /\ stamp[cnext] <= Len(claimed)
      BY DEF ListShape, QueueShape, ConsumerShape, InQueue
    <3>2. data[cnext] = claimed[stamp[cnext]]
      BY <3>1 DEF ListShape, PayloadShape, taken
    <3>3. stamp[cnext] \in 1..Len(claimed)
      BY <3>1
    <3>4. claimed[stamp[cnext]] \in Item
      BY <3>3
    <3> QED
      BY <3>1, <3>2, <3>4, Zenon DEF InQueue
  <2>4. /\ cpc = "idle" => tail \in alive
        /\ cpc = "free" => ctail \in alive /\ ctail # tail
        /\ cpc = "deleteFront" => head \in alive
    BY Zenon DEF ListShape, QueueShape, ConsumerShape, InQueue
  <2> QED
    BY <2>1, <2>2, <2>3, <2>4, Zenon DEF MemorySafe
<1> QED
  BY <1>1, ShapeInvariant, PTL

(* dequeue reports an empty queue only if nothing is queued, or if the very
   next place is claimed but its producer has not linked it yet. *)
THEOREM EmptyReports == Spec => []EmptyOnlyIfUnlinked
<1>1. TypeOK /\ ListShape => EmptyOnlyIfUnlinked
  <2> SUFFICES ASSUME TypeOK, ListShape, cpc = "idle", next[tail] = NULL
               PROVE  \/ taken = Len(claimed)
                      \/ \E p \in Pending : stamp[node[p]] = taken + 1
    BY Zenon DEF EmptyOnlyIfUnlinked
  <2>1. taken = stamp[tail]
    BY Zenon DEF taken
  <2>2. tail = head \/ \E p \in Pending : prevhead[p] = tail
    BY Zenon DEF ListShape, QueueShape
  <2> QED
    BY <2>1, <2>2 DEF ListShape, QueueShape, PendingShape
<1> QED
  BY <1>1, ShapeInvariant, PTL

(* After the destructor no node and no payload is still allocated. *)
THEOREM NothingLeaks == Spec => []NoLeak
<1>1. Init => NoLeak
  BY Zenon DEF Init, NoLeak
<1>2. TypeOK /\ ListShape /\ NoLeak /\ [Next]_vars => NoLeak'
  <2> SUFFICES ASSUME TypeOK, ListShape, NoLeak, [Next]_vars, cpc' = "dead"
               PROVE  alive' = {} /\ \A n \in Node : data'[n] = NoData
    BY Zenon DEF NoLeak
  <2> USE DEF TypeOK, heap, prod, cons, hist
  <2>1. CASE DestroyFront
    <3>1. /\ cpc = "deleteFront" /\ dtor /\ alive' = alive \ {head} /\ data' = data
          /\ next[tail] = NULL
      BY <2>1, Zenon DEF DestroyFront, ListShape, DestructorShape, ConsumerShape
    <3>2. Pending = {} /\ Private = {}
      BY <3>1, Zenon DEF ListShape, DestructorShape, Pending, Private
    <3>3. head \in InQueue /\ tail = head /\ stamp[head] = Len(claimed) /\ InQueue = alive
      BY <3>1, <3>2, SMTT(30) DEF ListShape, QueueShape, InQueue
    <3>4. \A m \in alive : m = head
      BY <3>1, <3>3 DEF ListShape, QueueShape
    <3>5. taken = stamp[head] /\ data[head] = NoData
      BY <3>1, <3>3 DEF ListShape, PayloadShape, taken
    <3>6. \A n \in Node : data[n] = NoData
      BY <3>1, <3>4, <3>5, Zenon DEF ListShape, PayloadShape
    <3> QED
      BY <3>1, <3>4, <3>6, Zenon
  <2>2. CASE cpc = "dead"
    <3>1. dtor /\ \A p \in Producer : ppc[p] = "idle"
      BY <2>2, Zenon DEF ListShape, DestructorShape
    <3>2. UNCHANGED <<alive, data>>
      BY <2>2, <3>1, Zenon DEF Next, Enqueue, Dequeue, EnqueueNew, EnqueueExchange, EnqueueLink,
                        DequeueEmpty, DequeueLoad, DequeueTake, DequeueAdvance, DequeueFree,
                        Destroy, DestroyFront, vars
    <3> QED
      BY <2>2, <3>2, Zenon DEF NoLeak
  <2>3. DestroyFront \/ cpc = "dead"
    BY Zenon DEF Next, Enqueue, Dequeue, EnqueueNew, EnqueueExchange, EnqueueLink,
           DequeueEmpty, DequeueLoad, DequeueTake, DequeueAdvance, DequeueFree,
           Destroy, vars
  <2> QED
    BY <2>1, <2>2, <2>3, Zenon
<1> QED
  BY <1>1, <1>2, ShapeInvariant, PTL DEF Spec

(* Steps of the queue seen through the refinement mapping, where linked are
   the places whose producer has finished and taken the items moved out. *)
LEMMA FifoStep ==
  TypeOK /\ ListShape /\ [Next]_vars => [Fifo!FifoNext]_(Fifo!fifoVars)
<1> SUFFICES ASSUME TypeOK, ListShape, [Next]_vars
             PROVE  Fifo!FifoNext \/ UNCHANGED <<claimed, linked, taken, out>>
  BY Zenon DEF Fifo!fifoVars
<1> USE MpscAssumption DEF TypeOK, heap, prod, cons, hist
<1>0. ASSUME NEW i
      PROVE  /\ i \in linked <=> i \in 1..Len(claimed) /\ \A q \in Pending : i # stamp[node[q]]
             /\ i \in linked' <=> i \in 1..Len(claimed') /\ \A q \in Pending' : i # stamp'[node'[q]]
  BY Zenon DEF linked
<1>1. ASSUME NEW p \in Producer, NEW x \in Item, EnqueueNew(p, x)
      PROVE  UNCHANGED <<claimed, linked, taken, out>>
  <2>1. Pending' = Pending /\ \A q \in Pending : node'[q] = node[q]
    BY <1>1, Zenon DEF EnqueueNew, Pending
  <2> QED
    BY <1>1, <2>1, SMTT(30) DEF EnqueueNew, linked, taken
<1>2. ASSUME NEW p \in Producer, EnqueueExchange(p)
      PROVE  \E x \in Item : Fifo!Claim(x)
  <2>1. cpc # "dead"
    BY <1>2, Zenon DEF EnqueueExchange, ListShape, DestructorShape
  <2>2. data[node[p]] \in Item /\ node[p] \in Private
    BY <1>2, <2>1, Zenon DEF EnqueueExchange, ListShape, PrivateShape, Private
  <2>3. Len(claimed') = Len(claimed) + 1 /\ Len(claimed) \in Nat
    BY <1>2, <2>2 DEF EnqueueExchange
  <2>4. Pending' = Pending \cup {p} /\ p \notin Pending
    BY <1>2, Zenon DEF EnqueueExchange, Pending
  <2>5. \A q \in Pending : stamp'[node'[q]] = stamp[node[q]]
    BY <1>2, <2>1, <2>2, Zenon DEF EnqueueExchange, ListShape, PendingShape, InQueue
  <2>6. stamp'[node'[p]] = Len(claimed) + 1
    BY <1>2, Zenon DEF EnqueueExchange
  <2>7. ASSUME NEW i
        PROVE  i \in linked' <=> i \in linked
    <3>1. i \in linked' => i # Len(claimed) + 1 /\ i \in 1..(Len(claimed) + 1)
      BY <1>0, <2>3, <2>4, <2>6, Zenon
    <3>2. i \in linked' => i \in linked
      <4>1. i \in linked' => \A q \in Pending : i # stamp[node[q]]
        <5> SUFFICES ASSUME i \in linked', NEW q \in Pending
                     PROVE  i # stamp[node[q]]
          BY Zenon
        <5>1. q \in Pending'
          BY <2>4, Zenon
        <5>2. i # stamp'[node'[q]]
          BY <1>0, <5>1, Zenon
        <5> QED
          BY <2>5, <5>2, Zenon
      <4>2. i \in linked' => i \in 1..Len(claimed)
        BY <2>3, <3>1
      <4> QED
        BY <1>0, <4>1, <4>2, Zenon
    <3>3. i \in linked => i \in linked'
      <4>1. i \in linked => i \in 1..Len(claimed) /\ \A q \in Pending : i # stamp[node[q]]
        BY <1>0, Zenon
      <4>2. i \in linked => i \in 1..Len(claimed') /\ i # Len(claimed) + 1
        BY <2>3, <4>1
      <4>3. i \in linked => \A q \in Pending' : i # stamp'[node'[q]]
        BY <2>4, <2>5, <2>6, <4>1, <4>2, Zenon
      <4> QED
        BY <1>0, <4>2, <4>3, Zenon
    <3> QED
      BY <3>2, <3>3, Zenon
  <2>8. linked' = linked
    BY <2>7, Zenon
  <2>9. tail \in InQueue /\ node[p] # tail
    BY <2>1, <2>2 DEF ListShape, QueueShape, InQueue
  <2>10. taken' = taken
    BY <1>2, <2>9, Zenon DEF EnqueueExchange, taken
  <2> QED
    BY <1>2, <2>2, <2>8, <2>10, Zenon DEF EnqueueExchange, Fifo!Claim
<1>3. ASSUME NEW p \in Producer, EnqueueLink(p)
      PROVE  \E i \in 1..Len(claimed) : Fifo!Publish(i)
  <2>1. cpc # "dead" /\ p \in Pending
    BY <1>3, Zenon DEF EnqueueLink, Pending, ListShape, DestructorShape
  <2>2. /\ node[p] \in InQueue /\ prevhead[p] \in InQueue
        /\ stamp[node[p]] = stamp[prevhead[p]] + 1 /\ stamp[node[p]] <= Len(claimed)
    BY <2>1 DEF ListShape, PendingShape, QueueShape
  <2>3. stamp[node[p]] \in 1..Len(claimed)
    BY <2>2 DEF InQueue
  <2>4. Pending' = Pending \ {p}
    BY <1>3, Zenon DEF EnqueueLink, Pending
  <2>5. \A q \in Pending' : stamp[node[q]] # stamp[node[p]]
    BY <2>1, <2>2, <2>4, SMTT(30) DEF ListShape, PendingShape, QueueShape
  <2>6. {stamp'[node'[q]] : q \in Pending'} = {stamp[node[q]] : q \in Pending} \ {stamp[node[p]]}
    BY <1>3, <2>1, <2>4, <2>5 DEF EnqueueLink
  <2>7. claimed' = claimed /\ taken' = taken /\ out' = out
    BY <1>3, Zenon DEF EnqueueLink, taken
  <2>8. linked' = linked \cup {stamp[node[p]]} /\ stamp[node[p]] \notin linked
    BY <2>1, <2>3, <2>6, <2>7, ZenonT(30) DEF linked
  <2>9. Fifo!Publish(stamp[node[p]])
    BY <2>3, <2>7, <2>8, Zenon DEF Fifo!Publish
  <2> QED
    BY <2>3, <2>9, Zenon
<1>4. CASE DequeueEmpty
  <2>1. UNCHANGED <<claimed, linked, taken>> /\ out' = <<>>
    BY <1>4 DEF DequeueEmpty, linked, taken, Pending
  <2>2. taken = stamp[tail] /\ stamp[tail] \in Nat
    BY <1>4, Zenon DEF DequeueEmpty, taken
  <2>3. tail = head \/ \E p \in Pending : prevhead[p] = tail
    BY <1>4, Zenon DEF DequeueEmpty, ListShape, QueueShape
  <2>4. CASE tail = head
    <3>1. taken = Len(claimed)
      BY <1>4, <2>2, <2>4, Zenon DEF DequeueEmpty, ListShape, QueueShape
    <3>2. taken + 1 \notin linked
      BY <1>0, <2>2, <3>1
    <3> QED
      BY <2>1, <3>2, Zenon DEF Fifo!FifoNext, Fifo!ReportEmpty, Fifo!Visible
  <2>5. ASSUME NEW p \in Pending, prevhead[p] = tail
        PROVE  Fifo!FifoNext
    <3>1. stamp[node[p]] = taken + 1
      BY <1>4, <2>2, <2>5, Zenon DEF DequeueEmpty, ListShape, PendingShape
    <3> QED
      BY <2>1, <3>1, Zenon DEF linked, Fifo!FifoNext, Fifo!ReportEmpty, Fifo!Visible
  <2> QED
    BY <2>3, <2>4, <2>5, Zenon
<1>5. CASE DequeueLoad
  BY <1>5, Zenon DEF DequeueLoad, linked, taken, Pending
<1>6. CASE DequeueTake
  <2>1. /\ UNCHANGED <<claimed, linked>>
        /\ taken = stamp[tail] /\ taken' = stamp[tail] + 1 /\ stamp[tail] \in Nat
    BY <1>6, SMTT(30) DEF DequeueTake, linked, taken, Pending
  <2>2. /\ cnext \in InQueue /\ cnext = next[tail] /\ cnext # NULL /\ tail \in InQueue
        /\ stamp[cnext] = stamp[tail] + 1 /\ stamp[cnext] <= Len(claimed)
    BY <1>6 DEF DequeueTake, ListShape, QueueShape, ConsumerShape
  <2>3. data[cnext] = claimed[taken + 1]
    BY <1>6, <2>1, <2>2, SMTT(30) DEF DequeueTake, ListShape, PayloadShape
  <2>4. ASSUME NEW p \in Pending
        PROVE  stamp[node[p]] # taken + 1
    <3>1. prevhead[p] \in InQueue /\ next[prevhead[p]] = NULL /\ stamp[node[p]] = stamp[prevhead[p]] + 1
      BY <1>6, Zenon DEF DequeueTake, ListShape, PendingShape
    <3>2. prevhead[p] # tail
      BY <2>2, <3>1, Zenon
    <3>3. stamp[prevhead[p]] # stamp[tail]
      BY <1>6, <2>2, <3>1, <3>2, Zenon DEF DequeueTake, ListShape, QueueShape
    <3>4. stamp[prevhead[p]] \in Nat
      BY <3>1, Zenon DEF InQueue
    <3> QED
      BY <2>1, <3>1, <3>3, <3>4
  <2>5. taken + 1 \in linked
    BY <2>1, <2>2, <2>4, SMTT(30) DEF linked
  <2> QED
    BY <1>6, <2>1, <2>3, <2>5, Zenon DEF DequeueTake, Fifo!FifoNext, Fifo!Take, Fifo!Visible
<1>7. CASE DequeueAdvance
  BY <1>7, SMTT(30) DEF DequeueAdvance, linked, taken, Pending, ListShape, ConsumerShape, QueueShape
<1>8. CASE DequeueFree \/ Destroy \/ DestroyFront \/ UNCHANGED vars
  BY <1>8 DEF DequeueFree, Destroy, DestroyFront, vars, linked, taken, Pending
<1> QED
  BY <1>1, <1>2, <1>3, <1>4, <1>5, <1>6, <1>7, <1>8, Zenon
  DEF Next, Enqueue, Dequeue, Fifo!FifoNext

(* The lock-free queue implements the abstract FIFO queue: what dequeue
   returns is what was enqueued, in exchange order, each item once. *)
THEOREM QueueImplementsFifo == Spec => ImplementsFifo
<1>1. Init => Fifo!FifoInit
  BY DEF Init, Fifo!FifoInit, linked, taken, Pending
<1> QED
  BY <1>1, FifoStep, ShapeInvariant, PTL DEF Spec, ImplementsFifo, Fifo!FifoSpec

-----------------------------------------------------------------------------
(* The arithmetic the counters and the addresses need. *)
LEMMA NatFacts ==
  /\ \A x \in Nat : x \in Int /\ x + 1 \in Nat /\ (x + 1) - 1 = x /\ x # x - 1 /\ x <= x /\ x <= x + 1
  /\ \A x \in Nat : (x - 1) + 1 = x
  /\ \A x, y \in Nat : x <= y => ~(y < x) /\ ~(x > y)
  /\ \A x, y, z \in Nat : x <= y /\ y <= z => x <= z
  OBVIOUS

LEMMA Shift == \A n : \A i, j \in 1..n : i + 1 = j + 1 => i = j
  OBVIOUS

LEMMA ExpiryKept == \A t \in Int, m \in Nat, k \in Nat : t + m > k + 1 => t + m > k
  OBVIOUS

(* The address of a cache entry just written. *)
LEMMA EntryAddr ==
  ASSUME NEW a, NEW t, NEW e, e = [addr |-> a, at |-> t]
  PROVE  e.addr = a
  BY Zenon

(* What the callback of a call writes. *)
LEMMA CallbackWrites ==
  ASSUME ResolverTypes, NEW c \in Callers, NEW h \in Hosts \cup {NoHost}, NEW a \in Nat, Callback(c, h, a)
  PROVE  /\ answers' \in [Callers -> Nat] /\ seen' \in [Callers -> [Hosts -> Nat]] /\ stale' \in BOOLEAN
         /\ answers'[c] = answers[c] + 1
         /\ \A d \in Callers : d # c => answers'[d] = answers[d]
<1>1. answers \in [Callers -> Nat] /\ seen \in [Callers -> [Hosts -> Nat]] /\ stale \in BOOLEAN
  BY Zenon DEF ResolverTypes
<1>2. /\ answers' \in [Callers -> Nat] /\ answers'[c] = answers[c] + 1
      /\ \A d \in Callers : d # c => answers'[d] = answers[d]
  BY <1>1, NatFacts, Zenon DEF Callback
<1>3. CASE h = NoHost \/ a = 0
  BY <1>1, <1>2, <1>3, Zenon DEF Callback
<1>4. CASE ~(h = NoHost \/ a = 0)
  <2>1. h \in Hosts
    BY <1>4, Zenon
  <2>2. seen' = [seen EXCEPT ![c][h] = a] /\ stale' \in BOOLEAN
    BY <1>4, Zenon DEF Callback
  <2>3. [seen[c] EXCEPT ![h] = a] \in [Hosts -> Nat]
    BY <1>1, <2>1, Zenon
  <2>4. seen' \in [Callers -> [Hosts -> Nat]]
    BY <1>1, <2>2, <2>3, Zenon
  <2> QED
    BY <1>2, <2>2, <2>4, Zenon
<1> QED
  BY <1>3, <1>4, Zenon

(* Taking the front task of the queue, and appending one. *)
LEMMA TakeTask ==
  ASSUME m_que \in Seq(Task), m_que # <<>>, m_que' = Tail(m_que)
  PROVE  /\ m_que' \in Seq(Task) /\ Head(m_que) \in Task /\ Head(m_que) = m_que[1]
         /\ 1 \in 1..Len(m_que)
         /\ \A i \in 1..Len(m_que') : i + 1 \in 1..Len(m_que) /\ i + 1 # 1 /\ m_que'[i] = m_que[i + 1]
  BY HeadTailProperties, LenProperties, EmptySeq

LEMMA AddTask ==
  ASSUME m_que \in Seq(Task), NEW t \in Task, m_que' = Append(m_que, t)
  PROVE  /\ m_que' \in Seq(Task)
         /\ \A i \in 1..Len(m_que') : \/ i \in 1..Len(m_que) /\ m_que'[i] = m_que[i]
                                      \/ i \notin 1..Len(m_que) /\ i = Len(m_que) + 1 /\ m_que'[i] = t
  BY AppendProperties, LenProperties

(* Every step keeps the variables in their types. *)
LEMMA ResolverTypeStep ==
  ASSUME ResolverTypes, [ResolverNext]_rvars
  PROVE  ResolverTypes'
<1>1. ASSUME NEW c \in Callers, runTask(c)
      PROVE  ResolverTypes'
  <2>1. [by |-> c, host |-> want[c]] \in Task
    BY Zenon DEF Task, ResolverTypes
  <2>2. m_que' \in Seq(Task)
    BY <1>1, <2>1, AddTask, Zenon DEF runTask, ResolverTypes
  <2>3. CASE UNCHANGED rpc
    BY <1>1, <2>2, <2>3, Zenon DEF runTask, ResolverTypes, Holds, LooksUp
  <2>4. ASSUME NEW w \in Workers, rpc[w] = "waits" /\ rpc' = [rpc EXCEPT ![w] = "lock"]
        PROVE  ResolverTypes'
    <3>1. \A v \in Workers : (Holds(v)' => Holds(v)) /\ (LooksUp(v)' => LooksUp(v))
      BY <2>4, Zenon DEF ResolverTypes, Holds, LooksUp
    <3> QED
      BY <1>1, <2>2, <2>4, <3>1, Zenon DEF runTask, ResolverTypes, WorkerPc
  <2> QED
    BY <1>1, <2>3, <2>4, Zenon DEF runTask
<1>2. ASSUME NEW c \in Callers, SyncReturns(c)
      PROVE  ResolverTypes'
  BY <1>2, Zenon DEF SyncReturns, ResolverTypes, Holds, LooksUp
<1>3. ASSUME NEW c \in Callers, syncTask(c)
      PROVE  ResolverTypes'
  <2>1. calls' \in [Callers -> Nat]
    BY <1>3, NatFacts, Zenon DEF syncTask, ResolverTypes
  <2> QED
    BY <1>3, <2>1, Zenon DEF syncTask, ResolverTypes, Holds, LooksUp
<1>4. ASSUME NEW c \in Callers, NEW h \in Hosts, resolve(c, h)
      PROVE  ResolverTypes'
  <2>1. calls' \in [Callers -> Nat]
    BY <1>4, NatFacts, Zenon DEF resolve, ResolverTypes
  <2>2. answers' \in [Callers -> Nat] /\ seen' \in [Callers -> [Hosts -> Nat]] /\ stale' \in BOOLEAN
    <3>1. CASE Fresh(h)
      <4>1. Callback(c, h, cache[h].addr) /\ cache[h].addr \in Nat
        BY <1>4, <3>1, Zenon DEF resolve, ResolverTypes
      <4> QED
        BY <4>1, CallbackWrites, Zenon
    <3>2. CASE ~Fresh(h)
      BY <1>4, <3>2, Zenon DEF resolve, ResolverTypes
    <3> QED
      BY <3>1, <3>2, Zenon
  <2>3. callPc' \in [Callers -> {"idle", "push", "get"}]
    BY <1>4, Zenon DEF resolve, ResolverTypes
  <2> QED
    BY <1>4, <2>1, <2>2, <2>3, Zenon DEF resolve, ResolverTypes, Holds, LooksUp
<1>5. ASSUME NEW w \in Workers, WorkerTop(w)
      PROVE  ResolverTypes'
  <2>1. \A v \in Workers : (Holds(v)' => Holds(v)) /\ (LooksUp(v)' => LooksUp(v))
    BY <1>5, Zenon DEF WorkerTop, ResolverTypes, Holds, LooksUp
  <2> QED
    BY <1>5, <2>1, Zenon DEF WorkerTop, ResolverTypes, WorkerPc
<1>6. ASSUME NEW w \in Workers, WorkerLock(w)
      PROVE  ResolverTypes'
  <2>1. CASE m_que # <<>>
    <3>1. /\ m_que' = Tail(m_que) /\ task' = [task EXCEPT ![w] = Head(m_que)]
          /\ rpc' = [rpc EXCEPT ![w] = "run"]
      BY <1>6, <2>1, Zenon DEF WorkerLock
    <3>2. m_que' \in Seq(Task) /\ Head(m_que) \in Task
      BY <2>1, <3>1, TakeTask, Zenon DEF ResolverTypes
    <3>3. \A v \in Workers : /\ v # w => (Holds(v)' => Holds(v)) /\ (LooksUp(v)' => LooksUp(v)) /\ task'[v] = task[v]
                             /\ ~LooksUp(w)' /\ task'[w] = Head(m_que)
      BY <3>1, Zenon DEF ResolverTypes, Holds, LooksUp
    <3>4. task' \in [Workers -> Task \cup {NoTask}] /\ rpc' \in [Workers -> WorkerPc]
      BY <3>1, <3>2, Zenon DEF ResolverTypes, WorkerPc
    <3>5. /\ \A v \in Workers : (Holds(v) \/ LooksUp(v))' => task'[v] \in Task
          /\ \A v \in Workers : LooksUp(v)' => task'[v].host \in Hosts
      BY <3>2, <3>3, Zenon DEF ResolverTypes
    <3> QED
      BY <1>6, <3>2, <3>4, <3>5, Zenon DEF WorkerLock, ResolverTypes
  <2>2. CASE m_que = <<>>
    <3>1. m_que' = m_que /\ task' = task
      BY <1>6, <2>2, Zenon DEF WorkerLock
    <3>2. rpc' = [rpc EXCEPT ![w] = "top"] \/ rpc' = [rpc EXCEPT ![w] = "tested"]
      BY <1>6, <2>2, Zenon DEF WorkerLock
    <3>3. \A v \in Workers : (Holds(v)' => Holds(v)) /\ (LooksUp(v)' => LooksUp(v))
      BY <3>2, Zenon DEF ResolverTypes, Holds, LooksUp
    <3>4. rpc' \in [Workers -> WorkerPc]
      BY <3>2, Zenon DEF ResolverTypes, WorkerPc
    <3> QED
      BY <1>6, <3>1, <3>3, <3>4, Zenon DEF WorkerLock, ResolverTypes
  <2> QED
    BY <2>1, <2>2, Zenon
<1>7. ASSUME NEW w \in Workers, WorkerWait(w)
      PROVE  ResolverTypes'
  <2>1. \A v \in Workers : (Holds(v)' => Holds(v)) /\ (LooksUp(v)' => LooksUp(v))
    BY <1>7, Zenon DEF WorkerWait, ResolverTypes, Holds, LooksUp
  <2> QED
    BY <1>7, <2>1, Zenon DEF WorkerWait, ResolverTypes, WorkerPc
<1>8. ASSUME NEW w \in Workers, WorkerRun(w)
      PROVE  ResolverTypes'
  <2>0. task[w] \in Task
    BY <1>8, Zenon DEF WorkerRun, ResolverTypes, Holds
  <2>1. task[w].by \in Callers /\ task[w].host \in Hosts \cup {NoHost}
    BY <2>0, Zenon DEF Task
  <2>2. CASE task[w].host = NoHost \/ Fresh(task[w].host)
    <3>1. PICK a \in Nat : Callback(task[w].by, task[w].host, a)
      BY <1>8, <2>1, <2>2, Zenon DEF WorkerRun, ResolverTypes
    <3>2. answers' \in [Callers -> Nat] /\ seen' \in [Callers -> [Hosts -> Nat]] /\ stale' \in BOOLEAN
      BY <2>1, <3>1, CallbackWrites, Zenon
    <3>3. rpc' = [rpc EXCEPT ![w] = "top"]
      BY <1>8, <2>2, Zenon DEF WorkerRun
    <3>4. \A v \in Workers : (Holds(v)' => Holds(v)) /\ (LooksUp(v)' => LooksUp(v))
      BY <3>3, Zenon DEF ResolverTypes, Holds, LooksUp
    <3> QED
      BY <1>8, <3>2, <3>3, <3>4, Zenon DEF WorkerRun, ResolverTypes, WorkerPc
  <2>3. CASE ~(task[w].host = NoHost \/ Fresh(task[w].host))
    <3>1. rpc' = [rpc EXCEPT ![w] = "lookup"] /\ UNCHANGED <<answers, seen, stale, task>>
      BY <1>8, <2>3, Zenon DEF WorkerRun
    <3>2. task[w].host \in Hosts
      BY <2>1, <2>3, Zenon
    <3>3. \A v \in Workers : v # w => (Holds(v)' => Holds(v)) /\ (LooksUp(v)' => LooksUp(v))
      BY <3>1, Zenon DEF ResolverTypes, Holds, LooksUp
    <3> QED
      BY <1>8, <2>0, <3>1, <3>2, <3>3, Zenon DEF WorkerRun, ResolverTypes, WorkerPc
  <2> QED
    BY <2>2, <2>3, Zenon
<1>9. ASSUME NEW w \in Workers, LookupFails(w) \/ LookupAnswers(w)
      PROVE  ResolverTypes'
  <2>1. task[w] \in Task /\ task[w].by \in Callers /\ task[w].host \in Hosts
    BY <1>9, Zenon DEF LookupFails, LookupAnswers, ResolverTypes, Holds, LooksUp, Task
  <2>2. PICK a \in Nat : Callback(task[w].by, task[w].host, a)
    BY <1>9, Zenon DEF LookupFails, LookupAnswers, ResolverTypes
  <2>3. answers' \in [Callers -> Nat] /\ seen' \in [Callers -> [Hosts -> Nat]] /\ stale' \in BOOLEAN
    BY <2>1, <2>2, CallbackWrites, Zenon
  <2>4. \E to \in {"top", "store"} : rpc' = [rpc EXCEPT ![w] = to]
    BY <1>9, Zenon DEF LookupFails, LookupAnswers
  <2>5. \A v \in Workers : v # w => (Holds(v)' => Holds(v)) /\ (LooksUp(v)' => LooksUp(v))
    BY <2>4, Zenon DEF ResolverTypes, Holds, LooksUp
  <2>6. rpc' \in [Workers -> WorkerPc] /\ task' = task
    BY <1>9, <2>4, Zenon DEF ResolverTypes, WorkerPc, LookupFails, LookupAnswers
  <2>7. /\ \A v \in Workers : (Holds(v) \/ LooksUp(v))' => task'[v] \in Task
        /\ \A v \in Workers : LooksUp(v)' => task'[v].host \in Hosts
    BY <2>1, <2>5, <2>6, Zenon DEF ResolverTypes
  <2> QED
    BY <1>9, <2>3, <2>6, <2>7, Zenon DEF LookupFails, LookupAnswers, ResolverTypes
<1>10. ASSUME NEW w \in Workers, LookupStores(w)
       PROVE  ResolverTypes'
  <2>1. task[w].host \in Hosts
    BY <1>10, Zenon DEF LookupStores, ResolverTypes, LooksUp
  <2>2. [addr |-> found[w], at |-> clock] \in [addr : Nat, at : Int]
    BY NatFacts, Zenon DEF ResolverTypes
  <2>3. cache' \in [Hosts -> [addr : Nat, at : Int]]
    BY <1>10, <2>1, <2>2, Zenon DEF LookupStores, ResolverTypes
  <2>4. \A v \in Workers : (Holds(v)' => Holds(v)) /\ (LooksUp(v)' => LooksUp(v))
    BY <1>10, Zenon DEF LookupStores, ResolverTypes, Holds, LooksUp
  <2> QED
    BY <1>10, <2>3, <2>4, Zenon DEF LookupStores, ResolverTypes, WorkerPc
<1>11. ASSUME NEW w \in Workers, getaddrinfo(w)
       PROVE  ResolverTypes'
  <2>1. task[w] \in Task /\ task[w].host \in Hosts
    BY <1>11, Zenon DEF getaddrinfo, ResolverTypes, LooksUp
  <2>2. found' \in [Workers -> Nat] /\ looked' \in [Hosts -> Nat]
    <3>1. looked[task[w].host] + 1 \in Nat
      BY <2>1, NatFacts, Zenon DEF ResolverTypes
    <3> QED
      BY <1>11, <2>1, <3>1, Zenon DEF getaddrinfo, ResolverTypes
  <2>3. \A v \in Workers : (Holds(v)' => Holds(v)) /\ (LooksUp(v)' => LooksUp(v))
    BY <1>11, Zenon DEF getaddrinfo, ResolverTypes, Holds, LooksUp
  <2> QED
    BY <1>11, <2>2, <2>3, Zenon DEF getaddrinfo, ResolverTypes, WorkerPc
<1>12. CASE StopNotify
  <2>1. rpc' \in [Workers -> WorkerPc]
    BY <1>12, Zenon DEF StopNotify, ResolverTypes, WorkerPc
  <2>2. \A v \in Workers : (Holds(v)' => Holds(v)) /\ (LooksUp(v)' => LooksUp(v))
    BY <1>12, Zenon DEF StopNotify, ResolverTypes, Holds, LooksUp
  <2> QED
    BY <1>12, <2>1, <2>2, Zenon DEF StopNotify, ResolverTypes
<1>13. CASE StopJoins \/ UNCHANGED rvars
  BY <1>13, Zenon DEF StopJoins, rvars, ResolverTypes, Holds, LooksUp
<1>14. CASE Tick
  <2>1. clock' \in Nat
    BY <1>14, NatFacts, Zenon DEF Tick, ResolverTypes
  <2> QED
    BY <1>14, <2>1, Zenon DEF Tick, ResolverTypes, Holds, LooksUp
<1> QED
  BY <1>1, <1>2, <1>3, <1>4, <1>5, <1>6, <1>7, <1>8, <1>9, <1>10, <1>11, <1>12, <1>13, <1>14, Zenon
  DEF ResolverNext, CallerStep, queueFunc
-----------------------------------------------------------------------------
LEMMA QueuedTasks ==
  ASSUME ResolverTypes
  PROVE  \A i \in 1..Len(m_que) : m_que[i] \in Task /\ m_que[i].by \in Callers
<1>1. \A i \in 1..Len(m_que) : m_que[i] \in Task
  BY ElementOfSeq, Zenon DEF ResolverTypes
<1> QED
  BY <1>1, Zenon DEF Task

(* Steps that neither queue, take nor answer a task. *)
LEMMA SameTasks ==
  ASSUME OneTask, AnsweredOnce, UNCHANGED <<m_que, task, callPc, calls, answers>>,
         \A v \in Workers : Holds(v)' => Holds(v)
  PROVE  OneTask' /\ AnsweredOnce'
<1>1. OneTask'
  BY Zenon DEF OneTask, Owed
<1>2. AnsweredOnce'
  BY Zenon DEF AnsweredOnce
<1> QED
  BY <1>1, <1>2, Zenon

(* A step of caller c, which has no task before, and no queued one after. *)
LEMMA CallerTasks ==
  ASSUME OneTask, NEW c \in Callers, ~Owed(c), UNCHANGED <<m_que, task, rpc>>,
         \A d \in Callers : d # c => callPc'[d] = callPc[d] /\ calls'[d] = calls[d] /\ answers'[d] = answers[d],
         ResolverTypes
  PROVE  OneTask'
<1>1. \A i \in 1..Len(m_que) : m_que[i] \in Task /\ m_que[i].by \in Callers
  BY QueuedTasks, Zenon
<1>2. \A w \in Workers : Holds(w) => task[w].by \in Callers
  BY Zenon DEF ResolverTypes, Task
<1>3. \A w \in Workers : Holds(w)' = Holds(w)
  BY Zenon DEF Holds
<1>4. \A d \in Callers : Owed(d) => Owed(d)'
  BY Zenon DEF Owed
<1> QED
  BY <1>1, <1>2, <1>3, <1>4, Zenon DEF OneTask

(* The callback of the task that worker w holds runs, and w holds none any more. *)
LEMMA TaskAnswered ==
  ASSUME ResolverTypes, OneTask, AnsweredOnce, NEW w \in Workers, Holds(w),
         NEW h \in Hosts \cup {NoHost}, NEW a \in Nat, Callback(task[w].by, h, a),
         UNCHANGED <<m_que, task, callPc, calls>>,
         \A v \in Workers : Holds(v)' => Holds(v) /\ v # w
  PROVE  OneTask' /\ AnsweredOnce'
<1>0. task[w].by \in Callers
  BY Zenon DEF ResolverTypes, Task
<1>1. /\ answers'[task[w].by] = answers[task[w].by] + 1
      /\ \A d \in Callers : d # task[w].by => answers'[d] = answers[d]
  BY <1>0, CallbackWrites, Zenon
<1>2. \A i \in 1..Len(m_que) : m_que[i] \in Task /\ m_que[i].by \in Callers
  BY QueuedTasks, Zenon
<1>3. \A v \in Workers : Holds(v) => task[v].by \in Callers
  BY Zenon DEF ResolverTypes, Task
<1>4. \A d \in Callers : d # task[w].by /\ Owed(d) => Owed(d)'
  BY <1>1, Zenon DEF Owed
<1>5. OneTask'
  BY <1>2, <1>3, <1>4, ZenonT(30) DEF OneTask
<1>6. answers'[task[w].by] = calls'[task[w].by] /\ callPc'[task[w].by] = "get"
  <2>1. Owed(task[w].by)
    BY Zenon DEF OneTask
  <2> QED
    <3>1. /\ calls[task[w].by] \in Nat /\ answers[task[w].by] = calls[task[w].by] - 1
          /\ callPc[task[w].by] = "get"
      BY <1>0, <2>1, Zenon DEF Owed, ResolverTypes
    <3>2. answers'[task[w].by] = calls[task[w].by]
      BY <1>1, <3>1, NatFacts, Zenon
    <3> QED
      BY <1>0, <3>1, <3>2, Zenon
<1>7. AnsweredOnce'
  BY <1>0, <1>1, <1>6, Zenon DEF AnsweredOnce
<1> QED
  BY <1>5, <1>7, Zenon

(* A caller's task is queued, moves to one worker, and is answered once. *)
LEMMA OneTaskStep ==
  ASSUME ResolverTypes, OneTask, AnsweredOnce, [ResolverNext]_rvars
  PROVE  OneTask' /\ AnsweredOnce'
<1>0. \A i \in 1..Len(m_que) : m_que[i] \in Task /\ m_que[i].by \in Callers
  BY QueuedTasks, Zenon
<1>1. ASSUME NEW c \in Callers, runTask(c)
      PROVE  OneTask' /\ AnsweredOnce'
  <2>1. \A v \in Workers : Holds(v)' => Holds(v)
    BY <1>1, Zenon DEF runTask, ResolverTypes, Holds
  <2>2. /\ callPc[c] = "push" /\ callPc' = [callPc EXCEPT ![c] = "get"] /\ UNCHANGED <<task, calls, answers>>
        /\ m_que' = Append(m_que, [by |-> c, host |-> want[c]])
    BY <1>1, Zenon DEF runTask
  <2>3. PICK t \in Task : t = [by |-> c, host |-> want[c]] /\ t.by = c
    <3>1. want[c] \in Hosts \cup {NoHost}
      BY Zenon DEF ResolverTypes
    <3>2. [by |-> c, host |-> want[c]] \in Task
      BY <3>1, Zenon DEF Task
    <3>3. [by |-> c, host |-> want[c]].by = c
      BY Zenon
    <3> QED
      BY <3>2, <3>3, Zenon
  <2>4. \A i \in 1..Len(m_que') : \/ i \in 1..Len(m_que) /\ m_que'[i] = m_que[i]
                                  \/ i \notin 1..Len(m_que) /\ i = Len(m_que) + 1 /\ m_que'[i] = t
    BY <2>2, <2>3, AddTask, Zenon DEF ResolverTypes
  <2>5. ~Owed(c) /\ Owed(c)' /\ \A d \in Callers : Owed(d) => Owed(d)'
    BY <2>2, Zenon DEF Owed, AnsweredOnce, ResolverTypes
  <2>6. \A v \in Workers : Holds(v) => task[v].by \in Callers /\ task[v].by # c
    BY <2>5, Zenon DEF ResolverTypes, Task, OneTask
  <2>7. \A i \in 1..Len(m_que) : m_que[i].by # c
    BY <2>5, ZenonT(30) DEF OneTask
  <2>8. OneTask'
    <3>1. ASSUME NEW i \in 1..Len(m_que'), NEW j \in 1..Len(m_que'), m_que'[i].by = m_que'[j].by
          PROVE  i = j
      <4>1. CASE i \in 1..Len(m_que) /\ j \in 1..Len(m_que)
        <5>1. m_que[i].by = m_que[j].by
          BY <2>4, <3>1, <4>1, Zenon
        <5> QED
          BY <4>1, <5>1, Zenon DEF OneTask
      <4>2. CASE i \in 1..Len(m_que) /\ j \notin 1..Len(m_que)
        <5>1. m_que[i].by = t.by
          BY <2>4, <3>1, <4>2, Zenon
        <5> QED
          BY <2>3, <2>7, <4>2, <5>1, Zenon
      <4>3. CASE i \notin 1..Len(m_que) /\ j \in 1..Len(m_que)
        <5>1. m_que[j].by = t.by
          BY <2>4, <3>1, <4>3, Zenon
        <5> QED
          BY <2>3, <2>7, <4>3, <5>1, Zenon
      <4>4. CASE i \notin 1..Len(m_que) /\ j \notin 1..Len(m_que)
        BY <2>4, <4>4, Zenon
      <4> QED
        BY <4>1, <4>2, <4>3, <4>4, Zenon
    <3>2. \A i \in 1..Len(m_que') : Owed(m_que[i].by)'
      BY <1>0, <2>4, <2>5, <2>3, Zenon DEF OneTask
    <3>3. ASSUME NEW w \in Workers, Holds(w)'
          PROVE  /\ Owed(task[w].by)'
                 /\ \A i \in 1..Len(m_que') : task'[w].by # m_que'[i].by
                 /\ \A v \in Workers : Holds(v)' /\ task'[v].by = task'[w].by => v = w
      <4>1. task' = task /\ Holds(w) /\ task[w].by \in Callers /\ task[w].by # c
        BY <2>1, <2>2, <2>6, <3>3, Zenon
      <4>2. Owed(task[w].by)'
        <5>1. Owed(task[w].by)
          BY <4>1, Zenon DEF OneTask
        <5> QED
          BY <2>5, <4>1, <5>1, Zenon
      <4>3. ASSUME NEW i \in 1..Len(m_que') PROVE task'[w].by # m_que'[i].by
        <5>1. CASE i \in 1..Len(m_que) /\ m_que'[i] = m_que[i]
          BY <4>1, <5>1, Zenon DEF OneTask
        <5>2. CASE m_que'[i] = t
          BY <2>3, <4>1, <5>2, Zenon
        <5> QED
          BY <2>4, <5>1, <5>2, Zenon
      <4>4. \A v \in Workers : Holds(v)' /\ task'[v].by = task'[w].by => v = w
        BY <2>1, <4>1, Zenon DEF OneTask
      <4> QED
        BY <4>2, <4>3, <4>4, Zenon
    <3> QED
      BY <3>1, <3>2, <3>3, Zenon DEF OneTask
  <2>9. AnsweredOnce'
    BY <2>2, Zenon DEF AnsweredOnce, ResolverTypes
  <2> QED
    BY <2>8, <2>9, Zenon
<1>2. ASSUME NEW c \in Callers, SyncReturns(c)
      PROVE  OneTask' /\ AnsweredOnce'
  <2>1. ~Owed(c)
    BY <1>2, NatFacts, Zenon DEF SyncReturns, Owed, ResolverTypes
  <2>2. \A d \in Callers : d # c => callPc'[d] = callPc[d] /\ calls'[d] = calls[d] /\ answers'[d] = answers[d]
    BY <1>2, Zenon DEF SyncReturns, ResolverTypes
  <2>3. OneTask'
    BY <1>2, <2>1, <2>2, CallerTasks, Zenon DEF SyncReturns
  <2>4. AnsweredOnce'
    <3>1. /\ callPc'[c] = "idle" /\ answers[c] = calls[c]
          /\ \A d \in Callers : d # c => callPc'[d] = callPc[d]
          /\ UNCHANGED <<answers, calls>>
      BY <1>2, Zenon DEF SyncReturns, ResolverTypes
    <3>2. ASSUME NEW d \in Callers
          PROVE  /\ answers'[d] \in {calls'[d] - 1, calls'[d]}
                 /\ callPc'[d] = "idle" => answers'[d] = calls'[d]
                 /\ callPc'[d] = "push" => answers'[d] = calls'[d] - 1
      <4>1. CASE d = c
        BY <3>1, <4>1, Zenon
      <4>2. CASE d # c
        BY <3>1, <4>2, Zenon DEF AnsweredOnce
      <4> QED
        BY <4>1, <4>2, Zenon
    <3> QED
      BY <3>2, Zenon DEF AnsweredOnce
  <2> QED
    BY <2>3, <2>4, Zenon
<1>3. ASSUME NEW c \in Callers, syncTask(c)
      PROVE  OneTask' /\ AnsweredOnce'
  <2>1. ~Owed(c)
    BY <1>3, Zenon DEF syncTask, Owed
  <2>2. \A d \in Callers : d # c => callPc'[d] = callPc[d] /\ calls'[d] = calls[d] /\ answers'[d] = answers[d]
    BY <1>3, Zenon DEF syncTask, ResolverTypes
  <2>3. OneTask'
    BY <1>3, <2>1, <2>2, CallerTasks, Zenon DEF syncTask
  <2>4. /\ answers[c] = calls[c] /\ calls'[c] = calls[c] + 1 /\ calls[c] \in Nat
        /\ answers' = answers /\ callPc'[c] = "push"
    BY <1>3, Zenon DEF syncTask, AnsweredOnce, ResolverTypes
  <2>5. answers'[c] = calls'[c] - 1
    BY <2>4, NatFacts, Zenon
  <2>6. AnsweredOnce'
    BY <2>2, <2>4, <2>5, Zenon DEF AnsweredOnce
  <2> QED
    BY <2>3, <2>6, Zenon
<1>4. ASSUME NEW c \in Callers, NEW h \in Hosts, resolve(c, h)
      PROVE  OneTask' /\ AnsweredOnce'
  <2>1. ~Owed(c) /\ answers[c] = calls[c] /\ calls'[c] = calls[c] + 1
    BY <1>4, Zenon DEF resolve, Owed, AnsweredOnce, ResolverTypes
  <2>2. /\ (callPc'[c] = "get" /\ answers'[c] = answers[c] + 1) \/ (callPc'[c] = "push" /\ answers'[c] = answers[c])
        /\ \A d \in Callers : d # c => answers'[d] = answers[d]
    <3>1. CASE Fresh(h)
      <4>1. Callback(c, h, cache[h].addr) /\ cache[h].addr \in Nat /\ callPc'[c] = "get"
        BY <1>4, <3>1, Zenon DEF resolve, ResolverTypes
      <4> QED
        BY <4>1, CallbackWrites, Zenon
    <3>2. CASE ~Fresh(h)
      BY <1>4, <3>2, Zenon DEF resolve, ResolverTypes
    <3> QED
      BY <3>1, <3>2, Zenon
  <2>3. \A d \in Callers : d # c => callPc'[d] = callPc[d] /\ calls'[d] = calls[d]
    BY <1>4, Zenon DEF resolve, ResolverTypes
  <2>4. OneTask'
    BY <1>4, <2>1, <2>2, <2>3, CallerTasks, Zenon DEF resolve
  <2>5. answers[c] \in Nat /\ calls[c] \in Nat
    BY ZenonT(30) DEF ResolverTypes
  <2>6. /\ answers'[c] \in {calls'[c] - 1, calls'[c]} /\ callPc'[c] # "idle"
        /\ callPc'[c] = "push" => answers'[c] = calls'[c] - 1
    BY <2>1, <2>2, <2>5, NatFacts, Zenon
  <2>7. AnsweredOnce'
    BY <2>2, <2>3, <2>6, Zenon DEF AnsweredOnce
  <2> QED
    BY <2>4, <2>7, Zenon
<1>5. ASSUME NEW w \in Workers, WorkerTop(w)
      PROVE  OneTask' /\ AnsweredOnce'
  <2>1. \A v \in Workers : Holds(v)' => Holds(v)
    BY <1>5, Zenon DEF WorkerTop, ResolverTypes, Holds
  <2> QED
    BY <1>5, <2>1, SameTasks, Zenon DEF WorkerTop
<1>6. ASSUME NEW w \in Workers, WorkerLock(w)
      PROVE  OneTask' /\ AnsweredOnce'
  <2>1. CASE m_que # <<>>
    <3>1. /\ m_que' = Tail(m_que) /\ task' = [task EXCEPT ![w] = Head(m_que)]
          /\ rpc' = [rpc EXCEPT ![w] = "run"] /\ UNCHANGED <<callPc, calls, answers>>
      BY <1>6, <2>1, Zenon DEF WorkerLock
    <3>2. /\ Head(m_que) = m_que[1] /\ 1 \in 1..Len(m_que)
          /\ \A i \in 1..Len(m_que') : i + 1 \in 1..Len(m_que) /\ i + 1 # 1 /\ m_que'[i] = m_que[i + 1]
      BY <2>1, <3>1, TakeTask, ZenonT(30) DEF ResolverTypes
    <3>3. /\ \A v \in Workers : v # w => (Holds(v)' => Holds(v)) /\ task'[v] = task[v]
          /\ task'[w] = m_que[1]
      BY <3>1, <3>2, Zenon DEF ResolverTypes, Holds
    <3>4. \A d \in Callers : Owed(d)' = Owed(d)
      BY <3>1, Zenon DEF Owed
    <3>5. \A i, j \in 1..Len(m_que') : i + 1 = j + 1 => i = j
      BY Shift, Zenon
    <3>6. ASSUME NEW i \in 1..Len(m_que'), NEW j \in 1..Len(m_que'), m_que'[i].by = m_que'[j].by
          PROVE  i = j
      <4>a. PICK k \in 1..Len(m_que), l \in 1..Len(m_que) :
              k = i + 1 /\ l = j + 1 /\ m_que'[i] = m_que[k] /\ m_que'[j] = m_que[l]
        BY <3>2, Zenon
      <4>1. m_que[k].by = m_que[l].by
        BY <3>6, <4>a, Zenon
      <4>2. k = l
        BY <4>1, Zenon DEF OneTask
      <4> QED
        BY <3>5, <4>a, <4>2, Zenon
    <3>7. \A i \in 1..Len(m_que') : Owed(m_que[i].by)'
      BY <1>0, <3>2, <3>4, Zenon DEF OneTask
    <3>8. ASSUME NEW v \in Workers, Holds(v)'
          PROVE  /\ Owed(task[v].by)'
                 /\ \A i \in 1..Len(m_que') : task'[v].by # m_que'[i].by
                 /\ \A u \in Workers : Holds(u)' /\ task'[u].by = task'[v].by => u = v
      <4>1. CASE v = w
        <5>1. Owed(task[w].by)'
          BY <1>0, <3>2, <3>3, <3>4, Zenon DEF OneTask
        <5>2. \A i \in 1..Len(m_que') : task'[w].by # m_que'[i].by
          <6> SUFFICES ASSUME NEW i \in 1..Len(m_que') PROVE task'[w].by # m_que'[i].by
            BY Zenon
          <6>a. PICK k \in 1..Len(m_que) : k # 1 /\ m_que'[i] = m_que[k]
            BY <3>2, Zenon
          <6>1. m_que[1].by # m_que[k].by
            BY <3>2, <6>a, Zenon DEF OneTask
          <6> QED
            BY <3>3, <6>a, <6>1, Zenon
        <5>3. \A u \in Workers : u # w /\ Holds(u)' => task'[u].by # task'[w].by
          <6>1. \A u \in Workers : Holds(u) => task[u].by # m_que[1].by
            BY <3>2, Zenon DEF OneTask
          <6> QED
            BY <3>3, <6>1, Zenon
        <5> QED
          BY <4>1, <5>1, <5>2, <5>3, Zenon
      <4>2. CASE v # w
        <5>1. Holds(v) /\ task'[v] = task[v] /\ task[v].by \in Callers
          BY <3>3, <3>8, <4>2, Zenon DEF ResolverTypes, Task
        <5>2. Owed(task[v].by)' /\ \A i \in 1..Len(m_que) : task[v].by # m_que[i].by
          BY <3>4, <5>1, Zenon DEF OneTask
        <5>3. \A i \in 1..Len(m_que') : task'[v].by # m_que'[i].by
          BY <3>2, <5>1, <5>2, Zenon
        <5>4. \A u \in Workers : Holds(u)' /\ task'[u].by = task'[v].by => u = v
          BY <3>2, <3>3, <5>1, <5>2, ZenonT(30) DEF OneTask
        <5> QED
          BY <5>2, <5>3, <5>4, Zenon
      <4> QED
        BY <4>1, <4>2, Zenon
    <3>9. AnsweredOnce'
      BY <3>1, Zenon DEF AnsweredOnce
    <3> QED
      BY <3>6, <3>7, <3>8, <3>9, Zenon DEF OneTask
  <2>2. CASE m_que = <<>>
    <3>1. m_que' = m_que /\ task' = task /\ UNCHANGED <<callPc, calls, answers>>
      BY <1>6, <2>2, Zenon DEF WorkerLock
    <3>2. rpc' = [rpc EXCEPT ![w] = "top"] \/ rpc' = [rpc EXCEPT ![w] = "tested"]
      BY <1>6, <2>2, Zenon DEF WorkerLock
    <3>3. \A v \in Workers : Holds(v)' => Holds(v)
      BY <3>2, Zenon DEF ResolverTypes, Holds
    <3> QED
      BY <3>1, <3>3, SameTasks, Zenon
  <2> QED
    BY <2>1, <2>2, ZenonT(30)
<1>7. ASSUME NEW w \in Workers, WorkerWait(w) \/ LookupStores(w) \/ getaddrinfo(w)
      PROVE  OneTask' /\ AnsweredOnce'
  <2>1. \A v \in Workers : Holds(v)' => Holds(v)
    BY <1>7, Zenon DEF WorkerWait, LookupStores, getaddrinfo, ResolverTypes, Holds
  <2> QED
    BY <1>7, <2>1, SameTasks, Zenon DEF WorkerWait, LookupStores, getaddrinfo
<1>8. ASSUME NEW w \in Workers, WorkerRun(w)
      PROVE  OneTask' /\ AnsweredOnce'
  <2>1. Holds(w) /\ task[w].host \in Hosts \cup {NoHost}
    BY <1>8, Zenon DEF WorkerRun, ResolverTypes, Holds, Task
  <2>2. CASE task[w].host = NoHost \/ Fresh(task[w].host)
    <3>1. PICK a \in Nat : Callback(task[w].by, task[w].host, a)
      BY <1>8, <2>1, <2>2, Zenon DEF WorkerRun, ResolverTypes
    <3>2. \A v \in Workers : Holds(v)' => Holds(v) /\ v # w
      BY <1>8, <2>2, Zenon DEF WorkerRun, ResolverTypes, Holds
    <3> QED
      BY <1>8, <2>1, <3>1, <3>2, TaskAnswered, Zenon DEF WorkerRun
  <2>3. CASE ~(task[w].host = NoHost \/ Fresh(task[w].host))
    <3>1. rpc' = [rpc EXCEPT ![w] = "lookup"] /\ UNCHANGED answers
      BY <1>8, <2>3, Zenon DEF WorkerRun
    <3>2. \A v \in Workers : Holds(v)' => Holds(v)
      BY <2>1, <3>1, Zenon DEF ResolverTypes, Holds
    <3> QED
      BY <1>8, <3>1, <3>2, SameTasks, Zenon DEF WorkerRun
  <2> QED
    BY <2>2, <2>3, Zenon
<1>9. ASSUME NEW w \in Workers, LookupFails(w) \/ LookupAnswers(w)
      PROVE  OneTask' /\ AnsweredOnce'
  <2>1. Holds(w) /\ task[w].host \in Hosts \cup {NoHost}
    BY <1>9, Zenon DEF LookupFails, LookupAnswers, ResolverTypes, Holds, LooksUp
  <2>2. PICK a \in Nat : Callback(task[w].by, task[w].host, a)
    BY <1>9, Zenon DEF LookupFails, LookupAnswers, ResolverTypes
  <2>3. \A v \in Workers : Holds(v)' => Holds(v) /\ v # w
    BY <1>9, Zenon DEF LookupFails, LookupAnswers, ResolverTypes, Holds
  <2> QED
    BY <1>9, <2>1, <2>2, <2>3, TaskAnswered, Zenon DEF LookupFails, LookupAnswers
<1>10. CASE StopNotify
  <2>1. \A v \in Workers : Holds(v)' => Holds(v)
    BY <1>10, Zenon DEF StopNotify, ResolverTypes, Holds
  <2> QED
    BY <1>10, <2>1, SameTasks, Zenon DEF StopNotify
<1>11. CASE StopJoins \/ Tick \/ UNCHANGED rvars
  <2>1. UNCHANGED <<m_que, task, callPc, calls, answers, rpc>>
    BY <1>11, Zenon DEF StopJoins, Tick, rvars
  <2> QED
    BY <2>1, SameTasks, Zenon DEF Holds
<1> QED
  BY <1>1, <1>2, <1>3, <1>4, <1>5, <1>6, <1>7, <1>8, <1>9, <1>10, <1>11, Zenon
  DEF ResolverNext, CallerStep, queueFunc
-----------------------------------------------------------------------------
(* An address a of host h that no lookup has overtaken in anybody's eyes, and
   what the callback that gets it leaves in seen. *)
Newest(h, a) == h \in Hosts => a = 0 \/ (a <= looked[h] /\ \A d \in Callers : seen[d][h] <= a)

SeenBy(c, h, a) ==
  \A d \in Callers, g \in Hosts :
    seen'[d][g] = seen[d][g] \/ (d = c /\ g = h /\ a # 0 /\ seen'[d][g] = a)

(* What the callback shows a caller: the address of host h, which is none that
   is older than what anybody got before. *)
LEMMA CallbackShows ==
  ASSUME ResolverTypes, ~stale, NEW c \in Callers, NEW h \in Hosts \cup {NoHost}, NEW a \in Nat, Callback(c, h, a),
         Newest(h, a)
  PROVE  ~stale' /\ SeenBy(c, h, a)
<1>1. CASE h = NoHost \/ a = 0
  BY <1>1, Zenon DEF Callback, SeenBy
<1>2. CASE ~(h = NoHost \/ a = 0)
  <2>1. /\ h \in Hosts /\ seen' = [seen EXCEPT ![c][h] = a]
        /\ stale' = (stale \/ a < seen[c][h] \/ a > looked[h])
    BY <1>2, Zenon DEF Callback
  <2>2. seen \in [Callers -> [Hosts -> Nat]] /\ looked[h] \in Nat /\ seen[c][h] \in Nat
    BY <2>1, Zenon DEF ResolverTypes
  <2>3. a <= looked[h] /\ seen[c][h] <= a
    BY <1>2, <2>1, Zenon DEF Newest
  <2>4. ~stale'
    <3>1. ~(a < seen[c][h]) /\ ~(a > looked[h])
      BY <2>2, <2>3, NatFacts, Zenon
    <3> QED
      BY <2>1, <3>1, Zenon
  <2>5. \A d \in Callers, g \in Hosts :
          seen'[d][g] = seen[d][g] \/ (d = c /\ g = h /\ seen'[d][g] = a)
    <3>1. seen'[c] = [seen[c] EXCEPT ![h] = a] /\ seen[c] \in [Hosts -> Nat]
      BY <2>1, <2>2, Zenon
    <3>2. \A d \in Callers : d # c => seen'[d] = seen[d]
      BY <2>1, <2>2, Zenon
    <3>3. \A g \in Hosts : seen'[c][g] = seen[c][g] \/ (g = h /\ seen'[c][g] = a)
      BY <3>1, Zenon
    <3> QED
      BY <3>2, <3>3, Zenon
  <2> QED
    BY <1>2, <2>4, <2>5, Zenon DEF SeenBy
<1> QED
  BY <1>1, <1>2, Zenon

(* With one worker, a callback that comes from a usable entry or from the
   latest lookup leaves the order as it is. *)
LEMMA LatestAfterCallback ==
  ASSUME ResolverTypes, Latest, ~stale, NEW c \in Callers, NEW h \in Hosts \cup {NoHost}, NEW a \in Nat,
         Callback(c, h, a), UNCHANGED <<task, found, cache, clock, looked>>,
         h \in Hosts => a = 0 \/ (Fresh(h) /\ a = cache[h].addr) \/ (~Fresh(h) /\ a = looked[h]),
         \A w \in Workers : LooksUp(w)' =>
           /\ ~Fresh(task[w].host)
           /\ rpc'[w] # "lookup" => found[w] = looked[task[w].host]
  PROVE  Latest' /\ ~stale'
<1>1. Newest(h, a)
  <2> SUFFICES ASSUME h \in Hosts, a # 0
               PROVE  a <= looked[h] /\ \A d \in Callers : seen[d][h] <= a
    BY Zenon DEF Newest
  <2>2. CASE Fresh(h) /\ a = cache[h].addr
    BY <2>2, Zenon DEF Latest
  <2>3. CASE ~Fresh(h) /\ a = looked[h]
    <3>1. a <= a
      BY NatFacts, Zenon
    <3> QED
      BY <2>3, <3>1, Zenon DEF Latest
  <2> QED
    BY <2>2, <2>3, Zenon
<1>2. ~stale' /\ SeenBy(c, h, a)
  BY <1>1, CallbackShows, Zenon
<1>3. \A g \in Hosts : Fresh(g)' <=> Fresh(g)
  BY Zenon DEF Fresh
<1>4. ASSUME NEW g \in Hosts, NEW d \in Callers
      PROVE  seen'[d][g] <= looked[g] /\ (Fresh(g) => seen'[d][g] <= cache[g].addr)
  <2>1. CASE seen'[d][g] = seen[d][g]
    BY <1>4, <2>1, ZenonT(30) DEF Latest
  <2>2. CASE g = h /\ a # 0 /\ seen'[d][g] = a
    <3>1. a <= looked[h] /\ (Fresh(h) => a = cache[h].addr) /\ cache[h].addr \in Nat
      BY <1>1, <1>4, <2>2, Zenon DEF Newest, ResolverTypes
    <3>2. a <= a
      BY NatFacts, Zenon
    <3> QED
      BY <2>2, <3>1, <3>2, Zenon
  <2> QED
    BY <1>2, <1>4, <2>1, <2>2, Zenon DEF SeenBy
<1>5. \A w \in Workers : LooksUp(w)' =>
        /\ ~Fresh(task[w].host)'
        /\ rpc'[w] # "lookup" => found'[w] = looked'[task'[w].host]
  BY Zenon DEF Fresh
<1> QED
  BY <1>2, <1>3, <1>4, <1>5, ZenonT(30) DEF Latest

(* Steps that change neither the cache, the lookups nor what callers have seen. *)
LEMMA LatestSame ==
  ASSUME Latest, UNCHANGED <<cache, clock, looked, seen, found>>,
         \A w \in Workers : LooksUp(w)' =>
           /\ ~Fresh(task'[w].host)
           /\ rpc'[w] # "lookup" => found[w] = looked[task'[w].host]
  PROVE  Latest'
<1>1. \A g : Fresh(g)' <=> Fresh(g)
  BY Zenon DEF Fresh
<1>2. \A w \in Workers : LooksUp(w)' =>
        /\ ~Fresh(task[w].host)'
        /\ rpc'[w] # "lookup" => found'[w] = looked'[task'[w].host]
  BY Zenon DEF Fresh
<1> QED
  BY <1>1, <1>2, Zenon DEF Latest

(* With one worker, addresses come in the order of the lookups. *)
LEMMA LatestStep ==
  ASSUME OneThread, ResolverTypes, Latest, ~stale, [ResolverNext]_rvars
  PROVE  Latest' /\ ~stale'
<1>0. \A w \in Workers : LooksUp(w) =>
        ~Fresh(task[w].host) /\ (rpc[w] # "lookup" => found[w] = looked[task[w].host])
  BY Zenon DEF Latest
<1>1. ASSUME UNCHANGED <<cache, clock, looked, seen, stale, found>>,
             \A w \in Workers : LooksUp(w)' => LooksUp(w) /\ rpc'[w] = rpc[w] /\ task'[w] = task[w]
      PROVE  Latest' /\ ~stale'
  <2>1. \A w \in Workers : LooksUp(w)' =>
          /\ ~Fresh(task'[w].host)
          /\ rpc'[w] # "lookup" => found[w] = looked[task'[w].host]
    BY <1>0, <1>1, Zenon
  <2> QED
    BY <1>1, <2>1, LatestSame, Zenon
<1>2. ASSUME NEW c \in Callers, runTask(c)
      PROVE  Latest' /\ ~stale'
  <2>1. \A w \in Workers : LooksUp(w)' => LooksUp(w) /\ rpc'[w] = rpc[w]
    BY <1>2, Zenon DEF runTask, ResolverTypes, LooksUp
  <2> QED
    BY <1>1, <1>2, <2>1, Zenon DEF runTask
<1>3. ASSUME NEW c \in Callers, SyncReturns(c) \/ syncTask(c)
      PROVE  Latest' /\ ~stale'
  BY <1>1, <1>3, Zenon DEF SyncReturns, syncTask, LooksUp
<1>4. ASSUME NEW c \in Callers, NEW h \in Hosts, resolve(c, h)
      PROVE  Latest' /\ ~stale'
  <2>1. CASE Fresh(h)
    <3>1. Callback(c, h, cache[h].addr) /\ cache[h].addr \in Nat
      BY <1>4, <2>1, Zenon DEF resolve, ResolverTypes
    <3>2. UNCHANGED <<rpc, task, found, cache, clock, looked>>
      BY <1>4, Zenon DEF resolve
    <3>3. \A w \in Workers : LooksUp(w)' =>
            /\ ~Fresh(task[w].host)
            /\ rpc'[w] # "lookup" => found[w] = looked[task[w].host]
      BY <1>0, <3>2, Zenon DEF LooksUp
    <3> QED
      BY <2>1, <3>1, <3>2, <3>3, LatestAfterCallback, Zenon
  <2>2. CASE ~Fresh(h)
    BY <1>1, <1>4, <2>2, Zenon DEF resolve, LooksUp
  <2> QED
    BY <2>1, <2>2, Zenon
<1>5. ASSUME NEW w \in Workers, WorkerTop(w) \/ WorkerLock(w) \/ WorkerWait(w)
      PROVE  Latest' /\ ~stale'
  <2>1. rpc'[w] \in {"ended", "lock", "run", "top", "tested", "waits"}
    BY <1>5, Zenon DEF WorkerTop, WorkerLock, WorkerWait, ResolverTypes
  <2>2. \A v \in Workers : ~LooksUp(v)'
    BY <2>1, Zenon DEF OneThread, LooksUp
  <2> QED
    BY <1>1, <1>5, <2>2, Zenon DEF WorkerTop, WorkerLock, WorkerWait
<1>6. ASSUME NEW w \in Workers, WorkerRun(w)
      PROVE  Latest' /\ ~stale'
  <2>1. task[w].by \in Callers /\ task[w].host \in Hosts \cup {NoHost}
    BY <1>6, Zenon DEF WorkerRun, ResolverTypes, Holds, Task
  <2>2. UNCHANGED <<task, found, cache, clock, looked>>
    BY <1>6, Zenon DEF WorkerRun
  <2>3. CASE task[w].host = NoHost \/ Fresh(task[w].host)
    <3>1. PICK a \in Nat : /\ Callback(task[w].by, task[w].host, a)
                           /\ task[w].host # NoHost => a = cache[task[w].host].addr
      BY <1>6, <2>1, <2>3, Zenon DEF WorkerRun, ResolverTypes
    <3>2. rpc'[w] = "top"
      BY <1>6, <2>3, Zenon DEF WorkerRun, ResolverTypes
    <3>3. \A v \in Workers : ~LooksUp(v)'
      BY <3>2, Zenon DEF OneThread, LooksUp
    <3>4. task[w].host \in Hosts => Fresh(task[w].host) /\ a = cache[task[w].host].addr
      BY <2>3, <3>1, ResolverAssumption, Zenon
    <3> QED
      BY <2>1, <2>2, <3>1, <3>3, <3>4, LatestAfterCallback, Zenon
  <2>4. CASE ~(task[w].host = NoHost \/ Fresh(task[w].host))
    <3>1. rpc'[w] = "lookup" /\ UNCHANGED <<seen, stale>>
      BY <1>6, <2>4, Zenon DEF WorkerRun, ResolverTypes
    <3>2. \A v \in Workers : LooksUp(v)' =>
            /\ ~Fresh(task'[v].host)
            /\ rpc'[v] # "lookup" => found[v] = looked[task'[v].host]
      BY <2>2, <2>4, <3>1, Zenon DEF OneThread
    <3> QED
      BY <2>2, <3>1, <3>2, LatestSame, Zenon
  <2> QED
    BY <2>3, <2>4, Zenon
<1>7. ASSUME NEW w \in Workers, LookupFails(w) \/ LookupAnswers(w)
      PROVE  Latest' /\ ~stale'
  <2>1. task[w].by \in Callers /\ task[w].host \in Hosts /\ LooksUp(w)
    BY <1>7, Zenon DEF LookupFails, LookupAnswers, ResolverTypes, Holds, LooksUp, Task
  <2>2. UNCHANGED <<task, found, cache, clock, looked>>
    BY <1>7, Zenon DEF LookupFails, LookupAnswers
  <2>3. ~Fresh(task[w].host) /\ (LookupAnswers(w) => found[w] = looked[task[w].host])
    BY <1>0, <2>1, Zenon DEF LookupAnswers
  <2>4. PICK a \in Nat : /\ Callback(task[w].by, task[w].host, a)
                         /\ a = 0 \/ a = looked[task[w].host]
    BY <1>7, <2>3, Zenon DEF LookupFails, LookupAnswers, ResolverTypes
  <2>5. rpc'[w] = "top" \/ (rpc'[w] = "store" /\ LookupAnswers(w))
    BY <1>7, ZenonT(30) DEF LookupFails, LookupAnswers, ResolverTypes
  <2>6. \A v \in Workers : LooksUp(v)' =>
          /\ ~Fresh(task[v].host)
          /\ rpc'[v] # "lookup" => found[v] = looked[task[v].host]
    BY <2>3, <2>5, Zenon DEF OneThread, LooksUp
  <2> QED
    BY <2>1, <2>2, <2>3, <2>4, <2>6, LatestAfterCallback, Zenon
<1>8. ASSUME NEW w \in Workers, LookupStores(w)
      PROVE  Latest' /\ ~stale'
  <2>1. task[w].host \in Hosts /\ found[w] = looked[task[w].host] /\ LooksUp(w)
    BY <1>0, <1>8, Zenon DEF LookupStores, ResolverTypes, LooksUp
  <2>2. /\ cache'[task[w].host] = [addr |-> found[w], at |-> clock]
        /\ \A g \in Hosts : g # task[w].host => cache'[g] = cache[g]
        /\ UNCHANGED <<clock, looked, seen, stale>>
    BY <1>8, <2>1, Zenon DEF LookupStores, ResolverTypes
  <2>3. cache'[task[w].host].addr = looked[task[w].host]
    <3>a. PICK e : e = cache'[task[w].host]
      BY Zenon
    <3>b. e = [addr |-> found[w], at |-> clock]
      BY <2>2, <3>a, Zenon
    <3>1. e.addr = found[w]
      BY <3>b, EntryAddr, Zenon
    <3> QED
      BY <2>1, <3>a, <3>1, Zenon
  <2>4. \A v \in Workers : ~LooksUp(v)'
    <3>1. rpc'[w] = "top"
      BY <1>8, Zenon DEF LookupStores, ResolverTypes
    <3> QED
      BY <3>1, Zenon DEF OneThread, LooksUp
  <2>5. ASSUME NEW g \in Hosts
        PROVE  /\ cache'[g].addr <= looked[g]
               /\ \A c \in Callers : seen[c][g] <= looked[g] /\ (Fresh(g)' => seen[c][g] <= cache'[g].addr)
    <3>1. CASE g = task[w].host
      <4>1. looked[g] <= looked[g]
        BY NatFacts, Zenon DEF ResolverTypes
      <4> QED
        BY <2>3, <3>1, <4>1, Zenon DEF Latest
    <3>2. CASE g # task[w].host
      <4>1. Fresh(g)' <=> Fresh(g)
        BY <2>2, <3>2, Zenon DEF Fresh
      <4> QED
        BY <2>2, <3>2, <4>1, Zenon DEF Latest
    <3> QED
      BY <3>1, <3>2, Zenon
  <2> QED
    BY <2>2, <2>4, <2>5, Zenon DEF Latest
<1>9. ASSUME NEW w \in Workers, getaddrinfo(w)
      PROVE  Latest' /\ ~stale'
  <2>1. task[w].host \in Hosts /\ ~Fresh(task[w].host)
    BY <1>0, <1>9, Zenon DEF getaddrinfo, ResolverTypes, LooksUp
  <2>2. UNCHANGED <<cache, clock, seen, stale, task>>
    BY <1>9, Zenon DEF getaddrinfo
  <2>3. /\ \A g \in Hosts : looked[g] <= looked'[g]
        /\ found'[w] = looked'[task[w].host]
    <3>1. /\ found'[w] = looked[task[w].host] + 1 /\ looked'[task[w].host] = looked[task[w].host] + 1
          /\ \A g \in Hosts : g # task[w].host => looked'[g] = looked[g]
      BY <1>9, <2>1, Zenon DEF getaddrinfo, ResolverTypes
    <3>2. ASSUME NEW g \in Hosts PROVE looked[g] <= looked'[g]
      <4>1. looked[g] \in Nat /\ (looked'[g] = looked[g] \/ looked'[g] = looked[g] + 1)
        BY <3>1, Zenon DEF ResolverTypes
      <4> QED
        BY <4>1, NatFacts, Zenon
    <3> QED
      BY <3>1, <3>2, Zenon
  <2>4. \A v \in Workers : LooksUp(v)' =>
          /\ ~Fresh(task[v].host)'
          /\ rpc'[v] # "lookup" => found'[v] = looked'[task'[v].host]
    BY <2>1, <2>2, <2>3, Zenon DEF OneThread, Fresh
  <2>5. \A g \in Hosts : looked[g] \in Nat /\ looked'[g] \in Nat /\ cache[g].addr \in Nat
    BY <1>9, <2>1, NatFacts, Zenon DEF getaddrinfo, ResolverTypes
  <2>6. \A g \in Hosts : Fresh(g)' <=> Fresh(g)
    BY <2>2, Zenon DEF Fresh
  <2>7. \A g \in Hosts, c \in Callers : seen[c][g] \in Nat
    BY Zenon DEF ResolverTypes
  <2>8. \A g \in Hosts : /\ cache[g].addr <= looked'[g]
                         /\ \A c \in Callers : seen[c][g] <= looked'[g]
    <3> SUFFICES ASSUME NEW g \in Hosts
                 PROVE  /\ cache[g].addr <= looked'[g]
                        /\ \A c \in Callers : seen[c][g] <= looked'[g]
      BY Zenon
    <3>1. /\ cache[g].addr <= looked[g]
          /\ \A c \in Callers : seen[c][g] <= looked[g]
      BY Zenon DEF Latest
    <3>2. /\ looked[g] \in Nat /\ looked'[g] \in Nat /\ cache[g].addr \in Nat
          /\ looked[g] <= looked'[g]
          /\ \A c \in Callers : seen[c][g] \in Nat
      BY <2>3, <2>5, <2>7, Zenon
    <3>3. cache[g].addr <= looked'[g]
      BY <3>1, <3>2, NatFacts, Zenon
    <3>4. ASSUME NEW c \in Callers PROVE seen[c][g] <= looked'[g]
      <4>1. seen[c][g] <= looked[g] /\ seen[c][g] \in Nat
        BY <3>1, <3>2, Zenon
      <4> QED
        BY <4>1, <3>2, NatFacts, Zenon
    <3> QED
      BY <3>3, <3>4, Zenon
  <2> QED
    BY <2>2, <2>4, <2>6, <2>8, Zenon DEF Latest
<1>10. CASE StopNotify
  <2>1. \A v \in Workers : LooksUp(v)' => LooksUp(v) /\ rpc'[v] = rpc[v]
    BY <1>10, Zenon DEF StopNotify, ResolverTypes, LooksUp
  <2> QED
    BY <1>1, <1>10, <2>1, Zenon DEF StopNotify
<1>11. CASE StopJoins \/ UNCHANGED rvars
  BY <1>1, <1>11, Zenon DEF StopJoins, rvars, LooksUp
<1>12. CASE Tick
  <2>1. /\ clock' = clock + 1 /\ clock \in Nat
        /\ UNCHANGED <<rpc, task, found, cache, looked, seen, stale>>
    BY <1>12, Zenon DEF Tick, ResolverTypes
  <2>2. \A g \in Hosts : Fresh(g)' => Fresh(g)
    <3>1. \A g \in Hosts : cache[g].at \in Int
      BY Zenon DEF ResolverTypes
    <3> QED
      BY <2>1, <3>1, ResolverAssumption, ExpiryKept, Zenon DEF Fresh
  <2>3. \A v \in Workers : LooksUp(v)' =>
          /\ ~Fresh(task[v].host)'
          /\ rpc'[v] # "lookup" => found'[v] = looked'[task'[v].host]
    <3>1. \A v \in Workers : LooksUp(v)' => LooksUp(v) /\ task[v].host \in Hosts
      BY <2>1, Zenon DEF LooksUp, ResolverTypes
    <3>2. \A v \in Workers : LooksUp(v)' => ~Fresh(task[v].host)'
      BY <1>0, <2>1, <2>2, <3>1, Zenon DEF Fresh
    <3> QED
      BY <1>0, <2>1, <3>1, <3>2, Zenon
  <2> QED
    BY <2>1, <2>2, <2>3, Zenon DEF Latest
<1> QED
  BY <1>2, <1>3, <1>4, <1>5, <1>6, <1>7, <1>8, <1>9, <1>10, <1>11, <1>12, Zenon
  DEF ResolverNext, CallerStep, queueFunc

(* In the beginning. *)
LEMMA ResolverStart ==
  ASSUME ResolverInit
  PROVE  ResolverTypes /\ OneTask /\ AnsweredOnce /\ Latest /\ ~stale
<1>1. ResolverTypes
  <2>1. m_que \in Seq(Task) /\ rpc \in [Workers -> WorkerPc] /\ task \in [Workers -> Task \cup {NoTask}]
    BY DEF ResolverInit, WorkerPc
  <2>2. cache \in [Hosts -> [addr : Nat, at : Int]] /\ found \in [Workers -> Nat] /\ clock \in Nat
    BY DEF ResolverInit, Never
  <2>3. /\ callPc \in [Callers -> {"idle", "push", "get"}] /\ want \in [Callers -> Hosts \cup {NoHost}]
        /\ calls \in [Callers -> Nat] /\ answers \in [Callers -> Nat]
    BY Zenon DEF ResolverInit
  <2>4. looked \in [Hosts -> Nat] /\ seen \in [Callers -> [Hosts -> Nat]] /\ stale \in BOOLEAN
    BY Zenon DEF ResolverInit
  <2>5. \A w \in Workers : ~Holds(w) /\ ~LooksUp(w)
    BY Zenon DEF ResolverInit, Holds, LooksUp
  <2> QED
    BY <2>1, <2>2, <2>3, <2>4, <2>5, Zenon DEF ResolverTypes
<1>2. m_que = <<>> /\ \A w \in Workers : ~Holds(w) /\ ~LooksUp(w)
  BY Zenon DEF ResolverInit, Holds, LooksUp
<1>3. 1..Len(m_que) = {}
  BY <1>2
<1>4. OneTask
  BY <1>2, <1>3, Zenon DEF OneTask
<1>5. AnsweredOnce
  BY Zenon DEF ResolverInit, AnsweredOnce
<1>6. Latest
  BY <1>2, NatFacts, Zenon DEF ResolverInit, Latest
<1> QED
  BY <1>1, <1>4, <1>5, <1>6, Zenon DEF ResolverInit

(* However many threads run the tasks of the queue, every call of syncResolve and
   syncTask gets one callback, and none returns before it. *)
THEOREM CallbackPerCall ==
  ResolverSpec => []AnsweredOnce
<1>1. ResolverInit => ResolverTypes /\ OneTask /\ AnsweredOnce
  BY ResolverStart, Zenon
<1>2. ResolverTypes /\ OneTask /\ AnsweredOnce /\ [ResolverNext]_rvars => (ResolverTypes /\ OneTask /\ AnsweredOnce)'
  BY ResolverTypeStep, OneTaskStep, Zenon
<1> QED
  BY <1>1, <1>2, PTL DEF ResolverSpec

(* With one thread, as ResolverImpl makes its queue, the addresses a caller gets for
   a host also never go back to an earlier lookup, for any callers, hosts, timeout of
   the cache and interleaving of the calls with the lookups (resolver_impl.cc). *)
THEOREM AddressesInOrder ==
  ASSUME OneThread
  PROVE  ResolverSpec => []AnsweredOnceInOrder
<1>1. ResolverInit => ResolverTypes /\ OneTask /\ AnsweredOnce /\ Latest /\ ~stale
  BY ResolverStart, Zenon
<1>2. ResolverTypes /\ OneTask /\ AnsweredOnce /\ Latest /\ ~stale /\ [ResolverNext]_rvars
        => (ResolverTypes /\ OneTask /\ AnsweredOnce /\ Latest /\ ~stale)'
  BY ResolverTypeStep, OneTaskStep, LatestStep, Zenon
<1>3. AnsweredOnce /\ ~stale => AnsweredOnceInOrder
  BY Zenon DEF AnsweredOnceInOrder
<1> QED
  BY <1>1, <1>2, <1>3, PTL DEF ResolverSpec
=============================================================================
