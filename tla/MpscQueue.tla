----------------------------- MODULE MpscQueue ------------------------------
(***************************************************************************)
(* The lock-free multi-producer single-consumer queue of                   *)
(* netpoll/util/lockfree_queue.h, at the granularity of its atomic         *)
(* operations.                                                             *)
(*                                                                         *)
(* Node is the set of addresses `new BufferNode` may return: an address is *)
(* handed out again after it was deleted, as an allocator does, so a       *)
(* stale pointer would alias a new node.  claimed and stamp are history    *)
(* variables: the order of the exchanges on head_, and each node's place   *)
(* in that order.                                                          *)
(***************************************************************************)
EXTENDS Naturals, Sequences, FiniteSets

CONSTANTS
  Producer,     \* threads that call enqueue
  Node,         \* heap addresses
  Item,         \* values of the template parameter T
  NULL,         \* nullptr
  NoData,       \* a dataPtr_ that is uninitialised or already deleted
  MaxEnqueues   \* bound on the number of enqueue calls

ASSUME MpscAssumption ==
  /\ NULL \notin Node
  /\ NoData \notin Item
  /\ Node # {}
  /\ MaxEnqueues \in Nat

VARIABLES
  alive,        \* addresses currently allocated
  next,         \* next[n]: node n's next_
  data,         \* data[n]: what node n's dataPtr_ points to
  head,         \* head_
  tail,         \* tail_
  ppc,          \* ppc[p]: where producer p is inside enqueue
  node,         \* node[p]: p's local `node`
  prevhead,     \* prevhead[p]: p's local `prevhead`
  cpc,          \* where the consumer is inside dequeue or the destructor
  ctail,        \* the consumer's local `tail`
  cnext,        \* the consumer's local `next`
  out,          \* last result of dequeue: <<x>> for true, <<>> for false
  dtor,         \* the destructor has begun
  claimed,      \* history: items in the order of the exchanges on head_
  stamp         \* history: a node's position in claimed (0 for the dummy)

heap == <<alive, next, data>>
prod == <<ppc, node, prevhead>>
cons == <<cpc, ctail, cnext, out, dtor>>
hist == <<claimed, stamp>>
vars == <<heap, head, tail, prod, cons, hist>>

Pending == {p \in Producer : ppc[p] = "link"}

taken == IF cpc = "advance" THEN stamp[tail] + 1 ELSE stamp[tail]

linked == (1..Len(claimed)) \ {stamp[node[p]] : p \in Pending}
-----------------------------------------------------------------------------
(* MpscQueue(): head_ and tail_ point to a dummy node whose dataPtr_ is not
   initialised. *)
Init ==
  \E dummy \in Node :
    /\ alive = {dummy}
    /\ next = [n \in Node |-> NULL]
    /\ data = [n \in Node |-> NoData]
    /\ head = dummy
    /\ tail = dummy
    /\ ppc = [p \in Producer |-> "idle"]
    /\ node = [p \in Producer |-> dummy]
    /\ prevhead = [p \in Producer |-> dummy]
    /\ cpc = "idle"
    /\ ctail = dummy
    /\ cnext = NULL
    /\ out = <<>>
    /\ dtor = FALSE
    /\ claimed = <<>>
    /\ stamp = [n \in Node |-> 0]

(* enqueue, first line: new BufferNode(input). *)
EnqueueNew(p, x) ==
  /\ ppc[p] = "idle"
  /\ ~dtor
  /\ Len(claimed) + Cardinality({q \in Producer : ppc[q] = "exchange"}) < MaxEnqueues
  /\ \E n \in Node \ alive :
       /\ alive' = alive \cup {n}
       /\ next' = [next EXCEPT ![n] = NULL]
       /\ data' = [data EXCEPT ![n] = x]
       /\ node' = [node EXCEPT ![p] = n]
  /\ ppc' = [ppc EXCEPT ![p] = "exchange"]
  /\ UNCHANGED <<head, tail, prevhead, cons, hist>>

(* enqueue, second line: prevhead = head_.exchange(node). *)
EnqueueExchange(p) ==
  /\ ppc[p] = "exchange"
  /\ prevhead' = [prevhead EXCEPT ![p] = head]
  /\ head' = node[p]
  /\ ppc' = [ppc EXCEPT ![p] = "link"]
  /\ claimed' = Append(claimed, data[node[p]])
  /\ stamp' = [stamp EXCEPT ![node[p]] = Len(claimed) + 1]
  /\ UNCHANGED <<heap, tail, node, cons>>

(* enqueue, third line: prevhead->next_.store(node). *)
EnqueueLink(p) ==
  /\ ppc[p] = "link"
  /\ next' = [next EXCEPT ![prevhead[p]] = node[p]]
  /\ ppc' = [ppc EXCEPT ![p] = "idle"]
  /\ UNCHANGED <<alive, data, head, tail, node, prevhead, cons, hist>>

(* Mutant: dequeue gives up while any enqueue is between its two steps. *)
DequeueEmptyWhilePending ==
  /\ cpc = "idle"
  /\ next[tail] = NULL \/ Pending # {}
  /\ ctail' = tail
  /\ cnext' = NULL
  /\ out' = <<>>
  /\ cpc' = IF dtor THEN "deleteFront" ELSE "idle"
  /\ UNCHANGED <<heap, head, tail, prod, dtor, hist>>

(* dequeue: load tail_ and tail->next_; return false when next is null. *)
DequeueEmpty ==
  /\ cpc = "idle"
  /\ next[tail] = NULL
  /\ ctail' = tail
  /\ cnext' = NULL
  /\ out' = <<>>
  /\ cpc' = IF dtor THEN "deleteFront" ELSE "idle"
  /\ UNCHANGED <<heap, head, tail, prod, dtor, hist>>

(* Mutant: the last item is taken for the end of the list. *)
DequeueLoadButLast ==
  /\ cpc = "idle"
  /\ next[tail] # NULL
  /\ next[tail] # head
  /\ ctail' = tail
  /\ cnext' = next[tail]
  /\ cpc' = "take"
  /\ UNCHANGED <<heap, head, tail, prod, out, dtor, hist>>

DequeueLoad ==
  /\ cpc = "idle"
  /\ next[tail] # NULL
  /\ ctail' = tail
  /\ cnext' = next[tail]
  /\ cpc' = "take"
  /\ UNCHANGED <<heap, head, tail, prod, out, dtor, hist>>

(* Move the payload of next into output; delete next->dataPtr_. *)
DequeueTake ==
  /\ cpc = "take"
  /\ out' = <<data[cnext]>>
  /\ data' = [data EXCEPT ![cnext] = NoData]
  /\ cpc' = "advance"
  /\ UNCHANGED <<alive, next, head, tail, prod, ctail, cnext, dtor, hist>>

(* tail_.store(next) *)
DequeueAdvance ==
  /\ cpc = "advance"
  /\ tail' = cnext
  /\ cpc' = "free"
  /\ UNCHANGED <<heap, head, prod, ctail, cnext, out, dtor, hist>>

(* Mutant: delete next. *)
DequeueFreeNext ==
  /\ cpc = "free"
  /\ alive' = alive \ {cnext}
  /\ cpc' = "idle"
  /\ UNCHANGED <<next, data, head, tail, prod, ctail, cnext, out, dtor, hist>>

(* delete tail; return true *)
DequeueFree ==
  /\ cpc = "free"
  /\ alive' = alive \ {ctail}
  /\ cpc' = "idle"
  /\ UNCHANGED <<next, data, head, tail, prod, ctail, cnext, out, dtor, hist>>

(* ~MpscQueue() begins; C++ object lifetime lets no enqueue run or start.
   The destructor then dequeues until it gets false. *)
Destroy ==
  /\ cpc = "idle"
  /\ ~dtor
  /\ \A p \in Producer : ppc[p] = "idle"
  /\ dtor' = TRUE
  /\ UNCHANGED <<heap, head, tail, prod, cpc, ctail, cnext, out, hist>>

(* Mutant: the dummy node is forgotten. *)
DestroyFrontForgotten ==
  /\ cpc = "deleteFront"
  /\ cpc' = "dead"
  /\ UNCHANGED <<heap, head, tail, prod, ctail, cnext, out, dtor, hist>>

(* delete front, where front is head_. *)
DestroyFront ==
  /\ cpc = "deleteFront"
  /\ alive' = alive \ {head}
  /\ cpc' = "dead"
  /\ UNCHANGED <<next, data, head, tail, prod, ctail, cnext, out, dtor, hist>>

Enqueue(p) ==
  \/ \E x \in Item : EnqueueNew(p, x)
  \/ EnqueueExchange(p)
  \/ EnqueueLink(p)

Dequeue ==
  \/ DequeueEmpty
  \/ DequeueLoad
  \/ DequeueTake
  \/ DequeueAdvance
  \/ DequeueFree

Next ==
  \/ \E p \in Producer : Enqueue(p)
  \/ Dequeue
  \/ Destroy
  \/ DestroyFront

Spec == Init /\ [][Next]_vars

(* A started enqueue runs to its end, and the loop thread keeps dequeuing. *)
FairSpec ==
  /\ Spec
  /\ \A p \in Producer : WF_vars(EnqueueExchange(p) \/ EnqueueLink(p))
  /\ WF_vars(Dequeue)
-----------------------------------------------------------------------------
(* Types. *)
TypeOK ==
  /\ alive \in SUBSET Node
  /\ next \in [Node -> Node \cup {NULL}]
  /\ data \in [Node -> Item \cup {NoData}]
  /\ head \in Node
  /\ tail \in Node
  /\ ppc \in [Producer -> {"idle", "exchange", "link"}]
  /\ node \in [Producer -> Node]
  /\ prevhead \in [Producer -> Node]
  /\ cpc \in {"idle", "take", "advance", "free", "deleteFront", "dead"}
  /\ ctail \in Node
  /\ cnext \in Node \cup {NULL}
  /\ out \in {<<>>} \cup {<<x>> : x \in Item}
  /\ dtor \in BOOLEAN
  /\ claimed \in Seq(Item)
  /\ stamp \in [Node -> Nat]

(* Every pointer the next step of some thread dereferences or deletes is a
   live allocation: the old head a producer is about to link (line 41), the
   node and the payload dequeue moves out and deletes (63-64), the old tail
   it deletes (66) and the node the destructor deletes (28). *)
MemorySafe ==
  /\ \A p \in Producer : ppc[p] = "exchange" => node[p] \in alive
  /\ \A p \in Pending : prevhead[p] \in alive
  /\ cpc = "idle" => tail \in alive
  /\ cpc = "take" => cnext \in alive /\ data[cnext] # NoData
  /\ cpc = "free" => ctail \in alive /\ ctail # tail
  /\ cpc = "deleteFront" => head \in alive

(* dequeue returns false (line 62) only when nothing was enqueued past the
   last item taken, or when the producer that claimed the very next place
   has not linked it yet: a finished enqueue is hidden by an unfinished
   earlier one and by nothing else. *)
EmptyOnlyIfUnlinked ==
  cpc = "idle" /\ next[tail] = NULL =>
    \/ taken = Len(claimed)
    \/ \E p \in Pending : stamp[node[p]] = taken + 1

(* The destructor (23-29) leaves no node and no payload allocated. *)
NoLeak ==
  cpc = "dead" => alive = {} /\ \A n \in Node : data[n] = NoData

Private == {node[p] : p \in {q \in Producer : ppc[q] = "exchange"}}

InQueue == (alive \ Private) \ (IF cpc = "free" THEN {ctail} ELSE {})

PrivateShape ==
  \A p \in Producer : ppc[p] = "exchange" =>
    /\ node[p] \in alive
    /\ next[node[p]] = NULL
    /\ data[node[p]] \in Item
    /\ \A q \in Producer : ppc[q] = "exchange" /\ node[q] = node[p] => q = p

QueueShape ==
  /\ head \in InQueue
  /\ tail \in InQueue
  /\ stamp[head] = Len(claimed)
  /\ \A m \in InQueue :
       /\ stamp[m] \in stamp[tail]..Len(claimed)
       /\ \A n \in InQueue : stamp[m] = stamp[n] => m = n
       /\ next[m] # NULL => next[m] \in InQueue /\ stamp[next[m]] = stamp[m] + 1
       /\ next[m] = NULL => m = head \/ \E p \in Pending : prevhead[p] = m

PayloadShape ==
  /\ \A m \in InQueue :
       data[m] = IF stamp[m] > taken THEN claimed[stamp[m]] ELSE NoData
  /\ \A n \in Node : n \notin alive \/ (cpc = "free" /\ n = ctail) => data[n] = NoData

PendingShape ==
  \A p \in Pending :
    /\ prevhead[p] \in InQueue
    /\ node[p] \in InQueue
    /\ next[prevhead[p]] = NULL
    /\ stamp[node[p]] = stamp[prevhead[p]] + 1
    /\ \A q \in Pending : node[q] = node[p] => q = p

ConsumerShape ==
  /\ cpc \in {"take", "advance"} => ctail = tail /\ cnext = next[tail] /\ cnext # NULL
  /\ cpc = "free" => ctail \in alive /\ ctail \notin Private /\ ctail # tail
  /\ cpc = "deleteFront" => next[tail] = NULL

DestructorShape ==
  /\ dtor => \A p \in Producer : ppc[p] = "idle"
  /\ cpc \in {"deleteFront", "dead"} => dtor

(* The shape of the list in every state of its life, from which the other
   invariants follow: nodes not yet exchanged are private to their producer;
   the nodes in the queue carry consecutive places from tail_ to head_; next_
   leads from each place to the following one, except where exactly one
   producer stands between its exchange (40) and its store (41); payloads
   not yet taken are the items enqueued at their places. *)
ListShape ==
  /\ DestructorShape
  /\ cpc # "dead" =>
       /\ PrivateShape
       /\ QueueShape
       /\ PayloadShape
       /\ PendingShape
       /\ ConsumerShape

Fifo == INSTANCE MpscFifo

(* The queue implements its abstract specification: dequeue returns the
   items in exchange order, each exactly once, unaltered. *)
ImplementsFifo == Fifo!FifoSpec

(* Every item whose place is claimed is eventually dequeued (by the consumer
   or by the destructor's drain). *)
EventuallyTaken ==
  \A i \in 1..MaxEnqueues : (Len(claimed) >= i) ~> (taken >= i)
=============================================================================
