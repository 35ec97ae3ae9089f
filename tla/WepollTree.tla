------------------------------ MODULE WepollTree ------------------------------
(***************************************************************************)
(* The containers of wepoll.c, pointer by pointer: the red-black tree that *)
(* holds the sockets and the epoll ports, and the circular linked queue of *)
(* the update, deleted and poll-group lists.                               *)
(*                                                                         *)
(* A node is its address, 1..N, and 0 is NULL.  The node n of the tree has *)
(* the key n.  The heap is a record of functions, one for each field.      *)
(***************************************************************************)
EXTENDS Integers, FiniteSets, SequencesExt

CONSTANTS N,   \* nodes of the tree
          Q    \* nodes of the queue

VARIABLES t,   \* the tree: root, left, right, parent, red
          keys,\* the keys that have been added and not deleted
          q,   \* the queue: next, prev; 0 is queue->head
          list \* its nodes in order, as the callers see them

vars == <<t, keys, q, list>>

NULL == 0

Nodes == 0..N

-----------------------------------------------------------------------------
(* The tree.  cis and trans are the two sides, as in the macros. *)

(* parent's link to p now leads to c; without a parent it is the root. *)
Relink(x, parent, p, c) ==
  IF parent = NULL THEN [x EXCEPT !.root = c]
  ELSE IF x.left[parent] = p THEN [x EXCEPT !.left[parent] = c] ELSE [x EXCEPT !.right[parent] = c]

SetParent(x, c, p) == IF c = NULL THEN x ELSE [x EXCEPT !.parent[c] = p]

TREE__ROTATE(x, node, cis, trans) ==
  LET c == x[trans][node]
      y == [Relink(x, x.parent[node], node, c) EXCEPT !.parent[c] = x.parent[node], !.parent[node] = c,
                                                       ![trans][node] = x[cis][c], ![cis][c] = node] IN
  SetParent(y, x[cis][c], node)

(* Mutant: the colours are changed and the grandparent is not rotated. *)
TREE__REBALANCE_AFTER_INSERTNoRotate(x, node, parent, cis, trans) ==
  LET g == x.parent[parent] IN
  [x |-> [x EXCEPT !.red[parent] = FALSE, !.red[g] = TRUE], node |-> IF x.parent[g] = NULL THEN g ELSE node]

TREE__REBALANCE_AFTER_INSERT(x, node, parent, cis, trans) ==
  LET g == x.parent[parent]
      uncle == x[trans][g]
      inner == node = x[trans][parent]
      y == IF inner THEN TREE__ROTATE(x, parent, cis, trans) ELSE x
      n == IF inner THEN parent ELSE node
      p == y.parent[n] IN
  IF uncle # NULL /\ x.red[uncle]
    THEN [x |-> [x EXCEPT !.red[parent] = FALSE, !.red[uncle] = FALSE, !.red[g] = TRUE], node |-> g]
    ELSE [x |-> TREE__ROTATE([y EXCEPT !.red[p] = FALSE, !.red[g] = TRUE], g, trans, cis), node |-> n]

RECURSIVE AfterInsert(_, _)
AfterInsert(x, node) ==
  LET p == x.parent[node] IN
  IF p = NULL \/ ~ x.red[p] THEN [x EXCEPT !.red[x.root] = FALSE]
  ELSE LET r == IF p = x.left[x.parent[p]] THEN TREE__REBALANCE_AFTER_INSERT(x, node, p, "left", "right")
                ELSE TREE__REBALANCE_AFTER_INSERT(x, node, p, "right", "left") IN
       AfterInsert(r.x, r.node)

(* The node where the search for key ends: it has the key, or the link on  *)
(* the key's side is NULL.                                                 *)
RECURSIVE Descend(_, _, _)
Descend(x, p, key) ==
  LET next == IF key < p THEN x.left[p] ELSE x.right[p] IN
  IF key = p \/ next = NULL THEN p ELSE Descend(x, next, key)

tree_find(x, key) == IF x.root # NULL /\ Descend(x, x.root, key) = key THEN key ELSE NULL

tree_add(x, key) ==
  LET p == IF x.root = NULL THEN NULL ELSE Descend(x, x.root, key)
      y == IF p = NULL THEN [x EXCEPT !.root = key]
           ELSE IF key < p THEN [x EXCEPT !.left[p] = key] ELSE [x EXCEPT !.right[p] = key] IN
  IF p = key THEN x
  ELSE AfterInsert([y EXCEPT !.left[key] = NULL, !.right[key] = NULL, !.parent[key] = p, !.red[key] = TRUE], key)

IsRed(x, n) == n # NULL /\ x.red[n]

(* One pass of the loop: done when the sibling had a red child. *)
TREE__REBALANCE_AFTER_REMOVE(x, parent, cis, trans) ==
  LET s0 == x[trans][parent]
      y == IF x.red[s0] THEN TREE__ROTATE([x EXCEPT !.red[s0] = FALSE, !.red[parent] = TRUE], parent, cis, trans) ELSE x
      s1 == y[trans][parent]
      far == IsRed(y, y[trans][s1])
      z == IF far THEN y
           ELSE TREE__ROTATE([y EXCEPT !.red[y[cis][s1]] = FALSE, !.red[s1] = TRUE], s1, trans, cis)
      s2 == z[trans][parent] IN
  IF far \/ IsRed(y, y[cis][s1])
    THEN [done |-> TRUE,
          x |-> TREE__ROTATE([z EXCEPT !.red[s2] = z.red[parent], !.red[parent] = FALSE, !.red[z[trans][s2]] = FALSE],
                             parent, cis, trans)]
    ELSE [done |-> FALSE, x |-> [y EXCEPT !.red[s1] = TRUE]]

Blacken(x, node) == IF node = NULL THEN x ELSE [x EXCEPT !.red[node] = FALSE]

RECURSIVE AfterRemove(_, _, _)
AfterRemove(x, node, parent) ==
  IF node = x.root THEN Blacken(x, node)
  ELSE LET r == IF node = x.left[parent] THEN TREE__REBALANCE_AFTER_REMOVE(x, parent, "left", "right")
                ELSE TREE__REBALANCE_AFTER_REMOVE(x, parent, "right", "left") IN
       IF r.done THEN Blacken(r.x, r.x.root)
       ELSE IF r.x.red[parent] THEN Blacken(r.x, parent)
       ELSE AfterRemove(r.x, parent, r.x.parent[parent])

RECURSIVE Leftmost(_, _)
Leftmost(x, n) == IF x.left[n] = NULL THEN n ELSE Leftmost(x, x.left[n])

tree_del(x, n) ==
  LET parent == x.parent[n] left == x.left[n] right == x.right[n]
      both == left # NULL /\ right # NULL
      next == IF left = NULL THEN right ELSE IF right = NULL THEN left ELSE Leftmost(x, right)
      y == Relink(x, parent, n, next)
      deep == both /\ next # right
      z == IF ~ both THEN y
           ELSE [y EXCEPT !.red[next] = x.red[n], !.left[next] = left, !.parent[left] = next, !.parent[next] = parent]
      hole == IF deep THEN x.parent[next] ELSE IF both THEN next ELSE parent
      child == IF both THEN x.right[next] ELSE next
      d == IF deep THEN [z EXCEPT !.left[hole] = child, !.right[next] = right, !.parent[right] = next] ELSE z
      e == SetParent(d, child, hole)
      red == IF both THEN x.red[next] ELSE x.red[n] IN
  IF red THEN e ELSE IF IsRed(e, child) THEN Blacken(e, child) ELSE AfterRemove(e, child, hole)

-----------------------------------------------------------------------------
(* The queue *)

queue_node_init(x, n) == [x EXCEPT !.prev[n] = n, !.next[n] = n]

queue__detach_node(x, n) == [x EXCEPT !.next[x.prev[n]] = x.next[n], !.prev[x.next[n]] = x.prev[n]]

queue_is_enqueued(x, n) == x.prev[n] # n

queue_prepend(x, n) ==
  [x EXCEPT !.next[n] = x.next[0], !.prev[n] = 0, !.prev[x.next[0]] = n, !.next[0] = n]

queue_append(x, n) ==
  [x EXCEPT !.next[n] = 0, !.prev[n] = x.prev[0], !.next[x.prev[0]] = n, !.prev[0] = n]

queue_move_to_start(x, n) == queue_prepend(queue__detach_node(x, n), n)

queue_move_to_end(x, n) == queue_append(queue__detach_node(x, n), n)

queue_remove(x, n) == queue_node_init(queue__detach_node(x, n), n)

queue_first(x) == IF queue_is_enqueued(x, 0) THEN x.next[0] ELSE NULL

queue_last(x) == IF queue_is_enqueued(x, 0) THEN x.prev[0] ELSE NULL

-----------------------------------------------------------------------------

Init ==
  /\ t = [root |-> NULL, left |-> [n \in Nodes |-> NULL], right |-> [n \in Nodes |-> NULL],
          parent |-> [n \in Nodes |-> NULL], red |-> [n \in Nodes |-> FALSE]]
  /\ q = [next |-> [n \in 0..Q |-> n], prev |-> [n \in 0..Q |-> n]]
  /\ keys = {} /\ list = <<>>

(* A deleted node keeps what it held until it is added again: reset here.  *)
Forget(x, n) == [x EXCEPT !.left[n] = NULL, !.right[n] = NULL, !.parent[n] = NULL, !.red[n] = FALSE]

Add(k) == t' = tree_add(t, k) /\ keys' = keys \cup {k} /\ UNCHANGED <<q, list>>

Del(k) == k \in keys /\ t' = Forget(tree_del(t, k), k) /\ keys' = keys \ {k} /\ UNCHANGED <<q, list>>

Push(n) ==
  /\ ~ queue_is_enqueued(q, n) /\ q' = queue_append(q, n) /\ list' = Append(list, n) /\ UNCHANGED <<t, keys>>

Move(n) ==
  /\ queue_is_enqueued(q, n) /\ UNCHANGED <<t, keys>>
  /\ \/ q' = queue_move_to_start(q, n) /\ list' = <<n>> \o Remove(list, n)
     \/ q' = queue_move_to_end(q, n) /\ list' = Append(Remove(list, n), n)
     \/ q' = queue_remove(q, n) /\ list' = Remove(list, n)

Next == (\E k \in 1..N : Add(k) \/ Del(k)) \/ (\E n \in 1..Q : Push(n) \/ Move(n))

Spec == Init /\ [][Next]_vars

-----------------------------------------------------------------------------

RECURSIVE InOrder(_, _)
InOrder(x, n) == IF n = NULL THEN <<>> ELSE InOrder(x, x.left[n]) \o <<n>> \o InOrder(x, x.right[n])

RECURSIVE BlackHeight(_, _)
(* -1: the paths below n do not have the same number of black nodes. *)
BlackHeight(x, n) ==
  IF n = NULL THEN 0
  ELSE LET l == BlackHeight(x, x.left[n]) r == BlackHeight(x, x.right[n]) IN
       IF l # r \/ l = -1 THEN -1 ELSE l + (IF x.red[n] THEN 0 ELSE 1)

(* After any sequence of tree_add and tree_del the tree holds the keys that *)
(* were added and not deleted, in order, each found by tree_find; parent    *)
(* links agree with child links; no red node has a red child and all paths *)
(* have the same number of black nodes, so a search stays logarithmic.     *)
TreeIsBalancedMap ==
  /\ InOrder(t, t.root) = SetToSortSeq(keys, <)
  /\ \A k \in 1..N : tree_find(t, k) = IF k \in keys THEN k ELSE NULL
  /\ ~ t.red[t.root] /\ BlackHeight(t, t.root) # -1
  /\ \A n \in keys : /\ n = t.root <=> t.parent[n] = NULL
                     /\ n # t.root => n \in {t.left[t.parent[n]], t.right[t.parent[n]]}
                     /\ t.red[n] => ~ IsRed(t, t.left[n]) /\ ~ IsRed(t, t.right[n])

RECURSIVE Walk(_, _, _)
Walk(x, f, n) == IF x[f][n] = 0 THEN <<>> ELSE <<x[f][n]>> \o Walk(x, f, x[f][n])

(* The linked queue is the sequence its operations describe, read forwards  *)
(* from the head and backwards, and a node is enqueued exactly when it is in *)
(* the sequence.                                                           *)
QueueIsSequence ==
  /\ \A n \in 1..Q : queue_is_enqueued(q, n) <=> Contains(list, n)
  /\ \A i \in 1..Len(list) :
       /\ q.prev[list[i]] = (IF i = 1 THEN 0 ELSE list[i - 1])
       /\ q.next[list[i]] = (IF i = Len(list) THEN 0 ELSE list[i + 1])
  /\ queue_first(q) = (IF list = <<>> THEN NULL ELSE Head(list))
  /\ queue_last(q) = (IF list = <<>> THEN NULL ELSE Last(list))

(* The containers behave as the map and the sequences that Wepoll uses. *)
Containers == TreeIsBalancedMap /\ QueueIsSequence
=============================================================================
