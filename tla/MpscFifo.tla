------------------------------ MODULE MpscFifo ------------------------------
(***************************************************************************)
(* What MpscQueue (netpoll/util/lockfree_queue.h) promises its callers.    *)
(*                                                                         *)
(* An enqueue takes effect in two steps.  Claiming fixes the item's place  *)
(* in the queue; publishing makes the item visible to the consumer.  The   *)
(* consumer takes items strictly in claim order and reports an empty queue *)
(* when the next place is not published yet, even if later places are.     *)
(***************************************************************************)
EXTENDS Naturals, Sequences

CONSTANT Item

VARIABLES
  claimed,    \* every item ever enqueued, in the order the places were claimed
  linked,     \* the places (indices of claimed) that are published
  taken,      \* the number of items dequeued so far
  out         \* result of the last dequeue: <<x>>, or <<>> for "false"

fifoVars == <<claimed, linked, taken, out>>

FifoInit ==
  /\ claimed = <<>>
  /\ linked = {}
  /\ taken = 0
  /\ out = <<>>

Claim(x) ==
  /\ claimed' = Append(claimed, x)
  /\ UNCHANGED <<linked, taken, out>>

Publish(i) ==
  /\ i \in (1..Len(claimed)) \ linked
  /\ linked' = linked \cup {i}
  /\ UNCHANGED <<claimed, taken, out>>

Visible == taken + 1 \in linked

Take ==
  /\ Visible
  /\ taken' = taken + 1
  /\ out' = <<claimed[taken + 1]>>
  /\ UNCHANGED <<claimed, linked>>

ReportEmpty ==
  /\ ~Visible
  /\ out' = <<>>
  /\ UNCHANGED <<claimed, linked, taken>>

FifoNext ==
  \/ \E x \in Item : Claim(x)
  \/ \E i \in 1..Len(claimed) : Publish(i)
  \/ Take
  \/ ReportEmpty

FifoSpec == FifoInit /\ [][FifoNext]_fifoVars
=============================================================================
