------------------------------ MODULE MCPollers -----------------------------
(* wepoll and the pollers over epoll, poll and kqueue, checked side by side: *)
(* part says which one runs.                                                 *)
EXTENDS Wepoll, Poller

VARIABLES part

mcvars == <<vars, pollvars, part>>

(* The one that does not run rests in a state in which its fairness asks for *)
(* nothing: wepoll's port is closed, and no descriptor of the pollers is ready. *)
MCInit ==
  /\ part \in {"wepoll", "poller"} /\ PollerInit
  /\ \/ part = "wepoll" /\ Init /\ x.kind = "epoll"
     \/ /\ part = "poller" /\ w = [World EXCEPT !.listed = FALSE]
        /\ pc = [t \in Threads |-> "idle"] /\ calls = 0 /\ changes = 0
        /\ got = [t \in Waiters |-> <<>>] /\ ret = [t \in Waiters |-> {}]

MCNext ==
  \/ part = "wepoll" /\ Next /\ UNCHANGED <<part, pollvars>>
  \/ part = "poller" /\ PollerNext /\ UNCHANGED <<part, vars>>

MCSpec == MCInit /\ [][MCNext]_mcvars /\ Fairness /\ PollerFairness

(* Every socket in the tree is polled for, or about to be, and the poll     *)
(* groups stay in the order that poll_group_acquire relies on.              *)
SocketsArePolled == PollingCovers /\ GroupsInOrder

(* A socket or descriptor that stays ready for what its user watches is     *)
(* reported, and its channel handled, again and again, and epoll_close      *)
(* returns.                                                                 *)
ReadyIsHandled == ReadyIsReported /\ ReadyIsRead
=============================================================================
