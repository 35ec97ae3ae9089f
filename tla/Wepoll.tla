------------------------------- MODULE Wepoll -------------------------------
(***************************************************************************)
(* wepoll (src/dependencies/wepoll/wepoll.c): the epoll API that           *)
(* EpollPoller uses on Windows, made from I/O completion ports and the AFD *)
(* driver.  One epoll port, the threads that call it, and the kernel.      *)
(*                                                                         *)
(* What a thread does inside the port's critical section is one step: every *)
(* access to the port but the reference count and the completion port      *)
(* itself is made there.  The trees are the maps they implement (module    *)
(* WepollTree), the linked queues are sequences.  malloc and the creation *)
(* of handles succeed; an AFD poll fails only for a closed socket.         *)
(***************************************************************************)
EXTENDS Integers, FiniteSets, SequencesExt

CONSTANTS Waiters,     \* threads that call epoll_wait
          Caller,      \* the thread that calls epoll_ctl
          Closer,      \* the thread that calls epoll_close; it may be Caller
          Sockets,
          Masks,       \* the events given to epoll_ctl
          GroupSize,   \* POLL_GROUP__MAX_GROUP_SIZE
          MaxEvents,   \* maxevents of epoll_wait
          MaxCalls,    \* bound: epoll_ctl calls
          MaxChanges   \* bound: changes of a socket's readiness, posted signals

ASSUME WepollConstants ==
  /\ GroupSize \in Nat \ {0} /\ MaxEvents \in Nat \ {0}
  /\ MaxCalls \in Nat /\ MaxChanges \in Nat
  /\ Caller \notin Waiters /\ Closer \notin Waiters

Threads == Waiters \cup {Caller, Closer}

Obj == 1..MaxCalls     \* addresses of sock_state_t

Groups == 1..MaxCalls  \* addresses of poll_group_t

Null == 0

NoSock == [status |-> "free"]

Signal == -1           \* a packet of epoll_post_signal: it has a completion key

VARIABLES
  w,      \* the port, its sock_states and the kernel's part: see World
  pc,     \* each thread's place in its call
  got,    \* waiting threads: completion packets taken from the port
  ret,    \* waiting threads: what epoll_wait is about to return, <<socket, event>>
  calls,  \* epoll_ctl calls made
  changes \* steps of the environment taken

vars == <<w, pc, got, ret, calls, changes>>

World ==
  [listed  |-> TRUE,   \* the port is in epoll__handle_tree
   refs    |-> 0,      \* reflock: the reference count,
   destroy |-> FALSE,  \*          REFLOCK__DESTROY
   iocp    |-> TRUE,   \* iocp_handle is not NULL
   tree    |-> [s \in Sockets |-> Null],  \* sock_tree
   update  |-> <<>>,   \* sock_update_queue
   deleted |-> <<>>,   \* sock_deleted_queue
   groups  |-> <<>>,   \* poll_group_queue
   size    |-> [g \in Groups |-> 0],      \* group_size
   active  |-> 0,      \* active_poll_count
   sock    |-> [o \in Obj |-> NoSock],      \* the sock_state at each address
   ready   |-> [s \in Sockets |-> {}],    \* kernel: AFD events that hold now
   open    |-> Sockets,                   \* kernel: sockets not closed
   done    |-> <<>>,   \* kernel: packets in the completion port
   fault   |-> ""]     \* an assertion that failed, or a use after free

Init ==
  /\ w = World
  /\ pc = [t \in Threads |-> "idle"]
  /\ got = [t \in Waiters |-> <<>>] /\ ret = [t \in Waiters |-> {}]
  /\ calls = 0 /\ changes = 0

Check(x, ok, what) == IF ok \/ x.fault # "" THEN x ELSE [x EXCEPT !.fault = what]

-----------------------------------------------------------------------------
(* Events *)

Known == {"IN", "PRI", "OUT", "ERR", "HUP", "RDNORM", "RDBAND", "WRNORM", "WRBAND", "MSG", "RDHUP"}

(* For each row, a flag of the first set asks for the events of the second. *)
ToAfd ==
  {<<{"IN", "RDNORM"}, {"RECEIVE", "ACCEPT"}>>, <<{"PRI", "RDBAND"}, {"RECEIVE_EXPEDITED"}>>,
   <<{"OUT", "WRNORM", "WRBAND"}, {"SEND"}>>, <<{"IN", "RDNORM", "RDHUP"}, {"DISCONNECT"}>>,
   <<{"HUP"}, {"ABORT"}>>, <<{"ERR"}, {"CONNECT_FAIL"}>>}

ToEpoll ==
  {<<{"RECEIVE", "ACCEPT"}, {"IN", "RDNORM"}>>, <<{"RECEIVE_EXPEDITED"}, {"PRI", "RDBAND"}>>,
   <<{"SEND"}, {"OUT", "WRNORM", "WRBAND"}>>, <<{"DISCONNECT"}, {"IN", "RDNORM", "RDHUP"}>>,
   <<{"ABORT"}, {"HUP"}>>,
   <<{"CONNECT_FAIL"}, {"IN", "OUT", "ERR", "RDNORM", "WRNORM", "RDHUP"}>>}

Convert(rows, E) == UNION {r[2] : r \in {q \in rows : q[1] \cap E # {}}}

sock__epoll_events_to_afd_events(E) == {"LOCAL_CLOSE"} \cup Convert(ToAfd, E)

sock__afd_events_to_epoll_events(E) == Convert(ToEpoll, E)

-----------------------------------------------------------------------------
(* The AFD driver and the completion port *)

(* A poll operation ends: its status block is written and, while the port is *)
(* open, a packet is posted.                                               *)
Complete(x, o, status, events) ==
  [x EXCEPT !.sock[o].iosb = status, !.sock[o].events = events,
            !.done = IF x.iocp THEN Append(@, o) ELSE @]

Polls(x, s) == {o \in Obj : x.sock[o] # NoSock /\ x.sock[o].socket = s /\ x.sock[o].iosb = "pending"}

(* What the operation at o would report now. *)
Reports(x, o) ==
  LET k == x.sock[o] IN
  IF k.socket \notin x.open THEN {"LOCAL_CLOSE"} ELSE x.ready[k.socket] \cap k.asked

(* The driver completes the polls on s that have something to report. *)
Settle(x, s) ==
  FoldLeft(LAMBDA y, o : IF Reports(y, o) # {} THEN Complete(y, o, "success", Reports(y, o)) ELSE y,
           x, SetToSeq(Polls(x, s)))

afd_poll(x, o, asked) ==
  Settle([x EXCEPT !.sock[o].iosb = "pending", !.sock[o].asked = asked], x.sock[o].socket)

afd_cancel_poll(x, o) ==
  IF x.sock[o].iosb # "pending" THEN x ELSE Complete(x, o, "cancelled", {})

-----------------------------------------------------------------------------
(* Queues and poll groups *)

queue_move_to_start(q, n) == <<n>> \o Remove(q, n)

queue_move_to_end(q, n) == Append(Remove(q, n), n)

queue_is_enqueued(x, o) == Contains(x.update, o) \/ Contains(x.deleted, o)

port_request_socket_update(x, o) ==
  IF queue_is_enqueued(x, o) THEN x ELSE [x EXCEPT !.update = Append(@, o)]

port_cancel_socket_update(x, o) == [x EXCEPT !.update = Remove(@, o), !.deleted = Remove(@, o)]

port_add_deleted_socket(x, o) ==
  IF queue_is_enqueued(x, o) THEN x ELSE [x EXCEPT !.deleted = Append(@, o)]

poll_group__new(x) ==
  LET g == CHOOSE n \in Groups : ~ Contains(x.groups, n) IN
  Check([x EXCEPT !.groups = Append(@, g), !.size[g] = 0], x.iocp, "iocp_handle")

(* The group acquired is Last(groups) before it is moved: a full group goes *)
(* to the start, so that the last one has room whenever any has.           *)
poll_group_acquire(x) ==
  LET y == IF x.groups = <<>> \/ x.size[Last(x.groups)] >= GroupSize THEN poll_group__new(x) ELSE x
      g == Last(y.groups)
      z == [y EXCEPT !.size[g] = @ + 1] IN
  IF z.size[g] = GroupSize THEN [z EXCEPT !.groups = queue_move_to_start(@, g)] ELSE z

poll_group_release(x, g) ==
  Check([x EXCEPT !.size[g] = @ - 1, !.groups = queue_move_to_end(@, g)],
         x.size[g] \in 1..GroupSize, "group_size")

port_register_socket(x, o, s) == [x EXCEPT !.tree[s] = o]

port_unregister_socket(x, o) == [x EXCEPT !.tree[x.sock[o].socket] = Null]

port_find_socket(x, s) == x.tree[s]

-----------------------------------------------------------------------------
(* sock_state_t.  Each takes the world and the address of a sock_state and *)
(* returns the world after it.                                             *)

NewSock(s, g) ==
  [socket |-> s, group |-> g, user |-> {}, pending |-> {}, status |-> "IDLE", del |-> FALSE,
   iosb |-> "none", asked |-> {}, events |-> {}]

sock__cancel_poll(x, o) ==
  LET y == Check(x, x.sock[o].status = "PENDING", "poll_status") IN
  [afd_cancel_poll(y, o) EXCEPT !.sock[o].status = "CANCELLED", !.sock[o].pending = {}]

(* sock_new fails for a closed socket, and for one that is registered: then *)
(* the group acquired is released.                                         *)
sock_new(x, s) ==
  LET y == poll_group_acquire(x)
      o == CHOOSE n \in Obj : x.sock[n] = NoSock
      g == CHOOSE n \in Groups : y.size[n] # x.size[n] IN
  IF s \notin x.open THEN x
  ELSE IF x.tree[s] # Null THEN poll_group_release(y, g)
  ELSE port_register_socket([y EXCEPT !.sock[o] = NewSock(s, g)], o, s)

(* Mutant: the sock_state is freed without waiting for its poll operation. *)
sock__deleteNow(x, o, force) ==
  [poll_group_release(port_unregister_socket(port_cancel_socket_update(x, o), o), x.sock[o].group)
     EXCEPT !.sock[o] = NoSock]

sock__delete(x, o, force) ==
  LET y == IF x.sock[o].status = "PENDING" /\ ~ x.sock[o].del THEN sock__cancel_poll(x, o) ELSE x
      z == IF x.sock[o].del THEN y
           ELSE [port_unregister_socket(port_cancel_socket_update(y, o), o) EXCEPT !.sock[o].del = TRUE] IN
  IF force \/ z.sock[o].status = "IDLE"
    THEN [poll_group_release([z EXCEPT !.deleted = Remove(@, o)], z.sock[o].group)
            EXCEPT !.sock[o] = NoSock]
    ELSE port_add_deleted_socket(z, o)

sock_delete(x, o) == sock__delete(x, o, FALSE)

sock_force_delete(x, o) == sock__delete(x, o, TRUE)

Unwatched(k) == (k.user \cap Known) \ k.pending

sock_set_event(x, o, mask) ==
  LET y == [x EXCEPT !.sock[o].user = mask \cup {"ERR", "HUP"}] IN
  IF Unwatched(y.sock[o]) # {} THEN port_request_socket_update(y, o) ELSE y

sock_update(x, o) ==
  LET k == x.sock[o]
      y == Check(x, ~ k.del, "delete_pending") IN
  IF k.status = "IDLE" /\ k.socket \notin x.open THEN sock_delete(y, o)
  ELSE port_cancel_socket_update(
         CASE k.status = "PENDING" /\ Unwatched(k) # {} -> sock__cancel_poll(y, o)
           [] k.status = "IDLE" ->
                afd_poll([y EXCEPT !.sock[o].status = "PENDING", !.sock[o].pending = k.user],
                         o, sock__epoll_events_to_afd_events(k.user))
           [] OTHER -> y, o)

(* What a completion packet of o reports: read before it is fed. *)
Reported(x, o) ==
  LET k == x.sock[o] IN
  IF k.del \/ k.iosb = "cancelled" \/ "LOCAL_CLOSE" \in k.events THEN {}
  ELSE sock__afd_events_to_epoll_events(k.events) \cap k.user

(* The poll operation is over: status, pending and what it reported are reset. *)
sock_feed_event(x, o) ==
  IF x.sock[o] = NoSock THEN Check(x, FALSE, "use after free")
  ELSE
    LET k == x.sock[o]
        y == [x EXCEPT !.sock[o] = [NewSock(k.socket, k.group) EXCEPT !.user = k.user, !.del = k.del]] IN
    IF k.del \/ (k.iosb = "success" /\ "LOCAL_CLOSE" \in k.events) THEN sock_delete(y, o)
    ELSE [port_request_socket_update(y, o) EXCEPT !.sock[o].user =
            IF Reported(x, o) # {} /\ "ONESHOT" \in @ THEN {} ELSE @]

-----------------------------------------------------------------------------
(* port_state_t, inside its critical section *)

(* Each sock_update takes its sock_state off the queue, and adds none. *)
port__update_events(x) == FoldLeft(sock_update, x, x.update)

port__update_events_if_polling(x) == IF x.active > 0 THEN port__update_events(x) ELSE x

(* Feeds the packets in order; the events they report are epoll_wait's.    *)
port__feed_events(x, packets) ==
  FoldLeft(LAMBDA r, p :
             IF p = Signal THEN [r EXCEPT !.ev = @ \cup {<<Signal, {"EVENT"}>>}]
             ELSE [x |-> sock_feed_event(r.x, p),
                   ev |-> IF r.x.sock[p] # NoSock /\ Reported(r.x, p) # {}
                            THEN r.ev \cup {<<r.x.sock[p].socket, Reported(r.x, p)>>}
                            ELSE r.ev],
           [x |-> x, ev |-> {}], packets)

(* Mutant: the update queue is left for the next epoll_wait. *)
port__ctl_addLazy(x, s, mask) ==
  LET y == sock_new(x, s) IN
  IF y.tree = x.tree THEN y ELSE sock_set_event(y, y.tree[s], mask)

port__ctl_add(x, s, mask) ==
  LET y == sock_new(x, s) IN
  IF y.tree = x.tree THEN y
  ELSE port__update_events_if_polling(sock_set_event(y, y.tree[s], mask))

port__ctl_mod(x, s, mask) ==
  LET o == port_find_socket(x, s) IN
  IF o = Null THEN x ELSE port__update_events_if_polling(sock_set_event(x, o, mask))

port__ctl_del(x, s) ==
  LET o == port_find_socket(x, s) IN IF o = Null THEN x ELSE sock_delete(x, o)

port_delete(x) ==
  LET y == FoldLeft(sock_force_delete, Check(x, ~ x.iocp, "iocp_handle"),
                    SetToSeq({x.tree[s] : s \in Sockets} \ {Null}))
      z == FoldLeft(sock_force_delete, y, y.deleted) IN
  Check([z EXCEPT !.groups = <<>>],
         z.update = <<>> /\ \A g \in Groups : z.size[g] = 0, "port_delete")

-----------------------------------------------------------------------------
(* The calls.  An epoll_wait runs through "enter", "gqcs", "feed" (packets *)
(* taken) or "fail" (none), and "unref".                                   *)

Goto(t, l) == pc' = [pc EXCEPT ![t] = l]

ts_tree_find_and_ref(t, l) ==
  /\ pc[t] = "idle" /\ w.listed
  /\ w' = [w EXCEPT !.refs = @ + 1] /\ Goto(t, l)
  /\ UNCHANGED <<got, ret, calls, changes>>

reflock_unref(t) ==
  /\ pc[t] = "unref" /\ Goto(t, "idle")
  /\ w' = [Check(w, w.refs > 0, "reflock") EXCEPT !.refs = @ - 1]
  /\ ret' = [u \in Waiters |-> IF u = t THEN {} ELSE ret[u]]
  /\ UNCHANGED <<got, calls, changes>>

port_wait(t) == ts_tree_find_and_ref(t, "enter")

PollBegin(x) == LET y == port__update_events(x) IN [y EXCEPT !.active = @ + 1]

port__poll(t) ==
  /\ pc[t] = "enter" /\ Goto(t, "gqcs") /\ w' = PollBegin(w)
  /\ UNCHANGED <<got, ret, calls, changes>>

(* GetQueuedCompletionStatusEx, outside the critical section *)
Dequeue(t) ==
  /\ pc[t] = "gqcs" /\ w.iocp /\ w.done # <<>>
  /\ LET n == IF Len(w.done) < MaxEvents THEN Len(w.done) ELSE MaxEvents IN
     /\ got' = [got EXCEPT ![t] = SubSeq(w.done, 1, n)]
     /\ w' = [w EXCEPT !.done = SubSeq(@, n + 1, Len(@))]
  /\ Goto(t, "feed") /\ UNCHANGED <<ret, calls, changes>>

(* It times out, or the port has been closed. *)
DequeueFails(t) ==
  /\ pc[t] = "gqcs" /\ (w.done = <<>> \/ ~ w.iocp)
  /\ Goto(t, "fail") /\ UNCHANGED <<w, got, ret, calls, changes>>

(* With no event to report epoll_wait polls again, unless its time is up.  *)
FeedEvents(t) ==
  LET r == port__feed_events([w EXCEPT !.active = @ - 1], got[t]) IN
  /\ pc[t] = "feed"
  /\ \/ w' = port__update_events_if_polling(r.x) /\ Goto(t, "unref")
     \/ r.ev = {} /\ w' = PollBegin(r.x) /\ Goto(t, "gqcs")
  /\ got' = [got EXCEPT ![t] = <<>>] /\ ret' = [ret EXCEPT ![t] = r.ev]
  /\ UNCHANGED <<calls, changes>>

PollFails(t) ==
  /\ pc[t] = "fail" /\ Goto(t, "unref")
  /\ w' = port__update_events_if_polling([w EXCEPT !.active = @ - 1])
  /\ UNCHANGED <<got, ret, calls, changes>>

epoll_ctl ==
  /\ calls < MaxCalls /\ ts_tree_find_and_ref(Caller, "ctl")

port_ctl ==
  /\ pc[Caller] = "ctl" /\ Goto(Caller, "unref") /\ calls' = calls + 1
  /\ \E s \in Sockets :
       \/ w' = port__ctl_del(w, s)
       \/ \E m \in Masks : w' = port__ctl_add(w, s, m) \/ w' = port__ctl_mod(w, s, m)
  /\ UNCHANGED <<got, ret, changes>>

epoll_close ==
  /\ pc[Closer] = "idle" /\ w.listed /\ Goto(Closer, "close")
  /\ w' = [w EXCEPT !.listed = FALSE, !.refs = @ + 1]
  /\ UNCHANGED <<got, ret, calls, changes>>

port_close ==
  /\ pc[Closer] = "close" /\ Goto(Closer, "destroy")
  /\ w' = [w EXCEPT !.iocp = FALSE, !.done = <<>>]
  /\ UNCHANGED <<got, ret, calls, changes>>

reflock_unref_and_destroy ==
  /\ pc[Closer] = "destroy" /\ Goto(Closer, "await")
  /\ w' = [w EXCEPT !.refs = @ - 1, !.destroy = TRUE]
  /\ UNCHANGED <<got, ret, calls, changes>>

(* The keyed event is released by the thread that drops the last reference. *)
reflock__await_event ==
  /\ pc[Closer] = "await" /\ w.refs = 0 /\ Goto(Closer, "closed")
  /\ w' = port_delete(w)
  /\ UNCHANGED <<got, ret, calls, changes>>

-----------------------------------------------------------------------------
(* The environment *)

Change(s, x) == /\ changes < MaxChanges /\ changes' = changes + 1 /\ w' = Settle(x, s)
                /\ UNCHANGED <<pc, got, ret, calls>>

Ready(s, e) == Change(s, [w EXCEPT !.ready[s] = IF e \in @ THEN @ \ {e} ELSE @ \cup {e}])

closesocket(s) == s \in w.open /\ Change(s, [w EXCEPT !.open = @ \ {s}, !.ready[s] = {}])

(* A new socket has the handle of one that was closed. *)
WSASocket(s) ==
  /\ s \notin w.open /\ w' = [w EXCEPT !.open = @ \cup {s}]
  /\ UNCHANGED <<pc, got, ret, calls, changes>>

epoll_post_signal ==
  /\ w.iocp /\ changes < MaxChanges /\ changes' = changes + 1
  /\ w' = [w EXCEPT !.done = Append(@, Signal)] /\ UNCHANGED <<pc, got, ret, calls>>

Wait(t) == \/ port_wait(t) \/ port__poll(t) \/ Dequeue(t) \/ DequeueFails(t)
           \/ FeedEvents(t) \/ PollFails(t) \/ reflock_unref(t)

Close == epoll_close \/ port_close \/ reflock_unref_and_destroy \/ reflock__await_event

Stopped == pc[Closer] = "closed" /\ (\A t \in Waiters : pc[t] = "idle") /\ UNCHANGED vars

Next ==
  \/ \E t \in Waiters : Wait(t)
  \/ epoll_ctl \/ port_ctl \/ reflock_unref(Caller) \/ Close
  \/ \E s \in Sockets : (\E e \in {"RECEIVE", "SEND"} : Ready(s, e)) \/ closesocket(s) \/ WSASocket(s)
  \/ epoll_post_signal
  \/ Stopped

(* A thread inside a call goes on, and the polling threads call epoll_wait  *)
(* again and again, as an event loop does.  Nobody has to call epoll_ctl or *)
(* epoll_close.  Each conjunct is weak fairness of a thread, spelled out:   *)
(* the condition under which it has no step, or a step of it, and those are *)
(* the steps that change its pc.                                            *)
Fairness ==
  /\ \A t \in Waiters : []<>(~ w.listed /\ pc[t] = "idle") \/ []<><<pc'[t] # pc[t]>>_pc
  /\ []<>(pc[Caller] \notin {"ctl", "unref"}) \/ []<><<pc'[Caller] # pc[Caller]>>_pc
  /\ \/ []<>(pc[Closer] \notin {"close", "destroy"} /\ ~ (pc[Closer] = "await" /\ w.refs = 0))
     \/ []<><<pc'[Closer] # pc[Closer]>>_pc

Spec == Init /\ [][Next]_vars /\ Fairness

-----------------------------------------------------------------------------
(* Properties *)

Live == {o \in Obj : w.sock[o] # NoSock}

(* Nothing refers to a freed sock_state: not a packet in the completion port, *)
(* not one that a polling thread holds outside the lock, not a queue, not   *)
(* the socket tree.  A sock_state whose poll operation the driver has not   *)
(* finished is not freed while the port is open.  No assertion of the code  *)
(* fails, and the deletion of the port leaves nothing behind.              *)
WepollMemorySafe ==
  /\ w.fault = ""
  /\ ToSet(w.update) \cup ToSet(w.deleted) \cup ({w.tree[s] : s \in Sockets} \ {Null})
       \cup (ToSet(w.done) \ {Signal}) \cup UNION {ToSet(got[t]) \ {Signal} : t \in Waiters} \subseteq Live
  /\ pc[Closer] = "closed" => Live = {}

(* While a thread is waiting in GetQueuedCompletionStatusEx, every registered *)
(* socket has a poll operation for all the events its user asked for, or one *)
(* that has ended and whose packet is on its way: no epoll_ctl from another *)
(* thread has to wait for the next epoll_wait to take effect.              *)
PollingCovers ==
  w.active > 0 /\ w.iocp =>
    \A s \in Sockets : w.tree[s] # Null =>
      LET o == w.tree[s] k == w.sock[w.tree[s]] IN
      \/ k.iosb = "pending" /\ sock__epoll_events_to_afd_events(k.user) \subseteq k.asked
      \/ o \in ToSet(w.done) \cup UNION {ToSet(got[t]) : t \in Waiters}

(* Each poll group counts the sock_states that use it, at most GroupSize, and *)
(* the full groups come first: the last one has room when any has.         *)
GroupsInOrder ==
  /\ \A g \in Groups : w.size[g] = Cardinality({o \in Live : w.sock[o].group = g}) /\ w.size[g] <= GroupSize
  /\ \A i, j \in DOMAIN w.groups : i < j /\ w.size[w.groups[j]] = GroupSize => w.size[w.groups[i]] = GroupSize

Wanted(s) == /\ s \in w.open /\ w.tree[s] # Null /\ w.iocp
             /\ w.ready[s] \cap sock__epoll_events_to_afd_events(w.sock[w.tree[s]].user) # {}

(* Level-triggered reporting: a socket that stays ready for an event its user *)
(* asked for is reported again and again, whatever the other threads did to *)
(* the port before, and a call of epoll_close that has begun returns.      *)
ReadyIsReported ==
  /\ \A s \in Sockets :
       <>[](Wanted(s)) => []<>(\E t \in Waiters : \E e \in ret[t] : e[1] = s)
  /\ pc[Closer] = "close" ~> pc[Closer] = "closed"
=============================================================================
