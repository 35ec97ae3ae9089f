----------------------------- MODULE TcpServer -----------------------------
(***************************************************************************)
(* TcpServer (src/netpoll/net/tcp_server.cc) with its Acceptor             *)
(* (inner/acceptor.cc) and the loops of its EventLoopThreadPool            *)
(* (eventloop_threadpool.cc).                                              *)
(*                                                                         *)
(* Base is the loop the server was given, 1..PoolSize are the pool's.  A   *)
(* loop is what EventLoop promises: it runs the functions queued in it one *)
(* after another, in order, and after quit() ends at its next test of      *)
(* m_quit, where functions still queued are dropped.  A connection is what *)
(* TcpConnection promises: it is established once, and closed once,        *)
(* whoever closes it.  stop() and ~TcpServer are called by a user's thread *)
(* or by a function in the Base loop, never by two at a time and not before *)
(* start().  Behaviours begin when start() has been called.                *)
(***************************************************************************)
EXTENDS Integers, Sequences, FiniteSets, FiniteSetsExt

CONSTANTS MaxClients,   \* how many clients ever connect
          PoolSize,     \* m_loopThreadList.size()
          MaxFds,       \* descriptors left for connections, m_idleFd aside
          MaxStops      \* calls of stop(), the destructor's included

ASSUME ServerConstants ==
  /\ MaxClients \in Nat /\ MaxStops \in Nat
  /\ PoolSize \in Nat \ {0} /\ MaxFds \in Nat \ {0}

Base == 0

PoolLoop == 1..PoolSize

Loop == {Base} \cup PoolLoop

Conn == 1..MaxClients

None == -1

VARIABLES
  pool,      \* "none"; "own" (setIoLoopNum); "shared": the caller of setIoLoopThreadPool keeps it
  idle,      \* m_idleTimeout > 0
  acceptor,  \* m_acceptorPtr: "made", "listening", "gone" (reset)
  backlog,   \* clients waiting to be accepted
  clients,   \* clients that have connected so far
  refused,   \* clients accepted in the place of m_idleFd and closed
  loopIndex, \* m_loopIndex of the pool, from 1
  connSet,   \* m_connSet
  status,    \* [Conn -> "none", "Connecting", "Connected", "Disconnected", "Destroyed"]
  loopOf,    \* the m_loop of each connection
  wheel,     \* m_timingWheelMap: "none" (no entry), "live", "null"
  queue,     \* m_funcs of each loop: [op, conn]
  lpc,       \* each loop's place: "poll", "funcs", "test", "ended", or in stop(): "stop", "body"
  quit,      \* pool loops told to quit by ~EventLoopThread
  server,    \* "alive", "dying" (in the destructor), "dead"
  spc,       \* stop(): "idle", "body" (waits for it), "close", "pool", "wheel", "wait"
  copied,    \* connPtrs: the copy of m_connSet that stop() goes over
  visited,   \* the entries of m_timingWheelMap stop() has gone through
  stops,     \* history: calls of stop()
  openAtStop,\* history: stop() found connections in m_connSet
  broken     \* "", a failed "assert", or the use of a destroyed "loop", "server" or "wheel"

conf == <<pool, idle>>
accept == <<acceptor, backlog, clients, refused, loopIndex>>
conns == <<connSet, status, loopOf>>
loops == <<queue, lpc, quit>>
stopping == <<server, spc, copied, visited, stops, openAtStop>>
vars == <<conf, accept, conns, wheel, loops, stopping, broken>>

Init ==
  /\ pool \in {"none", "own", "shared"} /\ idle \in BOOLEAN
  /\ acceptor = "made" /\ backlog = 0 /\ clients = 0 /\ refused = 0 /\ loopIndex = 1
  /\ connSet = {} /\ status = [c \in Conn |-> "none"] /\ loopOf = [c \in Conn |-> Base]
  /\ wheel = [l \in Loop |-> "none"]
  /\ queue = [l \in Loop |-> IF l = Base THEN <<[op |-> "start", conn |-> None]>> ELSE <<>>]
  /\ lpc = [l \in Loop |-> IF pool = "none" /\ l # Base THEN "ended" ELSE "poll"]
  /\ quit = {}
  /\ server = "alive" /\ spc = "idle" /\ copied = {} /\ visited = {} /\ stops = 0
  /\ openAtStop = FALSE
  /\ broken = ""

-----------------------------------------------------------------------------
(* What one function or handler does to the server's state.  A state record *)
(* s holds the variables it may change, so that a handler is the           *)
(* composition of the calls it makes, in their order.                      *)

State == [set |-> connSet, st |-> status, queue |-> queue, broken |-> broken]

Break(s, what) == [s EXCEPT !.broken = IF @ = "" THEN what ELSE @]

(* queueInLoop: the loop must still be there. *)
QueueInLoop(s, l, op, c) ==
  IF lpc[l] = "ended" THEN Break(s, "loop")
  ELSE [s EXCEPT !.queue[l] = Append(@, [op |-> op, conn |-> c])]

(* The callbacks given to a connection capture the server's this. *)
TouchServer(s) == IF server = "dead" THEN Break(s, "server") ELSE s

HandleCloseInLoop(s, c) ==
  IF c \notin s.set THEN Break(s, "assert")
  ELSE QueueInLoop([s EXCEPT !.set = @ \ {c}], loopOf[c], "destroy", c)

(* connectionClosed, called in the connection's loop. *)
ConnectionClosed(s, c) ==
  IF loopOf[c] = Base THEN HandleCloseInLoop(s, c) ELSE QueueInLoop(s, Base, "closed", c)

(* TcpConnectionImpl::handleClose: the connection callback, then the close *)
(* callback.                                                               *)
HandleClose(s, c) ==
  ConnectionClosed(TouchServer([s EXCEPT !.st[c] = "Disconnected"]), c)

(* Mutant: the function of forceClose does not look at the status. *)
ForceCloseInLoopAlways(s, c) == HandleClose(s, c)

ForceCloseInLoop(s, c) == IF s.st[c] = "Connected" THEN HandleClose(s, c) ELSE s

Established(s, c) == TouchServer([s EXCEPT !.st[c] = "Connected"])

ConnectDestroyed(s, c) == [s EXCEPT !.st[c] = "Destroyed"]

(* connection->forceClose() in the Base loop: runInLoop. *)
ForceClose(s, c) ==
  IF loopOf[c] = Base THEN ForceCloseInLoop(s, c) ELSE QueueInLoop(s, loopOf[c], "forceClose", c)

Commit(s) ==
  /\ connSet' = s.set /\ status' = s.st /\ queue' = s.queue /\ broken' = s.broken

-----------------------------------------------------------------------------
(* The acceptor *)

(* A client connects. *)
ClientConnects ==
  /\ acceptor = "listening" /\ clients < MaxClients
  /\ clients' = clients + 1 /\ backlog' = backlog + 1
  /\ UNCHANGED <<conf, acceptor, refused, loopIndex, conns, wheel, loops, stopping, broken>>

FdsUsed == Cardinality({c \in Conn : status[c] \notin {"none", "Destroyed"}})

(* getNextLoop, or m_loop without a pool. *)
NextLoop == IF pool = "none" THEN Base ELSE loopIndex

NewConnection(c) ==
  LET l == NextLoop
      s == [State EXCEPT !.set = @ \cup {c}, !.st[c] = "Connecting",
                         !.broken = IF idle /\ wheel[l] # "live" THEN "assert" ELSE @] IN
  /\ loopOf' = [loopOf EXCEPT ![c] = l]
  /\ loopIndex' = IF pool = "none" THEN loopIndex ELSE (loopIndex % PoolSize) + 1
  /\ Commit(IF l = Base THEN Established(s, c) ELSE QueueInLoop(s, l, "establish", c))

(* Mutant: m_idleFd is not given up when descriptors have run out. *)
HandleReadNoIdleFd ==
  /\ lpc[Base] = "poll" /\ acceptor = "listening" /\ backlog > 0
  /\ FdsUsed < MaxFds
  /\ backlog' = backlog - 1
  /\ NewConnection(Cardinality({c \in Conn : status[c] # "none"}) + 1)
  /\ UNCHANGED refused
  /\ UNCHANGED <<conf, acceptor, clients, wheel, lpc, quit, stopping>>

(* Acceptor::handleRead.  accept() fails with EMFILE when the descriptors  *)
(* are used up; m_idleFd is then closed to accept and close the client.    *)
HandleRead ==
  /\ lpc[Base] = "poll" /\ acceptor = "listening" /\ backlog > 0
  /\ backlog' = backlog - 1
  /\ IF FdsUsed < MaxFds
     THEN NewConnection(Cardinality({c \in Conn : status[c] # "none"}) + 1) /\ UNCHANGED refused
     ELSE refused' = refused + 1 /\ UNCHANGED <<loopIndex, conns, queue, broken>>
  /\ UNCHANGED <<conf, acceptor, clients, wheel, lpc, quit, stopping>>

-----------------------------------------------------------------------------
(* The loops *)

(* A connection's channel is active: the peer has closed. *)
PeerCloses(c) ==
  /\ status[c] = "Connected" /\ lpc[loopOf[c]] = "poll"
  /\ Commit(HandleClose(State, c))
  /\ UNCHANGED <<conf, accept, loopOf, wheel, lpc, quit, stopping>>

PollEnds(l) ==
  /\ lpc[l] = "poll"
  /\ lpc' = [lpc EXCEPT ![l] = "funcs"]
  /\ UNCHANGED <<conf, accept, conns, wheel, queue, quit, stopping, broken>>

(* Only the loops of a pool of the server's own are ever told to quit. *)
FuncsEnd(l) ==
  /\ lpc[l] = "funcs" /\ queue[l] = <<>>
  /\ lpc' = [lpc EXCEPT ![l] = IF pool = "own" /\ l # Base THEN "test" ELSE "poll"]
  /\ UNCHANGED <<conf, accept, conns, wheel, queue, quit, stopping, broken>>

(* m_quit is tested; a loop that ends is destroyed with its functions. *)
TestQuit(l) ==
  /\ lpc[l] = "test"
  /\ lpc' = [lpc EXCEPT ![l] = IF l \in quit THEN "ended" ELSE "poll"]
  /\ queue' = IF l \in quit THEN [queue EXCEPT ![l] = <<>>] ELSE queue
  /\ UNCHANGED <<conf, accept, conns, wheel, quit, stopping, broken>>

Listen == acceptor' = "listening"

(* m_acceptorPtr.reset(): the channel is removed and the sockets are closed. *)
ResetAcceptor == acceptor' = "gone"

(* The function of TcpServer::start: the wheels, then listen(). *)
Start ==
  /\ wheel' = [l \in Loop |-> IF idle /\ (l = Base \/ pool # "none") THEN "live" ELSE "none"]
  /\ Listen
  /\ UNCHANGED <<spc, copied, openAtStop, lpc, conns, broken>>

(* What the body of stop() still has to close; it is done when nothing is. *)
CloseRest(rest, place) ==
  /\ copied' = rest
  /\ spc' = IF rest = {} THEN "pool" ELSE "close"
  /\ lpc' = [lpc EXCEPT ![Base] = IF rest = {} /\ place = "body" THEN "funcs" ELSE place]

(* The body begins, in the Base loop: the set is copied. *)
StopBody(place) ==
  /\ ResetAcceptor
  /\ openAtStop' = (openAtStop \/ connSet # {})
  /\ CloseRest(connSet, place)

(* doRunInLoopFuncs takes the next function. *)
RunFunc(l) ==
  /\ lpc[l] = "funcs" /\ queue[l] # <<>>
  /\ LET f == Head(queue[l])
         s == [State EXCEPT !.queue[l] = Tail(@)]
         run == CASE f.op = "establish"  -> Established(s, f.conn)
                  [] f.op = "forceClose" -> ForceCloseInLoop(s, f.conn)
                  [] f.op = "closed"     -> HandleCloseInLoop(TouchServer(s), f.conn)
                  [] f.op = "destroy"    -> ConnectDestroyed(s, f.conn)
                  [] OTHER -> s IN
     CASE f.op = "stop"  -> StopBody("body") /\ Commit(s) /\ UNCHANGED wheel
       [] f.op = "start" -> Start /\ queue' = s.queue
       [] f.op = "wheel" -> /\ wheel' = [wheel EXCEPT ![l] = "null"]
                            /\ spc' = "wheel"
                            /\ Commit(s) /\ UNCHANGED <<acceptor, copied, openAtStop, lpc>>
       [] OTHER -> Commit(run) /\ UNCHANGED <<wheel, acceptor, spc, copied, openAtStop, lpc>>
  /\ UNCHANGED <<conf, backlog, clients, refused, loopIndex, loopOf, quit, server, visited, stops>>

-----------------------------------------------------------------------------
(* stop() and the destructor *)

(* Called by a user's thread: the body is queued and waited for. *)
Stop(dtor) ==
  /\ spc = "idle" /\ server = "alive" /\ stops < MaxStops
  /\ Commit(QueueInLoop(State, Base, "stop", None))
  /\ spc' = "body" /\ visited' = {} /\ stops' = stops + 1
  /\ server' = IF dtor THEN "dying" ELSE server
  /\ UNCHANGED <<conf, accept, loopOf, wheel, lpc, quit, copied, openAtStop>>

(* Called by a function of the Base loop. *)
StopInLoop(dtor) ==
  /\ spc = "idle" /\ server = "alive" /\ stops < MaxStops
  /\ lpc[Base] = "funcs" /\ acceptor # "made"
  /\ StopBody("stop")
  /\ visited' = {} /\ stops' = stops + 1
  /\ server' = IF dtor THEN "dying" ELSE server
  /\ UNCHANGED <<conf, backlog, clients, refused, loopIndex, conns, wheel, queue, quit, broken>>

(* The copied connections are closed one after another, in the order of *)
(* their addresses, while other loops run.                              *)
CloseCopied ==
  /\ spc = "close"
  /\ \E c \in copied : CloseRest(copied \ {c}, lpc[Base]) /\ Commit(ForceClose(State, c))
  /\ UNCHANGED <<conf, accept, loopOf, wheel, quit, server, visited, stops, openAtStop>>

(* m_loopPoolPtr.reset(): the destructor of a pool nobody else holds makes *)
(* its threads quit and joins them, one after another.                     *)
StopPool ==
  /\ spc = "pool"
  /\ LET left == {l \in PoolLoop : pool = "own" /\ lpc[l] # "ended"} IN
     IF left = {} THEN spc' = "wheel" /\ UNCHANGED quit
     ELSE /\ Min(left) \notin quit
          /\ quit' = quit \cup {Min(left)} /\ UNCHANGED spc
  /\ UNCHANGED <<conf, accept, conns, wheel, queue, lpc, server, copied, visited, stops, openAtStop, broken>>

WheelsLeft == {l \in Loop \ visited : wheel[l] # "none"}

(* Mutant: queueInLoop in place of runInLoop. *)
ResetWheelQueued(l) ==
  /\ spc = "wheel" /\ l \in WheelsLeft
  /\ visited' = visited \cup {l}
  /\ IF wheel[l] = "null" THEN Commit(Break(State, "wheel")) /\ UNCHANGED <<wheel, spc>>
     ELSE Commit(QueueInLoop(State, l, "wheel", None)) /\ spc' = "wait" /\ UNCHANGED wheel
  /\ UNCHANGED <<conf, accept, loopOf, lpc, quit, server, copied, stops, openAtStop>>

(* A wheel is reset in its own loop, and waited for. *)
ResetWheel(l) ==
  /\ spc = "wheel" /\ l \in WheelsLeft
  /\ visited' = visited \cup {l}
  /\ IF wheel[l] = "null" THEN Commit(Break(State, "wheel")) /\ UNCHANGED <<wheel, spc>>
     ELSE IF lpc[l] = "stop"
     THEN wheel' = [wheel EXCEPT ![l] = "null"] /\ Commit(State) /\ UNCHANGED spc
     ELSE Commit(QueueInLoop(State, l, "wheel", None)) /\ spc' = "wait" /\ UNCHANGED wheel
  /\ UNCHANGED <<conf, accept, loopOf, lpc, quit, server, copied, stops, openAtStop>>

(* stop() returns; after the destructor's the members are destroyed. *)
StopReturn ==
  /\ spc = "wheel" /\ WheelsLeft = {}
  /\ spc' = "idle"
  /\ lpc' = [lpc EXCEPT ![Base] = IF @ = "stop" THEN "funcs" ELSE @]
  /\ server' = IF server = "dying" THEN "dead" ELSE server
  /\ connSet' = IF server = "dying" THEN {} ELSE connSet
  /\ UNCHANGED <<conf, accept, status, loopOf, wheel, queue, quit, copied, visited, stops, openAtStop, broken>>

-----------------------------------------------------------------------------
LoopStep(l) == PollEnds(l) \/ FuncsEnd(l) \/ TestQuit(l) \/ RunFunc(l)

StopStep == CloseCopied \/ StopPool \/ StopReturn \/ \E l \in Loop : ResetWheel(l)

(* Nothing is modelled after a use of something destroyed. *)
Next ==
  /\ broken = ""
  /\ \/ ClientConnects \/ HandleRead
     \/ \E c \in Conn : PeerCloses(c)
     \/ \E l \in Loop : LoopStep(l)
     \/ \E dtor \in BOOLEAN : Stop(dtor) \/ StopInLoop(dtor)
     \/ StopStep

Spec == Init /\ [][Next]_vars

(* Every loop runs, and a call of stop() goes on.  epoll is level-triggered: *)
(* a client that waits is reported by every poll() until it is accepted.   *)
Fairness ==
  /\ \A l \in Loop : WF_vars(broken = "" /\ LoopStep(l))
  /\ WF_vars(broken = "" /\ StopStep)
  /\ SF_vars(broken = "" /\ HandleRead)

FairSpec == Spec /\ Fairness

-----------------------------------------------------------------------------
TypeOK ==
  /\ acceptor \in {"made", "listening", "gone"}
  /\ backlog + refused \in 0..clients /\ clients \in 0..MaxClients
  /\ loopIndex \in PoolLoop
  /\ connSet \subseteq Conn /\ loopOf \in [Conn -> Loop]
  /\ status \in [Conn -> {"none", "Connecting", "Connected", "Disconnected", "Destroyed"}]
  /\ wheel \in [Loop -> {"none", "live", "null"}]
  /\ lpc \in [Loop -> {"poll", "funcs", "test", "stop", "body", "ended"}]
  /\ server \in {"alive", "dying", "dead"} /\ copied \subseteq Conn
  /\ spc \in {"idle", "body", "close", "pool", "wheel", "wait"}

(* A connection is in m_connSet when handleCloseInLoop erases it (tcp_server.cc
   151) and a loop has its wheel when newConnection looks for it (59),
   whatever closes connections while stop() goes over its copy of the set;
   and no function is queued in a destroyed loop, no callback runs in a
   destroyed server and no null wheel is used, except in three cases:
   stop() found open connections or wheels in loops of a pool that it then
   destroyed (134), the server was destroyed while pool loops were still
   closing its connections (41), or stop() was called again with an idle
   timeout (139).  With the types of the variables. *)
NothingDangles ==
  /\ TypeOK
  /\ broken \in {"", "loop", "server", "wheel"}
  /\ broken = "loop" => pool = "own" /\ (openAtStop \/ idle)
  /\ broken = "server" => pool # "none" /\ server = "dead" /\ openAtStop
  /\ broken = "wheel" => idle /\ stops > 1

(* stop() does what it is called for (108-145).  It returns: the thread that
   waits for the server's loop, for the pool's threads and for each wheel's
   loop in turn does not wait for itself or for a loop that waits for it.
   And once it has gone over m_connSet every connection is closed and
   destroyed in its loop, also one that was only queued to be established
   and one whose peer closes it meanwhile.  A pool that stop() destroys may
   end its loops before they have run the functions. *)
StopFinishes ==
  /\ (spc # "idle") ~> (spc = "idle" \/ broken # "")
  /\ \A c \in Conn :
       (acceptor = "gone" /\ status[c] # "none") ~>
         (status[c] = "Destroyed" \/ broken # "" \/ pool = "own")

(* "To prevent busy loop when file descriptors run out" (acceptor.cc 17): a
   client does not stay in the backlog, where it would make every poll()
   return at once. *)
BacklogDrains == (backlog > 0) ~> (backlog = 0 \/ acceptor = "gone" \/ broken # "")
=============================================================================
