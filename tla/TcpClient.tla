------------------------------ MODULE TcpClient -----------------------------
(***************************************************************************)
(* netpoll/net/tcp_client.{h,cc} with its Connector: connect, disconnect   *)
(* and stop called by a user thread and by callbacks in the loop thread,   *)
(* new connections, and reconnection after a connection has closed.  A     *)
(* connection is the number of its socket.                                 *)
(***************************************************************************)
EXTENDS Connector

CONSTANTS
  MaxConnects,    \* bound on the calls of connect by the user thread
  MaxAgain,       \* bound on the calls of connect by callbacks
  MaxStops        \* bound on the calls of disconnect and stop

ASSUME TcpClientAssumption ==
  MaxConnects \in Nat /\ MaxAgain \in Nat /\ MaxStops \in Nat

VARIABLES
  mretry,         \* m_retry of the client: enableRetry() was called
  mconnect,       \* m_connect
  connection,     \* m_connection, or None
  conns,          \* connections that are up
  dropped,        \* connections that were closed
  announced,      \* connections announced to the user while not established
  upc,            \* user thread: "idle", or where it is in stop()
  calls           \* numbers of calls made, as the bounds count them

client == <<mretry, mconnect, connection, conns, dropped, announced>>
vars == <<cvars, sysvars, loopvars, aborted, client, upc, calls>>

Init ==
  /\ CInit
  /\ mretry \in BOOLEAN
  /\ mconnect = FALSE /\ connection = None /\ conns = {} /\ dropped = {}
  /\ announced = {} /\ upc = "idle" /\ calls = [connect |-> 0, again |-> 0, stop |-> 0]
-----------------------------------------------------------------------------
(* The user thread. *)

Count(call, bound) ==
  /\ calls[call] < bound
  /\ calls' = [calls EXCEPT ![call] = @ + 1]

UserCall(call, bound) ==
  /\ aborted = "" /\ upc = "idle"
  /\ Count(call, bound)

Connect ==
  /\ UserCall("connect", MaxConnects)
  /\ ~mconnect
  /\ mconnect' = TRUE
  /\ started' = TRUE
  /\ queue' = Append(queue, "start")
  /\ UNCHANGED <<retry, cstatus, channel, mfd, handed, timers, sysvars, lpc, ev, cb, aborted, mretry, connection, conns, dropped, announced, upc>>

(* disconnect(): the connection's shutdown leads to ConnectionCloses. *)
Disconnect ==
  /\ UserCall("stop", MaxStops)
  /\ mconnect' = FALSE
  /\ UNCHANGED <<cvars, sysvars, loopvars, aborted, mretry, connection, conns, dropped, announced, upc>>

(* stop(): m_connect and m_started, ... *)
Stop ==
  /\ UserCall("stop", MaxStops)
  /\ mconnect' = FALSE
  /\ started' = FALSE
  /\ upc' = "status"
  /\ UNCHANGED <<retry, cstatus, channel, mfd, handed, timers, sysvars, loopvars, aborted, mretry, connection, conns, dropped, announced>>

(* ... m_status, ... *)
StopStatus ==
  /\ aborted = "" /\ upc = "status"
  /\ cstatus' = "Disconnected"
  /\ upc' = "queue"
  /\ UNCHANGED <<retry, started, channel, mfd, handed, timers, sysvars, loopvars, aborted, client, calls>>

(* ... and the channel's removal is queued. *)
StopQueue ==
  /\ aborted = "" /\ upc = "queue"
  /\ queue' = Append(queue, "reset")
  /\ upc' = "idle"
  /\ UNCHANGED <<cvars, sysvars, lpc, ev, cb, aborted, client, calls>>
-----------------------------------------------------------------------------
(* The loop thread. *)

(* newConnection, whose connectEstablished announces the connection. *)
NewConnection(f) ==
  /\ connection' = f
  /\ conns' = conns \cup {f}
  /\ announced' = IF outcome[f] = "ok" THEN announced ELSE announced \cup {f}
  /\ cb' = TRUE

(* ... and handleWrite ends: m_started is looked at. *)
HandleWriteConnected ==
  /\ Loop("connected")
  /\ lpc' = "idle" /\ ev' = None
  /\ IF started THEN NewConnection(ev) /\ UNCHANGED open
     ELSE open' = open \ {ev} /\ UNCHANGED <<connection, conns, announced, cb>>
  /\ UNCHANGED <<cvars, nfds, outcome, abandoned, refused, reported, queue, aborted, mretry, mconnect, dropped, upc, calls>>

(* A connection closes: handleClose calls the connection callback, ... *)
ConnectionCloses(c) ==
  /\ Loop("idle")
  /\ c \in conns
  /\ lpc' = "closing" /\ ev' = c
  /\ cb' = TRUE
  /\ UNCHANGED <<cvars, sysvars, queue, aborted, client, upc, calls>>

(* Mutant: the client does not reconnect. *)
RemoveConnectionOnly ==
  /\ Loop("closing")
  /\ lpc' = "idle" /\ ev' = None
  /\ IF connection # ev
     THEN Abort("removeConnection") /\ UNCHANGED <<retry, started, client>>
     ELSE /\ connection' = None /\ conns' = conns \ {ev} /\ dropped' = dropped \cup {ev}
          /\ IF mretry /\ mconnect
             THEN UNCHANGED <<cvars, sysvars, cb, aborted>>
             ELSE UNCHANGED <<cvars, sysvars, cb, aborted>>
          /\ UNCHANGED <<mretry, mconnect, announced>>
  /\ UNCHANGED <<queue, upc, calls>>

(* ... and then removeConnection, with restart() of the connector if the
   client is to reconnect.  The socket is closed with the connection. *)
RemoveConnection ==
  /\ Loop("closing")
  /\ lpc' = "idle" /\ ev' = None
  /\ IF connection # ev
     THEN Abort("removeConnection") /\ UNCHANGED <<retry, started, client>>
     ELSE /\ connection' = None /\ conns' = conns \ {ev} /\ dropped' = dropped \cup {ev}
          /\ IF mretry /\ mconnect
             THEN started' = TRUE /\ UNCHANGED retry /\ StartInLoop("Disconnected", None, TRUE, timers)
             ELSE UNCHANGED <<cvars, sysvars, cb, aborted>>
          /\ UNCHANGED <<mretry, mconnect, announced>>
  /\ UNCHANGED <<queue, upc, calls>>

CallbackCall(call, bound) ==
  /\ aborted = "" /\ cb
  /\ Count(call, bound)

(* connect(), disconnect() and stop() called by a callback act at once. *)
CallbackConnect ==
  /\ CallbackCall("again", MaxAgain)
  /\ ~mconnect
  /\ mconnect' = TRUE
  /\ started' = TRUE
  /\ StartInLoop(cstatus, channel, TRUE, timers)
  /\ UNCHANGED <<queue, lpc, retry, ev, mretry, connection, conns, dropped, announced, upc>>

CallbackDisconnect ==
  /\ CallbackCall("stop", MaxStops)
  /\ mconnect' = FALSE
  /\ UNCHANGED <<cvars, sysvars, loopvars, aborted, mretry, connection, conns, dropped, announced, upc>>

CallbackStop ==
  /\ CallbackCall("stop", MaxStops)
  /\ mconnect' = FALSE
  /\ started' = FALSE
  /\ cstatus' = "Disconnected"
  /\ ResetChannel
  /\ UNCHANGED <<retry, mfd, handed, timers, nfds, open, outcome, refused, reported, loopvars, aborted, mretry, connection, conns, dropped, announced, upc>>

CallbackReturns ==
  /\ aborted = "" /\ cb
  /\ cb' = FALSE
  /\ UNCHANGED <<cvars, sysvars, queue, lpc, ev, aborted, client, upc, calls>>

ConnectorStep ==
  /\ RunStart \/ RunReset \/ RetryTimer \/ ChannelEvent \/ HandleError \/ HandleWrite \/ HandleWriteCheck
  /\ UNCHANGED <<client, upc, calls>>

LoopStep == ConnectorStep \/ HandleWriteConnected \/ RemoveConnection \/ CallbackReturns

Kernel(f) == Resolve(f) /\ UNCHANGED <<client, upc, calls>>

Next ==
  \/ Connect \/ Disconnect \/ Stop \/ StopStatus \/ StopQueue
  \/ CallbackConnect \/ CallbackDisconnect \/ CallbackStop
  \/ LoopStep
  \/ \E c \in Fd : ConnectionCloses(c)
  \/ \E f \in Fd : Kernel(f)

Spec == Init /\ [][Next]_vars

(* The functions the loop runs after every poll. *)
FunctionStep == (RunStart \/ RunReset) /\ UNCHANGED <<client, upc, calls>>

(* The loop runs, gets to its queued functions in every iteration, and the
   kernel finishes every attempt. *)
FairSpec ==
  /\ Spec
  /\ WF_vars(LoopStep)
  /\ SF_vars(FunctionStep)
  /\ \A f \in Fd : WF_vars(Kernel(f))
-----------------------------------------------------------------------------
(* Types. *)
TypeOK ==
  /\ started \in BOOLEAN /\ handed \in BOOLEAN /\ cb \in BOOLEAN /\ mconnect \in BOOLEAN
  /\ cstatus \in {"Disconnected", "Connecting", "Connected"}
  /\ channel \in Fd \cup {None} /\ mfd \in Fd \cup {None} /\ connection \in Fd \cup {None}
  /\ timers \in 0..MaxFds
  /\ open \subseteq Fd /\ conns \subseteq Fd /\ reported \subseteq Fd
  /\ lpc \in {"idle", "hup", "err", "out", "check", "connected", "closing"}

(* For a client that connects once and reconnects by itself, whatever
   disconnects and stops it: the assertions of Connector and TcpClient hold
   (connector.cc 63, 126 and 207, tcp_client.cc 199), and no socket is
   forgotten.  An open one is the connection's, is being looked at by
   handleWrite, is closed by ~Connector (22), or was abandoned by stop(),
   which drops the socket removeAndResetChannel returns (45), or by a start
   that came while another attempt was under way.  A second connect(), after
   disconnect() or after stop(), breaks the assertions.  With the types of
   the variables. *)
SocketsOwned ==
  /\ TypeOK
  /\ calls.connect + calls.again <= 1 =>
       /\ aborted = ""
       /\ \A f \in open \ abandoned :
            \/ f \in conns \cup dropped
            \/ lpc \in {"check", "connected"} /\ f = ev
            \/ f = mfd /\ (~handed \/ f = channel)

(* "The callback is called when the connection to the server is established
   or closed" (tcp_client.h 117): a connection is announced only if the
   kernel has established it.  Excepted is a callback that connects again: an
   error callback that does so leaves the rest of the failed channel's events
   to be taken for the new attempt's. *)
AnnouncedIsEstablished ==
  calls.again = 0 => announced = {}

(* A client that has enableRetry() and is not stopped has a new connection
   after one has closed, unless an attempt fails or an assertion does.
   Excepted is a stop() of the user thread together with a connect() in a
   callback: the removal of the channel stop() has queued (connector.cc 48)
   then takes the new attempt's channel. *)
Reconnects ==
  \A c \in Fd :
    (c \in dropped /\ mretry) ~>
      \/ connection # None \/ ~mconnect
      \/ refused \cup reported # {} \/ nfds = MaxFds \/ aborted # ""
      \/ calls.again > 0 /\ calls.stop > 0
-----------------------------------------------------------------------------
(* The inductive invariant behind SocketsOwned and AnnouncedIsEstablished. *)

(* Every retry timer comes from an attempt of its own, and the channel whose
   events are handled is there as long as an attempt is under way. *)
AttemptsCounted ==
  /\ TypeOK
  /\ nfds \in 0..MaxFds /\ ev \in Fd \cup {None} /\ queue \in Seq({"start", "reset"})
  /\ outcome \in [Fd -> {"pending", "ok", "bad", "self"}]
  /\ calls \in [connect : Nat, again : Nat, stop : Nat]
  /\ retry \in BOOLEAN
  /\ lpc # "idle" => ev # None
  /\ lpc \in {"hup", "err", "out"} /\ cstatus = "Connecting" => channel # None
  /\ lpc = "check" => channel = None /\ ~cb
  /\ lpc = "connected" => ~cb
  /\ timers <= nfds /\ (channel # None \/ lpc = "check" => timers < nfds)

(* The events of a channel are handled for the attempt that has ended. *)
EventsBelong ==
  calls.again = 0 =>
    /\ announced = {}
    /\ lpc \in {"hup", "err", "out"} => channel \in {None, ev} /\ outcome[ev] # "pending"
    /\ lpc = "check" => outcome[ev] # "pending"
    /\ lpc = "connected" => outcome[ev] = "ok"

StartsOf(q) == {k \in 1..Len(q) : q[k] = "start"}

Starts == StartsOf(queue)

ConnectsOnce == calls.connect <= 1 /\ calls.again <= 1 /\ (calls.connect = 0 \/ calls.again = 0)

(* Open sockets nobody but the connector knows of. *)
Orphans == open \ (abandoned \cup conns \cup dropped)

(* With one connect(), one thing at a time is under way: the queued start, a
   retry timer, a channel, the end of handleWrite, or the connection; the
   connector's socket is the only one it has to look after. *)
OneAttempt ==
  ConnectsOnce =>
    /\ aborted = "" /\ calls.again = 0
    /\ \A j, k \in Starts : j = k
    /\ calls.connect = 0 => Starts = {}
    /\ calls.connect = 0 \/ Starts # {} =>
         /\ timers = 0 /\ channel = None /\ connection = None /\ lpc = "idle" /\ ~cb
         /\ cstatus = "Disconnected" /\ Orphans = {}
    /\ timers > 0 =>
         /\ timers = 1 /\ channel = None /\ connection = None
         /\ lpc \in {"idle", "hup", "err", "out"} /\ cstatus = "Disconnected" /\ Orphans = {}
    /\ channel # None =>
         /\ channel = mfd /\ connection = None
         /\ lpc \in {"idle", "hup", "err", "out"} /\ cstatus # "Connected"
    /\ lpc \in {"hup", "err", "out"} =>
         /\ connection = None /\ cstatus # "Connected"
         /\ channel = None => Orphans = {}
    /\ lpc \in {"check", "connected"} => connection = None /\ Orphans \subseteq {ev}
    /\ lpc = "closing" => connection = ev
    /\ conns = IF connection = None THEN {} ELSE {connection}
    /\ connection # None => Orphans = {}
    /\ lpc \notin {"check", "connected"} =>
         /\ Orphans \subseteq {mfd}
         /\ handed /\ channel = None => Orphans = {}

ClientInv == AttemptsCounted /\ EventsBelong /\ OneAttempt
=============================================================================
