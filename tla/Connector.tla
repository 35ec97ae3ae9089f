------------------------------ MODULE Connector -----------------------------
(***************************************************************************)
(* netpoll/net/inner/connector.{h,cc}: the non-blocking connect of a       *)
(* TcpClient, in the loop thread, with stop() called from another thread.  *)
(* The module has the connector's state and operations; TcpClient composes *)
(* them with the client that owns the connector.                           *)
(*                                                                         *)
(* Sockets are numbered 1..MaxFds.  An assertion that fails ends the       *)
(* program: `aborted` is then the assertion's place.                       *)
(***************************************************************************)
EXTENDS Naturals, Sequences

CONSTANT MaxFds   \* bound on the sockets created

ASSUME ConnectorAssumption == MaxFds \in Nat \ {0}

None == 0

Fd == 1..MaxFds

VARIABLES
  retry,          \* m_retry of the connector
  started,        \* m_started
  cstatus,        \* m_status: "Disconnected", "Connecting" or "Connected"
  channel,        \* the socket of m_channelPtr, or None
  mfd,            \* m_fd, or None
  handed,         \* m_socketHanded
  timers,         \* retry timers that are pending
  nfds,           \* sockets created
  open,           \* sockets that are open
  outcome,        \* outcome[f]: "pending", "ok", "bad" or "self" (self-connect)
  abandoned,      \* sockets whose channel stop() has removed
  refused,        \* sockets whose connect() was refused at once
  reported,       \* sockets whose failure the error callback was called for
  queue,          \* functions queued in the loop
  lpc,            \* loop thread: "idle", or where it is in the channel's callbacks
  ev,             \* the socket whose event is handled
  cb,             \* a user callback is running
  aborted         \* "" or the assertion that failed

cvars == <<retry, started, cstatus, channel, mfd, handed, timers>>
sysvars == <<nfds, open, outcome, abandoned, refused, reported>>
loopvars == <<queue, lpc, ev, cb>>

CInit ==
  /\ retry \in BOOLEAN
  /\ started = FALSE /\ cstatus = "Disconnected" /\ channel = None
  /\ mfd = None /\ handed = FALSE /\ timers = 0
  /\ nfds = 0 /\ open = {} /\ outcome = [f \in Fd |-> "pending"]
  /\ abandoned = {} /\ refused = {} /\ reported = {}
  /\ queue = <<>> /\ lpc = "idle" /\ ev = None /\ cb = FALSE
  /\ aborted = ""

Abort(place) ==
  /\ aborted' = place
  /\ UNCHANGED <<cstatus, channel, mfd, handed, timers, sysvars, cb>>

(* connect(), with tm retry timers pending: a socket is created; connect()
   is under way, refused at once (EAGAIN, ECONNREFUSED, ...), or fails for
   another reason. *)
ConnectSocket(ch, tm) ==
  IF ch # None THEN Abort("connecting")
  ELSE /\ nfds < MaxFds
       /\ nfds' = nfds + 1 /\ mfd' = nfds'
       /\ \/ /\ cstatus' = "Connecting" /\ channel' = nfds'
             /\ open' = open \cup {nfds'}
             /\ handed' = FALSE /\ timers' = tm
             /\ UNCHANGED <<refused, reported, cb>>
          \/ /\ cstatus' = "Disconnected" /\ channel' = None
             /\ open' = IF retry THEN open ELSE open \cup {nfds'}
             /\ handed' = FALSE /\ timers' = IF retry THEN tm + 1 ELSE tm
             /\ refused' = refused \cup {nfds'}
             /\ UNCHANGED <<reported, cb>>
          \/ /\ cstatus' = "Disconnected" /\ channel' = None
             /\ handed' = TRUE /\ timers' = tm
             /\ reported' = reported \cup {nfds'} /\ cb' = TRUE
             /\ UNCHANGED <<open, refused>>
       /\ UNCHANGED <<outcome, abandoned, aborted>>

(* startInLoop, where m_status is st, m_channelPtr ch and m_started run. *)
StartInLoop(st, ch, run, tm) ==
  \/ st # "Disconnected" /\ Abort("startInLoop")
  \/ st = "Disconnected" /\ run /\ ConnectSocket(ch, tm)
  \/ /\ st = "Disconnected" /\ ~run
     /\ cstatus' = st /\ channel' = ch /\ timers' = tm
     /\ UNCHANGED <<mfd, handed, sysvars, cb, aborted>>

(* removeAndResetChannel() as stop() calls it: the socket stays open. *)
ResetChannel ==
  /\ channel' = None
  /\ abandoned' = IF channel = None THEN abandoned ELSE abandoned \cup {channel}

(* Mutant: the socket stays open. *)
FailNoClose(f) ==
  /\ timers' = IF retry /\ started THEN timers + 1 ELSE timers
  /\ reported' = reported \cup {f}
  /\ cb' = TRUE
  /\ UNCHANGED open

(* The end of a failed attempt on socket f: retry(f) or close it, and call
   the error callback. *)
Fail(f) ==
  /\ open' = open \ {f}
  /\ timers' = IF retry /\ started THEN timers + 1 ELSE timers
  /\ reported' = reported \cup {f}
  /\ cb' = TRUE

Loop(pc) == aborted = "" /\ lpc = pc /\ ~cb
-----------------------------------------------------------------------------
(* Functions and timers of the loop. *)

RunStart ==
  /\ Loop("idle")
  /\ queue # <<>> /\ Head(queue) = "start"
  /\ queue' = Tail(queue)
  /\ StartInLoop(cstatus, channel, started, timers)
  /\ UNCHANGED <<retry, started, lpc, ev>>

RunReset ==
  /\ Loop("idle")
  /\ queue # <<>> /\ Head(queue) = "reset"
  /\ queue' = Tail(queue)
  /\ ResetChannel
  /\ UNCHANGED <<retry, started, cstatus, mfd, handed, timers, nfds, open, outcome, refused, reported, lpc, ev, cb, aborted>>

RetryTimer ==
  /\ Loop("idle")
  /\ timers > 0
  /\ StartInLoop(cstatus, channel, started, timers - 1)
  /\ UNCHANGED <<retry, started, queue, lpc, ev>>
-----------------------------------------------------------------------------
(* The channel. *)

(* The kernel finishes the attempt. *)
Resolve(f) ==
  /\ f \in open /\ outcome[f] = "pending" /\ f \notin refused
  /\ \E o \in {"ok", "bad", "self"} :
       outcome' = [outcome EXCEPT ![f] = o]
  /\ UNCHANGED <<cvars, nfds, open, abandoned, refused, reported, loopvars, aborted>>

(* poll() reports the channel: POLLOUT, and POLLHUP and POLLERR too if the
   attempt failed. *)
ChannelEvent ==
  /\ Loop("idle")
  /\ channel # None /\ outcome[channel] # "pending"
  /\ ev' = channel
  /\ lpc' = IF outcome[channel] = "bad" THEN "hup" ELSE "out"
  /\ UNCHANGED <<cvars, sysvars, queue, cb, aborted>>

(* handleError, for POLLHUP and again for POLLERR. *)
HandleError ==
  /\ Loop("hup") \/ Loop("err")
  /\ lpc' = IF lpc = "hup" THEN "err" ELSE "out"
  /\ handed' = TRUE
  /\ IF cstatus = "Connecting"
     THEN /\ cstatus' = "Disconnected"
          /\ channel' = None
          /\ Fail(channel)
     ELSE UNCHANGED <<cstatus, channel, open, timers, reported, cb>>
  /\ UNCHANGED <<retry, started, mfd, nfds, outcome, abandoned, refused, queue, ev, aborted>>

(* handleWrite: m_status is tested and the channel removed, ... *)
HandleWrite ==
  /\ Loop("out")
  /\ handed' = TRUE
  /\ IF cstatus = "Connecting"
     THEN channel' = None /\ ev' = channel /\ lpc' = "check" /\ UNCHANGED aborted
     ELSE /\ lpc' = "idle" /\ ev' = None
          /\ aborted' = IF cstatus = "Disconnected" THEN "" ELSE "handleWrite"
          /\ UNCHANGED channel
  /\ UNCHANGED <<retry, started, cstatus, mfd, timers, sysvars, queue, cb>>

(* Mutant: a self-connect is taken for a connection. *)
HandleWriteCheckNoSelf ==
  /\ Loop("check")
  /\ cstatus' = "Connected"
  /\ lpc' = "connected"
  /\ UNCHANGED <<retry, started, channel, mfd, handed, timers, sysvars, queue, cb, ev, aborted>>

(* ... SO_ERROR and the addresses are looked at, ... *)
HandleWriteCheck ==
  /\ Loop("check")
  /\ IF outcome[ev] \in {"bad", "self"}
     THEN /\ Fail(ev)
          /\ cstatus' = IF retry THEN "Disconnected" ELSE cstatus
          /\ lpc' = "idle" /\ ev' = None
     ELSE /\ cstatus' = "Connected"
          /\ lpc' = "connected"
          /\ UNCHANGED <<open, timers, reported, cb, ev>>
  /\ UNCHANGED <<retry, started, channel, mfd, handed, nfds, outcome, abandoned, refused, queue, aborted>>
=============================================================================
