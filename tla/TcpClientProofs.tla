--------------------------- MODULE TcpClientProofs --------------------------
(***************************************************************************)
(* Proofs about TcpClient and its Connector: for any number of sockets and *)
(* calls, no socket is forgotten and no assertion fails while connect() is *)
(* called once, and only established connections are announced.            *)
(***************************************************************************)
EXTENDS TcpClient, TLAPS

(* connect() of the connector takes the next socket. *)
LEMMA NextFd ==
  ASSUME AttemptsCounted, nfds < MaxFds
  PROVE  nfds + 1 \in Fd /\ nfds + 1 \in 0..MaxFds /\ nfds + 1 # None
  BY ConnectorAssumption DEF AttemptsCounted, Fd, None

(* What startInLoop (57-68) leaves behind, whoever calls it: an assertion has
   failed, nothing was done, or a new socket is being connected, will be tried
   again, is kept, or was given up. *)
LEMMA StartEffect ==
  ASSUME AttemptsCounted, NEW st, NEW ch, NEW run, NEW tm \in Nat, StartInLoop(st, ch, run, tm)
  PROVE  /\ UNCHANGED <<outcome, abandoned>> /\ reported' \subseteq Fd
         /\ \/ /\ st # "Disconnected" \/ ch # None
               /\ UNCHANGED <<cstatus, channel, mfd, handed, timers, nfds, open, cb>>
            \/ /\ st = "Disconnected" /\ cstatus' = st /\ channel' = ch /\ timers' = tm
               /\ UNCHANGED <<mfd, handed, nfds, open, cb, aborted>>
            \/ /\ st = "Disconnected" /\ ch = None
               /\ nfds' = nfds + 1 /\ nfds' \in Fd /\ nfds' \in 0..MaxFds /\ nfds' # None
               /\ mfd' = nfds' /\ aborted' = aborted
               /\ \/ /\ cstatus' = "Connecting" /\ channel' = nfds' /\ open' = open \cup {nfds'}
                     /\ handed' = FALSE /\ timers' = tm /\ cb' = cb
                  \/ /\ cstatus' = "Disconnected" /\ channel' = None /\ handed' = FALSE /\ cb' = cb
                     /\ \/ open' = open /\ timers' = tm + 1
                        \/ open' = open \cup {nfds'} /\ timers' = tm
                  \/ /\ cstatus' = "Disconnected" /\ channel' = None /\ open' = open
                     /\ handed' = TRUE /\ timers' = tm /\ cb' = TRUE
<1>0. reported \subseteq Fd
  BY Zenon DEF AttemptsCounted, TypeOK
<1>1. CASE st # "Disconnected" /\ Abort("startInLoop")
  BY <1>0, <1>1, Zenon DEF Abort, sysvars
<1>2. CASE st = "Disconnected" /\ run /\ ConnectSocket(ch, tm)
  <2>1. CASE ch # None
    BY <1>0, <1>2, <2>1, Zenon DEF ConnectSocket, Abort, sysvars
  <2>2. CASE ch = None
    <3>1. nfds < MaxFds /\ nfds' = nfds + 1
      BY <1>2, <2>2, Zenon DEF ConnectSocket
    <3>2. nfds' \in Fd /\ nfds' \in 0..MaxFds /\ nfds' # None
      BY <3>1, NextFd, Zenon
    <3> QED
      BY <1>0, <1>2, <2>2, <3>1, <3>2, ZenonT(30) DEF ConnectSocket
  <2> QED
    BY <2>1, <2>2, Zenon
<1>3. CASE st = "Disconnected" /\ ~run /\ ~ConnectSocket(ch, tm)
  BY <1>0, <1>3, Zenon DEF StartInLoop, sysvars
<1> QED
  BY <1>0, <1>1, <1>2, <1>3, Zenon DEF StartInLoop, sysvars

(* A call of startInLoop keeps the count. *)
LEMMA StartCounts ==
  ASSUME AttemptsCounted, NEW st \in {"Disconnected", "Connecting", "Connected"},
         NEW ch \in Fd \cup {None}, NEW run, NEW tm \in 0..timers,
         StartInLoop(st, ch, run, tm), ch \in {channel, None},
         lpc # "check", lpc' # "check", lpc' = lpc \/ lpc' = "idle", ev' \in Fd \cup {None},
         lpc' # "idle" => ev' = ev, lpc' = "connected" => ~cb',
         lpc' \in {"hup", "err", "out"} => ch = channel /\ tm = timers /\ st = cstatus,
         started' \in BOOLEAN, mconnect' \in BOOLEAN, connection' \in Fd \cup {None},
         conns' \subseteq Fd, retry' = retry, queue' \in Seq({"start", "reset"}),
         calls' \in [connect : Nat, again : Nat, stop : Nat]
  PROVE  AttemptsCounted'
<1> USE DEF AttemptsCounted, TypeOK
<1>1. tm \in Nat /\ timers \in Nat /\ nfds \in Nat
  OBVIOUS
<1>2. /\ outcome' = outcome /\ reported' \subseteq Fd
      /\ \/ UNCHANGED <<cstatus, channel, mfd, handed, timers, nfds, open, cb>>
         \/ /\ st = "Disconnected" /\ cstatus' = st /\ channel' = ch /\ timers' = tm
            /\ UNCHANGED <<mfd, handed, nfds, open, cb, aborted>>
         \/ /\ st = "Disconnected" /\ ch = None
            /\ nfds' = nfds + 1 /\ nfds' \in Fd /\ nfds' \in 0..MaxFds /\ nfds' # None
            /\ mfd' = nfds' /\ aborted' = aborted
            /\ \/ /\ cstatus' = "Connecting" /\ channel' = nfds' /\ open' = open \cup {nfds'}
                  /\ handed' = FALSE /\ timers' = tm /\ cb' = cb
               \/ /\ cstatus' = "Disconnected" /\ channel' = None /\ handed' = FALSE /\ cb' = cb
                  /\ \/ open' = open /\ timers' = tm + 1
                     \/ open' = open \cup {nfds'} /\ timers' = tm
               \/ /\ cstatus' = "Disconnected" /\ channel' = None /\ open' = open
                  /\ handed' = TRUE /\ timers' = tm /\ cb' = TRUE
  BY <1>1, StartEffect, Zenon
<1>3. timers <= nfds /\ (channel # None => timers < nfds)
  BY Zenon
<1>4. CASE UNCHANGED <<cstatus, channel, mfd, handed, timers, nfds, open, cb>>
  BY <1>1, <1>2, <1>3, <1>4
<1>5. CASE /\ st = "Disconnected" /\ cstatus' = st /\ channel' = ch /\ timers' = tm
           /\ UNCHANGED <<mfd, handed, nfds, open, cb, aborted>>
  <2>1. tm <= nfds /\ tm \in 0..MaxFds /\ (ch # None => tm < nfds)
    BY <1>1, <1>3, ConnectorAssumption
  <2> QED
    BY <1>2, <1>5, <2>1, Zenon
<1>6. CASE /\ nfds' = nfds + 1 /\ nfds' \in Fd /\ nfds' \in 0..MaxFds /\ nfds' # None
           /\ mfd' = nfds' /\ cstatus' = "Connecting" /\ channel' = nfds' /\ open' = open \cup {nfds'}
           /\ handed' = FALSE /\ timers' = tm /\ cb' = cb
  <2>1. tm <= nfds' /\ tm < nfds' /\ tm \in 0..MaxFds
    BY <1>1, <1>3, <1>6, ConnectorAssumption
  <2> QED
    BY <1>2, <1>6, <2>1, Zenon
<1>7. CASE /\ nfds' = nfds + 1 /\ nfds' \in 0..MaxFds /\ nfds' \in Fd
           /\ mfd' = nfds' /\ cstatus' = "Disconnected" /\ channel' = None /\ handed' \in BOOLEAN
           /\ cb' \in {cb, TRUE} /\ open' \subseteq open \cup {nfds'} /\ timers' \in {tm, tm + 1}
  <2>1. timers' \in 0..MaxFds /\ timers' <= nfds'
    <3>1. tm <= nfds /\ nfds + 1 <= MaxFds
      BY <1>1, <1>3, <1>7, ConnectorAssumption
    <3>2. timers' \in {tm, tm + 1} /\ nfds' = nfds + 1
      BY <1>7, Zenon
    <3>3. tm \in Nat /\ nfds \in Nat /\ MaxFds \in Nat
      BY <1>1, ConnectorAssumption
    <3> QED
      BY <3>1, <3>2, <3>3
  <2> QED
    BY <1>2, <1>7, <2>1, Zenon
<1> QED
  BY <1>2, <1>4, <1>5, <1>6, <1>7, Zenon

(* The loop's queue of the connector's functions. *)
LEMMA QueueTypes ==
  ASSUME queue \in Seq({"start", "reset"})
  PROVE  /\ \A c \in {"start", "reset"} : Append(queue, c) \in Seq({"start", "reset"})
         /\ queue # <<>> => Tail(queue) \in Seq({"start", "reset"})
  OBVIOUS

(* Calls are counted. *)
LEMMA CountTypes ==
  ASSUME calls \in [connect : Nat, again : Nat, stop : Nat], NEW b,
         Count("connect", b) \/ Count("again", b) \/ Count("stop", b)
  PROVE  calls' \in [connect : Nat, again : Nat, stop : Nat]
  BY DEF Count

(* Every step keeps the types and the count of the attempts. *)
LEMMA CountedStep ==
  ASSUME AttemptsCounted, [Next]_vars
  PROVE  AttemptsCounted'
<1> USE DEF cvars, sysvars, loopvars, client
<1>0. /\ queue \in Seq({"start", "reset"}) /\ calls \in [connect : Nat, again : Nat, stop : Nat]
      /\ timers \in 0..MaxFds /\ timers \in 0..timers
  BY ConnectorAssumption DEF AttemptsCounted, TypeOK
<1>1. CASE Connect
  <2>1. queue' \in Seq({"start", "reset"}) /\ calls' \in [connect : Nat, again : Nat, stop : Nat]
    BY <1>0, <1>1, QueueTypes, CountTypes, Zenon DEF Connect, UserCall
  <2> QED
    BY <1>1, <2>1 DEF Connect, AttemptsCounted, TypeOK
<1>2. CASE Disconnect \/ CallbackDisconnect
  <2>1. calls' \in [connect : Nat, again : Nat, stop : Nat]
    BY <1>0, <1>2, CountTypes, Zenon DEF Disconnect, CallbackDisconnect, UserCall, CallbackCall
  <2>2. /\ UNCHANGED <<retry, started, cstatus, channel, mfd, handed, timers, nfds, open, outcome, reported>>
        /\ UNCHANGED <<queue, lpc, ev, cb, connection, conns>> /\ mconnect' \in BOOLEAN
    BY <1>2, Zenon DEF Disconnect, CallbackDisconnect
  <2> QED
    BY <2>1, <2>2 DEF AttemptsCounted, TypeOK
<1>3. CASE Stop
  <2>1. calls' \in [connect : Nat, again : Nat, stop : Nat]
    BY <1>0, <1>3, CountTypes, Zenon DEF Stop, UserCall
  <2>2. /\ UNCHANGED <<retry, cstatus, channel, mfd, handed, timers, nfds, open, outcome, reported>>
        /\ UNCHANGED <<queue, lpc, ev, cb, connection, conns>>
        /\ mconnect' \in BOOLEAN /\ started' \in BOOLEAN
    BY <1>3, Zenon DEF Stop
  <2> QED
    BY <2>1, <2>2 DEF AttemptsCounted, TypeOK
<1>4. CASE StopStatus
  <2>1. /\ UNCHANGED <<retry, started, channel, mfd, handed, timers, nfds, open, outcome, reported>>
        /\ UNCHANGED <<queue, lpc, ev, cb, connection, conns, mconnect, calls>>
        /\ cstatus' = "Disconnected"
    BY <1>4, Zenon DEF StopStatus
  <2> QED
    BY <2>1 DEF AttemptsCounted, TypeOK
<1>5. CASE StopQueue
  <2>1. queue' \in Seq({"start", "reset"})
    BY <1>0, <1>5, QueueTypes, Zenon DEF StopQueue
  <2>2. /\ UNCHANGED <<retry, started, cstatus, channel, mfd, handed, timers, nfds, open, outcome, reported>>
        /\ UNCHANGED <<lpc, ev, cb, mconnect, connection, conns, calls>>
    BY <1>5, Zenon DEF StopQueue
  <2> QED
    BY <2>1, <2>2 DEF AttemptsCounted, TypeOK
<1>6. CASE CallbackConnect
  <2>1. calls' \in [connect : Nat, again : Nat, stop : Nat]
    BY <1>0, <1>6, CountTypes, Zenon DEF CallbackConnect, CallbackCall
  <2>2. StartInLoop(cstatus, channel, TRUE, timers) /\ cb
    BY <1>6, Zenon DEF CallbackConnect, CallbackCall
  <2>3. /\ lpc # "check" /\ lpc # "connected" /\ cstatus \in {"Disconnected", "Connecting", "Connected"}
        /\ channel \in Fd \cup {None} /\ channel \in {channel, None}
    BY <2>2, Zenon DEF AttemptsCounted, TypeOK
  <2>4. /\ lpc' = lpc /\ ev' = ev /\ ev' \in Fd \cup {None} /\ started' \in BOOLEAN
        /\ mconnect' \in BOOLEAN /\ connection' \in Fd \cup {None} /\ conns' \subseteq Fd
        /\ retry' = retry /\ queue' \in Seq({"start", "reset"})
    BY <1>0, <1>6, Zenon DEF CallbackConnect, AttemptsCounted, TypeOK
  <2> QED
    BY <1>0, <2>1, <2>2, <2>3, <2>4, StartCounts, Zenon
<1>7. CASE CallbackStop
  <2>1. calls' \in [connect : Nat, again : Nat, stop : Nat]
    BY <1>0, <1>7, CountTypes, Zenon DEF CallbackStop, CallbackCall
  <2> QED
    BY <1>7, <2>1, Zenon DEF CallbackStop, ResetChannel, AttemptsCounted, TypeOK
<1>8. CASE (RunStart \/ RetryTimer) /\ UNCHANGED <<client, upc, calls>>
  <2>1. PICK tm \in 0..timers : StartInLoop(cstatus, channel, started, tm)
    BY <1>0, <1>8, ConnectorAssumption DEF RunStart, RetryTimer
  <2>2. queue' \in Seq({"start", "reset"})
    BY <1>0, <1>8, QueueTypes, Zenon DEF RunStart, RetryTimer
  <2>3. /\ lpc = "idle" /\ lpc' = lpc /\ ev' \in Fd \cup {None}
        /\ cstatus \in {"Disconnected", "Connecting", "Connected"}
        /\ channel \in Fd \cup {None} /\ channel \in {channel, None}
        /\ started' \in BOOLEAN
        /\ mconnect' \in BOOLEAN /\ connection' \in Fd \cup {None} /\ conns' \subseteq Fd
        /\ retry' = retry /\ calls' \in [connect : Nat, again : Nat, stop : Nat]
    BY <1>0, <1>8, Zenon DEF RunStart, RetryTimer, Loop, AttemptsCounted, TypeOK
  <2> QED
    BY <2>1, <2>2, <2>3, StartCounts, Zenon
<1>9. CASE RunReset /\ UNCHANGED <<client, upc, calls>>
  <2>1. queue' \in Seq({"start", "reset"})
    BY <1>0, <1>9, QueueTypes, Zenon DEF RunReset
  <2> QED
    BY <1>9, <2>1, ZenonT(30) DEF RunReset, Loop, ResetChannel, AttemptsCounted, TypeOK
<1>10. CASE ChannelEvent /\ UNCHANGED <<client, upc, calls>>
  BY <1>10, Zenon DEF ChannelEvent, Loop, AttemptsCounted, TypeOK
<1>11. CASE HandleError /\ UNCHANGED <<client, upc, calls>>
  <2>1. /\ lpc \in {"hup", "err"} /\ lpc' \in {"err", "out"} /\ handed' = TRUE
        /\ UNCHANGED <<retry, started, mfd, nfds, outcome, queue, ev, mconnect, connection, conns, calls>>
    BY <1>11, Zenon DEF HandleError, Loop
  <2>2. CASE cstatus = "Connecting"
    <3>1. /\ cstatus' = "Disconnected" /\ channel' = None /\ open' = open \ {channel} /\ cb' = TRUE
          /\ timers' \in {timers, timers + 1} /\ reported' = reported \cup {channel}
      BY <1>11, <2>2, Zenon DEF HandleError, Fail
    <3>2. channel \in Fd /\ timers < nfds /\ timers \in Nat /\ nfds \in 0..MaxFds
      BY <2>1, <2>2, ConnectorAssumption DEF AttemptsCounted, TypeOK
    <3>3. timers' \in 0..MaxFds /\ timers' <= nfds
      BY <3>1, <3>2, ConnectorAssumption
    <3> QED
      BY <2>1, <3>1, <3>2, <3>3, Zenon DEF AttemptsCounted, TypeOK
  <2>3. CASE cstatus # "Connecting"
    <3>1. UNCHANGED <<cstatus, channel, open, timers, reported, cb>>
      BY <1>11, <2>3, Zenon DEF HandleError
    <3> QED
      BY <2>1, <2>3, <3>1 DEF AttemptsCounted, TypeOK
  <2> QED
    BY <2>2, <2>3, Zenon
<1>12. CASE HandleWrite /\ UNCHANGED <<client, upc, calls>>
  BY <1>12, Zenon DEF HandleWrite, Loop, AttemptsCounted, TypeOK
<1>13. CASE HandleWriteCheck /\ UNCHANGED <<client, upc, calls>>
  <2>1. /\ lpc = "check" /\ ~cb
        /\ UNCHANGED <<retry, started, channel, mfd, handed, nfds, outcome, queue, mconnect, connection, conns, calls>>
    BY <1>13, Zenon DEF HandleWriteCheck, Loop
  <2>2. CASE outcome[ev] \in {"bad", "self"}
    <3>1. /\ cstatus' \in {"Disconnected", cstatus} /\ lpc' = "idle" /\ ev' = None
          /\ open' = open \ {ev} /\ cb' = TRUE
          /\ timers' \in {timers, timers + 1} /\ reported' = reported \cup {ev}
      BY <1>13, <2>2, Zenon DEF HandleWriteCheck, Fail
    <3>2. ev \in Fd /\ timers < nfds /\ timers \in Nat /\ nfds \in 0..MaxFds /\ channel = None
      BY <2>1, ConnectorAssumption DEF AttemptsCounted, TypeOK
    <3>3. timers' \in 0..MaxFds /\ timers' <= nfds
      BY <3>1, <3>2, ConnectorAssumption
    <3> QED
      BY <2>1, <3>1, <3>2, <3>3, Zenon DEF AttemptsCounted, TypeOK
  <2>3. CASE outcome[ev] \notin {"bad", "self"}
    <3>1. cstatus' = "Connected" /\ lpc' = "connected" /\ UNCHANGED <<open, timers, reported, cb, ev>>
      BY <1>13, <2>3, Zenon DEF HandleWriteCheck
    <3> QED
      BY <2>1, <3>1, Zenon DEF AttemptsCounted, TypeOK
  <2> QED
    BY <2>2, <2>3, Zenon
<1>14. CASE HandleWriteConnected
  BY <1>14, Zenon DEF HandleWriteConnected, Loop, NewConnection, AttemptsCounted, TypeOK
<1>15. CASE RemoveConnection
  <2>1. lpc = "closing" /\ lpc' = "idle" /\ ev' = None /\ UNCHANGED <<queue, upc, calls>>
    BY <1>15, Zenon DEF RemoveConnection, Loop
  <2>2. CASE mretry /\ mconnect /\ connection = ev
    <3>1. StartInLoop("Disconnected", None, TRUE, timers) /\ started' = TRUE /\ retry' = retry
      BY <1>15, <2>2, Zenon DEF RemoveConnection
    <3>2. /\ mconnect' \in BOOLEAN /\ connection' \in Fd \cup {None} /\ conns' \subseteq Fd
          /\ queue' \in Seq({"start", "reset"}) /\ ev' \in Fd \cup {None}
          /\ calls' \in [connect : Nat, again : Nat, stop : Nat] /\ started' \in BOOLEAN
      BY <1>0, <1>15, <2>1, <2>2, Zenon DEF RemoveConnection, AttemptsCounted, TypeOK
    <3> QED
      BY <1>0, <2>1, <3>1, <3>2, StartCounts, Zenon
  <2>3. CASE ~(mretry /\ mconnect /\ connection = ev)
    BY <1>15, <2>1, <2>3, ZenonT(30) DEF RemoveConnection, Abort, AttemptsCounted, TypeOK
  <2> QED
    BY <2>2, <2>3, Zenon
<1>16. CASE CallbackReturns
  <2>1. /\ UNCHANGED <<retry, started, cstatus, channel, mfd, handed, timers, nfds, open, outcome, reported>>
        /\ UNCHANGED <<queue, lpc, ev, mconnect, connection, conns, calls>> /\ cb' \in BOOLEAN /\ ~cb'
    BY <1>16, Zenon DEF CallbackReturns
  <2> QED
    BY <2>1 DEF AttemptsCounted, TypeOK
<1>17. ASSUME NEW c \in Fd, ConnectionCloses(c)
       PROVE  AttemptsCounted'
  <2>1. /\ UNCHANGED <<retry, started, cstatus, channel, mfd, handed, timers, nfds, open, outcome, reported>>
        /\ UNCHANGED <<queue, mconnect, connection, conns, calls>> /\ cb' = TRUE
        /\ lpc' = "closing" /\ lpc = "idle" /\ ev' = c
    BY <1>17, Zenon DEF ConnectionCloses, Loop
  <2>2. c # None
    BY ConnectorAssumption DEF Fd, None
  <2> QED
    BY <2>1, <2>2, ZenonT(30) DEF AttemptsCounted, TypeOK
<1>18. ASSUME NEW f \in Fd, Kernel(f)
       PROVE  AttemptsCounted'
  BY <1>18 DEF Kernel, Resolve, AttemptsCounted, TypeOK
<1>19. CASE UNCHANGED vars
  BY <1>19 DEF vars, AttemptsCounted, TypeOK
<1> QED
  BY <1>1, <1>2, <1>3, <1>4, <1>5, <1>6, <1>7, <1>8, <1>9, <1>10, <1>11, <1>12, <1>13, <1>14, <1>15,
     <1>16, <1>17, <1>18, <1>19, Zenon
  DEF Next, LoopStep, ConnectorStep

(* Every step keeps the events with their attempt. *)
LEMMA EventsStep ==
  ASSUME AttemptsCounted, EventsBelong, [Next]_vars
  PROVE  EventsBelong'
<1> SUFFICES ASSUME calls'.again = 0
             PROVE  /\ announced' = {}
                    /\ lpc' \in {"hup", "err", "out"} => channel' \in {None, ev'} /\ outcome'[ev'] # "pending"
                    /\ lpc' = "check" => outcome'[ev'] # "pending"
                    /\ lpc' = "connected" => outcome'[ev'] = "ok"
  BY Zenon DEF EventsBelong
<1> USE DEF cvars, sysvars, loopvars, client
<1>0. calls.again \in Nat /\ calls \in [connect : Nat, again : Nat, stop : Nat]
      /\ lpc \in {"idle", "hup", "err", "out", "check", "connected", "closing"}
  BY Zenon DEF AttemptsCounted, TypeOK
<1>1. CASE Connect \/ Disconnect \/ Stop \/ CallbackDisconnect \/ CallbackStop
  <2>1. calls.again = 0
    BY <1>0, <1>1, Zenon DEF Connect, Disconnect, Stop, CallbackDisconnect, CallbackStop, UserCall, CallbackCall, Count
  <2>2. channel' \in {channel, None} /\ UNCHANGED <<lpc, ev, outcome, announced>>
    BY <1>1, Zenon DEF Connect, Disconnect, Stop, CallbackDisconnect, CallbackStop, ResetChannel
  <2> QED
    BY <2>1, <2>2, Zenon DEF EventsBelong
<1>2. CASE StopStatus \/ StopQueue \/ CallbackReturns \/ UNCHANGED vars
  <2>1. UNCHANGED <<channel, lpc, ev, outcome, announced, calls>>
    BY <1>2, Zenon DEF StopStatus, StopQueue, CallbackReturns, vars
  <2> QED
    BY <2>1, Zenon DEF EventsBelong
<1>3. CASE CallbackConnect
  <2>1. calls' = [calls EXCEPT !["again"] = @ + 1]
    BY <1>3, Zenon DEF CallbackConnect, CallbackCall, Count
  <2>2. calls'["again"] = calls["again"] + 1
    BY <1>0, <2>1, Zenon
  <2>3. FALSE
    BY <1>0, <2>2
  <2> QED
    BY <2>3, Zenon
<1>4. CASE (RunStart \/ RunReset \/ RetryTimer) /\ UNCHANGED <<client, upc, calls>>
  <2>1. lpc' = "idle" /\ UNCHANGED <<announced, calls>>
    BY <1>4, Zenon DEF RunStart, RunReset, RetryTimer, Loop
  <2> QED
    BY <2>1, Zenon DEF EventsBelong
<1>5. CASE RemoveConnection
  <2>1. lpc' = "idle" /\ UNCHANGED <<announced, calls>>
    BY <1>5, Zenon DEF RemoveConnection
  <2> QED
    BY <2>1, Zenon DEF EventsBelong
<1>6. CASE ChannelEvent /\ UNCHANGED <<client, upc, calls>>
  BY <1>6, Zenon DEF ChannelEvent, EventsBelong
<1>7. CASE HandleError /\ UNCHANGED <<client, upc, calls>>
  BY <1>7, Zenon DEF HandleError, Loop, EventsBelong
<1>8. CASE HandleWrite /\ UNCHANGED <<client, upc, calls>>
  BY <1>8, Zenon DEF HandleWrite, Loop, EventsBelong, AttemptsCounted
<1>9. CASE HandleWriteCheck /\ UNCHANGED <<client, upc, calls>>
  <2>1. ev \in Fd /\ outcome[ev] \in {"pending", "ok", "bad", "self"}
    BY <1>9, Zenon DEF HandleWriteCheck, Loop, AttemptsCounted
  <2> QED
    BY <1>9, <2>1, Zenon DEF HandleWriteCheck, Loop, EventsBelong
<1>10. CASE HandleWriteConnected
  BY <1>10, Zenon DEF HandleWriteConnected, NewConnection, Loop, EventsBelong
<1>11. ASSUME NEW c \in Fd, ConnectionCloses(c)
       PROVE  /\ announced' = {} /\ lpc' = "closing"
  BY <1>11, Zenon DEF ConnectionCloses, EventsBelong
<1>12. CASE \E f \in Fd : Kernel(f)
  <2>1. PICK f \in Fd : Kernel(f)
    BY <1>12, Zenon
  <2>2. PICK o \in {"ok", "bad", "self"} : outcome' = [outcome EXCEPT ![f] = o]
    BY <2>1, Zenon DEF Kernel, Resolve
  <2>3. outcome[f] = "pending" /\ UNCHANGED <<channel, lpc, ev, announced, calls>>
    BY <2>1, Zenon DEF Kernel, Resolve
  <2>4. outcome \in [Fd -> {"pending", "ok", "bad", "self"}] /\ (lpc # "idle" => ev \in Fd)
    BY Zenon DEF AttemptsCounted
  <2> QED
    BY <2>2, <2>3, <2>4, Zenon DEF EventsBelong
<1> QED
  BY <1>1, <1>2, <1>3, <1>4, <1>5, <1>6, <1>7, <1>8, <1>9, <1>10, <1>11, <1>12, Zenon
  DEF Next, LoopStep, ConnectorStep

(* At the start there is nothing. *)
LEMMA ClientStarts ==
  Init => ClientInv
<1> SUFFICES ASSUME Init
             PROVE  ClientInv
  BY Zenon
<1>1. /\ retry \in BOOLEAN /\ started \in BOOLEAN /\ handed \in BOOLEAN /\ cb \in BOOLEAN
      /\ mconnect \in BOOLEAN /\ ~cb
  BY Zenon DEF Init, CInit
<1>2. /\ cstatus = "Disconnected" /\ channel = None /\ mfd = None
      /\ open = {} /\ reported = {} /\ lpc = "idle" /\ ev = None /\ aborted = ""
      /\ connection = None /\ conns = {} /\ announced = {}
  BY Zenon DEF Init, CInit
<1>n. timers = 0 /\ nfds = 0
  BY Zenon DEF Init, CInit
<1>q. queue = <<>>
  BY Zenon DEF Init, CInit
<1>o. outcome = [f \in Fd |-> "pending"]
  BY Zenon DEF Init, CInit
<1>c. calls = [connect |-> 0, again |-> 0, stop |-> 0]
  BY Zenon DEF Init, CInit
<1>3. AttemptsCounted
  <2>1. TypeOK
    <3>1. timers \in 0..MaxFds
      BY <1>n, ConnectorAssumption
    <3> QED
      BY <1>1, <1>2, <3>1, Zenon DEF TypeOK
  <2>2. nfds \in 0..MaxFds /\ timers <= nfds
    BY <1>n, ConnectorAssumption
  <2>5. calls \in [connect : Nat, again : Nat, stop : Nat]
    BY <1>c, Zenon
  <2>3. outcome \in [Fd -> {"pending", "ok", "bad", "self"}]
    BY <1>o, Zenon
  <2>4. queue \in Seq({"start", "reset"})
    BY <1>q
  <2> QED
    BY <1>1, <1>2, <2>1, <2>2, <2>3, <2>4, <2>5, Zenon DEF AttemptsCounted
<1>4. EventsBelong
  BY <1>2, Zenon DEF EventsBelong
<1>5. Starts = {} /\ Orphans = {}
  <2>1. 1..Len(queue) = {}
    BY <1>q
  <2> QED
    BY <1>2, <2>1, Zenon DEF Starts, StartsOf, Orphans
<1>6. calls.connect = 0 /\ calls.again = 0
  BY <1>c, Zenon
<1>7. OneAttempt
  <2>1. ~(timers > 0)
    BY <1>n
  <2> HIDE DEF Starts, Orphans, None
  <2> QED
    BY <1>1, <1>2, <1>n, <1>5, <1>6, <2>1, Zenon DEF OneAttempt
<1> QED
  BY <1>3, <1>4, <1>7, Zenon DEF ClientInv

(* "The callback is called when the connection to the server is established
   or closed" (tcp_client.h 117), for any number of sockets and calls: unless
   a callback connects again, newConnection (tcp_client.cc 150-189) announces
   only connections the kernel has established. *)
THEOREM OnlyEstablishedAnnounced ==
  Spec => []AnnouncedIsEstablished
<1>1. AttemptsCounted /\ EventsBelong /\ [Next]_vars => (AttemptsCounted /\ EventsBelong)'
  BY CountedStep, EventsStep, Zenon
<1>2. AttemptsCounted /\ EventsBelong => AnnouncedIsEstablished
  BY Zenon DEF EventsBelong, AnnouncedIsEstablished
<1>3. Init => AttemptsCounted /\ EventsBelong
  BY ClientStarts, Zenon DEF ClientInv
<1> QED
  BY <1>1, <1>2, <1>3, PTL DEF Spec
-----------------------------------------------------------------------------
(* Queueing connect() and stop(). *)
LEMMA StartsAppend ==
  ASSUME NEW q \in Seq({"start", "reset"})
  PROVE  /\ StartsOf(Append(q, "reset")) = StartsOf(q)
         /\ StartsOf(q) = {} => StartsOf(Append(q, "start")) = {Len(q) + 1}
<1>1. ASSUME NEW x \in {"start", "reset"}
      PROVE  /\ Len(q) \in Nat /\ Len(Append(q, x)) = Len(q) + 1 /\ Append(q, x)[Len(q) + 1] = x
             /\ \A k \in 1..Len(q) : Append(q, x)[k] = q[k]
  OBVIOUS
<1>2. StartsOf(Append(q, "reset")) = StartsOf(q)
  BY <1>1 DEF StartsOf
<1>3. ASSUME StartsOf(q) = {}
      PROVE  StartsOf(Append(q, "start")) = {Len(q) + 1}
  BY <1>1, <1>3 DEF StartsOf
<1> QED
  BY <1>2, <1>3, Zenon

(* Taking the next function from the queue. *)
LEMMA StartsTail ==
  ASSUME NEW q \in Seq({"start", "reset"}), q # <<>>, \A j, k \in StartsOf(q) : j = k
  PROVE  /\ Head(q) = "start" => StartsOf(Tail(q)) = {} /\ StartsOf(q) # {}
         /\ \A j, k \in StartsOf(Tail(q)) : j = k
         /\ StartsOf(Tail(q)) # {} => StartsOf(q) # {}
<1>1. /\ Len(q) \in Nat /\ Len(q) >= 1 /\ Len(Tail(q)) = Len(q) - 1 /\ Head(q) = q[1]
      /\ \A k \in 1..Len(Tail(q)) : Tail(q)[k] = q[k + 1]
  OBVIOUS
<1>2. ASSUME NEW k \in StartsOf(Tail(q))
      PROVE  k + 1 \in StartsOf(q) /\ k \in Nat /\ k >= 1
  BY <1>1, <1>2 DEF StartsOf
<1>3. Head(q) = "start" => 1 \in StartsOf(q)
  BY <1>1 DEF StartsOf
<1>4. ASSUME Head(q) = "start", NEW k \in StartsOf(Tail(q))
      PROVE  FALSE
  <2>1. k + 1 = 1 /\ k \in Nat /\ k >= 1
    BY <1>2, <1>3, <1>4, Zenon
  <2> QED
    BY <2>1
<1>5. ASSUME NEW j \in StartsOf(Tail(q)), NEW k \in StartsOf(Tail(q))
      PROVE  j = k
  <2>1. j + 1 = k + 1 /\ j \in Nat /\ k \in Nat
    BY <1>2, Zenon
  <2> QED
    BY <2>1
<1> QED
  BY <1>2, <1>3, <1>4, <1>5, Zenon

(* Once something was asked for, connect() was called and cannot be again. *)
LEMMA OnceBefore ==
  ASSUME AttemptsCounted, [Next]_vars, ConnectsOnce'
  PROVE  /\ ConnectsOnce
         /\ Connect => calls.connect = 0 /\ calls'.connect = 1 /\ calls'.again = calls.again
         /\ CallbackConnect => calls.connect = 0
         /\ ~Connect /\ ~CallbackConnect => calls'.connect = calls.connect /\ calls'.again = calls.again
<1>0. calls \in [connect : Nat, again : Nat, stop : Nat] /\ calls.connect \in Nat /\ calls.again \in Nat
  BY Zenon DEF AttemptsCounted
<1>1. CASE calls' = [calls EXCEPT !["connect"] = @ + 1] /\ Connect
  <2>1. calls'.connect = calls.connect + 1 /\ calls'.again = calls.again
    BY <1>0, <1>1, Zenon
  <2>2. ~CallbackConnect
    <3>1. CallbackConnect => calls' = [calls EXCEPT !["again"] = @ + 1]
      BY Zenon DEF CallbackConnect, CallbackCall, Count
    <3>2. CallbackConnect => calls'.again = calls.again + 1
      BY <1>0, <3>1, Zenon
    <3> QED
      BY <1>0, <2>1, <3>2
  <2>3. calls.connect = 0 /\ calls.again <= 1
    BY <1>0, <2>1 DEF ConnectsOnce
  <2> QED
    BY <1>0, <1>1, <2>1, <2>2, <2>3 DEF ConnectsOnce
<1>2. CASE calls' = [calls EXCEPT !["again"] = @ + 1] /\ CallbackConnect
  <2>1. calls'.again = calls.again + 1 /\ calls'.connect = calls.connect
    BY <1>0, <1>2, Zenon
  <2>2. ~Connect
    <3>1. Connect => calls' = [calls EXCEPT !["connect"] = @ + 1]
      BY Zenon DEF Connect, UserCall, Count
    <3>2. Connect => calls'.connect = calls.connect + 1
      BY <1>0, <3>1, Zenon
    <3> QED
      BY <1>0, <2>1, <3>2
  <2>3. calls.again = 0 /\ calls.connect = 0
    BY <1>0, <2>1 DEF ConnectsOnce
  <2> QED
    BY <1>0, <1>2, <2>1, <2>2, <2>3, Zenon DEF ConnectsOnce
<1>3. CASE (calls' = calls \/ calls' = [calls EXCEPT !["stop"] = @ + 1]) /\ ~Connect /\ ~CallbackConnect
  <2>1. calls'.connect = calls.connect /\ calls'.again = calls.again
    BY <1>0, <1>3, Zenon
  <2> QED
    BY <1>3, <2>1, Zenon DEF ConnectsOnce
<1>4. Connect => calls' = [calls EXCEPT !["connect"] = @ + 1]
  BY Zenon DEF Connect, UserCall, Count
<1>5. CallbackConnect => calls' = [calls EXCEPT !["again"] = @ + 1]
  BY Zenon DEF CallbackConnect, CallbackCall, Count
<1>6. ~Connect /\ ~CallbackConnect => calls' = calls \/ calls' = [calls EXCEPT !["stop"] = @ + 1]
  BY Zenon DEF Next, LoopStep, ConnectorStep, Disconnect, Stop, StopStatus, StopQueue, CallbackDisconnect,
         CallbackStop, HandleWriteConnected, RemoveConnection, CallbackReturns, ConnectionCloses, Kernel,
         UserCall, CallbackCall, Count, vars
<1> QED
  BY <1>1, <1>2, <1>3, <1>4, <1>5, <1>6, Zenon

(* A count of timers. *)
LEMMA TimerCount ==
  /\ \A t : t = 0 => ~(t > 0)
  /\ \A t : t = 0 + 1 => t = 1
  OBVIOUS

(* Starting an attempt when nothing is under way keeps it the only one. *)
LEMMA StartOne ==
  ASSUME AttemptsCounted, NEW run, StartInLoop("Disconnected", None, run, 0), aborted = "",
         Starts' = {}, lpc' = "idle", connection' = None, conns' = {},
         calls'.connect # 0, calls'.again = 0, open \ (abandoned \cup conns' \cup dropped') = {}
  PROVE  OneAttempt'
<1>1. /\ abandoned' = abandoned /\ aborted' = aborted
      /\ \/ cstatus' = "Disconnected" /\ channel' = None /\ open' = open /\ (timers' = 0 \/ timers' = 0 + 1)
         \/ /\ nfds' # None /\ mfd' = nfds' /\ handed' = FALSE /\ open' = open \cup {nfds'} /\ timers' = 0
            /\ cstatus' # "Connected" /\ (channel' = nfds' \/ channel' = None)
  <2>1. 0 \in Nat
    BY Zenon
  <2> QED
    BY <2>1, StartEffect, Zenon
<1>2. Orphans' = open' \ (abandoned \cup conns' \cup dropped')
  BY <1>1, Zenon DEF Orphans
<1>3. CASE cstatus' = "Disconnected" /\ channel' = None /\ open' = open /\ (timers' = 0 \/ timers' = 0 + 1)
  <2>1. Orphans' = {}
    BY <1>2, <1>3, Zenon
  <2>2. timers' = 1 \/ ~(timers' > 0)
    BY <1>3, TimerCount, Zenon
  <2> QED
    BY <1>1, <1>3, <2>1, <2>2, Zenon DEF OneAttempt
<1>4. CASE /\ nfds' # None /\ mfd' = nfds' /\ handed' = FALSE /\ open' = open \cup {nfds'} /\ timers' = 0
           /\ cstatus' # "Connected" /\ (channel' = nfds' \/ channel' = None)
  <2>1. Orphans' \subseteq {mfd'}
    BY <1>2, <1>4, Zenon
  <2>2. ~(timers' > 0)
    BY <1>4, TimerCount, Zenon
  <2> QED
    BY <1>1, <1>4, <2>1, <2>2, Zenon DEF OneAttempt
<1> QED
  BY <1>1, <1>3, <1>4, Zenon

(* disconnect() and stop() leave the number of connects alone. *)
LEMMA StopCounts ==
  ASSUME AttemptsCounted, calls' = calls \/ calls' = [calls EXCEPT !["stop"] = @ + 1]
  PROVE  calls'.connect = calls.connect /\ calls'.again = calls.again
  BY Zenon DEF AttemptsCounted

(* Every step keeps the attempt the only one. *)
LEMMA OneStep ==
  ASSUME AttemptsCounted, OneAttempt, [Next]_vars
  PROVE  OneAttempt'
<1> SUFFICES ASSUME ConnectsOnce'
             PROVE  OneAttempt'
  BY Zenon DEF OneAttempt
<1> USE DEF cvars, sysvars, loopvars, client
<1>0. ConnectsOnce /\ calls.again = 0
  BY OnceBefore, Zenon DEF OneAttempt
<1>a. /\ aborted = ""
      /\ \A j, k \in Starts : j = k
      /\ calls.connect = 0 => Starts = {}
  BY <1>0, Zenon DEF OneAttempt
<1>b. calls.connect = 0 \/ Starts # {} =>
        /\ timers = 0 /\ channel = None /\ connection = None /\ lpc = "idle" /\ ~cb
        /\ cstatus = "Disconnected" /\ Orphans = {}
  BY <1>0, Zenon DEF OneAttempt
<1>c. timers > 0 =>
        /\ timers = 1 /\ channel = None /\ connection = None
        /\ lpc \in {"idle", "hup", "err", "out"} /\ cstatus = "Disconnected" /\ Orphans = {}
  BY <1>0, Zenon DEF OneAttempt
<1>d. channel # None =>
        /\ channel = mfd /\ connection = None
        /\ lpc \in {"idle", "hup", "err", "out"} /\ cstatus # "Connected"
  BY <1>0, Zenon DEF OneAttempt
<1>e. /\ lpc \in {"hup", "err", "out"} =>
           /\ connection = None /\ cstatus # "Connected"
           /\ channel = None => Orphans = {}
      /\ lpc \in {"check", "connected"} => connection = None /\ Orphans \subseteq {ev}
      /\ lpc = "closing" => connection = ev
  BY <1>0, Zenon DEF OneAttempt
<1>f. /\ conns = IF connection = None THEN {} ELSE {connection}
      /\ connection # None => Orphans = {}
      /\ lpc \notin {"check", "connected"} =>
           /\ Orphans \subseteq {mfd}
           /\ handed /\ channel = None => Orphans = {}
  BY <1>0, Zenon DEF OneAttempt
<1>q. queue \in Seq({"start", "reset"}) /\ Starts = StartsOf(queue) /\ Starts' = StartsOf(queue')
  BY Zenon DEF AttemptsCounted, Starts
<1>1. CASE Connect
  <2>1. calls.connect = 0 /\ calls'.connect = 1 /\ calls'.again = 0
    BY <1>0, <1>1, OnceBefore, Zenon
  <2>2. Starts' = {Len(queue) + 1}
    BY <1>1, <1>a, <1>q, <2>1, StartsAppend, Zenon DEF Connect
  <2>3. UNCHANGED <<cstatus, channel, mfd, handed, timers, open, abandoned, lpc, ev, cb, aborted, connection, conns, dropped>>
    BY <1>1, Zenon DEF Connect
  <2>4. Orphans' = Orphans
    BY <2>3, Zenon DEF Orphans
  <2>5. timers' = 0 /\ channel' = None /\ connection' = None /\ lpc' = "idle" /\ ~cb'
        /\ cstatus' = "Disconnected" /\ Orphans' = {} /\ aborted' = "" /\ conns' = {}
    BY <1>a, <1>b, <1>f, <2>1, <2>3, <2>4, Zenon
  <2>6. ~(timers' > 0) /\ calls'.connect # 0 /\ (\A j, k \in Starts' : j = k)
    <3>1. ~(timers' > 0)
      BY <2>5, TimerCount, Zenon
    <3>2. calls'.connect # 0
      BY <2>1
    <3> QED
      BY <2>2, <3>1, <3>2, Zenon
  <2> QED
    BY <2>1, <2>5, <2>6, Zenon DEF OneAttempt
<1>2. CASE \/ Disconnect \/ Stop \/ StopStatus \/ StopQueue \/ CallbackDisconnect \/ CallbackReturns
           \/ (\E f \in Fd : Kernel(f)) \/ UNCHANGED vars
  <2>1. /\ UNCHANGED <<channel, mfd, handed, timers, open, abandoned, lpc, ev, aborted, connection, conns, dropped>>
        /\ cstatus' \in {cstatus, "Disconnected"}
    BY <1>2, Zenon DEF Disconnect, Stop, StopStatus, StopQueue, CallbackDisconnect, CallbackReturns, Kernel, Resolve, vars
  <2>5. cb' => cb
    <3>1. CASE CallbackReturns
      BY <3>1, Zenon DEF CallbackReturns
    <3>2. CASE ~CallbackReturns
      BY <1>2, <3>2, Zenon DEF Disconnect, Stop, StopStatus, StopQueue, CallbackDisconnect, Kernel, Resolve, vars
    <3> QED
      BY <3>1, <3>2, Zenon
  <2>2. calls'.connect = calls.connect /\ calls'.again = 0
    <3>1. calls' = calls \/ calls' = [calls EXCEPT !["stop"] = @ + 1]
      BY <1>2, Zenon DEF Disconnect, Stop, StopStatus, StopQueue, CallbackDisconnect, CallbackReturns, Kernel,
                  UserCall, CallbackCall, Count, vars
    <3> QED
      BY <1>0, <3>1, StopCounts, Zenon
  <2>3. Starts' = Starts
    <3>1. queue' = queue \/ queue' = Append(queue, "reset")
      BY <1>2, Zenon DEF Disconnect, Stop, StopStatus, StopQueue, CallbackDisconnect, CallbackReturns, Kernel, Resolve, vars
    <3> QED
      BY <1>q, <3>1, StartsAppend, Zenon
  <2>4. Orphans' = Orphans
    BY <2>1, Zenon DEF Orphans
  <2> QED
    BY <1>a, <1>b, <1>c, <1>d, <1>e, <1>f, <2>1, <2>2, <2>3, <2>4, <2>5, Zenon DEF OneAttempt
<1>3. CASE CallbackConnect
  <2>1. calls.connect = 0 /\ cb
    BY <1>3, OnceBefore, Zenon DEF CallbackConnect, CallbackCall
  <2> QED
    BY <1>b, <2>1, Zenon
<1>4. CASE CallbackStop \/ (RunReset /\ UNCHANGED <<client, upc, calls>>)
  <2>1. /\ UNCHANGED <<mfd, handed, timers, open, lpc, ev, cb, aborted, connection, conns, dropped>>
        /\ cstatus' \in {cstatus, "Disconnected"} /\ ResetChannel
    BY <1>4, Zenon DEF CallbackStop, RunReset
  <2>2. calls'.connect = calls.connect /\ calls'.again = 0
    <3>1. calls' = calls \/ calls' = [calls EXCEPT !["stop"] = @ + 1]
      BY <1>4, Zenon DEF CallbackStop, CallbackCall, Count
    <3> QED
      BY <1>0, <3>1, StopCounts, Zenon
  <2>3. (\A j, k \in Starts' : j = k) /\ (Starts = {} => Starts' = {})
    <3>1. queue' = queue \/ (queue # <<>> /\ queue' = Tail(queue))
      <4>1. CASE CallbackStop
        BY <4>1, Zenon DEF CallbackStop
      <4>2. CASE RunReset
        BY <4>2, Zenon DEF RunReset
      <4> QED
        BY <1>4, <4>1, <4>2, Zenon
    <3>2. CASE queue' = queue
      BY <1>a, <1>q, <3>2, Zenon
    <3>3. CASE queue # <<>> /\ queue' = Tail(queue)
      <4>1. (\A j, k \in StartsOf(Tail(queue)) : j = k) /\ (StartsOf(queue) = {} => StartsOf(Tail(queue)) = {})
        BY <1>a, <1>q, <3>3, StartsTail, Zenon
      <4> QED
        BY <1>q, <3>3, <4>1, Zenon
    <3> QED
      BY <3>1, <3>2, <3>3, Zenon
  <2>4. channel' = None /\ Orphans' \subseteq Orphans /\ (channel # None => channel \notin Orphans')
    BY <2>1, Zenon DEF Orphans, ResetChannel
  <2>5. Orphans' \subseteq Orphans /\ (lpc \notin {"check", "connected"} /\ (handed \/ lpc # "idle") => Orphans' = {})
    BY <1>d, <1>e, <1>f, <2>4 DEF AttemptsCounted, TypeOK
  <2> QED
    BY <1>a, <1>b, <1>c, <1>e, <1>f, <2>1, <2>2, <2>3, <2>4, <2>5, Zenon DEF OneAttempt
<1>5. CASE RunStart /\ UNCHANGED <<client, upc, calls>>
  <2>1. queue # <<>> /\ Head(queue) = "start" /\ queue' = Tail(queue) /\ lpc' = lpc
        /\ StartInLoop(cstatus, channel, started, timers)
    BY <1>5, Zenon DEF RunStart
  <2>2. Starts' = {} /\ Starts # {}
    BY <1>a, <1>q, <2>1, StartsTail, Zenon
  <2>3. calls'.connect # 0 /\ calls'.again = 0
    BY <1>0, <1>5, <1>a, <2>2, Zenon
  <2>4. conns' = {} /\ dropped' = dropped /\ connection' = None /\ lpc' = "idle"
    BY <1>5, <1>b, <1>f, <2>1, <2>2, Zenon
  <2>5. open \ (abandoned \cup conns' \cup dropped') = {}
    BY <1>5, <1>b, <2>2, Zenon DEF Orphans
  <2>6. StartInLoop("Disconnected", None, started, 0)
    BY <1>b, <2>1, <2>2, Zenon
  <2> QED
    BY <1>a, <2>2, <2>3, <2>4, <2>5, <2>6, StartOne, Zenon
<1>6. CASE RetryTimer /\ UNCHANGED <<client, upc, calls>>
  <2>1. timers > 0 /\ lpc = "idle" /\ lpc' = lpc /\ queue' = queue
        /\ StartInLoop(cstatus, channel, started, timers - 1)
    BY <1>6, Zenon DEF RetryTimer, Loop
  <2>2. Starts = {} /\ calls.connect # 0 /\ timers - 1 = 0
    <3>1. timers # 0 /\ timers = 1
      BY <1>c, <2>1
    <3> QED
      BY <1>b, <3>1
  <2>3. Starts' = {} /\ calls'.connect # 0 /\ calls'.again = 0
    BY <1>0, <1>6, <1>q, <2>1, <2>2, Zenon
  <2>4. conns' = {} /\ dropped' = dropped /\ connection' = None /\ lpc' = "idle"
    BY <1>6, <1>c, <1>f, <2>1, Zenon
  <2>5. open \ (abandoned \cup conns' \cup dropped') = {}
    BY <1>6, <1>c, <2>1, Zenon DEF Orphans
  <2>6. StartInLoop("Disconnected", None, started, 0)
    BY <1>c, <2>1, <2>2, Zenon
  <2> QED
    BY <1>a, <2>3, <2>4, <2>5, <2>6, StartOne, Zenon
<1>7. CASE RemoveConnection
  <2>1. lpc = "closing" /\ lpc' = "idle" /\ queue' = queue /\ calls' = calls
    BY <1>7, Zenon DEF RemoveConnection, Loop
  <2>2. connection = ev /\ ev # None
    BY <1>e, <2>1, Zenon DEF AttemptsCounted
  <2>3. Starts' = {} /\ calls'.connect # 0 /\ calls'.again = 0 /\ ~(timers > 0) /\ channel = None
    BY <1>0, <1>a, <1>b, <1>c, <1>d, <1>q, <2>1, Zenon
  <2>4. connection' = None /\ conns' = {} /\ dropped' = dropped \cup {ev}
    BY <1>7, <1>f, <2>2, Zenon DEF RemoveConnection
  <2>5. open \ (abandoned \cup conns' \cup dropped') = {}
    BY <1>f, <2>2, <2>4, Zenon DEF Orphans
  <2>6. CASE mretry /\ mconnect
    <3>1. StartInLoop("Disconnected", None, TRUE, timers)
      BY <1>7, <2>2, <2>6, Zenon DEF RemoveConnection
    <3>2. timers = 0
      BY <2>3 DEF AttemptsCounted, TypeOK
    <3>3. StartInLoop("Disconnected", None, TRUE, 0)
      BY <3>1, <3>2, Zenon
    <3> QED
      BY <1>a, <2>1, <2>3, <2>4, <2>5, <3>3, StartOne, Zenon
  <2>7. CASE ~(mretry /\ mconnect)
    <3>1. UNCHANGED <<cstatus, channel, mfd, handed, timers, open, abandoned, aborted, cb>>
      BY <1>7, <2>2, <2>7, Zenon DEF RemoveConnection
    <3>2. Orphans' = {}
      BY <2>5, <3>1, Zenon DEF Orphans
    <3> QED
      BY <1>a, <2>1, <2>3, <2>4, <3>1, <3>2, Zenon DEF OneAttempt
  <2> QED
    BY <2>6, <2>7, Zenon
<1>8. CASE ChannelEvent /\ UNCHANGED <<client, upc, calls>>
  <2>1. /\ lpc = "idle" /\ channel # None /\ ev' = channel /\ lpc' \in {"hup", "out"} /\ Starts' = Starts
        /\ UNCHANGED <<cstatus, channel, mfd, handed, timers, open, abandoned, cb, aborted, connection, conns, dropped, calls>>
    BY <1>8, <1>q, Zenon DEF ChannelEvent, Loop
  <2>2. Orphans' = Orphans
    BY <2>1, Zenon DEF Orphans
  <2> QED
    BY <1>0, <1>a, <1>b, <1>c, <1>d, <1>f, <2>1, <2>2, Zenon DEF OneAttempt
<1>9. CASE HandleError /\ UNCHANGED <<client, upc, calls>>
  <2>1. /\ lpc \in {"hup", "err"} /\ lpc' \in {"err", "out"} /\ Starts' = Starts
        /\ UNCHANGED <<mfd, abandoned, aborted, ev, connection, conns, dropped, calls>>
    BY <1>9, <1>q, Zenon DEF HandleError, Loop
  <2>2. CASE cstatus = "Connecting"
    <3>1. channel # None /\ timers = 0
      BY <1>c, <2>1, <2>2 DEF AttemptsCounted, TypeOK
    <3>2. /\ cstatus' = "Disconnected" /\ channel' = None /\ open' = open \ {channel}
          /\ (timers' = 0 \/ timers' = 0 + 1)
      BY <1>9, <2>2, <3>1, Zenon DEF HandleError, Fail
    <3>3. Orphans' = {}
      BY <1>d, <1>f, <2>1, <3>1, <3>2, Zenon DEF Orphans
    <3>4. timers' = 1 \/ ~(timers' > 0)
      BY <3>2, TimerCount, Zenon
    <3>5. Starts' = {} /\ calls'.connect # 0 /\ calls'.again = 0 /\ connection' = None
      BY <1>0, <1>b, <1>e, <2>1, Zenon
    <3> QED
      BY <1>a, <1>f, <2>1, <3>2, <3>3, <3>4, <3>5, Zenon DEF OneAttempt
  <2>3. CASE cstatus # "Connecting"
    <3>1. UNCHANGED <<cstatus, channel, open, timers, cb>>
      BY <1>9, <2>3, Zenon DEF HandleError
    <3>2. Orphans' = Orphans
      BY <2>1, <3>1, Zenon DEF Orphans
    <3> QED
      BY <1>0, <1>a, <1>b, <1>c, <1>d, <1>e, <1>f, <2>1, <3>1, <3>2, Zenon DEF OneAttempt
  <2> QED
    BY <2>2, <2>3, Zenon
<1>10. CASE HandleWrite /\ UNCHANGED <<client, upc, calls>>
  <2>1. /\ lpc = "out" /\ Starts' = Starts
        /\ UNCHANGED <<cstatus, mfd, timers, open, abandoned, cb, connection, conns, dropped, calls>>
    BY <1>10, <1>q, Zenon DEF HandleWrite, Loop
  <2>2. Orphans' = Orphans /\ connection = None
    BY <1>e, <2>1, Zenon DEF Orphans
  <2>3. Starts' = {} /\ calls'.connect # 0 /\ calls'.again = 0
    BY <1>0, <1>b, <2>1, Zenon
  <2>4. CASE cstatus = "Connecting"
    <3>1. channel # None /\ channel' = None /\ ev' = channel /\ lpc' = "check" /\ aborted' = aborted
      BY <1>10, <2>1, <2>4, Zenon DEF HandleWrite, AttemptsCounted
    <3>2. Orphans' \subseteq {ev'} /\ ~(timers' > 0)
      BY <1>c, <1>d, <1>f, <2>1, <2>2, <3>1, Zenon
    <3> QED
      BY <1>a, <1>f, <2>1, <2>2, <2>3, <3>1, <3>2, Zenon DEF OneAttempt
  <2>5. CASE cstatus # "Connecting"
    <3>1. cstatus = "Disconnected" /\ lpc' = "idle" /\ aborted' = "" /\ channel' = channel
      BY <1>10, <1>e, <2>1, <2>5, Zenon DEF HandleWrite, AttemptsCounted, TypeOK
    <3> QED
      BY <1>a, <1>c, <1>d, <1>e, <1>f, <2>1, <2>2, <2>3, <3>1, Zenon DEF OneAttempt
  <2> QED
    BY <2>4, <2>5, Zenon
<1>11. CASE HandleWriteCheck /\ UNCHANGED <<client, upc, calls>>
  <2>1. /\ lpc = "check" /\ Starts' = Starts /\ channel = None
        /\ UNCHANGED <<channel, mfd, handed, abandoned, aborted, connection, conns, dropped, calls>>
    BY <1>11, <1>q, Zenon DEF HandleWriteCheck, Loop, AttemptsCounted
  <2>2. Starts' = {} /\ calls'.connect # 0 /\ calls'.again = 0 /\ connection = None /\ ~(timers > 0)
    BY <1>0, <1>b, <1>c, <1>e, <2>1, Zenon
  <2>3. CASE outcome[ev] \in {"bad", "self"}
    <3>1. timers = 0
      BY <2>2 DEF AttemptsCounted, TypeOK
    <3>2. /\ lpc' = "idle" /\ open' = open \ {ev}
          /\ (timers' = 0 \/ (timers' = 0 + 1 /\ cstatus' = "Disconnected"))
      <4>1. /\ lpc' = "idle" /\ open' = open \ {ev}
            /\ timers' = (IF retry /\ started THEN 0 + 1 ELSE 0)
            /\ (retry => cstatus' = "Disconnected")
        BY <1>11, <2>3, <3>1, Zenon DEF HandleWriteCheck, Fail
      <4> QED
        BY <4>1, Zenon
    <3>3. Orphans' = {}
      BY <1>e, <2>1, <3>2, Zenon DEF Orphans
    <3>4. (timers' = 1 /\ cstatus' = "Disconnected") \/ ~(timers' > 0)
      BY <3>2, TimerCount, Zenon
    <3> QED
      BY <1>a, <1>f, <2>1, <2>2, <3>2, <3>3, <3>4, Zenon DEF OneAttempt
  <2>4. CASE outcome[ev] \notin {"bad", "self"}
    <3>1. lpc' = "connected" /\ UNCHANGED <<open, timers, cb, ev>>
      BY <1>11, <2>4, Zenon DEF HandleWriteCheck
    <3>2. Orphans' \subseteq {ev'}
      BY <1>e, <2>1, <3>1, Zenon DEF Orphans
    <3> QED
      BY <1>a, <1>f, <2>1, <2>2, <3>1, <3>2, Zenon DEF OneAttempt
  <2> QED
    BY <2>3, <2>4, Zenon
<1>12. CASE HandleWriteConnected
  <2>1. /\ lpc = "connected" /\ Starts' = Starts /\ lpc' = "idle"
        /\ UNCHANGED <<cstatus, channel, mfd, handed, timers, abandoned, aborted, dropped, calls>>
    BY <1>12, <1>q, Zenon DEF HandleWriteConnected, Loop
  <2>2. /\ Starts' = {} /\ calls'.connect # 0 /\ calls'.again = 0 /\ connection = None /\ ~(timers > 0)
        /\ channel = None /\ conns = {} /\ Orphans \subseteq {ev} /\ ev # None
    BY <1>0, <1>b, <1>c, <1>d, <1>e, <1>f, <2>1, Zenon DEF AttemptsCounted
  <2>3. CASE started
    <3>1. connection' = ev /\ conns' = {ev} /\ open' = open
      BY <1>12, <2>2, <2>3, Zenon DEF HandleWriteConnected, NewConnection
    <3>2. Orphans' = {}
      BY <2>1, <2>2, <3>1, Zenon DEF Orphans
    <3> QED
      BY <1>a, <2>1, <2>2, <3>1, <3>2, Zenon DEF OneAttempt
  <2>4. CASE ~started
    <3>1. connection' = None /\ conns' = {} /\ open' = open \ {ev}
      BY <1>12, <2>2, <2>4, Zenon DEF HandleWriteConnected
    <3>2. Orphans' = {}
      BY <2>1, <2>2, <3>1, Zenon DEF Orphans
    <3> QED
      BY <1>a, <2>1, <2>2, <3>1, <3>2, Zenon DEF OneAttempt
  <2> QED
    BY <2>3, <2>4, Zenon
<1>13. ASSUME NEW c \in Fd, ConnectionCloses(c)
       PROVE  OneAttempt'
  <2>1. /\ lpc = "idle" /\ lpc' = "closing" /\ ev' = c /\ c \in conns /\ Starts' = Starts
        /\ UNCHANGED <<cstatus, channel, mfd, handed, timers, open, abandoned, aborted, connection, conns, dropped, calls>>
    BY <1>13, <1>q, Zenon DEF ConnectionCloses, Loop
  <2>2. connection = c /\ connection # None
    BY <1>f, <2>1, Zenon
  <2>3. /\ Starts' = {} /\ calls'.connect # 0 /\ calls'.again = 0 /\ ~(timers > 0)
        /\ channel = None /\ Orphans = {}
    BY <1>0, <1>b, <1>c, <1>d, <1>f, <2>1, <2>2, Zenon
  <2>4. Orphans' = {}
    BY <2>1, <2>3, Zenon DEF Orphans
  <2> QED
    BY <1>a, <1>f, <2>1, <2>2, <2>3, <2>4, Zenon DEF OneAttempt
<1> QED
  BY <1>1, <1>2, <1>3, <1>4, <1>5, <1>6, <1>7, <1>8, <1>9, <1>10, <1>11, <1>12, <1>13, Zenon
  DEF Next, LoopStep, ConnectorStep

(* While connect() is called once, whatever disconnects, stops or closes:
   no assertion of Connector and TcpClient fails and no socket is forgotten,
   for any number of sockets, stops and reconnections. *)
THEOREM NoSocketForgotten ==
  Spec => []SocketsOwned
<1>1. ClientInv /\ [Next]_vars => ClientInv'
  BY CountedStep, EventsStep, OneStep, Zenon DEF ClientInv
<1>2. ASSUME ClientInv
      PROVE  SocketsOwned
  <2>1. AttemptsCounted /\ OneAttempt /\ TypeOK
    BY <1>2, Zenon DEF ClientInv, AttemptsCounted
  <2>2. calls.connect + calls.again <= 1 => ConnectsOnce
    BY <2>1 DEF AttemptsCounted, ConnectsOnce
  <2>3. ASSUME ConnectsOnce, NEW f \in open \ abandoned
        PROVE  \/ f \in conns \cup dropped
               \/ lpc \in {"check", "connected"} /\ f = ev
               \/ f = mfd /\ (~handed \/ f = channel)
    <3>1. SUFFICES ASSUME f \in Orphans
                   PROVE  \/ lpc \in {"check", "connected"} /\ f = ev
                          \/ f = mfd /\ (~handed \/ f = channel)
      BY <2>3, Zenon DEF Orphans
    <3> QED
      BY <2>1, <2>3, <3>1, Zenon DEF OneAttempt
  <2> QED
    BY <2>1, <2>2, <2>3, Zenon DEF SocketsOwned, OneAttempt
<1> QED
  BY <1>1, <1>2, ClientStarts, PTL DEF Spec
=============================================================================
