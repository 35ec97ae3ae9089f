---------------------------- MODULE TcpConnection ---------------------------
(***************************************************************************)
(* netpoll/net/inner/tcp_connection_impl.{h,cc}: one established           *)
(* connection, the loop thread that does its I/O, other threads that send  *)
(* on it and close it, the kernel's socket and the peer.                   *)
(*                                                                         *)
(* A call of send, sendFile or sendStream gets a number; its data are Size *)
(* bytes <<number, 1>> ... <<number, Size>>.  `queue` is m_funcs of the    *)
(* loop, of which only this connection's functions are kept.  The four     *)
(* overloads of send differ in whether m_sendNumMutex is held between the  *)
(* increment of m_sendNum and queueInLoop; the loosest one is modelled.    *)
(* User callbacks run while cb is not "none"; they may call the connection.*)
(***************************************************************************)
EXTENDS Naturals, Sequences, FiniteSets

CONSTANTS
  Thread,         \* threads other than the loop thread
  Kinds,          \* what is sent: subset of {"msg", "file", "stream"}
  Size,           \* bytes per message, file or stream
  MaxSends,       \* bound on the calls of send, sendFile and sendStream
  MaxIn,          \* bound on the bytes received
  HighWaterMark   \* m_highWaterMarkLen

ASSUME TcpConnectionAssumption ==
  /\ IsFiniteSet(Thread) /\ Kinds \subseteq {"msg", "file", "stream"}
  /\ Size \in Nat \ {0} /\ MaxSends \in Nat /\ MaxIn \in Nat /\ HighWaterMark \in Nat

None == 0

Call == 1..MaxSends

VARIABLES
  status,         \* m_status
  events,         \* m_ioChannelPtr's m_events: subset of {"read", "write"}
  list,           \* m_writeBufferList: records [kind, left, open]
  fileBuf,        \* *m_fileBufferPtr: bytes of a stream fetched and not written
  sendNum,        \* m_sendNum
  bytesSent,      \* m_bytesSent
  queue,          \* functions queued in the loop: records [op, id]
  lpc,            \* loop thread: "poll", "active", "event", "read", "write", "funcs"
  revents,        \* m_revents
  cb,             \* user callback running: "none", "user", "complete", "highwater"
  tcall,          \* tcall[t]: the call t has counted and not queued yet, or None
  calls,          \* number of send calls so far
  kind,           \* kind[i]: what call i sends
  returned,       \* calls that have returned
  asked,          \* which of "shutdown" and "close" other threads have called
  before,         \* before[i]: calls that had returned when call i began
  ups, downs,     \* calls of m_connectionCallback with a connection up or down
  closes,         \* calls of m_closeCallback
  closing,        \* calls of m_closeCallback the server has yet to act upon
  wire,           \* bytes the kernel has accepted
  wrClosed,       \* closeWrite() was called
  peer,           \* "open", "fin" (it shut its side down) or "rst"
  soError,        \* the reset is still to be reported by read()
  received, unread  \* bytes received in all, and not read yet

conn == <<status, events>>
out == <<list, fileBuf, wire, bytesSent>>
callVars == <<tcall, calls, kind, returned, before, asked>>
cbVars == <<ups, downs, closes, closing>>
net == <<peer, soError, received, unread>>
vars == <<conn, out, sendNum, queue, lpc, revents, cb, callVars, cbVars, wrClosed, net>>

Bytes(i) == [k \in 1..Size |-> <<i, k>>]

Fn(op, i) == [op |-> op, id |-> i]

(* The constructor, with connectEstablished() queued in the loop. *)
Init ==
  /\ status = "Connecting" /\ events = {}
  /\ list = <<>> /\ fileBuf = <<>> /\ wire = <<>> /\ bytesSent = 0
  /\ sendNum = 0
  /\ queue = <<Fn("establish", None)>>
  /\ lpc = "funcs" /\ revents = {} /\ cb = "none"
  /\ tcall = [t \in Thread |-> None]
  /\ calls = 0 /\ kind = [i \in Call |-> "msg"] /\ returned = {} /\ before = [i \in Call |-> {}]
  /\ asked = {}
  /\ ups = 0 /\ downs = 0 /\ closes = 0 /\ closing = 0
  /\ wrClosed = FALSE
  /\ peer = "open" /\ soError = FALSE /\ received = 0 /\ unread = 0
-----------------------------------------------------------------------------
(* Writing. *)

Drop(s, n) == SubSeq(s, n + 1, Len(s))

(* write() fails for good once the peer has reset or closeWrite was called. *)
WriteFails == wrClosed \/ peer = "rst"

(* How many of len bytes write() takes; 0 stands for EAGAIN, which cannot
   happen when poll() has just reported the socket writable. *)
Takes(len, ready) == (IF ready THEN 1 ELSE 0)..len

Accept(s, n) == wire' = wire \o SubSeq(s, 1, n)

EnableWriting == events' = events \cup {"write"}

MsgNode(s) == [kind |-> "msg", left |-> s, open |-> FALSE]

(* The node sendFile and sendStream build; fileBytesToSend_ of a stream
   stays positive until its source is found empty. *)
FileNode(i) == [kind |-> kind'[i], left |-> Bytes(i), open |-> kind'[i] = "stream"]

isFile(nd) == nd.kind \in {"file", "stream"}

Finished(nd) == ~nd.open /\ nd.left = <<>>

Last(s) == s[Len(s)]

(* Mutant: the channel is not watched for writing. *)
BufferUnwatched(s) ==
  /\ list' = IF list = <<>> \/ isFile(Last(list)) THEN Append(list, MsgNode(s))
             ELSE [list EXCEPT ![Len(list)].left = @ \o s]
  /\ UNCHANGED events

(* The tail of sendInLoop: s is appended to the write buffer. *)
Buffer(s) ==
  /\ list' = IF list = <<>> \/ isFile(Last(list)) THEN Append(list, MsgNode(s))
             ELSE [list EXCEPT ![Len(list)].left = @ \o s]
  /\ EnableWriting

(* sendInLoop: give up unless connected; write directly if nothing waits,
   and buffer what is left. *)
SendInLoop(s) ==
  \/ /\ status # "Connected"
     /\ UNCHANGED <<out, events>>
  \/ /\ status = "Connected"
     /\ "write" \notin events /\ list = <<>> /\ WriteFails
     /\ UNCHANGED <<out, events>>
  \/ /\ status = "Connected"
     /\ "write" \notin events /\ list = <<>> /\ ~WriteFails
     /\ \E n \in Takes(Len(s), FALSE) :
          /\ Accept(s, n)
          /\ bytesSent' = bytesSent + n
          /\ IF n < Len(s) THEN Buffer(Drop(s, n)) ELSE UNCHANGED <<list, events>>
     /\ UNCHANGED fileBuf
  \/ /\ status = "Connected"
     /\ "write" \in events \/ list # <<>>
     /\ Buffer(s)
     /\ UNCHANGED <<fileBuf, wire, bytesSent>>

(* sendFileInLoop, case 1: sendfile() of lst's first node. *)
SendFile(lst, ready) ==
  \/ /\ WriteFails
     /\ events' = events \ {"write"}
     /\ list' = lst
     /\ UNCHANGED wire
  \/ /\ ~WriteFails
     /\ \E n \in Takes(Len(lst[1].left), ready) :
          IF n = 0
          THEN list' = lst /\ UNCHANGED <<events, wire>>
          ELSE /\ Accept(lst[1].left, n)
               /\ list' = [lst EXCEPT ![1].left = Drop(@, n)]
               /\ EnableWriting

(* sendFileInLoop, case 2: chunks of the stream are fetched into fileBuf and
   written until write() takes less than a chunk or the source is empty. *)
SendStream(lst, ready) ==
  LET all == fileBuf \o lst[1].left
      least == IF fileBuf = <<>> THEN 1 ELSE Len(fileBuf) IN
  \/ /\ WriteFails /\ all # <<>>
     /\ \E f \in least..Len(all) :
          /\ fileBuf' = SubSeq(all, 1, f)
          /\ list' = [lst EXCEPT ![1].left = Drop(all, f)]
     /\ UNCHANGED <<events, wire, bytesSent>>
  \/ /\ WriteFails => all = <<>>
     /\ Accept(all, Len(all))
     /\ bytesSent' = bytesSent + Len(all)
     /\ fileBuf' = <<>>
     /\ list' = [lst EXCEPT ![1].left = <<>>, ![1].open = FALSE]
     /\ EnableWriting
  \/ /\ ~WriteFails /\ all # <<>>
     /\ \E n \in Takes(Len(all), ready) \ {Len(all)} :
          /\ Accept(all, n)
          /\ bytesSent' = bytesSent + n
          /\ \E f \in least..Len(all) :
               /\ f > n
               /\ fileBuf' = SubSeq(all, n + 1, f)
               /\ list' = [lst EXCEPT ![1].left = Drop(all, f)]
     /\ EnableWriting

SendFileInLoop(lst, ready) ==
  \/ lst[1].kind = "file" /\ SendFile(lst, ready) /\ UNCHANGED <<fileBuf, bytesSent>>
  \/ lst[1].kind = "stream" /\ SendStream(lst, ready)

(* Mutant: sending starts at once although other nodes wait. *)
PushFileAtOnce(i) == SendFileInLoop(<<FileNode(i)>> \o list, FALSE)

(* The function of sendFile and sendStream, in the loop. *)
PushFile(i) ==
  IF list = <<>> THEN SendFileInLoop(<<FileNode(i)>>, FALSE)
  ELSE list' = Append(list, FileNode(i)) /\ UNCHANGED <<fileBuf, events, wire, bytesSent>>

SendNow(i) ==
  IF kind'[i] = "msg" THEN SendInLoop(Bytes(i)) ELSE PushFile(i)
-----------------------------------------------------------------------------
(* Other threads. *)

NewCall(k) ==
  /\ calls < MaxSends
  /\ calls' = calls + 1
  /\ kind' = [kind EXCEPT ![calls'] = k]
  /\ before' = [before EXCEPT ![calls'] = returned]

(* send, sendFile, sendStream, on a connection m_connectionCallback has
   announced: plusSendNumByGuard(), ... *)
Send(t, k) ==
  /\ ups > 0 /\ tcall[t] = None
  /\ NewCall(k)
  /\ sendNum' = sendNum + 1
  /\ tcall' = [tcall EXCEPT ![t] = calls']
  /\ UNCHANGED <<conn, out, queue, lpc, revents, cb, returned, asked, cbVars, wrClosed, net>>

(* ... and queueInLoop. *)
SendQueue(t) ==
  /\ tcall[t] # None
  /\ queue' = Append(queue, Fn("send", tcall[t]))
  /\ returned' = returned \cup {tcall[t]}
  /\ tcall' = [tcall EXCEPT ![t] = None]
  /\ UNCHANGED <<conn, out, sendNum, lpc, revents, cb, calls, kind, before, asked, cbVars, wrClosed, net>>

(* shutdown and forceClose: runInLoop queues them.  Each is called once by
   the other threads (a bound); TcpServer::stop may call forceClose before
   the connection is announced. *)
CloseCall(t, op) ==
  /\ tcall[t] = None
  /\ op \notin asked /\ (op = "close" \/ ups > 0)
  /\ asked' = asked \cup {op}
  /\ queue' = Append(queue, Fn(op, None))
  /\ UNCHANGED <<conn, out, sendNum, lpc, revents, cb, tcall, calls, kind, returned, before, cbVars, wrClosed, net>>

(* The server acts upon m_closeCallback: it queues connectDestroyed(). *)
ServerCloses ==
  /\ closing > 0
  /\ closing' = closing - 1
  /\ queue' = Append(queue, Fn("destroy", None))
  /\ UNCHANGED <<conn, out, sendNum, lpc, revents, cb, callVars, ups, downs, closes, wrClosed, net>>
-----------------------------------------------------------------------------
(* What the loop thread does to the connection. *)

HandleClose ==
  /\ status' = "Disconnected"
  /\ events' = {}
  /\ downs' = downs + 1
  /\ closes' = closes + 1
  /\ closing' = closing + 1
  /\ UNCHANGED <<ups>>

(* Mutant: closeWrite() although data is waiting. *)
ShutdownInLoopAtOnce ==
  /\ status' = IF status = "Connected" THEN "Disconnecting" ELSE status
  /\ wrClosed' = (wrClosed \/ status = "Connected")
  /\ UNCHANGED <<events, cbVars>>

(* The function of shutdown. *)
ShutdownInLoop ==
  /\ status' = IF status = "Connected" THEN "Disconnecting" ELSE status
  /\ wrClosed' = (wrClosed \/ (status = "Connected" /\ "write" \notin events))
  /\ UNCHANGED <<events, cbVars>>

(* Mutant: it closes whatever the status is. *)
ForceCloseInLoopAlways ==
  /\ HandleClose
  /\ UNCHANGED wrClosed

(* The function of forceClose. *)
ForceCloseInLoop ==
  /\ IF status \in {"Connected", "Disconnecting"} THEN HandleClose
     ELSE UNCHANGED <<conn, cbVars>>
  /\ UNCHANGED wrClosed

(* Calls a user callback makes: send, sendFile and sendStream act at once if
   no send is queued ... *)
LoopSend(k) ==
  /\ cb # "none"
  /\ NewCall(k)
  /\ returned' = returned \cup {calls'}
  /\ \/ /\ sendNum = 0
        /\ SendNow(calls')
        /\ UNCHANGED <<sendNum, queue>>
     \/ /\ sendNum > 0
        /\ sendNum' = sendNum + 1
        /\ queue' = Append(queue, Fn("send", calls'))
        /\ UNCHANGED <<out, events>>
  /\ UNCHANGED <<status, lpc, revents, cb, tcall, asked, cbVars, wrClosed, net>>

(* ... and shutdown and forceClose always do. *)
LoopClose ==
  /\ cb # "none"
  /\ ShutdownInLoop \/ ForceCloseInLoop
  /\ UNCHANGED <<out, sendNum, queue, lpc, revents, cb, callVars, net>>

(* The callback returns.  After m_writeCompleteCallback handleWrite looks at
   m_status; after m_highWaterMarkCallback the send's function ends. *)
CallbackReturns ==
  /\ cb # "none"
  /\ cb' = "none"
  /\ wrClosed' = (wrClosed \/ (cb = "complete" /\ status = "Disconnecting"))
  /\ sendNum' = IF cb = "highwater" THEN sendNum - 1 ELSE sendNum
  /\ UNCHANGED <<conn, out, queue, lpc, revents, callVars, cbVars, net>>
-----------------------------------------------------------------------------
(* The loop thread: poll(), the connection's channel, and m_funcs. *)

Readable == unread > 0 \/ peer # "open"

Hup == peer = "rst" \/ (wrClosed /\ peer = "fin")

(* poll() returns, perhaps for other channels only. *)
Poll ==
  /\ lpc = "poll" /\ cb = "none"
  /\ \E ready \in BOOLEAN :
       revents' = (IF "read" \in events /\ Readable THEN {"in"} ELSE {})
             \cup (IF "write" \in events /\ (ready \/ WriteFails) THEN {"out"} ELSE {})
             \cup (IF Hup /\ events # {} THEN {"hup"} ELSE {})
             \cup (IF soError /\ events # {} THEN {"err"} ELSE {})
  /\ lpc' = "active"
  /\ UNCHANGED <<conn, out, sendNum, queue, cb, callVars, cbVars, wrClosed, net>>

(* A callback of another channel of the same loop runs before this one's. *)
OtherCallback ==
  /\ lpc = "active" /\ cb = "none"
  /\ cb' = "user"
  /\ lpc' = "event"
  /\ UNCHANGED <<conn, out, sendNum, queue, revents, callVars, cbVars, wrClosed, net>>

(* handleEvent: nothing if m_events is empty; m_closeCallback of the channel
   for POLLHUP without POLLIN; handleError, which clears SO_ERROR. *)
HandleEvent ==
  /\ lpc \in {"active", "event"} /\ cb = "none"
  /\ lpc' = IF events = {} THEN "funcs" ELSE "read"
  /\ IF events # {} /\ "hup" \in revents /\ "in" \notin revents
     THEN HandleClose /\ cb' = "user"
     ELSE UNCHANGED <<conn, cbVars, cb>>
  /\ soError' = (soError /\ (events = {} \/ "err" \notin revents))
  /\ UNCHANGED <<out, sendNum, queue, revents, callVars, wrClosed, peer, received, unread>>

(* handleRead, if the channel is readable: what has arrived goes to
   m_recvMsgCallback; ECONNRESET is ignored; the end of the stream and other
   errors close the connection. *)
HandleRead ==
  /\ lpc = "read" /\ cb = "none"
  /\ lpc' = "write"
  /\ \/ /\ "in" \notin revents
        /\ UNCHANGED <<conn, cbVars, cb, unread, soError>>
     \/ /\ "in" \in revents /\ unread > 0
        /\ unread' = 0
        /\ cb' = "user"
        /\ UNCHANGED <<conn, cbVars, soError>>
     \/ /\ "in" \in revents /\ unread = 0 /\ soError
        /\ soError' = FALSE
        /\ UNCHANGED <<conn, cbVars, cb, unread>>
     \/ /\ "in" \in revents /\ unread = 0
        /\ HandleClose
        /\ cb' = "user"
        /\ UNCHANGED <<unread, soError>>
  /\ UNCHANGED <<out, sendNum, queue, revents, callVars, wrClosed, peer, received>>

(* writeInLoop of the bytes of lst's first node. *)
WriteFront(lst) ==
  /\ IF WriteFails THEN list' = lst /\ UNCHANGED <<wire, bytesSent>>
     ELSE \E n \in Takes(Len(lst[1].left), TRUE) :
            /\ Accept(lst[1].left, n)
            /\ bytesSent' = bytesSent + n
            /\ list' = [lst EXCEPT ![1].left = Drop(@, n)]
  /\ UNCHANGED <<fileBuf, events>>

(* sendNext, or sending on with the first node. *)
SendFront(lst) ==
  IF isFile(lst[1]) THEN SendFileInLoop(lst, TRUE) ELSE WriteFront(lst)

(* Mutant: writing stays enabled when the last node is gone. *)
HandleWriteKeepsWriting ==
  /\ lpc = "write" /\ cb = "none"
  /\ lpc' = "funcs"
  /\ \/ /\ "out" \notin revents \/ "write" \notin events
        /\ UNCHANGED <<out, events, cb>>
     \/ /\ "out" \in revents /\ "write" \in events
        /\ IF ~Finished(list[1]) THEN SendFront(list) /\ UNCHANGED <<cb>>
           ELSE IF Len(list) > 1 THEN SendFront(Tail(list)) /\ UNCHANGED <<cb>>
           ELSE /\ list' = <<>>
                /\ cb' = "complete"
                /\ UNCHANGED <<fileBuf, wire, bytesSent, events>>
  /\ UNCHANGED <<status, sendNum, queue, revents, callVars, ups, downs, closes, closing, wrClosed, net>>

(* handleWrite, if the channel is writable: a finished node is removed; when
   it was the last one, writing is disabled and m_writeCompleteCallback
   called. *)
HandleWrite ==
  /\ lpc = "write" /\ cb = "none"
  /\ lpc' = "funcs"
  /\ \/ /\ "out" \notin revents \/ "write" \notin events
        /\ UNCHANGED <<out, events, cb>>
     \/ /\ "out" \in revents /\ "write" \in events
        /\ IF ~Finished(list[1]) THEN SendFront(list) /\ UNCHANGED <<cb>>
           ELSE IF Len(list) > 1 THEN SendFront(Tail(list)) /\ UNCHANGED <<cb>>
           ELSE /\ list' = <<>>
                /\ events' = events \ {"write"}
                /\ cb' = "complete"
                /\ UNCHANGED <<fileBuf, wire, bytesSent>>
  /\ UNCHANGED <<status, sendNum, queue, revents, callVars, ups, downs, closes, closing, wrClosed, net>>

NextFn(op) ==
  /\ lpc = "funcs" /\ cb = "none"
  /\ queue # <<>> /\ Head(queue).op = op
  /\ queue' = Tail(queue)
  /\ UNCHANGED <<lpc, revents, callVars, net>>

(* The function of connectEstablished. *)
RunEstablish ==
  /\ NextFn("establish")
  /\ status' = "Connected"
  /\ events' = {"read"}
  /\ ups' = ups + 1
  /\ cb' = "user"
  /\ UNCHANGED <<out, sendNum, downs, closes, closing, wrClosed>>

Buffered(lst) == IF lst = <<>> THEN 0 ELSE Len(Last(lst).left)

(* The function of a queued send: m_highWaterMarkCallback is called, with
   m_sendNum not decremented yet, when too much is buffered. *)
RunSend ==
  /\ NextFn("send")
  /\ LET i == Head(queue).id
         high == /\ kind[i] = "msg" /\ status = "Connected"
                 /\ list' # list /\ Buffered(list') > HighWaterMark IN
     /\ SendNow(i)
     /\ cb' = IF high THEN "highwater" ELSE "none"
     /\ sendNum' = IF high THEN sendNum ELSE sendNum - 1
  /\ UNCHANGED <<status, cbVars, wrClosed>>

RunShutdown ==
  /\ NextFn("shutdown")
  /\ ShutdownInLoop
  /\ UNCHANGED <<out, sendNum, cb>>

RunForceClose ==
  /\ NextFn("close")
  /\ ForceCloseInLoop
  /\ cb' = IF status' # status THEN "user" ELSE "none"
  /\ UNCHANGED <<out, sendNum>>

(* connectDestroyed: the channel is removed from the loop. *)
RunDestroyed ==
  /\ NextFn("destroy")
  /\ IF status = "Connected"
     THEN /\ status' = "Disconnected" /\ events' = {}
          /\ downs' = downs + 1 /\ cb' = "user"
          /\ UNCHANGED <<ups, closes, closing>>
     ELSE UNCHANGED <<conn, cb, cbVars>>
  /\ UNCHANGED <<out, sendNum, wrClosed>>

FuncsDone ==
  /\ lpc = "funcs" /\ cb = "none"
  /\ queue = <<>>
  /\ lpc' = "poll"
  /\ UNCHANGED <<conn, out, sendNum, queue, revents, cb, callVars, cbVars, wrClosed, net>>
-----------------------------------------------------------------------------
(* The peer. *)

PeerSends ==
  /\ peer = "open" /\ received < MaxIn
  /\ received' = received + 1 /\ unread' = unread + 1
  /\ UNCHANGED <<conn, out, sendNum, queue, lpc, revents, cb, callVars, cbVars, wrClosed, peer, soError>>

PeerCloses ==
  /\ peer = "open"
  /\ \/ peer' = "fin" /\ UNCHANGED soError
     \/ peer' = "rst" /\ soError' = TRUE
  /\ UNCHANGED <<conn, out, sendNum, queue, lpc, revents, cb, callVars, cbVars, wrClosed, received, unread>>

(* The socket turns writable: poll() returns with POLLOUT. *)
PollWritable ==
  Poll /\ "out" \in revents'

LoopStep ==
  \/ Poll \/ HandleEvent \/ HandleRead \/ HandleWrite \/ FuncsDone
  \/ RunEstablish \/ RunSend \/ RunShutdown \/ RunForceClose \/ RunDestroyed
  \/ CallbackReturns

Next ==
  \/ \E t \in Thread :
       \/ \E k \in Kinds : Send(t, k)
       \/ SendQueue(t)
       \/ \E op \in {"shutdown", "close"} : CloseCall(t, op)
  \/ ServerCloses
  \/ \E k \in Kinds : LoopSend(k)
  \/ LoopClose
  \/ OtherCallback
  \/ LoopStep
  \/ PeerSends \/ PeerCloses

Spec == Init /\ [][Next]_vars

(* Threads are scheduled, callbacks return, and a socket that is watched for
   writing turns writable again and again as the peer reads. *)
FairSpec ==
  /\ Spec
  /\ WF_vars(LoopStep)
  /\ WF_vars(ServerCloses)
  /\ SF_vars(PollWritable)
  /\ \A t \in Thread : WF_vars(SendQueue(t))
-----------------------------------------------------------------------------
(* Types. *)
TypeOK ==
  /\ status \in {"Connecting", "Connected", "Disconnecting", "Disconnected"}
  /\ events \subseteq {"read", "write"}
  /\ \A i \in 1..Len(list) : list[i].kind \in {"msg", "file", "stream"} /\ list[i].open \in BOOLEAN
  /\ sendNum \in 0..(MaxSends + 1)
  /\ \A i \in 1..Len(queue) : queue[i].op \in {"establish", "send", "shutdown", "close", "destroy"}
  /\ lpc \in {"poll", "active", "event", "read", "write", "funcs"}
  /\ revents \subseteq {"in", "out", "hup", "err"}
  /\ cb \in {"none", "user", "complete", "highwater"}
  /\ tcall \in [Thread -> Call \cup {None}]
  /\ wrClosed \in BOOLEAN
  /\ peer \in {"open", "fin", "rst"}

(* Sends that are counted and not queued yet, and queued sends. *)
Counted == {t \in Thread : tcall[t] # None}
SendsOf(q) == {i \in 1..Len(q) : q[i].op = "send"}

(* m_sendNum counts exactly the sends that are counted and not queued yet,
   queued, or running a high-water callback: the loop thread, which sends at
   once when it is 0 (409, 612), then never overtakes a queued send, and it
   never wraps below 0.  With the types of the variables. *)
SendNumCounts ==
  /\ TypeOK
  /\ sendNum = Cardinality(Counted) + Cardinality(SendsOf(queue)) + (IF cb = "highwater" THEN 1 ELSE 0)

(* Bytes of different calls do not mix, none is repeated or left out, and a
   call that began after another had returned comes after it; prior[i] are
   the calls that had returned when call i began. *)
InOrder(prior, s) ==
  \A i, j \in 1..Len(s) : i < j =>
    /\ s[j][1] \notin prior[s[i][1]]
    /\ j = i + 1 =>
         \/ s[j] = <<s[i][1], s[i][2] + 1>>
         \/ s[i][2] = Size /\ s[j][2] = 1

(* "The order of data sending should be same as the order of calls of send()"
   (433): what the kernel has accepted is in order, because m_sendNum counts
   exactly the sends that the loop thread must not overtake. *)
SendsInOrder == SendNumCounts /\ InOrder(before, wire)

(* assert(!m_writeBufferList.empty()) in handleWrite (194): the channel is
   watched for writing only while something is to be written. *)
WritingHasWork ==
  "write" \in events => list # <<>>

(* "listen for write events when the socket's write buffer is full" (184):
   while data waits in m_writeBufferList of a connection that can still
   write, the channel is watched for writing.  Holds for messages and
   streams; a file whose first sendfile() returns EAGAIN (714-719) is left
   in the list without. *)
PendingIsWatched ==
  list # <<>> /\ status \in {"Connected", "Disconnecting"} /\ ~WriteFails => "write" \in events

(* assert(m_events == kNoneEvent) in Channel::remove (channel.cc 34), called
   by connectDestroyed.  Holds for messages; sendFile and sendStream look at
   no status and enable writing on a connection that is closed. *)
RemovedWithoutEvents ==
  lpc = "funcs" /\ queue # <<>> /\ Head(queue).op = "destroy" /\ status # "Connected" => events = {}

(* The user hears of the connection once when it is up and once when it is
   down, and the server once that it is closed, whatever closes it: the
   peer, a read error, forceClose or several of these in one iteration. *)
ClosedOnce ==
  /\ ups <= 1 /\ downs <= ups /\ closes = downs
  /\ status = "Disconnected" <=> downs = 1

(* closeWrite() comes when nothing is left to write, unless a callback of
   m_writeCompleteCallback has sent more and then called shutdown itself:
   handleWrite looks at m_status after it (211, 237). *)
CloseWriteAfterFlush ==
  [][wrClosed' /\ ~wrClosed => list = <<>> \/ cb = "complete"]_vars

(* After shutdown the writing side is closed once the data is written. *)
ShutdownCompletes ==
  (status = "Disconnecting") ~> (wrClosed \/ status = "Disconnected")

(* Buffered data is written, or the connection breaks. *)
BufferDrains ==
  (list # <<>>) ~> (list = <<>> \/ WriteFails \/ status = "Disconnected")
-----------------------------------------------------------------------------
(* The inductive invariants. *)

Byte == (1..calls) \X (1..Size)
NodeOf(B) == [kind : {"msg", "file", "stream"}, left : Seq(B), open : BOOLEAN]
Function == [op : {"establish", "send", "shutdown", "close", "destroy"}, id : Call \cup {None}]

(* The nodes of a write buffer list: only streams are open, as long as they
   have something left, and only an open one's chunk is in *m_fileBufferPtr. *)
NodesOf(lst, buf) ==
  /\ \A k \in 1..Len(lst) :
       /\ lst[k].open => lst[k].kind = "stream"
       /\ lst[k].kind = "stream" /\ lst[k].left # <<>> => lst[k].open
  /\ buf # <<>> => lst # <<>> /\ lst[1].open

(* The buffers hold bytes of the calls made. *)
Buffers ==
  /\ calls \in 0..MaxSends
  /\ list \in Seq(NodeOf(Byte)) /\ fileBuf \in Seq(Byte) /\ wire \in Seq(Byte)
  /\ NodesOf(list, fileBuf)

(* Every call is counted, queued and run once; what has returned is known. *)
CallsKnown ==
  /\ kind \in [Call -> {"msg", "file", "stream"}]
  /\ returned \subseteq 1..calls
  /\ before \in [Call -> SUBSET returned]
  /\ \A c \in Call : c \notin before[c]
  /\ tcall \in [Thread -> (1..calls) \cup {None}]
  /\ \A t \in Counted : tcall[t] \notin returned
  /\ \A t, u \in Counted : tcall[t] = tcall[u] => t = u
  /\ queue \in Seq(Function)
  /\ \A i \in SendsOf(queue) : queue[i].id \in 1..calls

(* What the kernel has accepted, followed by what the first node has left. *)
Stream == wire \o (fileBuf \o (IF list = <<>> THEN <<>> ELSE list[1].left))

(* Call c may follow the bytes s, and the bytes r may. *)
MayFollow(prior, s, c) == \A i \in 1..Len(s) : c \notin prior[s[i][1]]
Precedes(prior, s, r) == \A j \in 1..Len(r) : MayFollow(prior, s, r[j][1])

(* The bytes s end, or begin and end, with a call's. *)
EndsCall(s) == s # <<>> => s[Len(s)][2] = Size
WholeCalls(prior, s) == InOrder(prior, s) /\ s # <<>> /\ s[1][2] = 1 /\ EndsCall(s)

(* The stream is in order, so are the nodes that wait behind it and the sends
   that are queued behind these. *)
OrderOf(prior, str, lst, q) ==
  /\ InOrder(prior, str) /\ EndsCall(str)
  /\ \A k \in 2..Len(lst) : WholeCalls(prior, lst[k].left) /\ Precedes(prior, str, lst[k].left)
  /\ \A j, k \in 2..Len(lst) : j < k => Precedes(prior, lst[j].left, lst[k].left)
  /\ \A i \in SendsOf(q) :
       /\ MayFollow(prior, str, q[i].id)
       /\ \A k \in 2..Len(lst) : MayFollow(prior, lst[k].left, q[i].id)
       /\ \A j \in SendsOf(q) : i < j => q[j].id \notin prior[q[i].id]

OrderKept == OrderOf(before, Stream, list, queue)
=============================================================================
