--------------------------- MODULE MCTcpConnection --------------------------
(* TcpConnection in two scopes: messages while either side closes, or       *)
(* messages, files and streams to a peer that stays.                        *)
EXTENDS TcpConnection

VARIABLE scope

mcvars == <<vars, scope>>

MCInit == Init /\ scope \in {"messages", "files"}

(* Bound: what the callers and the peer of a scope do. *)
InScope ==
  IF scope = "messages" THEN \A i \in 1 .. calls : kind[i] = "msg"
  ELSE peer = "open" /\ received = 0

MCNext == Next /\ UNCHANGED scope /\ InScope'

MCSpec ==
  /\ MCInit /\ [][MCNext]_mcvars
  /\ WF_vars(LoopStep)
  /\ WF_vars(ServerCloses)
  /\ SF_vars(PollWritable)
  /\ \A t \in Thread : WF_vars(SendQueue(t))

(* A connection is closed and announced once, whatever closes it, and one    *)
(* that carried messages is removed from the poller without events (the      *)
(* assertion of Channel::remove; sendFile enables writing after the close).  *)
ClosedCleanly == ClosedOnce /\ (scope = "messages" => RemovedWithoutEvents)

(* The rest is about messages: a file whose first sendfile() found the       *)
(* socket's buffer full (PendingIsWatched) is neither watched nor waited for. *)

(* CloseWriteAfterFlush, for messages: shutdown (322-335) and handleWrite    *)
(* (211, 237) call closeWrite() when nothing is left to write, unless a      *)
(* write-complete callback has sent more and then called shutdown itself.    *)
MessagesFlushed ==
  [][scope = "messages" /\ wrClosed' /\ ~wrClosed => list = <<>> \/ cb = "complete"]_mcvars

(* Buffered messages are written, unless the connection breaks (handleWrite, *)
(* 185-259), and after that a shutdown closes the writing side (205-241).    *)
MessagesDrain == scope = "messages" => BufferDrains /\ ShutdownCompletes
-----------------------------------------------------------------------------
(* The inductive invariant behind ClosedCleanly and MessagesFlushed. *)

Up == {"Connected", "Disconnecting"}

(* The connection is established once, first of all; the server's answer to  *)
(* the close comes after the close; an end of the stream that was polled is  *)
(* handled while the connection is up.                                       *)
LifeCycle ==
  /\ status \in {"Connecting", "Connected", "Disconnecting", "Disconnected"}
  /\ ups \in {0, 1} /\ downs \in {0, 1} /\ closes = downs
  /\ status = "Connecting" <=> ups = 0
  /\ status = "Disconnected" <=> downs = 1
  /\ ups = 0 => lpc = "funcs" /\ cb = "none" /\ queue # <<>> /\ list = <<>>
  /\ \A i \in 1..Len(queue) : queue[i].op = "establish" <=> (i = 1 /\ ups = 0)
  /\ closing \in Nat
  /\ closing > 0 => downs = 1
  /\ \A i \in 1..Len(queue) : queue[i].op = "destroy" => downs = 1
  /\ lpc = "read" /\ "in" \in revents => cb = "none" /\ status \in Up

(* A connection that carries messages is polled while it is up, for writing  *)
(* whenever it has something to write; one that carries files has a silent   *)
(* peer.                                                                     *)
ScopeKept ==
  /\ scope = "messages" =>
       /\ \A i \in 1..calls : kind[i] = "msg"
       /\ \A k \in 1..Len(list) : list[k].kind = "msg"
       /\ events # {} => status \in Up
       /\ list # <<>> /\ status \in Up => "write" \in events
  /\ scope # "messages" =>
       /\ peer = "open" /\ unread = 0 /\ received = 0 /\ ~soError
       /\ revents \subseteq {"out"}
=============================================================================
