------------------------ MODULE TcpConnectionProofs -------------------------
(***************************************************************************)
(* Proofs about TcpConnection: what is sent leaves in the order of the     *)
(* calls, and the channel is watched for writing only while there is       *)
(* something to write.  In the two scopes of MCTcpConnection: it is closed *)
(* and announced once, removed without events, and its writing side is     *)
(* closed after what was buffered is written.                              *)
(***************************************************************************)
EXTENDS MCTcpConnection, TcpConnectionOrder

(* A send in the loop puts whole calls, which may follow what is there, behind it. *)
LEMMA EffectOrder ==
  ASSUME NEW B, BuffersIn(B), NEW prior, NEW q, NEW s \in Seq(B), OrderOf(prior, Stream, list, q),
         SendEffect(B, s), WholeCalls(prior, s), Precedes(prior, Stream, s),
         \A k \in 2..Len(list) : Precedes(prior, list[k].left, s),
         \A i \in SendsOf(q) : MayFollow(prior, s, q[i].id)
  PROVE  OrderOf(prior, Stream', list', q)
<1>0. Stream \in Seq(B) /\ list \in Seq(NodeOf(B))
  BY StreamOfNone, Zenon DEF BuffersIn
<1>1. CASE list' = list /\ Stream' = Stream
  BY <1>1, Zenon
<1>2. CASE JoinsStream(s)
  BY <1>0, <1>2, JoinStreamOrder, Zenon DEF JoinsStream
<1>3. ASSUME NEW n \in Nat, JoinsNode(s, n)
      PROVE  OrderOf(prior, Stream', list', q)
  <2>1. OrderOf(prior, Stream, list', q)
    BY <1>0, <1>3, LastNodeOrder, Zenon DEF JoinsNode
  <2> QED
    BY <1>3, <2>1, Zenon DEF JoinsNode
<1> QED
  BY <1>1, <1>2, <1>3, Zenon DEF SendEffect

(* The function of a queued send. *)
LEMMA RunSendStep ==
  ASSUME Ordered, RunSend
  PROVE  Ordered'
<1>0. Buffers /\ CallsKnown /\ OrderKept
  BY Zenon DEF Ordered
<1>1. /\ calls \in Nat /\ BuffersIn(Byte) /\ Stream \in Seq(Byte)
      /\ queue \in Seq(Function) /\ \A i \in SendsOf(queue) : queue[i].id \in 1..calls
      /\ 1..calls \subseteq Call
  BY <1>0, OrderedTypes, Zenon
<1>2. queue # <<>> /\ Head(queue).op = "send" /\ queue' = Tail(queue) /\ UNCHANGED callVars /\ SendNow(Head(queue).id)
  BY Zenon DEF RunSend, NextFn
<1>3. UNCHANGED <<tcall, calls, kind, returned, before>>
  BY <1>2, Zenon DEF callVars
<1>4. 1 \in SendsOf(queue) /\ queue[1] = Head(queue)
  <2>1. Len(queue) \in Nat \ {0} /\ Head(queue) = queue[1]
    BY <1>1, <1>2, EmptySeq
  <2> QED
    BY <1>2, <2>1 DEF SendsOf
<1>5. PICK c \in 1..calls : c = Head(queue).id
  BY <1>1, <1>4, Zenon
<1>6. /\ OrderOf(before, Stream, list, queue')
      /\ \A i \in SendsOf(queue') : i + 1 \in SendsOf(queue) /\ queue'[i] = queue[i + 1]
      /\ MayFollow(before, Stream, c)
      /\ \A k \in 2..Len(list) : MayFollow(before, list[k].left, c)
      /\ \A i \in SendsOf(queue') : queue'[i].id \notin before[c]
  BY <1>0, <1>1, <1>2, <1>5, TakeOrder, Zenon DEF OrderKept
<1>7. c \notin before[c] /\ kind'[c] \in {"msg", "file", "stream"}
  BY <1>0, <1>1, <1>3, Zenon DEF CallsKnown
<1>8. /\ Bytes(c) \in Seq(Byte) /\ Bytes(c) # <<>>
      /\ WholeCalls(before, Bytes(c))
      /\ \A d : d \notin before[c] => MayFollow(before, Bytes(c), d)
      /\ \A s : MayFollow(before, s, c) => Precedes(before, s, Bytes(c))
  BY <1>1, <1>7, BytesWhole, Zenon DEF Byte
<1>9. SendEffect(Byte, Bytes(c))
  BY <1>1, <1>2, <1>5, <1>7, <1>8, SendNowEffect, Zenon
<1>10. OrderOf(before, Stream', list', queue')
  <2>1. PICK B : B = Byte
    BY Zenon
  <2>2. PICK q : q = queue'
    BY Zenon
  <2>3. /\ BuffersIn(B) /\ Bytes(c) \in Seq(B) /\ SendEffect(B, Bytes(c)) /\ OrderOf(before, Stream, list, q)
        /\ Precedes(before, Stream, Bytes(c)) /\ WholeCalls(before, Bytes(c))
    BY <1>1, <1>6, <1>8, <1>9, <2>1, <2>2, Zenon
  <2>4. \A k \in 2..Len(list) : Precedes(before, list[k].left, Bytes(c))
    BY <1>6, <1>8, Zenon
  <2>5. \A i \in SendsOf(q) : MayFollow(before, Bytes(c), q[i].id)
    BY <1>6, <1>8, <2>2, Zenon
  <2>6. OrderOf(before, Stream', list', q)
    BY <2>3, <2>4, <2>5, EffectOrder, Zenon
  <2> QED
    BY <2>2, <2>6, Zenon
<1>11. OrderKept'
  BY <1>3, <1>10, Zenon DEF OrderKept
<1>12. Byte' = Byte
  BY <1>3, Zenon DEF Byte
<1>13. Buffers'
  BY <1>0, <1>3, <1>9, <1>12, Zenon DEF Buffers, SendEffect, BuffersNext
<1>14. queue' \in Seq(Function)
  BY <1>1, <1>2, HeadTailProperties, Zenon
<1>15. \A i \in SendsOf(queue') : queue'[i].id \in 1..calls
  BY <1>1, <1>6, Zenon
<1>16. CallsKnown'
  BY <1>0, <1>3, <1>14, <1>15, Zenon DEF CallsKnown, Counted, SendsOf
<1> QED
  BY <1>11, <1>13, <1>16, Zenon DEF Ordered

(* A callback sends: at once, when no send is queued, or by the queue. *)
LEMMA LoopSendStep ==
  ASSUME Ordered, NEW k \in Kinds, LoopSend(k), sendNum = 0 => SendsOf(queue) = {}
  PROVE  Ordered'
<1>0. Buffers /\ CallsKnown /\ OrderKept
  BY Zenon DEF Ordered
<1>1. NewCall(k) /\ returned' = returned \cup {calls'} /\ UNCHANGED tcall
  BY Zenon DEF LoopSend
<1>2. /\ calls' = calls + 1 /\ calls' \in Call /\ calls' \in 1..calls' /\ calls' \in 0..MaxSends
      /\ BuffersIn(Byte') /\ Stream \in Seq(Byte')
      /\ kind' \in [Call -> {"msg", "file", "stream"}]
      /\ before' \in [Call -> SUBSET returned]
      /\ \A c \in Call : c \notin before'[c]
      /\ \A c \in 1..calls' : calls' \notin before'[c]
      /\ returned \subseteq 1..calls'
      /\ \A i \in SendsOf(queue) : queue[i].id \in 1..calls'
      /\ OrderOf(before', Stream, list, queue)
  BY <1>1, NewCallEffect, Zenon
<1>3. /\ queue \in Seq(Function) /\ tcall \in [Thread -> (1..calls) \cup {None}] /\ calls \in Nat
      /\ \A u \in Counted : tcall[u] \notin returned
      /\ \A u, v \in Counted : tcall[u] = tcall[v] => u = v
  BY <1>0, OrderedTypes, Zenon DEF CallsKnown
<1>4. PICK c \in Nat : c = calls' /\ c \in 1..c
  BY <1>2, <1>3
<1>5. PICK B : B = Byte' /\ B = (1..c) \X (1..Size)
  BY <1>4, Zenon DEF Byte
<1>6. PICK prior : prior = before'
  BY Zenon
<1>7. BuffersIn(B) /\ Stream \in Seq(B) /\ OrderOf(prior, Stream, list, queue) /\ \A d \in 1..c : c \notin prior[d]
  BY <1>2, <1>4, <1>5, <1>6, Zenon
<1>8. ASSUME BuffersNext(B), queue' \in Seq(Function), \A i \in SendsOf(queue') : queue'[i].id \in 1..c,
             OrderOf(prior, Stream', list', queue')
      PROVE  Ordered'
  <2>1. Buffers'
    BY <1>2, <1>5, <1>8, Zenon DEF Buffers, BuffersNext
  <2>2. OrderKept'
    BY <1>6, <1>8, Zenon DEF OrderKept
  <2>3. Counted' = Counted /\ tcall' = tcall
    BY <1>1, Zenon DEF Counted
  <2>4. \A x \in 1..calls : x \in 1..calls' /\ x # calls'
    BY <1>2, <1>3
  <2>5. tcall \in [Thread -> (1..calls') \cup {None}]
    BY <1>3, <2>4, Zenon
  <2>6. \A u \in Counted : tcall[u] \notin returned'
    <3>1. \A u \in Counted : tcall[u] # calls'
      BY <1>3, <2>4, Zenon DEF Counted
    <3> QED
      BY <1>1, <1>3, <3>1, Zenon
  <2>7. returned' \subseteq 1..calls' /\ before' \in [Call -> SUBSET returned']
    BY <1>1, <1>2, Zenon
  <2>8. \A i \in SendsOf(queue') : queue'[i].id \in 1..calls'
    BY <1>4, <1>8, Zenon
  <2>9. CallsKnown'
    BY <1>2, <1>3, <1>8, <2>3, <2>5, <2>6, <2>7, <2>8, SMTT(30) DEF CallsKnown, SendsOf
  <2> QED
    BY <2>1, <2>2, <2>9, Zenon DEF Ordered
<1>9. CASE sendNum = 0 /\ SendNow(calls') /\ UNCHANGED <<sendNum, queue>>
  <2>1. /\ Bytes(c) \in Seq(B) /\ Bytes(c) # <<>> /\ WholeCalls(prior, Bytes(c))
        /\ \A s : MayFollow(prior, s, c) => Precedes(prior, s, Bytes(c))
    BY <1>4, <1>5, <1>7, BytesWhole, Zenon
  <2>2. SendEffect(B, Bytes(c))
    <3>1. kind'[c] \in {"msg", "file", "stream"} /\ SendNow(c)
      BY <1>2, <1>4, <1>9, Zenon
    <3> QED
      BY <1>7, <2>1, <3>1, SendNowEffect, Zenon
  <2>3. \A s \in Seq(B) : MayFollow(prior, s, c)
    <3>1. ASSUME NEW s \in Seq(B), NEW i \in 1..Len(s)
          PROVE  s[i][1] \in 1..c
      <4>1. s[i] \in B
        BY ElementOfSeq, Zenon
      <4> QED
        BY <1>5, <4>1
    <3> QED
      BY <1>7, <3>1, Zenon DEF MayFollow
  <2>4. Precedes(prior, Stream, Bytes(c))
    BY <1>7, <2>1, <2>3, Zenon
  <2>5. \A j \in 2..Len(list) : Precedes(prior, list[j].left, Bytes(c))
    <3>1. Len(list) \in Nat /\ \A j \in 1..Len(list) : list[j] \in NodeOf(B)
      BY <1>7, ElementOfSeq, LenProperties, Zenon DEF BuffersIn
    <3>2. \A j \in 2..Len(list) : list[j].left \in Seq(B)
      BY <3>1 DEF NodeOf
    <3> QED
      BY <2>1, <2>3, <3>2, Zenon
  <2>6. SendsOf(queue) = {} /\ queue' = queue
    BY <1>9, Zenon
  <2>7. OrderOf(prior, Stream', list', queue)
    BY <1>7, <2>1, <2>2, <2>4, <2>5, <2>6, EffectOrder, Zenon
  <2> QED
    BY <1>3, <1>8, <2>2, <2>6, <2>7, Zenon DEF SendEffect
<1>10. CASE queue' = Append(queue, Fn("send", calls')) /\ UNCHANGED <<out, events>>
  <2>1. UNCHANGED <<list, fileBuf, wire>>
    BY <1>10, Zenon DEF out
  <2>2. Stream' = Stream
    BY <2>1, Zenon DEF Stream
  <2>3. PICK fn \in Function : fn.op = "send" /\ fn.id = c /\ queue' = Append(queue, fn)
    BY <1>2, <1>4, <1>10, Zenon DEF Fn, Function
  <2>4. queue' \in Seq(Function) /\ \A i \in SendsOf(queue') : queue'[i].id \in 1..c
    BY <1>2, <1>3, <1>4, <2>3, QueueKnown, ZenonT(30)
  <2>5. OrderOf(prior, Stream, list, Append(queue, fn))
    <3>1. Stream \in Seq((1..c) \X (1..Size)) /\ list \in Seq(NodeOf((1..c) \X (1..Size)))
      BY <1>5, <1>7, Zenon DEF BuffersIn
    <3>2. \A i \in SendsOf(queue) : queue[i].id \in 1..c
      BY <1>2, <1>4, Zenon
    <3>3. \A d \in 1..c : fn.id \notin prior[d]
      BY <1>7, <2>3, Zenon
    <3> QED
      BY <1>3, <1>7, <3>1, <3>2, <3>3, QueueOrder, Zenon
  <2>6. BuffersNext(B)
    BY <1>7, <2>1, Zenon DEF BuffersIn, BuffersNext
  <2> QED
    BY <1>8, <2>1, <2>2, <2>3, <2>4, <2>5, <2>6, ZenonT(30)
<1> QED
  BY <1>9, <1>10, Zenon DEF LoopSend
(* handleWrite: the first node is written on, or replaced by the next. *)
WorkStep ==
  /\ events' \in {events, events \cup {"write"}, events \ {"write"}}
  /\ "write" \in events' => list' # <<>>

LEMMA HandleWriteStep ==
  ASSUME Ordered, WritingHasWork, HandleWrite
  PROVE  Ordered' /\ WorkStep
<1>0. Buffers /\ CallsKnown /\ OrderKept
  BY Zenon DEF Ordered
<1>1. /\ BuffersIn(Byte) /\ Stream \in Seq(Byte) /\ OrderOf(before, Stream, list, queue)
  BY <1>0, OrderedTypes, Zenon DEF OrderKept
<1>2. UNCHANGED callVars /\ queue' = queue
  BY Zenon DEF HandleWrite
<1>3. UNCHANGED <<tcall, calls, kind, returned, before>>
  BY <1>2, Zenon DEF callVars
<1>4. Byte' = Byte
  BY <1>3, Zenon DEF Byte
<1>5. CallsKnown'
  BY <1>0, <1>2, <1>3, Zenon DEF CallsKnown, Counted, SendsOf
<1>6. ASSUME BuffersNext(Byte), OrderOf(before, Stream', list', queue)
      PROVE  Ordered'
  <2>1. Buffers'
    BY <1>0, <1>3, <1>4, <1>6, Zenon DEF Buffers, BuffersNext
  <2>2. OrderKept'
    BY <1>2, <1>3, <1>6, Zenon DEF OrderKept
  <2> QED
    BY <1>5, <2>1, <2>2, Zenon DEF Ordered
<1>7. CASE UNCHANGED <<out, events>>
  <2>1. UNCHANGED <<list, fileBuf, wire>> /\ events' = events
    BY <1>7, Zenon DEF out
  <2>2. WorkStep
    BY <2>1, Zenon DEF WorkStep, WritingHasWork
  <2> QED
    BY <1>2, <1>3, <2>1, <2>2, StillStep, Zenon
<1> SUFFICES ASSUME "write" \in events, ~UNCHANGED <<out, events>>
             PROVE  Ordered' /\ WorkStep
  BY <1>7, Zenon DEF HandleWrite
<1>8. /\ list # <<>> /\ list \in Seq(NodeOf(Byte)) /\ fileBuf \in Seq(Byte) /\ wire \in Seq(Byte)
      /\ NodesOf(list, fileBuf) /\ <<>> \in Seq(Byte)
  BY <1>1, EmptySeq, Zenon DEF WritingHasWork, BuffersIn
<1>9. Len(list) \in Nat /\ Len(list) # 0 /\ 1 \in 1..Len(list) /\ list[1].left \in Seq(Byte)
  BY <1>8, FirstNode, Zenon
<1>10. ASSUME NEW lst \in Seq(NodeOf(Byte)), lst # <<>>, Flows(Byte, lst), NEW str,
              str = wire \o (fileBuf \o lst[1].left), OrderOf(before, str, lst, queue)
       PROVE  Ordered' /\ WorkStep
  <2>1. Len(lst) \in Nat /\ Len(lst) # 0
    BY <1>10, FirstNode, Zenon
  <2>2. BuffersNext(Byte)
    BY <1>10, Zenon DEF Flows, BuffersNext
  <2>3. list' # <<>>
    <3>1. Len(<<>>) = 0
      BY Zenon
    <3>2. Len(list') # 0
      BY <1>10, <2>1, Zenon DEF Flows
    <3> QED
      BY <3>1, <3>2, Zenon
  <2>4. Stream' = str
    BY <1>10, <2>3, Zenon DEF Stream, Flows
  <2>5. OrderOf(before, str, list', queue)
    BY <1>10, FlowOrder, Zenon DEF Flows
  <2>6. WorkStep
    BY <1>10, <2>3, Zenon DEF WorkStep, Flows
  <2> QED
    BY <1>6, <2>2, <2>4, <2>5, <2>6, Zenon
<1>11. CASE ~Finished(list[1]) /\ SendFront(list)
  <2>1. list[1].kind = "stream" => list[1].open
    BY <1>8, <1>9, <1>11, Zenon DEF Finished, NodesOf
  <2>2. Flows(Byte, list)
    BY <1>8, <1>11, <2>1, FrontFlows, Zenon
  <2>3. Stream = wire \o (fileBuf \o list[1].left)
    BY <1>8, Zenon DEF Stream
  <2> QED
    BY <1>1, <1>8, <1>10, <2>2, <2>3, Zenon
<1>12. CASE Finished(list[1]) /\ Len(list) > 1 /\ SendFront(Tail(list))
  <2>1. fileBuf = <<>> /\ list[1].left = <<>>
    BY <1>8, <1>12, Zenon DEF Finished, NodesOf
  <2>2. PICK lst \in Seq(NodeOf(Byte)) :
          /\ lst = Tail(list) /\ Len(lst) = Len(list) - 1
          /\ \A k \in 1..Len(lst) : lst[k] = list[k + 1]
    BY <1>8, HeadTailProperties, Zenon
  <2>3. 1 \in 1..Len(lst) /\ lst[1] = list[2] /\ 2 \in 2..Len(list) /\ \A k \in 1..Len(lst) : k + 1 \in 1..Len(list)
    BY <1>9, <1>12, <2>2
  <2>4. lst # <<>>
    BY <2>3
  <2>5. lst[1].left \in Seq(Byte)
    BY <2>4, FirstNode, Zenon
  <2>6. NodesOf(lst, fileBuf)
    BY <1>8, <2>1, <2>2, <2>3, SMTT(30) DEF NodesOf
  <2>7. lst[1].left # <<>>
    BY <1>1, <2>3, Zenon DEF OrderOf, WholeCalls
  <2>8. lst[1].kind = "stream" => lst[1].open
    BY <2>3, <2>6, <2>7, Zenon DEF NodesOf
  <2>9. SendFront(lst)
    BY <1>12, <2>2, Zenon
  <2>10. Flows(Byte, lst)
    BY <1>8, <2>4, <2>6, <2>8, <2>9, FrontFlows, Zenon
  <2>11. Stream = wire \o (<<>> \o <<>>)
    BY <1>8, <2>1, Zenon DEF Stream
  <2>12. Stream = wire
    BY <1>8, <2>11, ConcatEmptySeq, Zenon
  <2>13. <<>> \o lst[1].left = lst[1].left
    BY <2>5, ConcatEmptySeq, Zenon
  <2>14. OrderOf(before, Stream \o list[2].left, Tail(list), queue)
    BY <1>1, <1>8, <1>12, NextNodeOrder, Zenon
  <2>15. PICK str : str = wire \o (fileBuf \o lst[1].left)
    BY Zenon
  <2>16. str = Stream \o list[2].left
    BY <2>1, <2>3, <2>12, <2>13, <2>15, SMTT(30)
  <2> QED
    BY <1>10, <2>2, <2>4, <2>10, <2>14, <2>15, <2>16, ZenonT(30)
<1>13. CASE Finished(list[1]) /\ ~(Len(list) > 1) /\ list' = <<>> /\ UNCHANGED <<fileBuf, wire>>
            /\ events' = events \ {"write"}
  <2>1. fileBuf = <<>> /\ list[1].left = <<>>
    BY <1>8, <1>13, Zenon DEF Finished, NodesOf
  <2>2. Stream' = Stream
    BY <1>8, <1>13, <2>1, Zenon DEF Stream
  <2>3. Len(list') = 0 /\ 2..0 = {} /\ 1..0 = {}
    BY <1>13
  <2>4. OrderOf(before, Stream, list', queue)
    BY <1>1, <2>3, Zenon DEF OrderOf
  <2>5. list' \in Seq(NodeOf(Byte))
    BY <1>13, EmptySeq
  <2>6. NodesOf(list', fileBuf')
    BY <1>13, <2>1, <2>3, SMTT(30) DEF NodesOf
  <2>7. BuffersNext(Byte)
    BY <1>8, <1>13, <2>5, <2>6, SMTT(30) DEF BuffersNext
  <2>8. WorkStep
    BY <1>13, Zenon DEF WorkStep
  <2> QED
    BY <1>6, <2>2, <2>4, <2>7, <2>8, SMTT(30)
<1> QED
  BY <1>7, <1>11, <1>12, <1>13, Zenon DEF HandleWrite
-----------------------------------------------------------------------------
(* The invariant of a connection. *)
Running == IF cb = "highwater" THEN 1 ELSE 0
NumCounts ==
  /\ sendNum \in Nat /\ sendNum <= calls
  /\ sendNum = Cardinality(Counted) + Cardinality(SendsOf(queue)) + Running
PlainTypes ==
  /\ status \in {"Connecting", "Connected", "Disconnecting", "Disconnected"}
  /\ events \subseteq {"read", "write"}
  /\ lpc \in {"poll", "active", "event", "read", "write", "funcs"}
  /\ revents \subseteq {"in", "out", "hup", "err"}
  /\ cb \in {"none", "user", "complete", "highwater"}
  /\ wrClosed \in BOOLEAN
  /\ peer \in {"open", "fin", "rst"}
ConnInv == Ordered /\ WritingHasWork /\ NumCounts /\ PlainTypes

LEMMA CountTypes ==
  ASSUME Ordered, NumCounts
  PROVE  /\ calls \in Nat /\ sendNum \in Nat /\ queue \in Seq(Function)
         /\ Cardinality(Counted) \in Nat /\ Cardinality(SendsOf(queue)) \in Nat
         /\ sendNum = 0 => SendsOf(queue) = {}
<1>1. calls \in Nat /\ queue \in Seq(Function)
  BY OrderedTypes, Zenon DEF Ordered
<1>2. IsFiniteSet(SendsOf(queue)) /\ Cardinality(SendsOf(queue)) \in Nat
  BY <1>1, SendsFinite
<1>3. Counted \in SUBSET Thread
  BY Zenon DEF Counted
<1>4. Cardinality(Counted) \in Nat
  BY <1>3, FS_Subset, FS_CardinalityType, TcpConnectionAssumption, SMTT(30)
<1>5. \A a, b \in Nat : \A r \in {0, 1} : a + b + r = 0 => b = 0
  OBVIOUS
<1>6. Running \in {0, 1}
  BY Zenon DEF Running
<1>7. sendNum = 0 => Cardinality(SendsOf(queue)) = 0
  BY <1>2, <1>4, <1>5, <1>6, Zenon DEF NumCounts
<1> QED
  BY <1>1, <1>2, <1>4, <1>7, FS_EmptySet, SMTT(30) DEF NumCounts

(* The count where neither it nor what it counts changes, ... *)
LEMMA CountStill ==
  ASSUME NumCounts, calls' = calls, sendNum' = sendNum, tcall' = tcall,
         Cardinality(SendsOf(queue')) = Cardinality(SendsOf(queue)), Running' = Running
  PROVE  NumCounts'
<1>1. Counted' = Counted
  BY Zenon DEF Counted
<1>2. Cardinality(SendsOf(queue))' = Cardinality(SendsOf(queue))
  BY Zenon DEF SendsOf
<1> QED
  BY <1>1, <1>2, Zenon DEF NumCounts

(* ... where a function other than a send is queued or taken, ... *)
LEMMA CountQueue ==
  ASSUME Ordered, NumCounts, calls' = calls, sendNum' = sendNum, tcall' = tcall, Running' = Running,
         \/ queue' = queue
         \/ \E fn \in Function : fn.op # "send" /\ queue' = Append(queue, fn)
         \/ queue # <<>> /\ Head(queue).op # "send" /\ queue' = Tail(queue)
  PROVE  NumCounts'
<1>1. queue \in Seq(Function) /\ Cardinality(SendsOf(queue)) \in Nat
  BY CountTypes, Zenon
<1>2. Cardinality(SendsOf(queue')) = Cardinality(SendsOf(queue))
  <2>1. CASE queue' = queue
    BY <2>1, Zenon
  <2>2. ASSUME NEW fn \in Function, fn.op # "send", queue' = Append(queue, fn)
        PROVE  Cardinality(SendsOf(queue')) = Cardinality(SendsOf(queue))
    <3>1. Cardinality(SendsOf(Append(queue, fn))) = Cardinality(SendsOf(queue)) + 0
      BY <1>1, <2>2, SendsAppend, Zenon
    <3> QED
      BY <1>1, <2>2, <3>1
  <2>3. CASE queue # <<>> /\ Head(queue).op # "send" /\ queue' = Tail(queue)
    <3>1. /\ Cardinality(SendsOf(queue)) = Cardinality(SendsOf(Tail(queue))) + 0
          /\ Cardinality(SendsOf(Tail(queue))) \in Nat
      BY <1>1, <2>3, SendsTail, Zenon
    <3> QED
      BY <2>3, <3>1
  <2> QED
    BY <2>1, <2>2, <2>3, Zenon
<1> QED
  BY <1>2, CountStill, Zenon

(* ... where a thread counts its send or queues it, ... *)
LEMMA CountSend ==
  ASSUME Ordered, NumCounts, NEW t \in Thread, NEW k \in Kinds, Send(t, k)
  PROVE  NumCounts'
<1>1. /\ calls' = calls + 1 /\ sendNum' = sendNum + 1 /\ queue' = queue /\ cb' = cb
      /\ tcall' = [tcall EXCEPT ![t] = calls'] /\ tcall[t] = None
  BY Zenon DEF Send, NewCall
<1>2. calls \in Nat /\ sendNum \in Nat /\ Cardinality(SendsOf(queue)) \in Nat
  BY CountTypes, Zenon
<1>3. tcall \in [Thread -> (1..calls) \cup {None}]
  BY Zenon DEF Ordered, CallsKnown
<1>4. t \notin Counted /\ Counted' = Counted \cup {t}
  BY <1>1, <1>2, <1>3 DEF Counted, None
<1>5. Cardinality(Counted) \in Nat /\ Cardinality(Counted') = Cardinality(Counted) + 1
  BY <1>4, CountedStep, Zenon
<1>6. Running' = Running /\ Running \in {0, 1}
  BY <1>1, Zenon DEF Running
<1>7. SendsOf(queue)' = SendsOf(queue)
  BY <1>1, Zenon DEF SendsOf
<1>8. sendNum' = Cardinality(Counted') + Cardinality(SendsOf(queue)) + Running
  BY <1>1, <1>2, <1>5, <1>6, SMTT(30) DEF NumCounts
<1>9. sendNum' \in Nat /\ sendNum' <= calls'
  BY <1>1, <1>2 DEF NumCounts
<1> QED
  BY <1>6, <1>7, <1>8, <1>9, SMTT(30) DEF NumCounts

LEMMA CountSendQueue ==
  ASSUME Ordered, NumCounts, NEW t \in Thread, SendQueue(t)
  PROVE  NumCounts'
<1>1. /\ calls' = calls /\ sendNum' = sendNum /\ queue' = Append(queue, Fn("send", tcall[t])) /\ cb' = cb
      /\ tcall' = [tcall EXCEPT ![t] = None] /\ tcall[t] # None
  BY Zenon DEF SendQueue
<1>2. calls \in Nat /\ sendNum \in Nat /\ Cardinality(SendsOf(queue)) \in Nat /\ queue \in Seq(Function)
  BY CountTypes, Zenon
<1>3. tcall \in [Thread -> (1..calls) \cup {None}] /\ 1..calls \subseteq Call
  BY OrderedTypes, Zenon DEF Ordered, CallsKnown
<1>4. t \in Counted /\ Counted' = Counted \ {t}
  BY <1>1, <1>3, Zenon DEF Counted
<1>5. Cardinality(Counted') \in Nat /\ Cardinality(Counted) = Cardinality(Counted') + 1
  BY <1>4, CountedStep, Zenon
<1>6. Running' = Running /\ Running \in {0, 1}
  BY <1>1, Zenon DEF Running
<1>7. PICK fn \in Function : fn.op = "send" /\ queue' = Append(queue, fn)
  BY <1>1, <1>3, Zenon DEF Fn, Function
<1>8. Cardinality(SendsOf(queue')) = Cardinality(SendsOf(queue)) + 1
  BY <1>2, <1>7, SendsAppend, Zenon
<1>9. sendNum' = Cardinality(Counted') + Cardinality(SendsOf(queue')) + Running
  BY <1>1, <1>2, <1>5, <1>6, <1>8, SMTT(30) DEF NumCounts
<1>10. sendNum' \in Nat /\ sendNum' <= calls'
  BY <1>1, <1>2, Zenon DEF NumCounts
<1> QED
  BY <1>6, <1>9, <1>10, Zenon DEF NumCounts, SendsOf

(* ... where a callback sends, ... *)
LEMMA CountLoopSend ==
  ASSUME Ordered, NumCounts, NEW k \in Kinds, LoopSend(k)
  PROVE  NumCounts'
<1>1. calls' = calls + 1 /\ cb' = cb /\ tcall' = tcall
  BY Zenon DEF LoopSend, NewCall
<1>2. calls \in Nat /\ sendNum \in Nat /\ Cardinality(SendsOf(queue)) \in Nat /\ queue \in Seq(Function)
      /\ Cardinality(Counted) \in Nat
  BY CountTypes, Zenon
<1>3. Running' = Running /\ Running \in {0, 1} /\ Counted' = Counted
  BY <1>1, Zenon DEF Running, Counted
<1>4. CASE UNCHANGED <<sendNum, queue>>
  <2>1. sendNum' <= calls' /\ sendNum' \in Nat
    BY <1>1, <1>2, <1>4, SMTT(30) DEF NumCounts
  <2> QED
    BY <1>3, <1>4, <2>1, Zenon DEF NumCounts, SendsOf
<1>5. CASE sendNum' = sendNum + 1 /\ queue' = Append(queue, Fn("send", calls'))
  <2>1. calls' \in Call
    BY NewCallEffect, Zenon DEF LoopSend
  <2>2. PICK fn \in Function : fn.op = "send" /\ queue' = Append(queue, fn)
    BY <1>5, <2>1, Zenon DEF Fn, Function
  <2>3. Cardinality(SendsOf(queue')) = Cardinality(SendsOf(queue)) + 1
    BY <1>2, <2>2, SendsAppend, Zenon
  <2>4. sendNum' = Cardinality(Counted) + Cardinality(SendsOf(queue')) + Running
    BY <1>2, <1>3, <1>5, <2>3, SMTT(30) DEF NumCounts
  <2>5. sendNum' \in Nat /\ sendNum' <= calls'
    BY <1>1, <1>2, <1>5, SMTT(30) DEF NumCounts
  <2> QED
    BY <1>3, <2>4, <2>5, Zenon DEF NumCounts, SendsOf
<1> QED
  BY <1>4, <1>5, Zenon DEF LoopSend

(* ... where a queued send runs, and where its high-water callback returns. *)
LEMMA CountRunSend ==
  ASSUME Ordered, NumCounts, RunSend
  PROVE  NumCounts'
<1>1. /\ queue # <<>> /\ Head(queue).op = "send" /\ queue' = Tail(queue) /\ calls' = calls /\ tcall' = tcall
      /\ cb = "none"
  BY Zenon DEF RunSend, NextFn, callVars
<1>2. calls \in Nat /\ sendNum \in Nat /\ Cardinality(SendsOf(queue)) \in Nat /\ queue \in Seq(Function)
      /\ Cardinality(Counted) \in Nat
  BY CountTypes, Zenon
<1>3. /\ Cardinality(SendsOf(queue)) = Cardinality(SendsOf(Tail(queue))) + 1
      /\ Cardinality(SendsOf(Tail(queue))) \in Nat
  BY <1>1, <1>2, SendsTail, Zenon
<1>4. Running = 0 /\ Counted' = Counted
  BY <1>1, Zenon DEF Running, Counted
<1>5. \/ cb' = "highwater" /\ sendNum' = sendNum
      \/ cb' = "none" /\ sendNum' = sendNum - 1
  BY Zenon DEF RunSend
<1>6. PICK n \in Nat : n = Cardinality(SendsOf(Tail(queue))) /\ sendNum = Cardinality(Counted) + n + 1
  BY <1>2, <1>3, <1>4, SMTT(30) DEF NumCounts
<1>7. sendNum' = Cardinality(Counted) + n + Running' /\ Running' \in {0, 1}
  <2>1. CASE cb' = "highwater" /\ sendNum' = sendNum
    <3>1. Running' = 1
      BY <2>1, Zenon DEF Running
    <3> QED
      BY <1>6, <2>1, <3>1, Zenon
  <2>2. CASE cb' = "none" /\ sendNum' = sendNum - 1
    <3>1. Running' = 0
      BY <2>2, Zenon DEF Running
    <3>2. sendNum - 1 = Cardinality(Counted) + n + 0
      BY <1>2, <1>6
    <3> QED
      BY <2>2, <3>1, <3>2, Zenon
  <2> QED
    BY <1>5, <2>1, <2>2, Zenon
<1>8. sendNum' \in Nat /\ sendNum' <= calls'
  <2>1. CASE sendNum' = sendNum
    BY <1>1, <1>2, <2>1, Zenon DEF NumCounts
  <2>2. CASE sendNum' = sendNum - 1
    <3>1. sendNum >= 1 /\ sendNum <= calls
      BY <1>2, <1>6 DEF NumCounts
    <3> QED
      BY <1>1, <1>2, <2>2, <3>1, SMTT(30)
  <2> QED
    BY <1>5, <2>1, <2>2, Zenon
<1>9. Cardinality(SendsOf(queue))' = n
  BY <1>1, <1>6, Zenon DEF SendsOf
<1> QED
  BY <1>4, <1>7, <1>8, <1>9, SMTT(30) DEF NumCounts

LEMMA CountReturn ==
  ASSUME Ordered, NumCounts, CallbackReturns
  PROVE  NumCounts'
<1>1. queue' = queue /\ calls' = calls /\ tcall' = tcall /\ cb' = "none"
  BY Zenon DEF CallbackReturns, callVars
<1>2. calls \in Nat /\ sendNum \in Nat /\ Cardinality(SendsOf(queue)) \in Nat /\ Cardinality(Counted) \in Nat
  BY CountTypes, Zenon
<1>3. Running' = 0 /\ Counted' = Counted /\ SendsOf(queue)' = SendsOf(queue)
  BY <1>1, Zenon DEF Running, Counted, SendsOf
<1>4. CASE cb = "highwater" /\ sendNum' = sendNum - 1
  <2>1. sendNum = Cardinality(Counted) + Cardinality(SendsOf(queue)) + 1
    BY <1>4, Zenon DEF NumCounts, Running
  <2>2. sendNum' = Cardinality(Counted) + Cardinality(SendsOf(queue)) + 0
    BY <1>2, <1>4, <2>1, SMTT(30)
  <2>3. sendNum' \in Nat /\ sendNum' <= calls'
    BY <1>1, <1>2, <1>4, <2>1, SMTT(30) DEF NumCounts
  <2> QED
    BY <1>3, <2>2, <2>3, Zenon DEF NumCounts
<1>5. CASE cb # "highwater" /\ sendNum' = sendNum
  <2>1. Running = 0
    BY <1>5, Zenon DEF Running
  <2> QED
    BY <1>1, <1>3, <1>5, <2>1, SMTT(30) DEF NumCounts
<1> QED
  BY <1>4, <1>5, Zenon DEF CallbackReturns
(* The functions the loop runs. *)
LEMMA FnTypes == \A op \in {"establish", "send", "shutdown", "close", "destroy"} :
                   Fn(op, None) \in Function /\ Fn(op, None).op = op
  BY Zenon DEF Fn, Function

(* Steps in which no bytes move and nothing is sent. *)
Quiet ==
  \/ ServerCloses \/ LoopClose \/ OtherCallback \/ Poll \/ HandleEvent \/ HandleRead \/ FuncsDone
  \/ RunEstablish \/ RunShutdown \/ RunForceClose \/ RunDestroyed \/ PeerSends \/ PeerCloses
  \/ \E t \in Thread, op \in {"shutdown", "close"} : CloseCall(t, op)

LEMMA QuietFrame ==
  ASSUME PlainTypes, Quiet
  PROVE  /\ UNCHANGED out /\ UNCHANGED <<tcall, calls, kind, returned, before, sendNum>> /\ Running' = Running
         /\ \/ queue' = queue
            \/ \E fn \in Function : fn.op # "send" /\ queue' = Append(queue, fn)
            \/ queue # <<>> /\ Head(queue).op # "send" /\ queue' = Tail(queue)
<1> USE DEF callVars, Running
<1>1. CASE ServerCloses
  BY <1>1, FnTypes, Zenon DEF ServerCloses
<1>2. ASSUME NEW t \in Thread, NEW op \in {"shutdown", "close"}, CloseCall(t, op)
      PROVE  /\ UNCHANGED out /\ UNCHANGED <<tcall, calls, kind, returned, before, sendNum>> /\ Running' = Running
             /\ \E fn \in Function : fn.op # "send" /\ queue' = Append(queue, fn)
  BY <1>2, FnTypes, Zenon DEF CloseCall
<1>3. CASE LoopClose
  BY <1>3, Zenon DEF LoopClose
<1>4. CASE OtherCallback
  BY <1>4, Zenon DEF OtherCallback
<1>5. CASE Poll
  BY <1>5, Zenon DEF Poll
<1>6. CASE HandleEvent
  BY <1>6, Zenon DEF HandleEvent
<1>7. CASE HandleRead
  BY <1>7, Zenon DEF HandleRead
<1>8. CASE FuncsDone
  BY <1>8, Zenon DEF FuncsDone
<1>9. CASE RunEstablish
  BY <1>9, Zenon DEF RunEstablish, NextFn
<1>10. CASE RunShutdown
  BY <1>10, Zenon DEF RunShutdown, NextFn
<1>11. CASE RunForceClose
  BY <1>11, Zenon DEF RunForceClose, NextFn
<1>12. CASE RunDestroyed
  BY <1>12, Zenon DEF RunDestroyed, NextFn
<1>13. CASE PeerSends
  BY <1>13, Zenon DEF PeerSends
<1>14. CASE PeerCloses
  BY <1>14, Zenon DEF PeerCloses
<1> QED
  BY <1>1, <1>2, <1>3, <1>4, <1>5, <1>6, <1>7, <1>8, <1>9, <1>10, <1>11, <1>12, <1>13, <1>14, SMTT(30) DEF Quiet

LEMMA QuietTypes ==
  ASSUME PlainTypes, Quiet
  PROVE  PlainTypes' /\ events' \in {events, {}, {"read"}}
<1> USE DEF PlainTypes
<1>1. CASE ServerCloses
  BY <1>1, Zenon DEF ServerCloses, conn, net
<1>2. ASSUME NEW t \in Thread, NEW op \in {"shutdown", "close"}, CloseCall(t, op)
      PROVE  PlainTypes' /\ events' \in {events, {}, {"read"}}
  BY <1>2, Zenon DEF CloseCall, conn, net
<1>3. CASE LoopClose
  BY <1>3, Zenon DEF LoopClose, conn, net, ShutdownInLoop, ForceCloseInLoop, HandleClose
<1>4. CASE OtherCallback
  BY <1>4, Zenon DEF OtherCallback, conn, net
<1>5. CASE Poll
  BY <1>5, Zenon DEF Poll, conn, net
<1>6. CASE HandleEvent
  BY <1>6, Zenon DEF HandleEvent, HandleClose, conn
<1>7. CASE HandleRead
  BY <1>7, Zenon DEF HandleRead, HandleClose, conn
<1>8. CASE FuncsDone
  BY <1>8, Zenon DEF FuncsDone, conn, net
<1>9. CASE RunEstablish
  BY <1>9, Zenon DEF RunEstablish, NextFn, net
<1>10. CASE RunShutdown
  BY <1>10, Zenon DEF RunShutdown, ShutdownInLoop, NextFn, net
<1>11. CASE RunForceClose
  BY <1>11, Zenon DEF RunForceClose, ForceCloseInLoop, HandleClose, NextFn, net, conn
<1>12. CASE RunDestroyed
  BY <1>12, Zenon DEF RunDestroyed, NextFn, net, conn
<1>13. CASE PeerSends
  BY <1>13, Zenon DEF PeerSends, conn
<1>14. CASE PeerCloses
  BY <1>14, Zenon DEF PeerCloses, conn
<1> QED
  BY <1>1, <1>2, <1>3, <1>4, <1>5, <1>6, <1>7, <1>8, <1>9, <1>10, <1>11, <1>12, <1>13, <1>14, SMTT(30) DEF Quiet

LEMMA QuietStep ==
  ASSUME ConnInv, Quiet
  PROVE  ConnInv'
<1>0. Ordered /\ WritingHasWork /\ NumCounts /\ PlainTypes
  BY Zenon DEF ConnInv
<1>1. /\ UNCHANGED out /\ UNCHANGED <<tcall, calls, kind, returned, before, sendNum>> /\ Running' = Running
      /\ \/ queue' = queue
         \/ \E fn \in Function : fn.op # "send" /\ queue' = Append(queue, fn)
         \/ queue # <<>> /\ Head(queue).op # "send" /\ queue' = Tail(queue)
  BY <1>0, QuietFrame, Zenon
<1>2. UNCHANGED <<list, fileBuf, wire>>
  BY <1>1, Zenon DEF out
<1>3. NumCounts'
  BY <1>0, <1>1, CountQueue, Zenon
<1>4. Ordered'
  BY <1>0, <1>1, <1>2, StillStep, QueueStep, TakeStep, SMTT(30)
<1>5. PlainTypes' /\ events' \in {events, {}, {"read"}}
  BY <1>0, QuietTypes, Zenon
<1>6. WritingHasWork'
  BY <1>0, <1>2, <1>5 DEF WritingHasWork
<1> QED
  BY <1>3, <1>4, <1>5, <1>6, Zenon DEF ConnInv
(* A step that sends something in the loop watches the channel if it has to. *)
LEMMA WatchStep ==
  ASSUME WritingHasWork, events \subseteq {"read", "write"}, WatchEffect
  PROVE  WritingHasWork' /\ events' \subseteq {"read", "write"}
  BY Zenon DEF WritingHasWork, WatchEffect

LEMMA SendWatch ==
  ASSUME Ordered, RunSend \/ (\E k \in Kinds : LoopSend(k) /\ SendNow(calls'))
  PROVE  WatchEffect
<1>1. CASE RunSend
  <2>1. /\ BuffersIn(Byte) /\ queue \in Seq(Function) /\ calls \in Nat /\ 1..calls \subseteq Call
        /\ \A i \in SendsOf(queue) : queue[i].id \in 1..calls
    BY OrderedTypes, Zenon DEF Ordered
  <2>2. queue # <<>> /\ Head(queue).op = "send" /\ kind' = kind /\ SendNow(Head(queue).id)
    BY <1>1, Zenon DEF RunSend, NextFn, callVars
  <2>3. Len(queue) \in Nat \ {0} /\ Head(queue) = queue[1]
    BY <2>1, <2>2, EmptySeq, SMTT(30)
  <2>4. 1 \in SendsOf(queue)
    BY <2>2, <2>3 DEF SendsOf
  <2>5. PICK c \in 1..calls : c = Head(queue).id
    BY <2>1, <2>3, <2>4, Zenon
  <2>6. kind'[c] \in {"msg", "file", "stream"}
    BY <2>1, <2>2, Zenon DEF Ordered, CallsKnown
  <2>7. Bytes(c) \in Seq(Byte) /\ Bytes(c) # <<>>
    BY <2>1, BytesWhole, Zenon DEF Byte
  <2> QED
    BY <2>1, <2>2, <2>5, <2>6, <2>7, SendNowEffect, ZenonT(30) DEF SendEffect
<1>2. ASSUME NEW k \in Kinds, LoopSend(k), SendNow(calls')
      PROVE  WatchEffect
  <2>1. BuffersIn(Byte') /\ kind' \in [Call -> {"msg", "file", "stream"}] /\ calls' \in Call /\ calls' \in 1..calls'
        /\ calls' = calls + 1
    BY <1>2, NewCallEffect, Zenon DEF LoopSend
  <2>2. calls \in Nat
    BY OrderedTypes, Zenon DEF Ordered
  <2>3. PICK c \in Nat : c = calls' /\ c \in 1..c
    BY <2>1, <2>2, SMTT(30)
  <2>4. PICK B : B = Byte' /\ B = (1..c) \X (1..Size)
    BY <2>3, Zenon DEF Byte
  <2>5. Bytes(c) \in Seq(B) /\ Bytes(c) # <<>>
    BY <2>3, <2>4, BytesWhole, Zenon
  <2>6. BuffersIn(B) /\ kind'[c] \in {"msg", "file", "stream"} /\ SendNow(c)
    BY <1>2, <2>1, <2>3, <2>4, Zenon
  <2> QED
    BY <2>5, <2>6, SendNowEffect, Zenon DEF SendEffect
<1> QED
  BY <1>1, <1>2, Zenon

(* Every step keeps the invariant. *)
LEMMA ConnStep ==
  ASSUME ConnInv, [Next]_vars
  PROVE  ConnInv'
<1>0. Ordered /\ WritingHasWork /\ NumCounts /\ PlainTypes
  BY Zenon DEF ConnInv
<1>1. ASSUME NEW t \in Thread, NEW k \in Kinds, Send(t, k)
      PROVE  ConnInv'
  <2>1. PlainTypes' /\ WritingHasWork'
    BY <1>0, <1>1, Zenon DEF Send, PlainTypes, WritingHasWork, conn, out, net
  <2> QED
    BY <1>0, <1>1, <2>1, SendStep, CountSend, SMTT(30) DEF ConnInv
<1>2. ASSUME NEW t \in Thread, SendQueue(t)
      PROVE  ConnInv'
  <2>1. PlainTypes' /\ WritingHasWork'
    BY <1>0, <1>2, Zenon DEF SendQueue, PlainTypes, WritingHasWork, conn, out, net
  <2> QED
    BY <1>0, <1>2, <2>1, SendQueueStep, CountSendQueue, Zenon DEF ConnInv
<1>3. ASSUME NEW k \in Kinds, LoopSend(k)
      PROVE  ConnInv'
  <2>1. sendNum = 0 => SendsOf(queue) = {}
    BY <1>0, CountTypes, Zenon
  <2>2. Ordered' /\ NumCounts'
    BY <1>0, <1>3, <2>1, LoopSendStep, CountLoopSend, Zenon
  <2>3. WritingHasWork' /\ events' \subseteq {"read", "write"}
    <3>1. CASE SendNow(calls')
      BY <1>0, <1>3, <3>1, SendWatch, WatchStep, Zenon DEF PlainTypes
    <3>2. CASE UNCHANGED <<out, events>>
      BY <1>0, <3>2, Zenon DEF PlainTypes, WritingHasWork, out
    <3> QED
      BY <1>3, <3>1, <3>2, Zenon DEF LoopSend
  <2>4. UNCHANGED <<status, lpc, revents, cb, wrClosed, peer>>
    BY <1>3, Zenon DEF LoopSend, net
  <2>5. PlainTypes'
    BY <1>0, <2>3, <2>4, Zenon DEF PlainTypes
  <2> QED
    BY <2>2, <2>3, <2>5, Zenon DEF ConnInv
<1>4. CASE RunSend
  <2>1. Ordered' /\ NumCounts'
    BY <1>0, <1>4, RunSendStep, CountRunSend, Zenon
  <2>2. WritingHasWork' /\ events' \subseteq {"read", "write"}
    BY <1>0, <1>4, SendWatch, WatchStep, Zenon DEF PlainTypes
  <2>3. UNCHANGED <<status, lpc, revents, wrClosed, peer>> /\ cb' \in {"highwater", "none"}
    BY <1>4, Zenon DEF RunSend, NextFn, net
  <2>4. PlainTypes'
    BY <1>0, <2>2, <2>3, Zenon DEF PlainTypes
  <2> QED
    BY <2>1, <2>2, <2>4, Zenon DEF ConnInv
<1>5. CASE CallbackReturns
  <2>1. /\ UNCHANGED <<status, events, list, fileBuf, wire, queue, lpc, revents, peer>> /\ UNCHANGED callVars
        /\ cb' = "none" /\ wrClosed' \in BOOLEAN
    BY <1>5, Zenon DEF CallbackReturns, conn, out, net
  <2>2. Ordered'
    BY <1>0, <2>1, StillStep, Zenon DEF callVars
  <2>3. NumCounts'
    BY <1>0, <1>5, CountReturn, Zenon
  <2>4. PlainTypes' /\ WritingHasWork'
    BY <1>0, <2>1, Zenon DEF PlainTypes, WritingHasWork
  <2> QED
    BY <2>2, <2>3, <2>4, Zenon DEF ConnInv
<1>6. CASE HandleWrite
  <2>1. Ordered' /\ WorkStep
    BY <1>0, <1>6, HandleWriteStep, Zenon
  <2>2. /\ UNCHANGED <<status, sendNum, queue, revents, wrClosed, peer, calls, tcall>> /\ cb' \in {"none", "complete"}
        /\ cb = "none" /\ lpc' = "funcs"
    BY <1>6, Zenon DEF HandleWrite, callVars, net
  <2>3. Running' = Running
    BY <2>2, Zenon DEF Running
  <2>4. NumCounts'
    BY <1>0, <2>2, <2>3, CountQueue, Zenon
  <2>5. WritingHasWork' /\ events' \subseteq {"read", "write"}
    BY <1>0, <2>1, Zenon DEF WorkStep, WritingHasWork, PlainTypes
  <2>6. PlainTypes'
    BY <1>0, <2>2, <2>5, SMTT(30) DEF PlainTypes
  <2> QED
    BY <2>1, <2>4, <2>5, <2>6, ZenonT(30) DEF ConnInv
<1>7. CASE UNCHANGED vars
  <2>1. /\ UNCHANGED <<status, events, list, fileBuf, wire, sendNum, queue, lpc, revents, cb, wrClosed, peer>>
        /\ UNCHANGED <<tcall, calls, kind, returned, before>>
    BY <1>7, Zenon DEF vars, conn, out, callVars, net
  <2>2. Ordered'
    BY <1>0, <2>1, StillStep, Zenon
  <2>3. Running' = Running
    BY <2>1, Zenon DEF Running
  <2>4. NumCounts'
    BY <1>0, <2>1, <2>3, CountQueue, SMTT(30)
  <2>5. PlainTypes' /\ WritingHasWork'
    BY <1>0, <2>1 DEF PlainTypes, WritingHasWork
  <2> QED
    BY <2>2, <2>4, <2>5, Zenon DEF ConnInv
<1>8. CASE Quiet
  BY <1>8, QuietStep, Zenon
<1> QED
  BY <1>1, <1>2, <1>3, <1>4, <1>5, <1>6, <1>7, <1>8, SMTT(30) DEF Next, LoopStep, Quiet

LEMMA ConnInit == Init => ConnInv
<1> SUFFICES ASSUME Init
             PROVE  ConnInv
  BY Zenon
<1> USE DEF Init
<1>0. MaxSends \in Nat
  BY TcpConnectionAssumption, Zenon
<1>1. queue = <<Fn("establish", None)>> /\ Fn("establish", None) \in Function /\ Fn("establish", None).op = "establish"
  BY FnTypes, Zenon
<1>2. queue \in Seq(Function) /\ Len(queue) = 1 /\ queue[1].op = "establish"
  BY <1>1
<1>3. SendsOf(queue) = {}
  BY <1>2 DEF SendsOf
<1>4. Counted = {}
  BY Zenon DEF Counted
<1>5. Buffers
  <2>1. Len(list) = 0 /\ 1..0 = {}
    OBVIOUS
  <2>2. list \in Seq(NodeOf(Byte)) /\ fileBuf \in Seq(Byte) /\ wire \in Seq(Byte)
    BY EmptySeq, Zenon
  <2>3. NodesOf(list, fileBuf)
    BY <2>1, Zenon DEF NodesOf
  <2>4. calls \in 0..MaxSends
    BY <1>0
  <2> QED
    BY <2>2, <2>3, <2>4, Zenon DEF Buffers
<1>6. CallsKnown
  BY <1>2, <1>3, <1>4, SMTT(30) DEF CallsKnown
<1>7. OrderKept
  <2>1. Stream = <<>> \o (<<>> \o <<>>)
    BY Zenon DEF Stream
  <2>2. Stream = <<>>
    BY <2>1, EmptySeq, ConcatEmptySeq, Zenon
  <2>3. Len(list) = 0 /\ Len(Stream) = 0 /\ 1..0 = {} /\ 2..0 = {}
    BY <2>2
  <2> QED
    BY <1>3, <2>2, <2>3, SMTT(30) DEF OrderKept, OrderOf, InOrder, EndsCall
<1>8. NumCounts
  <2>1. Cardinality(Counted) = 0 /\ Cardinality(SendsOf(queue)) = 0
    BY <1>3, <1>4, FS_EmptySet, Zenon
  <2>2. Running = 0
    BY Zenon DEF Running
  <2> QED
    BY <2>1, <2>2 DEF NumCounts
<1>9. PlainTypes /\ WritingHasWork
  BY Zenon DEF PlainTypes, WritingHasWork
<1> QED
  BY <1>5, <1>6, <1>7, <1>8, <1>9, SMTT(30) DEF ConnInv, Ordered

(* A connection that is watched for writing has something to write: the
   assertion of handleWrite (194) never fails. *)
THEOREM NeverIdlyWriting == Spec => []WritingHasWork
<1>1. Init => ConnInv
  BY ConnInit, Zenon
<1>2. ConnInv /\ [Next]_vars => ConnInv'
  BY ConnStep, Zenon
<1>3. ConnInv => WritingHasWork
  BY SMTT(30) DEF ConnInv
<1> QED
  BY <1>1, <1>2, <1>3, PTL DEF Spec

(* What is sent by any threads, and from callbacks, leaves in the order of the
   calls, whole, once and unmixed, and m_sendNum counts exactly the sends the
   loop must not overtake (433, 409, 612). *)
THEOREM SentInOrder == Spec => []SendsInOrder
<1>1. Init => ConnInv
  BY ConnInit, Zenon
<1>2. ConnInv /\ [Next]_vars => ConnInv'
  BY ConnStep, Zenon
<1>3. ConnInv => SendsInOrder
  <2> SUFFICES ASSUME ConnInv
               PROVE  SendsInOrder
    BY Zenon
  <2>0. Ordered /\ NumCounts /\ PlainTypes
    BY Zenon DEF ConnInv
  <2>1. /\ calls \in Nat /\ calls <= MaxSends /\ MaxSends \in Nat /\ BuffersIn(Byte) /\ queue \in Seq(Function)
        /\ 1..calls \subseteq Call
    BY <2>0, OrderedTypes, Zenon DEF Ordered
  <2>2. InOrder(before, wire)
    <3>1. InOrder(before, Stream)
      BY <2>0, Zenon DEF Ordered, OrderKept, OrderOf
    <3>2. PICK l \in Seq(Byte) : l = IF list = <<>> THEN <<>> ELSE list[1].left
      BY <2>1, EmptySeq, FirstNode, Zenon DEF BuffersIn
    <3>3. PICK r \in Seq(Byte) : r = fileBuf \o l
      BY <2>1, ConcatProperties, Zenon DEF BuffersIn
    <3>4. InOrder(before, wire \o r)
      BY <3>1, <3>2, <3>3, Zenon DEF Stream
    <3> QED
      BY <2>1, <3>4, PrefixInOrder, Zenon DEF BuffersIn
  <2>3. \A i \in 1..Len(list) : list[i].kind \in {"msg", "file", "stream"} /\ list[i].open \in BOOLEAN
    <3>1. \A i \in 1..Len(list) : list[i] \in NodeOf(Byte)
      BY <2>1, ElementOfSeq, Zenon DEF BuffersIn
    <3> QED
      BY <3>1, Zenon DEF NodeOf
  <2>4. \A i \in 1..Len(queue) : queue[i].op \in {"establish", "send", "shutdown", "close", "destroy"}
    <3>1. \A i \in 1..Len(queue) : queue[i] \in Function
      BY <2>1, ElementOfSeq, Zenon
    <3> QED
      BY <3>1, Zenon DEF Function
  <2>5. sendNum \in 0..(MaxSends + 1)
    BY <2>0, <2>1 DEF NumCounts
  <2>6. tcall \in [Thread -> Call \cup {None}]
    BY <2>0, <2>1, Zenon DEF Ordered, CallsKnown
  <2>7. TypeOK
    BY <2>0, <2>3, <2>4, <2>5, <2>6, SMTT(30) DEF TypeOK, PlainTypes
  <2> QED
    BY <2>0, <2>2, <2>7, Zenon DEF SendsInOrder, SendNumCounts, NumCounts, Running
<1> QED
  BY <1>1, <1>2, <1>3, PTL DEF Spec
-----------------------------------------------------------------------------

(* A connection that carries messages. *)
AllMsg(lst) == \A k \in 1..Len(lst) : lst[k].kind = "msg"

(* sendInLoop buffers messages only, on a connection that is up, and watches
   the channel for what it buffers. *)
MsgEffect ==
  /\ AllMsg(list')
  /\ list' = list \/ "write" \in events'
  /\ events' = events \/ (status = "Connected" /\ events' = events \cup {"write"})

LEMMA MsgBuffer ==
  ASSUME NEW B, BuffersIn(B), NEW s \in Seq(B), AllMsg(list), Buffer(s)
  PROVE  AllMsg(list') /\ events' = events \cup {"write"}
<1>0. events' = events \cup {"write"}
  BY Zenon DEF Buffer, EnableWriting
<1>1. list \in Seq(NodeOf(B)) /\ NodesOf(list, fileBuf) /\ Len(list) \in Nat
  BY LenProperties, Zenon DEF BuffersIn
<1>2. CASE list' = Append(list, MsgNode(s))
  <2>0. MsgNode(s) \in NodeOf(B) /\ MsgNode(s).kind = "msg"
    BY Zenon DEF MsgNode, NodeOf
  <2>1. /\ Len(list') = Len(list) + 1
        /\ \A k \in 1..Len(list) : list'[k] = list[k]
        /\ list'[Len(list) + 1] = MsgNode(s)
    BY <1>1, <1>2, <2>0, AppendProperties, SMTT(30)
  <2>2. \A k \in 1..(Len(list) + 1) : k \in 1..Len(list) \/ k = Len(list) + 1
    BY <1>1
  <2>3. ASSUME NEW k \in 1..Len(list')
        PROVE  list'[k].kind = "msg"
    <3>1. CASE k \in 1..Len(list)
      BY <2>1, <3>1, Zenon DEF AllMsg
    <3>2. CASE k = Len(list) + 1
      BY <2>0, <2>1, <3>2, Zenon
    <3> QED
      BY <2>1, <2>2, <3>1, <3>2, ZenonT(30)
  <2> QED
    BY <1>0, <2>3, Zenon DEF AllMsg
<1>3. CASE list # <<>> /\ list' = GrowLast(list, s)
  <2>1. PICK n : n = Len(list)
    BY Zenon
  <2>2. n \in 1..Len(list) /\ \A k \in 1..n : list[k] \in NodeOf(B)
    <3>1. Len(list) # 0
      BY <1>1, <1>3, EmptySeq, Zenon
    <3> QED
      BY <1>1, <2>1, <3>1, ElementOfSeq, SMTT(30)
  <2>3. list[n].left \in Seq(B)
    BY <2>1, <2>2, Zenon DEF NodeOf
  <2>4. PICK e : e = [list[n] EXCEPT !.left = list[n].left \o s]
    BY Zenon
  <2>5. e \in NodeOf(B) /\ e.kind = list[n].kind
    <3>1. list[n].left \o s \in Seq(B)
      BY <2>3, ConcatProperties, Zenon
    <3>2. list[n] \in NodeOf(B)
      BY <2>1, <2>2, Zenon
    <3> QED
      BY <2>4, <3>1, <3>2, Zenon DEF NodeOf
  <2>6. list' = [list EXCEPT ![n] = e]
    BY <1>3, <2>1, <2>4, Zenon DEF GrowLast
  <2>7. /\ Len([list EXCEPT ![n] = e]) = Len(list)
        /\ \A j \in 1..Len(list) : [list EXCEPT ![n] = e][j] = IF j = n THEN e ELSE list[j]
    BY <1>1, <2>2, <2>5, ExceptSeq, SMTT(30)
  <2>8. Len(list') = Len(list) /\ \A j \in 1..Len(list) : list'[j] = IF j = n THEN e ELSE list[j]
    BY <2>6, <2>7, Zenon
  <2> QED
    BY <1>0, <2>2, <2>5, <2>8, SMTT(30) DEF AllMsg
<1> QED
  BY <1>2, <1>3, Zenon DEF Buffer, GrowLast

LEMMA MsgSend ==
  ASSUME NEW B, BuffersIn(B), NEW s \in Seq(B), AllMsg(list), SendInLoop(s)
  PROVE  MsgEffect
<1>1. CASE UNCHANGED <<out, events>>
  BY <1>1, Zenon DEF MsgEffect, out
<1>2. ASSUME NEW n \in 0..Len(s), status = "Connected",
             IF n < Len(s) THEN Buffer(Drop(s, n)) ELSE UNCHANGED <<list, events>>
      PROVE  MsgEffect
  <2>1. PICK d \in Seq(B) : d = Drop(s, n)
    BY Cut, Zenon
  <2>2. CASE n < Len(s)
    BY <1>2, <2>1, <2>2, MsgBuffer, SMTT(30) DEF MsgEffect
  <2>3. CASE ~(n < Len(s))
    BY <1>2, <2>3, Zenon DEF MsgEffect
  <2> QED
    BY <2>2, <2>3, Zenon
<1>3. CASE status = "Connected" /\ Buffer(s)
  BY <1>3, MsgBuffer, Zenon DEF MsgEffect
<1>4. Takes(Len(s), FALSE) = 0..Len(s)
  BY Zenon DEF Takes
<1> QED
  BY <1>1, <1>2, <1>3, <1>4, Zenon DEF SendInLoop

(* The next function or a callback sends a message. *)
LEMMA MsgSendNow ==
  ASSUME Ordered, AllMsg(list), \A i \in 1..calls' : kind'[i] = "msg",
         RunSend \/ (\E k \in Kinds : LoopSend(k) /\ SendNow(calls'))
  PROVE  MsgEffect
<1>1. CASE RunSend
  <2>1. /\ BuffersIn(Byte) /\ queue \in Seq(Function) /\ calls \in Nat
        /\ \A i \in SendsOf(queue) : queue[i].id \in 1..calls
    BY OrderedTypes, Zenon DEF Ordered
  <2>2. queue # <<>> /\ Head(queue).op = "send" /\ kind' = kind /\ calls' = calls /\ SendNow(Head(queue).id)
    BY <1>1, Zenon DEF RunSend, NextFn, callVars
  <2>3. Len(queue) \in Nat \ {0} /\ Head(queue) = queue[1]
    BY <2>1, <2>2, EmptySeq, SMTT(30)
  <2>4. 1 \in SendsOf(queue)
    BY <2>2, <2>3 DEF SendsOf
  <2>5. PICK c \in 1..calls : c = Head(queue).id
    BY <2>1, <2>3, <2>4, Zenon
  <2>6. kind'[c] = "msg"
    BY <2>2, Zenon
  <2>7. Bytes(c) \in Seq(Byte)
    BY <2>1, BytesWhole, Zenon DEF Byte
  <2>8. SendInLoop(Bytes(c))
    BY <2>2, <2>5, <2>6, Zenon DEF SendNow
  <2> QED
    BY <2>1, <2>7, <2>8, MsgSend, SMTT(30)
<1>2. ASSUME NEW k \in Kinds, LoopSend(k), SendNow(calls')
      PROVE  MsgEffect
  <2>1. BuffersIn(Byte') /\ calls' \in 1..calls' /\ calls' = calls + 1
    BY <1>2, NewCallEffect, Zenon DEF LoopSend
  <2>2. calls \in Nat
    BY OrderedTypes, Zenon DEF Ordered
  <2>3. PICK c \in Nat : c = calls' /\ c \in 1..c
    BY <2>1, <2>2
  <2>4. PICK B : B = Byte' /\ B = (1..c) \X (1..Size)
    BY <2>3, Zenon DEF Byte
  <2>5. Bytes(c) \in Seq(B)
    BY <2>3, <2>4, BytesWhole, Zenon
  <2>6. BuffersIn(B) /\ SendInLoop(Bytes(c))
    BY <1>2, <2>1, <2>3, <2>4, SMTT(30) DEF SendNow
  <2> QED
    BY <2>5, <2>6, MsgSend, Zenon
<1> QED
  BY <1>1, <1>2, Zenon

(* handleWrite, of messages. *)
LEMMA MsgWrite ==
  ASSUME Ordered, WritingHasWork, AllMsg(list), HandleWrite
  PROVE  /\ AllMsg(list')
         /\ events' = events \/ (events' = events \ {"write"} /\ list' = <<>>)
         /\ list' # <<>> => list # <<>>
         /\ events' # {} => events # {}
<1>0. BuffersIn(Byte)
  BY OrderedTypes, Zenon DEF Ordered
<1>1. ASSUME NEW lst \in Seq(NodeOf(Byte)), lst # <<>>, AllMsg(lst), SendFront(lst)
      PROVE  AllMsg(list') /\ events' = events
  <2>1. Len(lst) \in Nat /\ 1 \in 1..Len(lst) /\ lst[1].left \in Seq(Byte)
    BY <1>1, FirstNode, Zenon
  <2>2. ~isFile(lst[1])
    BY <1>1, <2>1, Zenon DEF AllMsg, isFile
  <2>3. WriteFront(lst)
    BY <1>1, <2>2, Zenon DEF SendFront
  <2>4. ASSUME NEW n \in 0..Len(lst[1].left), list' = FrontLeft(lst, Drop(lst[1].left, n))
        PROVE  AllMsg(list')
    <3>1. PICK d \in Seq(Byte) : d = Drop(lst[1].left, n)
      BY <2>1, Cut, Zenon
    <3>2. /\ Len(FrontLeft(lst, d)) = Len(lst) /\ FrontLeft(lst, d)[1].kind = lst[1].kind
          /\ \A k \in 2..Len(lst) : FrontLeft(lst, d)[k] = lst[k]
      BY <1>1, FrontLeftNodes
    <3>3. Len(list') = Len(lst) /\ list'[1].kind = lst[1].kind /\ \A k \in 2..Len(lst) : list'[k] = lst[k]
      BY <2>4, <3>1, <3>2, Zenon
    <3>4. \A k \in 1..Len(lst) : k = 1 \/ k \in 2..Len(lst)
      BY <2>1
    <3> QED
      BY <1>1, <2>1, <3>3, <3>4, SMTT(30) DEF AllMsg
  <2>5. Len(lst[1].left) \in Nat /\ \A n \in Takes(Len(lst[1].left), TRUE) : n \in 0..Len(lst[1].left)
    BY <2>1, LenProperties DEF Takes
  <2> QED
    BY <1>1, <2>3, <2>4, <2>5, Zenon DEF WriteFront, FrontLeft
<1>2. CASE UNCHANGED <<out, events>>
  BY <1>2, Zenon DEF out
<1>3. ASSUME "write" \in events
      PROVE  list # <<>> /\ list \in Seq(NodeOf(Byte)) /\ Len(list) \in Nat /\ 1 \in 1..Len(list)
  BY <1>0, <1>3, FirstNode, Zenon DEF WritingHasWork, BuffersIn
<1>4. CASE "write" \in events /\ SendFront(list)
  BY <1>1, <1>3, <1>4, Zenon
<1>5. CASE "write" \in events /\ Len(list) > 1 /\ SendFront(Tail(list))
  <2>1. PICK lst \in Seq(NodeOf(Byte)) :
          /\ lst = Tail(list) /\ Len(lst) = Len(list) - 1
          /\ \A k \in 1..Len(lst) : lst[k] = list[k + 1]
    BY <1>3, <1>5, HeadTailProperties, Zenon
  <2>2. lst # <<>> /\ \A k \in 1..Len(lst) : k + 1 \in 1..Len(list)
    <3>1. Len(<<>>) = 0
      BY Zenon
    <3>2. PICK m : m = Len(lst) /\ m = Len(list) - 1
      BY <2>1, Zenon
    <3>3. m # 0 /\ \A k \in 1..m : k + 1 \in 1..Len(list)
      BY <1>3, <1>5, <3>2, SMTT(30)
    <3> QED
      BY <3>1, <3>2, <3>3, Zenon
  <2>3. AllMsg(lst)
    BY <2>1, <2>2, Zenon DEF AllMsg
  <2> QED
    BY <1>1, <1>3, <1>5, <2>1, <2>2, <2>3, ZenonT(30)
<1>6. CASE "write" \in events /\ list' = <<>> /\ events' = events \ {"write"}
  <2>1. 1..Len(list') = {}
    BY <1>6
  <2> QED
    BY <1>6, <2>1, Zenon DEF AllMsg
<1> QED
  BY <1>2, <1>4, <1>5, <1>6, SMTT(30) DEF HandleWrite
-----------------------------------------------------------------------------
(* The life cycle of a connection. *)
QueueLife(q, u, d) ==
  /\ \A i \in 1..Len(q) : q[i].op = "establish" <=> (i = 1 /\ u = 0)
  /\ \A i \in 1..Len(q) : q[i].op = "destroy" => d = 1

LEMMA QueueLifeAppend ==
  ASSUME NEW q \in Seq(Function), NEW u, NEW d, QueueLife(q, u, d), u = 0 => q # <<>>,
         NEW fn \in Function, fn.op # "establish", fn.op = "destroy" => d = 1
  PROVE  QueueLife(Append(q, fn), u, d)
<1>0. PICK r : r = Append(q, fn)
  BY Zenon
<1>1. /\ r = Append(q, fn) /\ Len(r) = Len(q) + 1 /\ r[Len(q) + 1] = fn
      /\ \A i \in 1..Len(q) : r[i] = q[i]
  BY <1>0, AppendProperties, SMTT(30)
<1>2. Len(q) \in Nat /\ \A i \in 1..(Len(q) + 1) : i \in 1..Len(q) \/ i = Len(q) + 1
  BY LenProperties
<1>3. u = 0 => Len(q) + 1 # 1
  <2>1. q # <<>> => Len(q) \in Nat \ {0}
    BY EmptySeq, Zenon
  <2>2. \A n \in Nat \ {0} : n + 1 # 1
    OBVIOUS
  <2> QED
    BY <2>1, <2>2, Zenon
<1>4. \A i \in 1..Len(r) : r[i].op = "establish" <=> (i = 1 /\ u = 0)
  BY <1>1, <1>2, <1>3, Zenon DEF QueueLife
<1>5. \A i \in 1..Len(r) : r[i].op = "destroy" => d = 1
  BY <1>1, <1>2, Zenon DEF QueueLife
<1> QED
  BY <1>1, <1>4, <1>5, Zenon DEF QueueLife

LEMMA QueueLifeTail ==
  ASSUME NEW q \in Seq(Function), q # <<>>, NEW u, NEW d, QueueLife(q, u, d), NEW v, v # 0
  PROVE  /\ QueueLife(Tail(q), v, d)
         /\ Head(q).op = "establish" <=> u = 0
         /\ Head(q).op = "destroy" => d = 1
<1>1. PICK r \in Seq(Function) :
        r = Tail(q) /\ Len(r) = Len(q) - 1 /\ \A i \in 1..Len(r) : r[i] = q[i + 1]
  BY HeadTailProperties, Zenon
<1>2. Len(q) \in Nat \ {0} /\ Head(q) = q[1] /\ 1 \in 1..Len(q)
  BY EmptySeq
<1>3. \A i \in 1..Len(r) : i + 1 \in 1..Len(q) /\ i + 1 # 1
  BY <1>1, <1>2, SMTT(30)
<1>4. \A i \in 1..Len(r) : r[i].op # "establish" /\ (r[i].op = "destroy" => d = 1)
  BY <1>1, <1>3, Zenon DEF QueueLife
<1> QED
  BY <1>1, <1>2, <1>4, ZenonT(30) DEF QueueLife

(* A step that neither opens nor closes the connection, ... *)
QueueKept ==
  \/ queue' = queue
  \/ \E fn \in Function : fn.op \notin {"establish", "destroy"} /\ queue' = Append(queue, fn)
  \/ queue # <<>> /\ Head(queue).op # "establish" /\ queue' = Tail(queue)

LEMMA QueueLifeKept ==
  ASSUME LifeCycle, queue \in Seq(Function), QueueKept
  PROVE  QueueLife(queue', ups, downs) /\ (ups = 0 => queue' # <<>>)
<1>1. QueueLife(queue, ups, downs) /\ (ups = 0 => queue # <<>>)
  BY Zenon DEF LifeCycle, QueueLife
<1>2. CASE queue' = queue
  BY <1>1, <1>2, Zenon
<1>3. ASSUME NEW fn \in Function, fn.op \notin {"establish", "destroy"}, queue' = Append(queue, fn)
      PROVE  QueueLife(queue', ups, downs) /\ (ups = 0 => queue' # <<>>)
  BY <1>1, <1>3, QueueLifeAppend, AppendProperties, SMTT(30)
<1>4. CASE queue # <<>> /\ Head(queue).op # "establish" /\ queue' = Tail(queue)
  <2>0. 1 # 0
    OBVIOUS
  <2>1. ups # 0
    BY <1>1, <1>4, <2>0, QueueLifeTail, Zenon
  <2>2. QueueLife(Tail(queue), ups, downs)
    BY <1>1, <1>4, <2>1, QueueLifeTail, SMTT(30)
  <2> QED
    BY <1>4, <2>1, <2>2, Zenon
<1> QED
  BY <1>2, <1>3, <1>4, Zenon DEF QueueKept

LEMMA LifeStill ==
  ASSUME LifeCycle, queue \in Seq(Function), QueueKept, UNCHANGED <<ups, downs, closes, closing>>,
         status' = status \/ (status \in Up /\ status' \in Up),
         ups = 0 => UNCHANGED <<lpc, cb, list>>,
         lpc' = "read" /\ "in" \in revents' => cb' = "none" /\ status' \in Up
  PROVE  LifeCycle'
<1>1. QueueLife(queue', ups', downs') /\ (ups' = 0 => queue' # <<>>)
  BY QueueLifeKept, Zenon
<1>2. /\ status' \in {"Connecting", "Connected", "Disconnecting", "Disconnected"}
      /\ status' = "Connecting" <=> ups' = 0
      /\ status' = "Disconnected" <=> downs' = 1
  BY Zenon DEF LifeCycle, Up
<1>3. ups' \in {0, 1} /\ downs' \in {0, 1} /\ closes' = downs' /\ closing' \in Nat /\ (closing' > 0 => downs' = 1)
  BY Zenon DEF LifeCycle
<1>4. ups' = 0 => lpc' = "funcs" /\ cb' = "none" /\ list' = <<>>
  BY Zenon DEF LifeCycle
<1> QED
  BY <1>1, <1>2, <1>3, <1>4, SMTT(30) DEF LifeCycle, QueueLife

(* ... and one that closes it. *)
LEMMA LifeClose ==
  ASSUME LifeCycle, queue \in Seq(Function), QueueKept, status \in Up, HandleClose,
         lpc' = "read" => "in" \notin revents'
  PROVE  LifeCycle'
<1>1. status' = "Disconnected" /\ downs' = downs + 1 /\ closes' = closes + 1 /\ closing' = closing + 1 /\ ups' = ups
  BY Zenon DEF HandleClose
<1>2. ups = 1 /\ downs = 0 /\ closes = 0 /\ closing \in Nat
  BY Zenon DEF LifeCycle, Up
<1>3. downs' = 1 /\ closes' = 1 /\ closing' \in Nat /\ ups' = 1
  BY <1>1, <1>2
<1>4. QueueLife(queue', ups, downs)
  BY QueueLifeKept, Zenon
<1>5. /\ \A i \in 1..Len(queue') : queue'[i].op = "establish" <=> (i = 1 /\ ups' = 0)
      /\ \A i \in 1..Len(queue') : queue'[i].op = "destroy" => downs' = 1
  BY <1>2, <1>3, <1>4, SMTT(30) DEF QueueLife
<1>6. ups' # 0 /\ ups' \in {0, 1} /\ downs' \in {0, 1} /\ closes' = downs'
  BY <1>3
<1> QED
  BY <1>1, <1>3, <1>5, <1>6, SMTT(30) DEF LifeCycle
-----------------------------------------------------------------------------
(* The scopes. *)
MsgScope ==
  /\ \A i \in 1..calls : kind[i] = "msg"
  /\ AllMsg(list)
  /\ events # {} => status \in Up
  /\ list # <<>> /\ status \in Up => "write" \in events
FileScope ==
  /\ peer = "open" /\ unread = 0 /\ received = 0 /\ ~soError
  /\ revents \subseteq {"out"}

LEMMA ScopeDef == ScopeKept <=> (IF scope = "messages" THEN MsgScope ELSE FileScope)
  BY Zenon DEF ScopeKept, MsgScope, FileScope, AllMsg

(* Steps of a connection that carries messages: nothing is sent, ... *)
LEMMA MsgStill ==
  ASSUME MsgScope, list' = list, \A i \in 1..calls' : kind'[i] = "msg",
         \/ UNCHANGED <<status, events>>
         \/ status \in Up /\ status' \in Up /\ events' = events
         \/ status' = "Disconnected" /\ events' = {}
  PROVE  MsgScope'
  BY Zenon DEF MsgScope, AllMsg, Up

(* ... or something is, by any of the ways to send. *)
LEMMA MsgSends ==
  ASSUME MsgScope, status' = status, \A i \in 1..calls' : kind'[i] = "msg", MsgEffect
  PROVE  MsgScope'
  BY Zenon DEF MsgScope, MsgEffect, AllMsg, Up

LEMMA MsgStep ==
  ASSUME ConnInv, LifeCycle, MsgScope, [Next]_vars, \A i \in 1..calls' : kind'[i] = "msg"
  PROVE  MsgScope'
<1>0. Ordered /\ WritingHasWork /\ PlainTypes /\ AllMsg(list) /\ queue \in Seq(Function)
  BY OrderedTypes, Zenon DEF ConnInv, Ordered, MsgScope
<1>1. CASE UNCHANGED <<status, events, list>>
  BY <1>1, MsgStill, Zenon
<1>2. CASE Quiet
  <2>0. list' = list
    BY <1>0, <1>2, QuietFrame, SMTT(30) DEF out
  <2>1. ASSUME HandleClose \/ UNCHANGED <<status, events>>
        PROVE  MsgScope'
    BY <2>0, <2>1, MsgStill, SMTT(30) DEF HandleClose
  <2>2. ASSUME ShutdownInLoop \/ ForceCloseInLoop
        PROVE  MsgScope'
    <3>1. CASE ShutdownInLoop
      BY <2>0, <3>1, MsgStill, SMTT(30) DEF ShutdownInLoop, Up
    <3>2. CASE ForceCloseInLoop
      BY <2>1, <3>2, ZenonT(30) DEF ForceCloseInLoop, conn
    <3> QED
      BY <2>2, <3>1, <3>2, SMTT(30)
  <2>3. CASE RunEstablish
    <3>1. queue # <<>> /\ Head(queue).op = "establish" /\ status' = "Connected" /\ events' = {"read"}
      BY <2>3, Zenon DEF RunEstablish, NextFn
    <3>2. QueueLife(queue, ups, downs) /\ 1 # 0
      BY Zenon DEF LifeCycle, QueueLife
    <3>3. ups = 0
      BY <1>0, <3>1, <3>2, QueueLifeTail, SMTT(30)
    <3>4. list' = <<>>
      BY <2>0, <3>3, ZenonT(30) DEF LifeCycle
    <3> QED
      BY <2>0, <3>1, <3>4, SMTT(30) DEF MsgScope, AllMsg, Up
  <2>4. CASE RunDestroyed
    BY <2>0, <2>4, MsgStill, SMTT(30) DEF RunDestroyed, conn
  <2>5. CASE LoopClose
    BY <2>2, <2>5, Zenon DEF LoopClose
  <2>6. CASE RunShutdown
    BY <2>2, <2>6, Zenon DEF RunShutdown
  <2>7. CASE RunForceClose
    BY <2>2, <2>7, Zenon DEF RunForceClose
  <2>8. CASE HandleEvent
    BY <2>1, <2>8, Zenon DEF HandleEvent, conn
  <2>9. CASE HandleRead
    BY <2>1, <2>9, Zenon DEF HandleRead, conn
  <2>10. ASSUME NEW t \in Thread, NEW op \in {"shutdown", "close"}, CloseCall(t, op)
         PROVE  MsgScope'
    BY <2>1, <2>10, Zenon DEF CloseCall, conn
  <2>11. CASE ServerCloses \/ OtherCallback \/ Poll \/ FuncsDone \/ PeerSends \/ PeerCloses
    BY <2>1, <2>11, Zenon DEF ServerCloses, OtherCallback, Poll, FuncsDone, PeerSends, PeerCloses, conn
  <2> QED
    BY <1>2, <2>3, <2>4, <2>5, <2>6, <2>7, <2>8, <2>9, <2>10, <2>11, SMTT(30) DEF Quiet
<1>3. CASE RunSend
  <2>1. MsgEffect
    BY <1>0, <1>3, MsgSendNow, Zenon
  <2> QED
    BY <1>3, <2>1, MsgSends, Zenon DEF RunSend
<1>4. ASSUME NEW k \in Kinds, LoopSend(k)
      PROVE  MsgScope'
  <2>1. status' = status
    BY <1>4, Zenon DEF LoopSend
  <2>2. CASE SendNow(calls')
    <3>1. MsgEffect
      BY <1>0, <1>4, <2>2, MsgSendNow, SMTT(30)
    <3> QED
      BY <2>1, <3>1, MsgSends, ZenonT(30)
  <2>3. CASE UNCHANGED <<out, events>>
    BY <1>1, <2>1, <2>3, ZenonT(30) DEF out
  <2> QED
    BY <1>4, <2>2, <2>3, ZenonT(30) DEF LoopSend
<1>5. CASE HandleWrite
  <2>1. /\ AllMsg(list')
        /\ events' = events \/ (events' = events \ {"write"} /\ list' = <<>>)
        /\ list' # <<>> => list # <<>>
        /\ events' # {} => events # {}
    BY <1>0, <1>5, MsgWrite, ZenonT(30)
  <2>2. status' = status
    BY <1>5, Zenon DEF HandleWrite
  <2> QED
    BY <2>1, <2>2, Zenon DEF MsgScope, AllMsg
<1>6. CASE CallbackReturns
  BY <1>1, <1>6, SMTT(30) DEF CallbackReturns, conn, out
<1>7. ASSUME NEW t \in Thread, (\E k \in Kinds : Send(t, k)) \/ SendQueue(t)
      PROVE  MsgScope'
  BY <1>1, <1>7, SMTT(30) DEF Send, SendQueue, conn, out
<1>8. CASE UNCHANGED vars
  BY <1>1, <1>8, SMTT(30) DEF vars, conn, out
<1> QED
  BY <1>2, <1>3, <1>4, <1>5, <1>6, <1>7, <1>8, SMTT(30) DEF Next, LoopStep, Quiet

(* Steps of a connection with a silent peer. *)
LEMMA FileStep ==
  ASSUME FileScope, [Next]_vars, peer' = "open", received' = 0
  PROVE  FileScope'
<1>1. CASE UNCHANGED <<unread, soError, revents>>
  BY <1>1, Zenon DEF FileScope
<1>2. CASE PeerSends
  <2>1. received' = 0 + 1
    BY <1>2, Zenon DEF PeerSends, FileScope
  <2> QED
    BY <2>1, SMTT(30)
<1>3. CASE PeerCloses
  BY <1>3, Zenon DEF PeerCloses
<1>4. CASE Poll
  <2>1. unread' = unread /\ soError' = soError
    BY <1>4, Zenon DEF Poll, net
  <2>2. ~Readable /\ ~Hup
    BY DEF FileScope, Readable, Hup
  <2>3. revents' \subseteq {"out"}
    BY <1>4, <2>2, Zenon DEF Poll, FileScope
  <2> QED
    BY <2>1, <2>3, Zenon DEF FileScope
<1>5. CASE HandleEvent
  BY <1>5, Zenon DEF HandleEvent, FileScope
<1>6. CASE HandleRead
  BY <1>6, SMTT(30) DEF HandleRead, FileScope
<1>7. CASE HandleWrite \/ FuncsDone \/ CallbackReturns \/ LoopClose \/ OtherCallback \/ ServerCloses
  BY <1>1, <1>7, ZenonT(30) DEF HandleWrite, FuncsDone, CallbackReturns, LoopClose, OtherCallback, ServerCloses, net
<1>8. CASE RunEstablish \/ RunSend \/ RunShutdown \/ RunForceClose \/ RunDestroyed
  BY <1>1, <1>8, SMTT(30) DEF RunEstablish, RunSend, RunShutdown, RunForceClose, RunDestroyed, NextFn, net
<1>9. ASSUME NEW k \in Kinds, LoopSend(k)
      PROVE  FileScope'
  BY <1>1, <1>9, Zenon DEF LoopSend, net
<1>10. ASSUME NEW t \in Thread,
              \/ \E k \in Kinds : Send(t, k)
              \/ SendQueue(t)
              \/ \E op \in {"shutdown", "close"} : CloseCall(t, op)
       PROVE  FileScope'
  BY <1>1, <1>10, Zenon DEF Send, SendQueue, CloseCall, net
<1>11. CASE UNCHANGED vars
  BY <1>1, <1>11, ZenonT(30) DEF vars, net
<1> QED
  BY <1>2, <1>3, <1>4, <1>5, <1>6, <1>7, <1>8, <1>9, <1>10, <1>11, SMTT(30) DEF Next, LoopStep
-----------------------------------------------------------------------------
(* Every step keeps the life cycle. *)
LEMMA LifeStep ==
  ASSUME ConnInv, LifeCycle, ScopeKept, [Next]_vars
  PROVE  LifeCycle'
<1>0. /\ queue \in Seq(Function) /\ calls \in Nat /\ 1..calls \subseteq Call
      /\ tcall \in [Thread -> (1..calls) \cup {None}]
  BY OrderedTypes, Zenon DEF ConnInv, Ordered, CallsKnown
<1>1. /\ ups = 0 => lpc = "funcs" /\ cb = "none" /\ queue # <<>> /\ status = "Connecting" /\ list = <<>>
      /\ cb # "none" => ~(lpc = "read" /\ "in" \in revents)
      /\ lpc = "read" /\ "in" \in revents => status \in Up
      /\ events # {} /\ revents \cap {"in", "hup"} # {} => status \in Up
  BY ScopeDef, Zenon DEF LifeCycle, MsgScope, FileScope
<1>2. QueueLife(queue, ups, downs) /\ 1 # 0
  BY Zenon DEF LifeCycle, QueueLife
<1>3. ASSUME NEW op, NextFn(op)
      PROVE  /\ queue # <<>> /\ Head(queue).op = op /\ queue' = Tail(queue) /\ lpc = "funcs" /\ lpc' = lpc
             /\ revents' = revents /\ cb = "none"
             /\ op = "establish" <=> ups = 0
             /\ op = "destroy" => downs = 1
             /\ op # "establish" => QueueKept
  <2>1. queue # <<>> /\ Head(queue).op = op /\ queue' = Tail(queue) /\ lpc = "funcs" /\ UNCHANGED <<lpc, revents>> /\ cb = "none"
    BY <1>3, Zenon DEF NextFn
  <2>2. (Head(queue).op = "establish" <=> ups = 0) /\ (Head(queue).op = "destroy" => downs = 1)
    <3>1. PICK v : v # 0
      BY <1>2, Zenon
    <3> QED
      BY <1>0, <1>2, <2>1, <3>1, QueueLifeTail, ZenonT(30)
  <2> QED
    BY <2>1, <2>2, Zenon DEF QueueKept
<1>4. ASSUME UNCHANGED <<status, ups, downs, closes, closing, lpc, cb, revents, list>>, QueueKept
      PROVE  LifeCycle'
  BY <1>0, <1>1, <1>4, LifeStill, SMTT(30) DEF LifeCycle
<1>5. ASSUME NEW t \in Thread, NEW k \in Kinds, Send(t, k)
      PROVE  LifeCycle'
  BY <1>4, <1>5, ZenonT(30) DEF Send, conn, out, cbVars, QueueKept
<1>6. ASSUME NEW t \in Thread, SendQueue(t)
      PROVE  LifeCycle'
  <2>1. Fn("send", tcall[t]) \in Function /\ Fn("send", tcall[t]).op = "send"
    BY <1>0, <1>6, Zenon DEF SendQueue, Fn, Function
  <2>2. QueueKept
    BY <1>6, <2>1, ZenonT(30) DEF SendQueue, QueueKept
  <2> QED
    BY <1>4, <1>6, <2>2, SMTT(30) DEF SendQueue, conn, out, cbVars
<1>7. ASSUME NEW t \in Thread, NEW op \in {"shutdown", "close"}, CloseCall(t, op)
      PROVE  LifeCycle'
  <2>1. Fn(op, None) \in Function /\ Fn(op, None).op = op
    BY FnTypes, Zenon
  <2>2. QueueKept
    BY <1>7, <2>1, SMTT(30) DEF CloseCall, QueueKept
  <2> QED
    BY <1>4, <1>7, <2>2, SMTT(30) DEF CloseCall, conn, out, cbVars
<1>8. CASE ServerCloses
  <2>1. /\ closing > 0 /\ closing' = closing - 1 /\ queue' = Append(queue, Fn("destroy", None))
        /\ UNCHANGED <<status, lpc, revents, cb, list, ups, downs, closes>>
    BY <1>8, Zenon DEF ServerCloses, conn, out
  <2>2. closing \in Nat /\ downs = 1
    BY <2>1, Zenon DEF LifeCycle
  <2>3. closing' \in Nat
    BY <2>1, <2>2, SMTT(30)
  <2>4. PICK fn \in Function : fn = Fn("destroy", None) /\ fn.op = "destroy"
    BY FnTypes, ZenonT(30)
  <2>5. QueueLife(Append(queue, fn), ups, downs) /\ Append(queue, fn) # <<>>
    BY <1>0, <1>1, <1>2, <2>2, <2>4, QueueLifeAppend, AppendProperties, SMTT(30)
  <2>6. QueueLife(queue', ups', downs') /\ queue' # <<>> /\ downs' = 1
    BY <2>1, <2>2, <2>4, <2>5, SMTT(30)
  <2> QED
    BY <2>1, <2>3, <2>6, SMTT(30) DEF LifeCycle, QueueLife
<1>9. ASSUME NEW k \in Kinds, LoopSend(k)
      PROVE  LifeCycle'
  <2>1. /\ UNCHANGED <<status, lpc, revents, cb, ups, downs, closes, closing>> /\ cb # "none"
        /\ queue' = queue \/ queue' = Append(queue, Fn("send", calls'))
    BY <1>9, Zenon DEF LoopSend, cbVars
  <2>2. calls' \in Call
    BY <1>9, NewCallEffect, ZenonT(30) DEF LoopSend, ConnInv
  <2>3. Fn("send", calls') \in Function /\ Fn("send", calls').op = "send"
    BY <2>2, Zenon DEF Fn, Function
  <2>4. QueueKept
    BY <2>1, <2>3, ZenonT(30) DEF QueueKept
  <2> QED
    BY <1>0, <1>1, <2>1, <2>4, LifeStill, SMTT(30)
<1>10. CASE LoopClose
  <2>1. cb # "none" /\ queue' = queue /\ UNCHANGED <<lpc, revents, cb, list>>
    BY <1>10, ZenonT(30) DEF LoopClose, out
  <2>2. CASE ShutdownInLoop
    <3>1. UNCHANGED <<ups, downs, closes, closing>> /\ (status' = status \/ (status \in Up /\ status' \in Up))
      BY <2>2, ZenonT(30) DEF ShutdownInLoop, cbVars, Up
    <3> QED
      BY <1>0, <1>1, <2>1, <3>1, LifeStill, SMTT(30) DEF QueueKept
  <2>3. CASE status \in Up /\ HandleClose
    BY <1>0, <1>1, <2>1, <2>3, LifeClose, SMTT(30) DEF QueueKept
  <2>4. CASE UNCHANGED <<conn, cbVars>>
    BY <1>4, <2>1, <2>4, SMTT(30) DEF QueueKept, conn, cbVars
  <2> QED
    BY <1>10, <2>2, <2>3, <2>4, SMTT(30) DEF LoopClose, ForceCloseInLoop, Up
<1>11. CASE OtherCallback \/ Poll \/ FuncsDone
  <2>1. /\ UNCHANGED <<status, ups, downs, closes, closing, list, queue>>
        /\ lpc' # "read"
        /\ lpc # "funcs" \/ queue = <<>>
    BY <1>11, Zenon DEF OtherCallback, Poll, FuncsDone, conn, out, cbVars
  <2> QED
    BY <1>0, <1>1, <2>1, LifeStill, SMTT(30) DEF QueueKept
<1>12. CASE HandleEvent
  <2>1. /\ lpc # "funcs" /\ cb = "none" /\ lpc' = (IF events = {} THEN "funcs" ELSE "read")
        /\ UNCHANGED <<queue, revents, list>>
    BY <1>12, Zenon DEF HandleEvent, out
  <2>2. CASE events # {} /\ "hup" \in revents /\ "in" \notin revents /\ HandleClose
    <3>1. status \in Up
      BY <1>1, <2>2, ZenonT(30)
    <3> QED
      BY <1>0, <2>1, <2>2, <3>1, LifeClose, SMTT(30) DEF QueueKept
  <2>3. CASE UNCHANGED <<conn, cbVars, cb>>
    <3>1. UNCHANGED <<status, ups, downs, closes, closing, cb>>
      BY <2>3, Zenon DEF conn, cbVars
    <3>2. lpc' = "read" /\ "in" \in revents' => status' \in Up /\ cb' = "none"
      BY <1>1, <2>1, <3>1, SMTT(30)
    <3> QED
      BY <1>0, <1>1, <2>1, <3>1, <3>2, LifeStill, SMTT(30) DEF QueueKept
  <2> QED
    BY <1>12, <2>2, <2>3, SMTT(30) DEF HandleEvent
<1>13. CASE HandleRead
  <2>1. lpc = "read" /\ lpc' = "write" /\ UNCHANGED <<queue, revents, list>>
    BY <1>13, Zenon DEF HandleRead, out
  <2>2. CASE "in" \in revents /\ HandleClose
    BY <1>0, <1>1, <2>1, <2>2, LifeClose, SMTT(30) DEF QueueKept
  <2>3. CASE UNCHANGED <<conn, cbVars>>
    <3>1. UNCHANGED <<status, ups, downs, closes, closing>>
      BY <2>3, ZenonT(30) DEF conn, cbVars
    <3> QED
      BY <1>0, <1>1, <2>1, <3>1, LifeStill, SMTT(30) DEF QueueKept
  <2> QED
    BY <1>13, <2>2, <2>3, SMTT(30) DEF HandleRead
<1>14. CASE HandleWrite
  <2>1. lpc = "write" /\ lpc' = "funcs" /\ UNCHANGED <<queue, status, ups, downs, closes, closing>>
    BY <1>14, ZenonT(30) DEF HandleWrite
  <2> QED
    BY <1>0, <1>1, <2>1, LifeStill, SMTT(30) DEF QueueKept
<1>15. CASE CallbackReturns
  <2>1. cb # "none" /\ UNCHANGED <<queue, status, ups, downs, closes, closing, lpc, revents, list>>
    BY <1>15, ZenonT(30) DEF CallbackReturns, conn, out, cbVars
  <2> QED
    BY <1>0, <1>1, <2>1, LifeStill, SMTT(30) DEF QueueKept
<1>16. CASE RunEstablish
  <2>1. /\ NextFn("establish") /\ status' = "Connected" /\ ups' = ups + 1
        /\ UNCHANGED <<list, downs, closes, closing>>
    BY <1>16, Zenon DEF RunEstablish, out
  <2>2. ups = 0 /\ queue # <<>> /\ queue' = Tail(queue) /\ lpc' = "funcs"
    BY <1>3, <2>1, SMTT(30)
  <2>3. ups' = 1 /\ ups' # 0
    BY <2>1, <2>2, SMTT(30)
  <2>4. QueueLife(Tail(queue), 1, downs)
    BY <1>0, <1>2, <2>2, QueueLifeTail, SMTT(30)
  <2>5. QueueLife(queue', ups', downs')
    BY <2>1, <2>2, <2>3, <2>4, SMTT(30)
  <2>6. downs # 1
    BY <2>2, ZenonT(30) DEF LifeCycle
  <2> QED
    BY <2>1, <2>2, <2>3, <2>5, <2>6, SMTT(30) DEF LifeCycle, QueueLife
<1>17. CASE RunSend
  <2>1. NextFn("send") /\ UNCHANGED <<status, ups, downs, closes, closing>>
    BY <1>17, Zenon DEF RunSend, cbVars
  <2>2. QueueKept /\ lpc' = "funcs" /\ ups # 0
    BY <1>3, <2>1, SMTT(30)
  <2> QED
    BY <1>0, <2>1, <2>2, LifeStill, SMTT(30)
<1>18. CASE RunShutdown
  <2>1. NextFn("shutdown") /\ ShutdownInLoop
    BY <1>18, Zenon DEF RunShutdown
  <2>2. QueueKept /\ lpc' = "funcs" /\ ups # 0
    BY <1>3, <2>1, SMTT(30)
  <2>3. UNCHANGED <<ups, downs, closes, closing>> /\ (status' = status \/ (status \in Up /\ status' \in Up))
    BY <2>1, Zenon DEF ShutdownInLoop, cbVars, Up
  <2> QED
    BY <1>0, <2>2, <2>3, LifeStill, SMTT(30)
<1>19. CASE RunForceClose
  <2>1. NextFn("close") /\ ForceCloseInLoop
    BY <1>19, Zenon DEF RunForceClose
  <2>2. QueueKept /\ lpc' = "funcs" /\ ups # 0
    BY <1>3, <2>1, SMTT(30)
  <2>3. CASE status \in Up /\ HandleClose
    BY <1>0, <2>2, <2>3, LifeClose, SMTT(30)
  <2>4. CASE UNCHANGED <<conn, cbVars>>
    BY <1>0, <2>2, <2>4, LifeStill, SMTT(30) DEF conn, cbVars
  <2> QED
    BY <2>1, <2>3, <2>4, SMTT(30) DEF ForceCloseInLoop, Up
<1>20. CASE RunDestroyed
  <2>1. NextFn("destroy")
    BY <1>20, Zenon DEF RunDestroyed
  <2>2. QueueKept /\ lpc' = "funcs" /\ ups # 0 /\ downs = 1
    BY <1>3, <2>1, SMTT(30)
  <2>3. status # "Connected"
    BY <2>2, SMTT(30) DEF LifeCycle
  <2>4. UNCHANGED <<status, ups, downs, closes, closing>>
    BY <1>20, <2>3, SMTT(30) DEF RunDestroyed, conn, cbVars
  <2> QED
    BY <1>0, <2>2, <2>4, LifeStill, SMTT(30)
<1>21. CASE PeerSends \/ PeerCloses
  BY <1>4, <1>21, SMTT(30) DEF PeerSends, PeerCloses, conn, out, cbVars, QueueKept
<1>22. CASE UNCHANGED vars
  BY <1>4, <1>22, Zenon DEF vars, conn, out, cbVars, QueueKept
<1> QED
  BY <1>5, <1>6, <1>7, <1>8, <1>9, <1>10, <1>11, <1>12, <1>13, <1>14, <1>15, <1>16, <1>17, <1>18, <1>19, <1>20,
     <1>21, <1>22, SMTT(30) DEF Next, LoopStep

(* The invariant of a connection in one of the two scopes. *)
ScopeInv == ConnInv /\ LifeCycle /\ ScopeKept

LEMMA ScopeInit == MCInit => ScopeInv
<1> SUFFICES ASSUME MCInit
             PROVE  ScopeInv
  BY Zenon
<1>1. Init
  BY Zenon DEF MCInit
<1>2. ConnInv
  BY <1>1, ConnInit, Zenon
<1>3. queue = <<Fn("establish", None)>> /\ Fn("establish", None).op = "establish"
  BY <1>1, FnTypes, ZenonT(30) DEF Init
<1>4. Len(queue) = 1 /\ queue[1].op = "establish" /\ queue # <<>> /\ 1..1 = {1}
  BY <1>3, SMTT(30)
<1>5. LifeCycle
  BY <1>1, <1>4, SMTT(30) DEF LifeCycle, Init
<1>6. ScopeKept
  <2>1. 1..calls = {} /\ 1..Len(list) = {}
    BY <1>1, SMTT(30) DEF Init
  <2> QED
    BY <1>1, <2>1, ZenonT(30) DEF ScopeKept, Init
<1> QED
  BY <1>2, <1>5, <1>6, ZenonT(30) DEF ScopeInv

LEMMA ScopeStep == ScopeInv /\ [MCNext]_mcvars => ScopeInv'
<1> SUFFICES ASSUME ScopeInv, [MCNext]_mcvars
             PROVE  ScopeInv'
  BY Zenon
<1>0. ConnInv /\ LifeCycle /\ ScopeKept
  BY Zenon DEF ScopeInv
<1>1. [Next]_vars /\ scope' = scope
  BY Zenon DEF MCNext, mcvars
<1>2. ConnInv'
  BY <1>0, <1>1, ConnStep, ZenonT(30)
<1>3. LifeCycle'
  BY <1>0, <1>1, LifeStep, ZenonT(30)
<1>4. ASSUME scope = "messages"
      PROVE  ScopeKept'
  <2>1. MsgScope
    BY <1>0, <1>4, ScopeDef, ZenonT(30)
  <2>2. \A i \in 1..calls' : kind'[i] = "msg"
    <3>1. CASE MCNext
      BY <1>1, <1>4, <3>1, ZenonT(30) DEF MCNext, InScope
    <3>2. CASE UNCHANGED mcvars
      BY <2>1, <3>2, ZenonT(30) DEF MsgScope, mcvars, vars, callVars
    <3> QED
      BY <3>1, <3>2, Zenon
  <2>3. MsgScope'
    BY <1>0, <1>1, <2>1, <2>2, MsgStep, SMTT(30)
  <2>4. scope' = "messages"
    BY <1>1, <1>4, Zenon
  <2> QED
    BY <2>3, <2>4, Zenon DEF ScopeKept, MsgScope, AllMsg
<1>5. ASSUME scope # "messages"
      PROVE  ScopeKept'
  <2>1. FileScope
    BY <1>0, <1>5, ScopeDef, SMTT(30)
  <2>2. peer' = "open" /\ received' = 0
    <3>1. CASE MCNext
      BY <1>1, <1>5, <3>1, Zenon DEF MCNext, InScope
    <3>2. CASE UNCHANGED mcvars
      BY <2>1, <3>2, Zenon DEF FileScope, mcvars, vars, net
    <3> QED
      BY <3>1, <3>2, Zenon
  <2>3. FileScope'
    BY <1>1, <2>1, <2>2, FileStep, SMTT(30)
  <2>4. scope' # "messages"
    BY <1>1, <1>5, Zenon
  <2> QED
    BY <2>3, <2>4, Zenon DEF ScopeKept, FileScope
<1>6. ScopeKept'
  BY <1>4, <1>5, Zenon
<1> QED
  BY <1>2, <1>3, <1>6, ZenonT(30) DEF ScopeInv

(* Whatever closes a connection (the peer, a read error, forceClose, several
   of these in one iteration of the loop), it is announced down once and its
   server told once; and when connectDestroyed() removes the channel of one
   that carried messages, no events are left in it (channel.cc 34). *)
THEOREM ClosedOnceAndClean == MCSpec => []ClosedCleanly
<1>1. ScopeInv => ClosedCleanly
  <2> SUFFICES ASSUME ScopeInv
               PROVE  ClosedCleanly
    BY Zenon
  <2>0. ConnInv /\ LifeCycle /\ ScopeKept
    BY Zenon DEF ScopeInv
  <2>1. ups \in {0, 1} /\ downs \in {0, 1} /\ closes = downs /\ (status = "Disconnected" <=> downs = 1)
    BY <2>0, Zenon DEF LifeCycle
  <2>2. downs = 1 => ups = 1
    BY <2>0, <2>1, Zenon DEF LifeCycle
  <2>3. ClosedOnce
    BY <2>1, <2>2, SMTT(30) DEF ClosedOnce
  <2>4. ASSUME scope = "messages", queue # <<>>, Head(queue).op = "destroy"
        PROVE  events = {}
    <3>1. queue \in Seq(Function) /\ QueueLife(queue, ups, downs) /\ 1 # 0
      BY <2>0, OrderedTypes, ZenonT(30) DEF ConnInv, Ordered, LifeCycle, QueueLife
    <3>2. downs = 1
      BY <2>4, <3>1, QueueLifeTail, SMTT(30)
    <3>3. status \notin Up
      BY <2>1, <3>2, Zenon DEF Up
    <3> QED
      BY <2>0, <2>4, <3>3, ZenonT(30) DEF ScopeKept
  <2> QED
    BY <2>3, <2>4, Zenon DEF ClosedCleanly, RemovedWithoutEvents
<1> QED
  BY <1>1, ScopeInit, ScopeStep, PTL DEF MCSpec

(* The writing side of a connection that carries messages is closed only when
   everything buffered has been written, or by handleWrite after the
   write-complete callback (322-335, 211, 237). *)
THEOREM ClosedAfterFlush == MCSpec => MessagesFlushed
<1>1. ASSUME ScopeInv, [MCNext]_mcvars, scope = "messages", wrClosed', ~wrClosed
      PROVE  list = <<>> \/ cb = "complete"
  <2>0. MsgScope
    BY <1>1, ScopeDef, Zenon DEF ScopeInv
  <2>1. [Next]_vars
    BY <1>1, Zenon DEF MCNext, mcvars
  <2>2. CASE ShutdownInLoop
    <3>1. status = "Connected" /\ "write" \notin events
      BY <1>1, <2>2, Zenon DEF ShutdownInLoop
    <3> QED
      BY <2>0, <3>1, Zenon DEF MsgScope, Up
  <2>3. CASE CallbackReturns
    BY <1>1, <2>3, Zenon DEF CallbackReturns
  <2>4. CASE LoopClose
    BY <1>1, <2>2, <2>4, ZenonT(30) DEF LoopClose, ForceCloseInLoop
  <2>5. CASE RunShutdown
    BY <2>2, <2>5, Zenon DEF RunShutdown
  <2>6. CASE UNCHANGED wrClosed
    BY <1>1, <2>6, Zenon
  <2>7. CASE HandleWrite \/ FuncsDone \/ OtherCallback \/ ServerCloses \/ Poll \/ HandleEvent \/ HandleRead
    BY <2>6, <2>7, ZenonT(30) DEF HandleWrite, FuncsDone, OtherCallback, ServerCloses, Poll, HandleEvent, HandleRead
  <2>8. CASE RunEstablish \/ RunSend \/ RunForceClose \/ RunDestroyed \/ PeerSends \/ PeerCloses
    BY <2>6, <2>8, Zenon DEF RunEstablish, RunSend, RunForceClose, ForceCloseInLoop, RunDestroyed, PeerSends, PeerCloses
  <2>9. CASE \E k \in Kinds : LoopSend(k)
    BY <2>6, <2>9, Zenon DEF LoopSend
  <2>10. CASE \E t \in Thread :
                \/ \E k \in Kinds : Send(t, k)
                \/ SendQueue(t)
                \/ \E op \in {"shutdown", "close"} : CloseCall(t, op)
    BY <2>6, <2>10, Zenon DEF Send, SendQueue, CloseCall
  <2>11. CASE UNCHANGED vars
    BY <2>6, <2>11, Zenon DEF vars
  <2> QED
    BY <2>1, <2>3, <2>4, <2>5, <2>7, <2>8, <2>9, <2>10, <2>11, SMTT(30) DEF Next, LoopStep
<1>2. ScopeInv /\ [MCNext]_mcvars
        => [scope = "messages" /\ wrClosed' /\ ~wrClosed => list = <<>> \/ cb = "complete"]_mcvars
  BY <1>1, Zenon
<1> QED
  BY <1>2, ScopeInit, ScopeStep, PTL DEF MCSpec, MessagesFlushed
=============================================================================
