-------------------------------- MODULE Chat --------------------------------
(***************************************************************************)
(* The chat example (examples/chat): a length-prefixed codec over TCP, a   *)
(* server that gives each connection an id and forwards chat messages, and *)
(* the client that asks for its id, then for the list of the others, then  *)
(* chats with one of them.  The two directions of a connection are byte    *)
(* streams cut anywhere; a message of body length n is Prefix bytes that   *)
(* carry n and n bytes of body.                                            *)
(***************************************************************************)
EXTENDS Integers, Sequences, SequencesExt, FiniteSetsExt

CONSTANTS Clients,
          Prefix,      \* bytes of the length (8 in the code)
          MaxPolls,    \* bound: list requests of a client
          MaxDown      \* bound: clients that disconnect

VARIABLES gid, connMap,     \* server: next id; id -> connection
          conn,             \* per client: "none", "up" or "down"
          up, down,         \* per client: bytes under way in each direction
          sctx, cctx,       \* per client: the Context at either end
          sbuf, cbuf,       \* per client: the MessageBuffer at either end
          me,               \* per client: id_, -1 until the server told it
          tasks,            \* per client: the task queue
          polls,            \* per client: list requests sent
          sent,             \* per client: messages sent, up and down
          got,              \* per client: messages parsed, up and down
          raced             \* the unlocked erase met another access to the map

chatvars == <<gid, connMap, conn, up, down, sctx, cctx, sbuf, cbuf, me, tasks, polls,
              sent, got, raced>>

NoId == -1
Ids == 0 .. Cardinality(Clients)

Msg(code, a, b) == [code |-> code, a |-> a, b |-> b, list |-> {}]
AllList(ids) == [Msg("ResponseAllList", 0, 0) EXCEPT !.list = ids]
BodyLen(m) == IF m.code \in {"RequestChat", "ResponseChat"} THEN 2 ELSE 1

(* The bytes of a message: Context::Send pushes the size in front of the body. *)
Send(m) == [i \in 1 .. Prefix |-> [part |-> "len", n |-> BodyLen(m), i |-> i, m |-> m]]
           \o [i \in 1 .. BodyLen(m) |-> [part |-> "body", n |-> 0, i |-> i, m |-> m]]

NewContext(id) == [id |-> id, state |-> "GetLength", length |-> 0, text |-> <<>>]

reset(ctx) == [ctx EXCEPT !.state = "GetLength", !.text = <<>>]

(* Mutant: the whole frame is expected again after a part of it was taken. *)
expectedLengthWhole(ctx) == ctx.length

expectedLength(ctx) == ctx.length - Len(ctx.text)

(* The cases of processCodec's switch, on x = [ctx, buf]. *)
GetLength(x) == [ctx |-> [x.ctx EXCEPT !.length = x.buf[1].n, !.state = "GetBody"],
                 buf |-> SubSeq(x.buf, Prefix + 1, Len(x.buf))]

GetBody(x) ==
    LET n == expectedLength(x.ctx)
    IN  IF Len(x.buf) < n
        THEN [ctx |-> [x.ctx EXCEPT !.text = @ \o x.buf], buf |-> <<>>]
        ELSE [ctx |-> [x.ctx EXCEPT !.text = @ \o SubSeq(x.buf, 1, n), !.state = "ParseOk"],
              buf |-> SubSeq(x.buf, n + 1, Len(x.buf))]

processCodec(x) ==
    LET y == IF x.ctx.state = "GetLength" /\ Len(x.buf) >= Prefix THEN GetLength(x) ELSE x
    IN  IF y.ctx.state = "GetBody" THEN GetBody(y) ELSE y

(* What a text parses to: the message it is the body of, or an error. *)
FromJSON(text) ==
    IF text # <<>> /\ text = SubSeq(Send(text[1].m), Prefix + 1, Prefix + BodyLen(text[1].m))
    THEN text[1].m ELSE Msg("Error", 0, 0)

-----------------------------------------------------------------------------
(* Server, on a record s = [map, out, race] for one callback of client c:
   out is what it sends, a sequence of <<client, message>>. *)

Entry(s, id) == IF id \in DOMAIN s.map THEN s.map[id] ELSE "expired"

getConnById(s, id) ==         \* connMap_.value[id] makes the entry
    [s EXCEPT !.map = [k \in DOMAIN @ \cup {id} |-> IF k = id THEN Entry(s, id) ELSE @[k]]]

Erase(m, id) == [k \in DOMAIN m \ {id} |-> m[k]]

onRequest(s, c, id, m) ==
    LET Reply(to, r) == Append(s.out, <<to, r>>)
        looked == getConnById(s, m.b)
        receiver == Entry(s, m.b)
    IN  CASE m.code = "RequestInit" -> [s EXCEPT !.out = Reply(c, Msg("ResponseInit", id, 0))]
          [] m.code = "RequestAllList" ->
                [s EXCEPT !.out = Reply(c, AllList(DOMAIN s.map \ {id}))]
          [] m.code = "RequestChat" ->
                IF receiver # "expired"
                THEN [looked EXCEPT !.out = Reply(receiver, Msg("ResponseChat", m.a, m.b))]
                ELSE [looked EXCEPT !.map = Erase(looked.map, m.b), !.unlocked = TRUE,
                                    !.out = Reply(c, Msg("BadResponse", 0, 0))]
          [] OTHER -> s

(* onMessage: parse and answer until the buffer is used up. *)
RECURSIVE onMessage(_, _)
onMessage(s, c) ==
    LET y == processCodec(s.x)
        m == FromJSON(y.ctx.text)
        t == [onRequest(s, c, y.ctx.id, m) EXCEPT !.x = [y EXCEPT !.ctx = reset(@)],
                                                  !.got = Append(s.got, m)]
    IN  IF y.ctx.state # "ParseOk" THEN [s EXCEPT !.x = y]
        ELSE IF t.x.buf # <<>> THEN onMessage(t, c) ELSE t

Deliver(w, c, out) ==
    w \o FlattenSeq([i \in 1 .. Len(out) |-> IF out[i][1] = c THEN Send(out[i][2]) ELSE <<>>])

Sent(c, out) == LET o == SelectSeq(out, LAMBDA x : x[1] = c) IN [i \in 1 .. Len(o) |-> o[i][2]]

-----------------------------------------------------------------------------
ClientSend(c, ms) ==
    /\ up' = [up EXCEPT ![c] = @ \o FlattenSeq([i \in 1 .. Len(ms) |-> Send(ms[i])])]
    /\ sent' = [sent EXCEPT ![c].up = @ \o ms]

(* onConnection at both ends. *)
Connect(c) ==
    /\ conn[c] = "none"
    /\ conn' = [conn EXCEPT ![c] = "up"]
    /\ gid' = gid + 1
    /\ connMap' = [k \in DOMAIN connMap \cup {gid} |-> IF k = gid THEN c ELSE connMap[k]]
    /\ sctx' = [sctx EXCEPT ![c] = NewContext(gid)]
    /\ cctx' = [cctx EXCEPT ![c] = NewContext(NoId)]
    /\ ClientSend(c, <<Msg("RequestInit", 0, 0)>>)
    /\ UNCHANGED <<down, sbuf, cbuf, me, tasks, polls, got, raced>>

(* n bytes reach the server; an erase outside the mutex while another
   connection is up may meet that connection's loop in the map. *)
ServerRead(c, n) ==
    LET s == onMessage([map |-> connMap, out |-> <<>>, unlocked |-> FALSE, got |-> got[c].up,
                        x |-> [ctx |-> sctx[c], buf |-> sbuf[c] \o SubSeq(up[c], 1, n)]], c)
    IN  /\ conn[c] = "up"
        /\ connMap' = s.map
        /\ sctx' = [sctx EXCEPT ![c] = s.x.ctx]
        /\ sbuf' = [sbuf EXCEPT ![c] = s.x.buf]
        /\ got' = [got EXCEPT ![c].up = s.got]
        /\ up' = [up EXCEPT ![c] = SubSeq(@, n + 1, Len(@))]
        /\ down' = [d \in Clients |-> IF conn[d] = "up" THEN Deliver(down[d], d, s.out) ELSE down[d]]
        /\ sent' = [d \in Clients |-> [sent[d] EXCEPT !.down =
                                          IF conn[d] = "up" THEN @ \o Sent(d, s.out) ELSE @]]
        /\ raced' \in {raced} \cup
              (IF s.unlocked /\ \E d \in Clients \ {c} : conn[d] = "up" THEN {TRUE} ELSE {})
        /\ UNCHANGED <<gid, conn, cctx, cbuf, me, tasks, polls>>

(* The client's onMessage: one frame per callback. *)
onResponse(c, m) ==
    CASE m.code = "ResponseInit" ->
            /\ me' = [me EXCEPT ![c] = m.a]
            /\ ClientSend(c, <<Msg("RequestAllList", 0, 0)>>)
            /\ polls' = [polls EXCEPT ![c] = @ + 1]
            /\ UNCHANGED tasks
      [] m.code = "ResponseAllList" ->
            /\ tasks' = [tasks EXCEPT ![c] = Append(@, m.list)]
            /\ UNCHANGED <<me, up, sent, polls>>
      [] OTHER -> UNCHANGED <<me, tasks, up, sent, polls>>

ClientRead(c, n) ==
    LET y == processCodec([ctx |-> cctx[c], buf |-> cbuf[c] \o SubSeq(down[c], 1, n)])
        m == FromJSON(y.ctx.text)
    IN  /\ conn[c] = "up"
        /\ down' = [down EXCEPT ![c] = SubSeq(@, n + 1, Len(@))]
        /\ cbuf' = [cbuf EXCEPT ![c] = y.buf]
        /\ IF y.ctx.state = "ParseOk"
           THEN /\ cctx' = [cctx EXCEPT ![c] = reset(y.ctx)]
                /\ got' = [got EXCEPT ![c].down = Append(@, m)]
                /\ onResponse(c, m)
           ELSE /\ cctx' = [cctx EXCEPT ![c] = y.ctx]
                /\ UNCHANGED <<got, me, tasks, up, sent, polls>>
        /\ UNCHANGED <<gid, connMap, conn, sctx, sbuf, raced>>

(* The task thread: ask again when nobody was there, else chat with somebody
   on the list and ask for the list again (chatByIdAsync). *)
RunTask(c) ==
    /\ tasks[c] # <<>> /\ polls[c] < MaxPolls
    /\ tasks' = [tasks EXCEPT ![c] = Tail(@)]
    /\ polls' = [polls EXCEPT ![c] = @ + 1]
    /\ IF Head(tasks[c]) = {} THEN ClientSend(c, <<Msg("RequestAllList", 0, 0)>>)
       ELSE \E x \in Head(tasks[c]) :
               ClientSend(c, <<Msg("RequestChat", me[c], x), Msg("RequestAllList", 0, 0)>>)
    /\ UNCHANGED <<gid, connMap, conn, down, sctx, cctx, sbuf, cbuf, me, got, raced>>

Disconnect(c) ==
    /\ conn[c] = "up"
    /\ Cardinality({d \in Clients : conn[d] = "down"}) < MaxDown
    /\ conn' = [conn EXCEPT ![c] = "down"]
    /\ connMap' = Erase(connMap, sctx[c].id)
    /\ tasks' = [tasks EXCEPT ![c] = <<>>]
    /\ UNCHANGED <<gid, up, down, sctx, cctx, sbuf, cbuf, me, polls, sent, got, raced>>

Empty == [c \in Clients |-> <<>>]

ChatInit ==
    /\ gid = 0 /\ connMap = <<>>
    /\ conn = [c \in Clients |-> "none"]
    /\ up = Empty /\ down = Empty /\ sbuf = Empty /\ cbuf = Empty /\ tasks = Empty
    /\ sctx = [c \in Clients |-> NewContext(NoId)] /\ cctx = sctx
    /\ me = [c \in Clients |-> NoId]
    /\ polls = [c \in Clients |-> 0]
    /\ sent = [c \in Clients |-> [up |-> <<>>, down |-> <<>>]] /\ got = sent
    /\ raced = FALSE

ChatNext ==
    \E c \in Clients :
        \/ Connect(c) \/ RunTask(c) \/ Disconnect(c)
        \/ \E n \in 1 .. Len(up[c]) : ServerRead(c, n)
        \/ \E n \in 1 .. Len(down[c]) : ClientRead(c, n)

-----------------------------------------------------------------------------
(* However the streams are cut, each end parses the messages the other sent,
   in order: the server all of them as soon as their bytes are there, the
   client one per callback (processCodec, Context::reset, onMessage). *)
FramesIntact ==
    \A c \in Clients :
        /\ IsPrefix(got[c].up, sent[c].up)
        /\ IsPrefix(got[c].down, sent[c].down)
        /\ conn[c] = "up" /\ up[c] = <<>> => sbuf[c] = <<>> /\ got[c].up = sent[c].up

(* As long as the unlocked erase has met no other access, the server's map
   holds every live connection, and no other, under the id it gave it, and a
   chat message is delivered to the connection whose id it names, from one that exists. *)
ChatReachesReceiver ==
    ~raced => \A c \in Clients :
        /\ conn[c] = "down" => sctx[c].id \notin DOMAIN connMap
        /\ conn[c] = "up" => /\ sctx[c].id \in DOMAIN connMap /\ connMap[sctx[c].id] = c
                             /\ me[c] \in {NoId, sctx[c].id}
        /\ \A m \in ToSet(got[c].down) : m.code = "ResponseChat" =>
              m.b = sctx[c].id /\ \E d \in Clients : me[d] = m.a
=============================================================================
