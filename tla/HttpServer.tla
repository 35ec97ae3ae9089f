----------------------------- MODULE HttpServer -----------------------------
(***************************************************************************)
(* The HTTP example (src/examples/http): the incremental request parser, the *)
(* file server behind it and the responses it writes, on one connection.   *)
(*                                                                         *)
(* Text is a sequence of tokens.  A token is a word the parser never looks *)
(* into, or one of the characters it searches for: space, ?, :, CR, LF.    *)
(* Segments end between any two tokens, between CR and LF too.             *)
(***************************************************************************)
EXTENDS Integers, SequencesExt

CONSTANTS Scripts,   \* what a client may send: sequences of requests
          Files,     \* file name -> size
          Pipelined  \* the client sends a request before the last is answered

VARIABLES script,  \* the client's requests
          sent,    \* how many it has sent
          net,     \* tokens on their way
          buf,     \* tokens in the connection's MessageBuffer
          ctx,     \* http::Context: state, request
          got,     \* requests handed to onRequest
          out,     \* responses, in order
          down     \* the server has called shutdown

hvars == <<script, sent, net, buf, ctx, got, out, down>>

CRLF == <<"CR", "LF">>

-----------------------------------------------------------------------------
(* What the client writes.  A request has "bad" set when the server is to  *)
(* refuse it: its request line or a header is then not one.                *)

Line(r) ==
  r.method \o <<" ">> \o r.path \o (IF r.query = <<>> THEN <<>> ELSE <<"?">> \o r.query)
    \o <<" ">> \o r.version

(* The values are padded with spaces, which are not part of them. *)
Encode(r) ==
  Line(r) \o CRLF
    \o FlattenSeq([i \in DOMAIN r.headers |-> r.headers[i][1] \o <<":", " ">> \o r.headers[i][2] \o <<" ">> \o CRLF])
    \o (IF r.bad = "header" THEN <<"k">> \o CRLF ELSE <<>>) \o CRLF

-----------------------------------------------------------------------------
(* The parser *)

(* std::find and StringView::find: the first position of c, or 0 *)
Find(s, c) == IF Contains(s, c) THEN CHOOSE i \in DOMAIN s : s[i] = c /\ \A j \in 1..(i - 1) : s[j] # c ELSE 0

Before(s, i) == SubSeq(s, 1, i - 1)

After(s, i) == SubSeq(s, i + 1, Len(s))

(* The position of the first CR that LF follows, or 0 *)
findCRLF(s) ==
  LET at == {i \in 1..(Len(s) - 1) : SubSeq(s, i, i + 1) = CRLF} IN
  IF at = {} THEN 0 ELSE CHOOSE i \in at : \A j \in at : i <= j

Blank == [method |-> <<"invalid">>, path |-> <<>>, query |-> <<>>, version |-> <<"unknown">>, headers |-> {}]

MethodMapping(m) == IF m \in {<<x>> : x \in {"GET", "POST", "HEAD", "PUT", "DELETE"}} THEN m ELSE <<"invalid">>

(* The request, or Blank for a line that is refused. *)
processRequestLine(s) ==
  LET i == Find(s, " ")
      rest == After(s, i)
      j == Find(rest, " ")
      target == Before(rest, j)
      k == Find(target, "?")
      version == After(rest, j) IN
  IF i = 0 \/ MethodMapping(Before(s, i)) = <<"invalid">> \/ j = 0
     \/ version \notin {<<"HTTP/1.", "0">>, <<"HTTP/1.", "1">>} THEN Blank
  ELSE [Blank EXCEPT !.method = Before(s, i), !.version = version,
                     !.path = IF k = 0 THEN target ELSE Before(target, k),
                     !.query = IF k = 0 THEN <<>> ELSE After(target, k)]

(* Mutant: only the spaces in front are removed. *)
TrimFront(s) ==
  LET text == {i \in DOMAIN s : s[i] # " "} IN
  IF text = {} THEN <<>> ELSE SubSeq(s, CHOOSE i \in text : \A j \in text : i <= j, Len(s))

(* Removes the spaces at both ends. *)
Trim(s) ==
  LET text == {i \in DOMAIN s : s[i] # " "} IN
  IF text = {} THEN <<>>
  ELSE SubSeq(s, CHOOSE i \in text : \A j \in text : i <= j, CHOOSE i \in text : \A j \in text : i >= j)

(* A later header of the same key replaces the value. *)
addHeader(req, key, value) ==
  [req EXCEPT !.headers = {h \in @ : h[1] # key} \cup {<<key, Trim(value)>>}]

(* One turn of the loop; "more" when it goes round again.                  *)
ParseStep(c, s) ==
  LET e == findCRLF(s)
      line == Before(s, e)
      rest == SubSeq(s, e + 2, Len(s))
      req == processRequestLine(line)
      colon == Find(line, ":") IN
  IF c.state = "kGotAll" \/ e = 0 THEN [res |-> "true", c |-> c, s |-> s]
  ELSE IF c.state = "kExpectRequestLine" THEN
    IF req = Blank THEN [res |-> "false", c |-> c, s |-> s]
    ELSE [res |-> "more", c |-> [state |-> "kExpectHeaders", req |-> req], s |-> rest]
  ELSE IF Len(s) = 2 THEN [res |-> "true", c |-> [c EXCEPT !.state = "kGotAll"], s |-> <<>>]
  ELSE IF colon = 0 THEN [res |-> "false", c |-> c, s |-> s]
  ELSE [res |-> "more", c |-> [c EXCEPT !.req = addHeader(@, Before(line, colon), After(line, colon))], s |-> rest]

RECURSIVE parseRequest(_, _)
parseRequest(c, s) ==
  LET r == ParseStep(c, s) IN IF r.res = "more" THEN parseRequest(r.c, r.s) ELSE r

Reset == [state |-> "kExpectRequestLine", req |-> Blank]

-----------------------------------------------------------------------------
(* The file server.  A response is its status, the bytes it says will      *)
(* follow the header, and those that do: in the same string, or from a file. *)

hasFile(rsp) == rsp.filesize # 0

responseOk == [status |-> 200, body |-> 0, filesize |-> 0]

responseBad == [responseOk EXCEPT !.status = 400]

(* The page of links, and the error page, are never empty.  Every handler  *)
(* sets kClose, whatever the request asked.                                *)
ResponseFilesLink == [responseOk EXCEPT !.body = 1]

ResponseFile(name) ==
  IF name \notin DOMAIN Files THEN [responseBad EXCEPT !.body = 1] ELSE [responseOk EXCEPT !.filesize = Files[name]]

RequestHandler(req) == IF req.query = <<>> THEN ResponseFilesLink ELSE ResponseFile(req.query)

(* The Content-Length headers, and the bytes after the blank line. *)
toString(rsp) ==
  [status |-> rsp.status,
   lengths |-> (IF hasFile(rsp) THEN <<rsp.filesize>> ELSE <<>>) \o (IF rsp.body # 0 THEN <<rsp.body>> ELSE <<>>),
   payload |-> IF hasFile(rsp) THEN 0 ELSE rsp.body]

(* conn->send of the text, then conn->sendFile *)
onRequest(req) ==
  LET rsp == RequestHandler(req)
      str == toString(rsp) IN
  [str EXCEPT !.payload = @ + (IF hasFile(rsp) THEN rsp.filesize ELSE 0)]

BadRequest == [status |-> 400, lengths |-> <<>>, payload |-> 0]

-----------------------------------------------------------------------------

Init ==
  /\ script \in Scripts /\ sent = 0 /\ net = <<>> /\ buf = <<>>
  /\ ctx = Reset /\ got = <<>> /\ out = <<>> /\ down = FALSE

ClientSend ==
  /\ sent < Len(script) /\ (Pipelined \/ (Len(out) = sent /\ net = <<>>))
  /\ sent' = sent + 1 /\ net' = net \o Encode(script[sent + 1])
  /\ UNCHANGED <<script, buf, ctx, got, out, down>>

(* A segment of n tokens arrives: the message callback runs on the buffer.  *)
(* After shutdown nothing more is sent.                                    *)
onMessage(n) ==
  LET r == parseRequest(ctx, buf \o SubSeq(net, 1, n))
      done == r.c.state = "kGotAll"
      answer == (IF r.res = "false" THEN <<BadRequest>> ELSE <<>>)
                  \o (IF done THEN <<onRequest(r.c.req)>> ELSE <<>>) IN
  /\ n \in 1..Len(net)
  /\ net' = SubSeq(net, n + 1, Len(net)) /\ buf' = r.s
  /\ down' = (down \/ r.res = "false")
  /\ out' = IF down THEN out ELSE out \o answer
  /\ ctx' = IF done THEN Reset ELSE r.c
  /\ got' = IF done THEN Append(got, r.c.req) ELSE got
  /\ UNCHANGED <<script, sent>>

Next == ClientSend \/ \E n \in 1..Len(net) : onMessage(n)

Spec == Init /\ [][Next]_hvars

-----------------------------------------------------------------------------

(* What the server should hand on for a request: the later of two headers  *)
(* of the same key counts.                                                 *)
Meaning(r) ==
  [method |-> r.method, path |-> r.path, query |-> r.query, version |-> r.version,
   headers |-> {r.headers[i] : i \in {j \in DOMAIN r.headers : \A k \in DOMAIN r.headers : k > j => r.headers[k][1] # r.headers[j][1]}}]

(* However a request is cut into segments, the server reads the request that *)
(* was sent, gives it one response, and refuses once the one that is wrong; *)
(* and a response announces the number of bytes that follow it.            *)
RequestsReadAsSent ==
  /\ Len(got) <= sent
  /\ \A i \in DOMAIN got : script[i].bad = "no" /\ got[i] = Meaning(script[i])
  /\ net = <<>> => Len(out) = sent /\ \A i \in DOMAIN out : script[i].bad # "no" => out[i] = BadRequest
  /\ \A i \in DOMAIN out : FoldLeft(+, 0, out[i].lengths) = out[i].payload /\ Len(out[i].lengths) <= 1
=============================================================================
