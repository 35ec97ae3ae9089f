------------------------------- MODULE MCData -------------------------------
(* The data structures, codecs and sequential algorithms of the library and  *)
(* of its examples, checked side by side: part says which one runs; the      *)
(* others stay in an initial state.                                          *)
EXTENDS Integers, Sequences, TLC

CONSTANTS N, Q, Offset, Caps, Radix, Widths, ExtBuffer, MaxText, MaxPath, MaxArg,
          Names, MaxDepth, Contents, Creators, Halves, Ports,
          Clients, Prefix, MaxPolls, MaxDown

VARIABLES part,
          t, keys, q, list,                              \* WepollTree
          b, text, ok,                                   \* MessageBuffer
          script, served, net, buf, ctx, read, out, shut, \* HttpServer
          p, arg,                                        \* FsPath
          fs, job,                                       \* Filesystem
          ep,                                            \* Inet
          gid, connMap, conn, up, down, sctx, cctx, sbuf, cbuf, me, tasks, polls,
          sent, got, raced                               \* Chat

-----------------------------------------------------------------------------
(* Inputs: HTTP requests with and without a file to serve, with repeated    *)
(* headers and with a malformed line; relative, absolute and dotted paths.  *)
Request(query, headers, bad) ==
  [method |-> IF bad = "line" THEN <<"BREW">> ELSE <<"GET">>, path |-> <<"/">>, query |-> query,
   version |-> <<"HTTP/1.", "1">>, headers |-> headers, bad |-> bad]

H1 == <<<<"k1">>, <<"v">>>>
H2 == <<<<"k2">>, <<"v", " ", "w", ":", "x">>>>
H3 == <<<<"k1">>, <<"u">>>>

Requests == {Request(f, h, e) : f \in {<<>>, <<"f">>, <<"g">>}, e \in {"no", "line", "header"},
                                h \in {<<>>, <<H1>>, <<H1, H2>>, <<H1, H3>>}}
MCScripts == {<<r>> : r \in Requests} \cup {<<Request(<<"f">>, <<H1>>, "no"), r>> : r \in Requests}
MCFiles == [f \in {<<"f">>} |-> 3]

Rel(e) == [abs |-> FALSE, el |-> e]
Abs(e) == [abs |-> TRUE, el |-> e]
MCTargets == {Rel(<<"b">>), Abs(<<"a", "b">>)}
MCPaths == {Rel(<<"a">>), Abs(<<"b">>), Rel(<<"a", "b">>), Rel(<<"b", "..", "a">>)}

(* The processes that create directories are alike. *)
CreatorsAlike == Permutations(Creators)

T == INSTANCE WepollTree
B == INSTANCE MessageBuffer
H == INSTANCE HttpServer WITH sent <- served, got <- read, down <- shut,
                              Scripts <- MCScripts, Files <- MCFiles, Pipelined <- FALSE
F == INSTANCE FsPath
D == INSTANCE Filesystem WITH Targets <- MCTargets, Paths <- MCPaths
I == INSTANCE Inet
C == INSTANCE Chat

treevars == <<t, keys, q, list>>
buffervars == <<b, text, ok>>
httpvars == <<script, served, net, buf, ctx, read, out, shut>>
pathvars == <<p, arg>>
fsvars == <<fs, job>>
chatvars == <<gid, connMap, conn, up, down, sctx, cctx, sbuf, cbuf, me, tasks, polls,
              sent, got, raced>>

MCInit ==
  /\ part \in {"tree", "buffer", "http", "path", "fs", "inet", "chat"}
  /\ T!Init /\ D!FsInit /\ C!ChatInit
  /\ B!Init /\ (part = "buffer" \/ b = B!New(CHOOSE c \in Caps : TRUE))
  /\ H!Init /\ (part = "http" \/ script = CHOOSE r \in MCScripts : TRUE)
  /\ IF part = "path" THEN F!PathInit ELSE p = <<>> /\ arg = <<>>
  /\ IF part = "inet" THEN I!InetInit ELSE ep = I!FromPort(0, FALSE, FALSE)

MCNext ==
  /\ UNCHANGED part
  /\ IF part = "tree" THEN T!Next ELSE UNCHANGED treevars
  /\ IF part = "buffer" THEN B!Next ELSE UNCHANGED buffervars
  /\ IF part = "http" THEN H!Next ELSE UNCHANGED httpvars
  /\ IF part = "path" THEN F!PathNext ELSE UNCHANGED pathvars
  /\ IF part = "fs" THEN D!FsNext ELSE UNCHANGED fsvars
  /\ IF part = "inet" THEN I!InetNext ELSE UNCHANGED ep
  /\ IF part = "chat" THEN C!ChatNext ELSE UNCHANGED chatvars

(* The red-black tree of wepoll stays a balanced map of the keys that were  *)
(* added, and its queue the sequence that its callers see.                  *)
Containers == part = "tree" => T!Containers

(* MessageBuffer gives back what was put into it, from either end.          *)
BufferIsDeque == part = "buffer" => B!BufferIsDeque

(* However the bytes of its requests are cut, a client of the HTTP example  *)
(* is answered request by request, each read as it was sent.                *)
RequestsReadAsSent == part = "http" => H!RequestsReadAsSent

(* Decomposing, joining, normalising and comparing paths agree.             *)
PathLaws == part = "path" => F!PathLaws

(* The operations on the file system do what they promise, beside another   *)
(* process that creates the same directories.                               *)
FilesystemLaws == part = "fs" => D!FilesystemLaws

(* InetAddress classifies an address by its octets, and keeps its port.     *)
InetLaws == part = "inet" => I!InetLaws

(* Chat messages are framed as they were sent, and reach the connection     *)
(* whose id they name.                                                      *)
ChatDelivers == part = "chat" => C!FramesIntact /\ C!ChatReachesReceiver
=============================================================================
