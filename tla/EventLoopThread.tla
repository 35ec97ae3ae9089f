--------------------------- MODULE EventLoopThread --------------------------
(***************************************************************************)
(* netpoll/net/eventloop_thread.cc: a thread that owns an EventLoop on its *)
(* stack, the promises by which its constructor and run() wait for it, and *)
(* the destructor that quits the loop and joins the thread.                *)
(*                                                                         *)
(* The worker is the loop thread of EventLoop.  Main constructs and        *)
(* destroys the object; Main and the threads of Thread may call run().     *)
(* Place 1 of m_funcs is the function that sets m_promiseForLoop.          *)
(***************************************************************************)
EXTENDS EventLoop

CONSTANT Main     \* the thread that owns the EventLoopThread

VARIABLES
  wpc,            \* where threadWorker is
  mloop,          \* m_loop is not nullptr
  once,           \* m_once: "no", "running" or "done"
  upc,            \* upc[u]: where u is in the constructor, run() or the destructor
  dtor            \* the destructor has begun

User == Thread \cup {Main}

ext == <<wpc, mloop, once, upc, dtor>>
tvars == <<vars, ext>>

TInit ==
  /\ Init
  /\ wpc = "queue"
  /\ mloop = FALSE
  /\ once = "no"
  /\ upc = [u \in User |-> IF u = Main THEN "ctor" ELSE "idle"]
  /\ dtor = FALSE

(* m_promiseForRun is set as soon as run() is entered for the first time. *)
promiseForRun == once # "no"

(* m_promiseForLoop is set when the function at place 1 has run. *)
promiseForLoop == funcsTaken > 1 \/ (funcsTaken = 1 /\ lpc # "run")
-----------------------------------------------------------------------------
(* threadWorker: loop.queueInLoop(set m_promiseForLoop), *)
WorkerQueue ==
  /\ wpc = "queue"
  /\ LoopThreadQueues("plain", "out")
  /\ wpc' = "setPointer"
  /\ UNCHANGED <<active, mloop, once, upc, dtor>>

(* m_promiseForLoopPointer.set_value(&loop), *)
WorkerSetPointer ==
  /\ wpc = "setPointer"
  /\ lpc = "out"
  /\ wpc' = "waitRun"
  /\ UNCHANGED <<vars, mloop, once, upc, dtor>>

(* wait for m_promiseForRun and call loop.loop(), *)
WorkerLoop ==
  /\ wpc = "waitRun"
  /\ promiseForRun
  /\ Enter
  /\ wpc' = "loop"
  /\ UNCHANGED <<mloop, once, upc, dtor>>

(* Mutant: m_loop keeps pointing to the loop. *)
WorkerStoreNothing ==
  /\ wpc = "loop"
  /\ lpc = "out"
  /\ wpc' = "leave"
  /\ UNCHANGED <<vars, mloop, once, upc, dtor>>

(* m_loop.store(nullptr), *)
WorkerStore ==
  /\ wpc = "loop"
  /\ lpc = "out"
  /\ mloop' = FALSE
  /\ wpc' = "leave"
  /\ UNCHANGED <<vars, once, upc, dtor>>

(* and leave: ~EventLoop() on the loop thread, and the thread ends. *)
WorkerLeave ==
  /\ wpc = "leave"
  /\ wpc' = "ended"
  /\ UNCHANGED <<vars, mloop, once, upc, dtor>>

WorkerStep ==
  \/ WorkerQueue \/ WorkerSetPointer \/ WorkerLoop \/ WorkerStore \/ WorkerLeave
  \/ wpc \in {"setPointer", "loop"} /\ LoopStep /\ UNCHANGED ext
-----------------------------------------------------------------------------
(* The constructor waits for the pointer and stores it in m_loop. *)
CtorReturns ==
  /\ upc[Main] = "ctor"
  /\ wpc \notin {"queue", "setPointer"}
  /\ mloop' = TRUE
  /\ upc' = [upc EXCEPT ![Main] = "idle"]
  /\ UNCHANGED <<vars, wpc, once, dtor>>

(* run() is entered: the first caller sets m_promiseForRun, a caller during
   the first call waits for it to finish, a later caller returns at once. *)
EnterRun(u, after) ==
  /\ once' = IF once = "no" THEN "running" ELSE once
  /\ upc' = [upc EXCEPT ![u] = CASE once = "no" -> "get"
                                 [] once = "running" -> "wait"
                                 [] OTHER -> after]

RunCall(u) ==
  /\ upc[u] = "idle" /\ (u \in Thread => tpc[u] = "idle")
  /\ upc[Main] # "ctor"
  /\ ~dtor
  /\ EnterRun(u, "idle")
  /\ UNCHANGED <<vars, wpc, mloop, dtor>>

AfterRun(u) == IF u = Main /\ dtor THEN "load" ELSE "idle"

(* f.get() returns in the first caller. *)
RunReturn(u) ==
  /\ upc[u] = "get"
  /\ promiseForLoop
  /\ once' = "done"
  /\ upc' = [upc EXCEPT ![u] = AfterRun(u)]
  /\ UNCHANGED <<vars, wpc, mloop, dtor>>

(* call_once returns in the others. *)
RunWaitReturn(u) ==
  /\ upc[u] = "wait"
  /\ once = "done"
  /\ upc' = [upc EXCEPT ![u] = AfterRun(u)]
  /\ UNCHANGED <<vars, wpc, mloop, once, dtor>>

(* ~EventLoopThread(): run(); object lifetime lets no other member call run. *)
DtorRun ==
  /\ upc[Main] = "idle"
  /\ \A t \in Thread : upc[t] = "idle" /\ tpc[t] = "idle"
  /\ ~dtor
  /\ dtor' = TRUE
  /\ EnterRun(Main, "load")
  /\ UNCHANGED <<vars, wpc, mloop>>

DtorGoto(from, to) ==
  /\ upc[Main] = from
  /\ upc' = [upc EXCEPT ![Main] = to]

(* Mutant: the destructor does not quit the loop. *)
DtorLoadOnly ==
  /\ DtorGoto("load", "join")
  /\ UNCHANGED <<vars, wpc, mloop, once, dtor>>

(* loop = m_loop.load(); if (loop) ... *)
DtorLoad ==
  /\ DtorGoto("load", IF mloop THEN "quit" ELSE "join")
  /\ UNCHANGED <<vars, wpc, mloop, once, dtor>>

(* ... loop->quit(): test, store, wake up. *)
DtorQuit ==
  /\ DtorGoto("quit", IF quit THEN "join" ELSE "quitStore")
  /\ UNCHANGED <<vars, wpc, mloop, once, dtor>>

DtorQuitStore ==
  /\ DtorGoto("quitStore", "quitWake")
  /\ quit' = TRUE
  /\ UNCHANGED <<looping, wakeupFd, mfuncs, mquits, func, loopVars, threadVars, wpc, mloop, once, dtor>>

DtorQuitWakeup ==
  /\ DtorGoto("quitWake", "join")
  /\ wakeupFd' = TRUE
  /\ UNCHANGED <<looping, quit, mfuncs, mquits, func, loopVars, threadVars, wpc, mloop, once, dtor>>

(* m_thread.join() *)
DtorJoin ==
  /\ DtorGoto("join", "destroyed")
  /\ wpc = "ended"
  /\ UNCHANGED <<vars, wpc, mloop, once, dtor>>

UserStep(u) ==
  \/ RunReturn(u)
  \/ RunWaitReturn(u)
  \/ u = Main /\ (CtorReturns \/ DtorLoad \/ DtorQuit \/ DtorQuitStore \/ DtorQuitWakeup \/ DtorJoin)

(* A thread uses the loop that getLoop() returned while it is there. *)
UseLoop(t) ==
  /\ mloop /\ ~dtor
  /\ upc[t] = "idle"
  /\ (\E k \in Kind : QueueInLoop(t, k)) \/ QuitCall(t)
  /\ UNCHANGED ext

TNext ==
  \/ WorkerStep
  \/ wpc = "loop" /\ PollOther /\ UNCHANGED ext
  \/ \E u \in User : RunCall(u) \/ UserStep(u)
  \/ DtorRun
  \/ \E t \in Thread : UseLoop(t) \/ (ThreadStep(t) /\ UNCHANGED ext)

TSpec == TInit /\ [][TNext]_tvars

(* Every thread is scheduled; poll() is only relied on for the eventfd. *)
TFairSpec ==
  /\ TSpec
  /\ WF_tvars(WorkerStep)
  /\ \A u \in User : WF_tvars(UserStep(u))
  /\ \A t \in Thread : WF_tvars(ThreadStep(t) /\ UNCHANGED ext)
-----------------------------------------------------------------------------
(* Types. *)
TTypeOK ==
  /\ TypeOK
  /\ wpc \in {"queue", "setPointer", "waitRun", "loop", "leave", "ended"}
  /\ mloop \in BOOLEAN /\ dtor \in BOOLEAN
  /\ once \in {"no", "running", "done"}
  /\ upc \in [User -> {"ctor", "idle", "get", "wait", "load", "quit", "quitStore", "quitWake",
                       "join", "destroyed"}]

(* "Make sure the event loop loops before returning" (eventloop_thread.cc
   52): when any caller has returned from run(), loop() has been entered and
   has begun to drain m_funcs. *)
RunReturnsLooping ==
  once = "done" => loops = 1 /\ funcsTaken > 0

(* getLoop() never returns a pointer to a destroyed loop (30-45), and the
   pointer the destructor has loaded (23) is good when its quit() begins,
   unless somebody else has told the loop to quit.  With the types. *)
LoopPointerIsLive ==
  /\ TTypeOK
  /\ mloop => wpc # "ended"
  /\ ~quit /\ upc[Main] \in {"quit", "quitStore"} => wpc = "loop"

(* A loop is used only while it exists and runs: run() returns when the loop
   loops, and m_loop is null before the loop is gone. *)
LoopsAreLive == RunReturnsLooping /\ LoopPointerIsLive

(* A quit() between loop()'s reset of m_quit and its first iteration has
   made loop() return without running the function that sets
   m_promiseForLoop. *)
QuitTooEarly == wpc \in {"leave", "ended"} /\ funcsTaken = 0

(* run() returns (47-56), whatever other threads queue and whenever they
   call run(), unless the loop was told to quit too early. *)
RunReturns ==
  \A u \in User : (upc[u] \in {"get", "wait"}) ~> (upc[u] \notin {"get", "wait"} \/ QuitTooEarly)

(* The destructor ends (20-26) unless the loop was told to quit too early:
   whatever was called before it, the loop is started, told to quit, and
   joined. *)
DestructorJoins ==
  dtor ~> (upc[Main] = "destroyed" \/ QuitTooEarly)
-----------------------------------------------------------------------------
(* The inductive invariant behind LoopsAreLive. *)

(* Where loop() is, or has been, tells where threadWorker is. *)
WorkerPlace ==
  /\ wpc \in {"queue", "setPointer", "waitRun"} => loops = 0 /\ funcsTaken = 0
  /\ wpc \in {"queue", "waitRun", "leave", "ended"} => lpc = "out"
  /\ wpc = "setPointer" => lpc = "out" \/ (lpc = "link" /\ ret = "out")
  /\ wpc = "loop" /\ lpc = "link" => ret # "out"
  /\ wpc \in {"loop", "leave", "ended"} => loops = 1
  /\ lpc \in {"run", "quitRun"} => func # <<>>

(* The loop leaves its while loop only when m_quit is set. *)
LeavesOnQuit ==
  /\ wpc \in {"leave", "ended"} => quit /\ ~mloop
  /\ wpc = "loop" => \/ quit
                     \/ lpc \in InWhile \cup {"enter"}
                     \/ lpc = "link" /\ ret # "quitDequeue"

(* Nobody gets past run() before the loop drains m_funcs, and nobody calls it
   before the constructor has returned. *)
RunComesFirst ==
  /\ once = "no" => wpc \in {"queue", "setPointer", "waitRun"}
  /\ upc[Main] = "ctor" => once = "no"
  /\ once = "no" => \A u \in User : upc[u] \notin {"get", "wait"}
  /\ once = "done" => funcsTaken > 0
  /\ upc[Main] \in {"load", "quit", "quitStore", "quitWake", "join", "destroyed"} => once = "done"

ThreadInv == TTypeOK /\ WorkerPlace /\ LeavesOnQuit /\ RunComesFirst
=============================================================================
