-------------------------------- MODULE Wrap --------------------------------
(***************************************************************************)
(* netpoll/wrap/eventloop_wrap.cc over net/eventloop_threadpool.cc: serve  *)
(* for a Listener or for Dialers, with enableQuit, on a daemon thread of   *)
(* TaskPerThreadQueue, and QuitAllEventLoop.                               *)
(*                                                                         *)
(* Loop 0 is the thread_local loop of the serving thread, 1 .. N are those *)
(* of the pool.  EventLoop and EventLoopThread (modules of their own) are  *)
(* reduced to what serve sees of them: loop() clears m_quit when it is     *)
(* entered, tests it before each round, and a loop of the pool is          *)
(* destroyed when it has left loop().  QuitAllEventLoop is called by a     *)
(* connection callback: allEventLoop() has no lock, and a callback is the  *)
(* only place that runs after serve has filled it.                         *)
(***************************************************************************)
EXTENDS Integers, Sequences, SequencesExt

CONSTANTS N,         \* loops of the pool
          MaxDialers \* bound: dialers served at once

VARIABLES kind,      \* "listener" or "dialers"
          dialers,   \* how many Dialers are served
          at,        \* loop -> "none", "ready", "enter", "looping", "left" or "ended"
          m_quit,    \* loop -> its flag
          funcs,     \* loop -> dialers whose connect it has queued
          ran,       \* loops that have set m_promiseForLoop
          up,        \* loops with a connection, whose callbacks may run
          m_loopIndex,
          all,       \* allEventLoop()
          spc, i,    \* where serve is, and its loop variable
          caller,    \* the loop whose callback called QuitAllEventLoop, or -1
          qi,        \* loops QuitAllEventLoop has told to quit
          allRan,    \* history: every loop had set its promise when it was called
          dangling,  \* history: quit() was called on a destroyed loop
          joined     \* ~TaskPerThreadQueue has joined the serving thread

wvars == <<kind, dialers, at, m_quit, funcs, ran, up, m_loopIndex, all, spc, i, caller, qi,
           allRan, dangling, joined>>

Pool == 1 .. N
Loops == 0 .. N
None == -1

WrapInit ==
  /\ kind \in {"listener", "dialers"}
  /\ dialers \in IF kind = "dialers" THEN 1 .. MaxDialers ELSE {0}
  /\ at = [l \in Loops |-> IF l = 0 THEN "none" ELSE "ready"]
  /\ m_quit = [l \in Loops |-> FALSE]
  /\ funcs = [l \in Loops |-> {}]
  /\ ran = {} /\ up = {} /\ m_loopIndex = 1 /\ all = <<>>
  /\ spc = "register" /\ i = 1
  /\ caller = None /\ qi = 0 /\ allRan = FALSE /\ dangling = FALSE /\ joined = FALSE

-----------------------------------------------------------------------------
(* Mutant: serve(Listener) forgets its own loop. *)
RegisterPool ==
  /\ spc = "register"
  /\ all' = [l \in Pool |-> l]
  /\ at' = [at EXCEPT ![0] = IF kind = "listener" THEN "ready" ELSE @]
  /\ spc' = IF kind = "listener" THEN "start" ELSE "dial"
  /\ UNCHANGED <<kind, dialers, m_quit, funcs, ran, up, m_loopIndex, i, caller, qi, allRan,
                 dangling, joined>>

(* serve with m_quit set: register the loops; getEventLoop() makes loop 0. *)
Register ==
  /\ spc = "register"
  /\ all' = (IF kind = "listener" THEN <<0>> ELSE <<>>) \o [l \in Pool |-> l]
  /\ at' = [at EXCEPT ![0] = IF kind = "listener" THEN "ready" ELSE @]
  /\ spc' = IF kind = "listener" THEN "start" ELSE "dial"
  /\ UNCHANGED <<kind, dialers, m_quit, funcs, ran, up, m_loopIndex, i, caller, qi, allRan,
                 dangling, joined>>

(* getNextLoop *)
NextIndex == IF m_loopIndex + 1 > N THEN 1 ELSE m_loopIndex + 1

(* dialer.setLoop(m_pool->getNextLoop()) and dialer.connect(), which queues. *)
Dial ==
  /\ spc = "dial"
  /\ funcs' = [funcs EXCEPT ![m_loopIndex] = @ \cup {i}]
  /\ m_loopIndex' = NextIndex
  /\ i' = IF i = dialers THEN 1 ELSE i + 1
  /\ spc' = IF i = dialers THEN "start" ELSE "dial"
  /\ UNCHANGED <<kind, dialers, at, m_quit, ran, up, all, caller, qi, allRan, dangling, joined>>

(* EventLoopThreadPool::start: run() of each thread in turn, *)
PoolRun ==
  /\ spc = "start"
  /\ at' = [at EXCEPT ![i] = "enter"]
  /\ spc' = "started"
  /\ UNCHANGED <<kind, dialers, m_quit, funcs, ran, up, m_loopIndex, all, i, caller, qi,
                 allRan, dangling, joined>>

(* which returns when the loop has run its first function; then loop 0 enters *)
(* loop(), for a Listener, or the pool is waited for.                         *)
PoolRunReturns ==
  /\ spc = "started" /\ i \in ran
  /\ i' = IF i = N THEN 1 ELSE i + 1
  /\ spc' = IF i < N THEN "start" ELSE IF kind = "listener" THEN "loop" ELSE "wait"
  /\ at' = [at EXCEPT ![0] = IF i = N /\ kind = "listener" THEN "enter" ELSE @]
  /\ UNCHANGED <<kind, dialers, m_quit, funcs, ran, up, m_loopIndex, all, caller, qi, allRan,
                 dangling, joined>>

(* EventLoopThreadPool::wait joins the threads in turn. *)
PoolWait ==
  /\ spc = "wait" /\ at[i] = "ended"
  /\ i' = IF i = N THEN i ELSE i + 1
  /\ spc' = IF i = N THEN "done" ELSE "wait"
  /\ UNCHANGED <<kind, dialers, at, m_quit, funcs, ran, up, m_loopIndex, all, caller, qi,
                 allRan, dangling, joined>>

(* serve(Listener) returns from loop(). *)
ListenerReturns ==
  /\ spc = "loop" /\ at[0] = "left"
  /\ spc' = "done"
  /\ UNCHANGED <<kind, dialers, at, m_quit, funcs, ran, up, m_loopIndex, all, i, caller, qi,
                 allRan, dangling, joined>>

(* The daemon's thread ends when serve has returned, and ~TaskPerThreadQueue joins it. *)
DaemonJoined ==
  /\ spc = "done" /\ ~joined
  /\ joined' = TRUE
  /\ at' = [at EXCEPT ![0] = IF @ = "left" THEN "ended" ELSE @]
  /\ UNCHANGED <<kind, dialers, m_quit, funcs, ran, up, m_loopIndex, all, spc, i, caller, qi,
                 allRan, dangling>>

ServeStep ==
  \/ Register \/ Dial \/ PoolRun \/ PoolRunReturns \/ PoolWait \/ ListenerReturns
  \/ DaemonJoined
-----------------------------------------------------------------------------
(* EventLoop::loop: clear m_quit, *)
LoopEnter(l) ==
  /\ at[l] = "enter"
  /\ at' = [at EXCEPT ![l] = "looping"]
  /\ m_quit' = [m_quit EXCEPT ![l] = FALSE]
  /\ UNCHANGED <<kind, dialers, funcs, ran, up, m_loopIndex, all, spc, i, caller, qi, allRan,
                 dangling, joined>>

(* run the queued functions: set the promise, connect the dialers, *)
LoopRuns(l) ==
  /\ at[l] = "looping" /\ caller # l /\ (l \notin ran \/ funcs[l] # {})
  /\ ran' = ran \cup {l}
  /\ up' = IF funcs[l] # {} THEN up \cup {l} ELSE up
  /\ funcs' = [funcs EXCEPT ![l] = {}]
  /\ UNCHANGED <<kind, dialers, at, m_quit, m_loopIndex, all, spc, i, caller, qi, allRan,
                 dangling, joined>>

(* leave when m_quit is set; the EventLoop of a pool thread is destroyed. *)
LoopLeaves(l) ==
  /\ at[l] = "looping" /\ m_quit[l] /\ ~(caller = l /\ qi < Len(all))
  /\ at' = [at EXCEPT ![l] = IF l = 0 THEN "left" ELSE "ended"]
  /\ UNCHANGED <<kind, dialers, m_quit, funcs, ran, up, m_loopIndex, all, spc, i, caller, qi,
                 allRan, dangling, joined>>

(* A client connects to the Listener; its loop of the pool gets the connection. *)
Accept(l) ==
  /\ kind = "listener" /\ at[0] = "looping" /\ at[l] = "looping" /\ l \notin up
  /\ up' = up \cup {l}
  /\ UNCHANGED <<kind, dialers, at, m_quit, funcs, ran, m_loopIndex, all, spc, i, caller, qi,
                 allRan, dangling, joined>>
-----------------------------------------------------------------------------
(* A connection callback on loop l calls QuitAllEventLoop, *)
QuitAllEventLoop(l) ==
  /\ caller = None /\ l \in up /\ at[l] = "looping"
  /\ caller' = l
  /\ allRan' = \A k \in ToSet(all) : at[k] = "looping" /\ k \in ran \cup {0}
  /\ UNCHANGED <<kind, dialers, at, m_quit, funcs, ran, up, m_loopIndex, all, spc, i, qi,
                 dangling, joined>>

(* which calls quit() on one loop after the other. *)
QuitOne ==
  /\ caller # None /\ qi < Len(all)
  /\ qi' = qi + 1
  /\ LET l == all[qi + 1]
     IN  /\ m_quit' = [m_quit EXCEPT ![l] = TRUE]
         /\ dangling' = (dangling \/ at[l] = "ended")
  /\ UNCHANGED <<kind, dialers, at, funcs, ran, up, m_loopIndex, all, spc, i, caller, allRan,
                 joined>>

LoopStep(l) == LoopEnter(l) \/ LoopRuns(l) \/ LoopLeaves(l)

WrapNext ==
  \/ ServeStep \/ QuitOne
  \/ \E l \in Loops : LoopStep(l) \/ Accept(l) \/ QuitAllEventLoop(l)

(* The serving thread, the callback and every loop are scheduled. *)
WrapSpec ==
  /\ WrapInit /\ [][WrapNext]_wvars
  /\ WF_wvars(ServeStep) /\ WF_wvars(QuitOne) /\ \A l \in Loops : WF_wvars(LoopStep(l))
-----------------------------------------------------------------------------
(* QuitAllEventLoop never calls quit() on a loop that is gone, although the *)
(* loops it has told to quit end and are destroyed while it goes on: every  *)
(* registered loop is registered once, and only one callback calls it.      *)
QuitVisitsLiveLoops == ~dangling

(* Dialers connect, whichever loop they were given before the pool started,  *)
(* unless the loops are told to quit; and when QuitAllEventLoop is called    *)
(* after every loop has run its first function, serve returns and its        *)
(* thread can be joined.  (Called between loop() and that function, it makes *)
(* run() wait for ever for m_promiseForLoop.)                                *)
ServeFinishes ==
  /\ \A l \in Pool : funcs[l] # {} ~> (funcs[l] = {} \/ caller # None)
  /\ allRan ~> joined

(* README.md:318 "`QuitAllEventLoop` 方法:退出所有的循环" (it makes all the loops  *)
(* exit): once it has been called, every loop of serve leaves loop().         *)
QuitAllQuitsAll == caller # None ~> \A l \in ToSet(all) : at[l] \in {"left", "ended"}
=============================================================================
