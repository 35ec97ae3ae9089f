------------------------------ MODULE EventLoop -----------------------------
(***************************************************************************)
(* netpoll/net/eventloop.{h,cc}: one loop thread that polls, handles the   *)
(* active channels and runs queued functions, and other threads that call  *)
(* queueInLoop, runOnQuit and quit on it.                                  *)
(*                                                                         *)
(* m_funcs and m_funcOnQuit are two queues that behave as MpscFifo says.   *)
(* A function is represented by its Kind, what calling it does to the      *)
(* loop: nothing ("plain"), queueInLoop of another function ("spawn"),     *)
(* quit() ("quit"), or throwing an exception ("throw").                    *)
(***************************************************************************)
EXTENDS Naturals, Sequences

CONSTANTS
  Thread,         \* threads other than the loop thread
  Kind,           \* the kinds of callbacks used
  MaxFuncs,       \* bound on the functions ever put into m_funcs
  MaxQuitFuncs,   \* bound on the functions ever put into m_funcOnQuit
  MaxLoops        \* bound on the calls of loop()

ASSUME EventLoopAssumption ==
  /\ Kind \subseteq {"plain", "spawn", "quit", "throw"}
  /\ MaxFuncs \in Nat /\ MaxQuitFuncs \in Nat /\ MaxLoops \in Nat

VARIABLES
  looping,        \* m_looping
  quit,           \* m_quit
  wakeupFd,       \* the eventfd counter is not zero
  funcs, funcsLinked, funcsTaken,   \* m_funcs, as in MpscFifo
  quitFuncs, quitLinked, quitTaken, \* m_funcOnQuit, as in MpscFifo
  func,           \* the functor last dequeued: <<kind>> or <<>>
  lpc,            \* where the loop thread is
  ret,            \* where the loop thread continues after its own queueInLoop
  lidx,           \* the place that queueInLoop has claimed
  active,         \* m_activeChannels still to be handled
  loops,          \* number of calls of loop()
  threw,          \* history: some callback has thrown
  tpc,            \* tpc[t]: where thread t is
  tidx            \* tidx[t]: the place t's unfinished enqueue has claimed

mfuncs == <<funcs, funcsLinked, funcsTaken>>
mquits == <<quitFuncs, quitLinked, quitTaken>>
loopVars == <<lpc, ret, lidx, active, loops, threw>>
threadVars == <<tpc, tidx>>
vars == <<looping, quit, wakeupFd, mfuncs, mquits, func, loopVars, threadVars>>

Funcs == INSTANCE MpscFifo
  WITH Item <- Kind, claimed <- funcs, linked <- funcsLinked, taken <- funcsTaken, out <- func

QuitFuncs == INSTANCE MpscFifo
  WITH Item <- Kind, claimed <- quitFuncs, linked <- quitLinked, taken <- quitTaken, out <- func

Init ==
  /\ looping = FALSE
  /\ quit = FALSE
  /\ wakeupFd = FALSE
  /\ Funcs!FifoInit
  /\ QuitFuncs!FifoInit
  /\ lpc = "out"
  /\ ret = "out"
  /\ lidx = 0
  /\ active = {}
  /\ loops = 0
  /\ threw = FALSE
  /\ tpc = [t \in Thread |-> "idle"]
  /\ tidx = [t \in Thread |-> 0]
-----------------------------------------------------------------------------
(* Other threads. *)

Goto(t, from, to) ==
  /\ tpc[t] = from
  /\ tpc' = [tpc EXCEPT ![t] = to]

(* queueInLoop: m_funcs.enqueue(cb) claims a place, ... *)
QueueInLoop(t, k) ==
  /\ Goto(t, "idle", "link")
  /\ Len(funcs) < MaxFuncs
  /\ Funcs!Claim(k)
  /\ tidx' = [tidx EXCEPT ![t] = Len(funcs) + 1]
  /\ UNCHANGED <<looping, quit, wakeupFd, mquits, loopVars>>

(* ... links it, ... *)
QueueInLoopLink(t) ==
  /\ Goto(t, "link", "wake")
  /\ Funcs!Publish(tidx[t])
  /\ UNCHANGED <<looping, quit, wakeupFd, mquits, loopVars, tidx>>

(* Mutant: another thread does not wake the loop up. *)
WakeupMissing(t) ==
  /\ Goto(t, "wake", "idle")
  /\ UNCHANGED <<looping, quit, wakeupFd, mfuncs, mquits, func, loopVars, tidx>>

(* ... and, not being the loop thread, wakes the loop up. *)
Wakeup(t) ==
  /\ Goto(t, "wake", "idle")
  /\ wakeupFd' = TRUE
  /\ UNCHANGED <<looping, quit, mfuncs, mquits, func, loopVars, tidx>>

(* quit(): returns at once if m_quit is set already. *)
QuitCall(t) ==
  /\ Goto(t, "idle", "quitStore")
  /\ ~quit
  /\ UNCHANGED <<looping, quit, wakeupFd, mfuncs, mquits, func, loopVars, tidx>>

QuitStore(t) ==
  /\ Goto(t, "quitStore", "quitWake")
  /\ quit' = TRUE
  /\ UNCHANGED <<looping, wakeupFd, mfuncs, mquits, func, loopVars, tidx>>

QuitWakeup(t) ==
  /\ Goto(t, "quitWake", "idle")
  /\ wakeupFd' = TRUE
  /\ UNCHANGED <<looping, quit, mfuncs, mquits, func, loopVars, tidx>>

(* runOnQuit: m_funcOnQuit.enqueue(cb). *)
RunOnQuit(t, k) ==
  /\ Goto(t, "idle", "onQuitLink")
  /\ Len(quitFuncs) < MaxQuitFuncs
  /\ QuitFuncs!Claim(k)
  /\ tidx' = [tidx EXCEPT ![t] = Len(quitFuncs) + 1]
  /\ UNCHANGED <<looping, quit, wakeupFd, mfuncs, loopVars>>

RunOnQuitLink(t) ==
  /\ Goto(t, "onQuitLink", "idle")
  /\ QuitFuncs!Publish(tidx[t])
  /\ UNCHANGED <<looping, quit, wakeupFd, mfuncs, loopVars, tidx>>

ThreadStep(t) ==
  \/ QueueInLoopLink(t)
  \/ Wakeup(t)
  \/ QuitStore(t)
  \/ QuitWakeup(t)
  \/ RunOnQuitLink(t)

ThreadCall(t) ==
  \/ \E k \in Kind : QueueInLoop(t, k)
  \/ QuitCall(t)
  \/ \E k \in Kind : RunOnQuit(t, k)
-----------------------------------------------------------------------------
(* The loop thread. *)

(* It calls queueInLoop on its own loop, and then continues at `place`. *)
LoopThreadQueues(k, place) ==
  /\ Len(funcs) < MaxFuncs
  /\ Funcs!Claim(k)
  /\ lidx' = Len(funcs) + 1
  /\ lpc' = "link"
  /\ ret' = place
  /\ UNCHANGED <<looping, quit, wakeupFd, mquits, loops, threw, threadVars>>

(* Mutant: the loop thread never wakes its own loop up. *)
LoopThreadLinkNoWakeup ==
  /\ lpc = "link"
  /\ Funcs!Publish(lidx)
  /\ lpc' = ret
  /\ UNCHANGED <<looping, quit, wakeupFd, mquits, ret, lidx, active, loops, threw, threadVars>>

(* It links its node, and wakes the loop up only if it is not looping. *)
LoopThreadLink ==
  /\ lpc = "link"
  /\ Funcs!Publish(lidx)
  /\ wakeupFd' = (wakeupFd \/ ~looping)
  /\ lpc' = ret
  /\ UNCHANGED <<looping, quit, mquits, ret, lidx, active, loops, threw, threadVars>>

(* A callback of kind k runs on the loop thread and returns to `place`.  An
   exception leaves the while loop: the flag cleaner resets m_looping and
   the quit functions run; thrown by a quit function it leaves loop().
   Past the bound MaxFuncs, "spawn" does nothing. *)
RunCallback(k, place) ==
  \/ /\ k = "plain" \/ (k = "spawn" /\ Len(funcs) = MaxFuncs)
     /\ lpc' = place
     /\ UNCHANGED <<looping, quit, wakeupFd, mfuncs, mquits, func, ret, lidx, loops, threw, threadVars>>
  \/ /\ k = "spawn"
     /\ \E j \in Kind : LoopThreadQueues(j, place)
  \/ /\ k = "quit"
     /\ quit' = TRUE
     /\ lpc' = place
     /\ UNCHANGED <<looping, wakeupFd, mfuncs, mquits, func, ret, lidx, loops, threw, threadVars>>
  \/ /\ k = "throw"
     /\ threw' = TRUE
     /\ looping' = FALSE
     /\ lpc' = IF place = "quitDequeue" THEN "out" ELSE "quitDequeue"
     /\ UNCHANGED <<quit, wakeupFd, mfuncs, mquits, func, ret, lidx, loops, threadVars>>

(* queueInLoop called by the loop thread outside loop(). *)
QueueBeforeLoop ==
  /\ lpc = "out"
  /\ \E k \in Kind : LoopThreadQueues(k, "out")
  /\ UNCHANGED active

(* loop(): assert(!m_looping); m_looping = true; *)
Enter ==
  /\ lpc = "out"
  /\ loops < MaxLoops
  /\ looping' = TRUE
  /\ lpc' = "enter"
  /\ loops' = loops + 1
  /\ UNCHANGED <<quit, wakeupFd, mfuncs, mquits, func, ret, lidx, active, threw, threadVars>>

(* m_quit = false; *)
ClearQuit ==
  /\ lpc = "enter"
  /\ quit' = FALSE
  /\ lpc' = "test"
  /\ UNCHANGED <<looping, wakeupFd, mfuncs, mquits, func, ret, lidx, active, loops, threw, threadVars>>

(* Mutant: m_quit is not tested. *)
TestNothing ==
  /\ lpc = "test"
  /\ lpc' = "poll"
  /\ UNCHANGED <<looping, quit, wakeupFd, mfuncs, mquits, func, ret, lidx, active, loops, threw, threadVars>>

(* while (!m_quit) *)
Test ==
  /\ lpc = "test"
  /\ lpc' = IF quit THEN "exit" ELSE "poll"
  /\ UNCHANGED <<looping, quit, wakeupFd, mfuncs, mquits, func, ret, lidx, active, loops, threw, threadVars>>

(* m_poller->poll() returns `fds`, a set of active channels: "wakeup", or
   the kind of another channel's callback. *)
PollReturns(fds) ==
  /\ lpc = "poll"
  /\ active' = fds
  /\ lpc' = "handle"
  /\ UNCHANGED <<looping, quit, wakeupFd, mfuncs, mquits, func, ret, lidx, loops, threw, threadVars>>

OtherChannels == {{}} \cup {{k} : k \in Kind}

(* The eventfd is readable: poll() does not block. *)
PollWakeup ==
  /\ wakeupFd
  /\ \E others \in OtherChannels : PollReturns({"wakeup"} \cup others)

(* It is not: poll() waits for another channel, or for kPollTimeMs. *)
PollOther ==
  /\ ~wakeupFd
  /\ \E others \in OtherChannels : PollReturns(others)

(* handleEvent() of the wakeup channel: wakeupRead(). *)
HandleWakeup ==
  /\ lpc = "handle"
  /\ "wakeup" \in active
  /\ wakeupFd' = FALSE
  /\ active' = active \ {"wakeup"}
  /\ UNCHANGED <<looping, quit, mfuncs, mquits, func, lpc, ret, lidx, loops, threw, threadVars>>

(* handleEvent() of another channel; an exception skips the rest. *)
HandleEvent ==
  /\ lpc = "handle"
  /\ \E k \in active \cap Kind :
       /\ RunCallback(k, "handle")
       /\ active' = IF k = "throw" THEN {} ELSE active \ {k}

HandleDone ==
  /\ lpc = "handle"
  /\ active = {}
  /\ lpc' = "drain"
  /\ UNCHANGED <<looping, quit, wakeupFd, mfuncs, mquits, func, ret, lidx, active, loops, threw, threadVars>>

(* doRunInLoopFuncs: while (!m_funcs.empty()) *)
Drain ==
  /\ lpc = "drain"
  /\ lpc' = IF Funcs!Visible THEN "dequeue" ELSE "test"
  /\ UNCHANGED <<looping, quit, wakeupFd, mfuncs, mquits, func, ret, lidx, active, loops, threw, threadVars>>

(* while (m_funcs.dequeue(func)) *)
Dequeue ==
  /\ lpc = "dequeue"
  /\ \/ Funcs!Take /\ lpc' = "run"
     \/ Funcs!ReportEmpty /\ lpc' = "drain"
  /\ UNCHANGED <<looping, quit, wakeupFd, mquits, ret, lidx, active, loops, threw, threadVars>>

(* func(); *)
Run ==
  /\ lpc = "run"
  /\ RunCallback(func[1], "dequeue")
  /\ UNCHANGED active

(* The flag cleaner: m_looping = false. *)
Exit ==
  /\ lpc = "exit"
  /\ looping' = FALSE
  /\ lpc' = "quitDequeue"
  /\ UNCHANGED <<quit, wakeupFd, mfuncs, mquits, func, ret, lidx, active, loops, threw, threadVars>>

(* Mutant: loop() may return without draining m_funcOnQuit. *)
QuitDequeueNoLoop ==
  /\ lpc = "quitDequeue"
  /\ \/ QuitFuncs!Take /\ lpc' = "quitRun"
     \/ lpc' = "out" /\ UNCHANGED <<mquits, func>>
  /\ UNCHANGED <<looping, quit, wakeupFd, mfuncs, ret, lidx, active, loops, threw, threadVars>>

(* while (m_funcOnQuit.dequeue(f)), then return or rethrow. *)
QuitDequeue ==
  /\ lpc = "quitDequeue"
  /\ \/ QuitFuncs!Take /\ lpc' = "quitRun"
     \/ QuitFuncs!ReportEmpty /\ lpc' = "out"
  /\ UNCHANGED <<looping, quit, wakeupFd, mfuncs, ret, lidx, active, loops, threw, threadVars>>

(* f(); *)
QuitRun ==
  /\ lpc = "quitRun"
  /\ RunCallback(func[1], "quitDequeue")
  /\ UNCHANGED active

(* The steps of loop() once it is called. *)
LoopStep ==
  \/ ClearQuit \/ Test \/ PollWakeup \/ HandleWakeup \/ HandleEvent \/ HandleDone
  \/ Drain \/ Dequeue \/ Run \/ LoopThreadLink \/ Exit \/ QuitDequeue \/ QuitRun

LoopCall == Enter \/ QueueBeforeLoop

Next ==
  \/ \E t \in Thread : ThreadCall(t) \/ ThreadStep(t)
  \/ LoopCall
  \/ LoopStep
  \/ PollOther

Spec == Init /\ [][Next]_vars

(* Threads and the loop thread are scheduled; a started call runs to its
   end.  Neither kPollTimeMs nor events of other channels are relied on:
   the eventfd alone must get the loop going. *)
FairSpec ==
  /\ Spec
  /\ \A t \in Thread : WF_vars(ThreadStep(t))
  /\ WF_vars(LoopStep)
-----------------------------------------------------------------------------
InWhile == {"test", "poll", "handle", "drain", "dequeue", "run"}

(* Types. *)
TypeOK ==
  /\ looping \in BOOLEAN /\ quit \in BOOLEAN /\ wakeupFd \in BOOLEAN
  /\ funcs \in Seq(Kind) /\ quitFuncs \in Seq(Kind)
  /\ funcsLinked \subseteq 1..Len(funcs) /\ quitLinked \subseteq 1..Len(quitFuncs)
  /\ funcsTaken \in 0..Len(funcs) /\ quitTaken \in 0..Len(quitFuncs)
  /\ func \in {<<>>} \cup {<<k>> : k \in Kind}
  /\ lpc \in InWhile \cup {"out", "enter", "link", "exit", "quitDequeue", "quitRun"}
  /\ ret \in {"out", "handle", "dequeue", "quitDequeue"}
  /\ lidx \in Nat
  /\ active \subseteq {"wakeup"} \cup Kind
  /\ loops \in Nat
  /\ threw \in BOOLEAN
  /\ tpc \in [Thread -> {"idle", "link", "wake", "quitStore", "quitWake", "onQuitLink"}]
  /\ tidx \in [Thread -> Nat]

(* While poll() blocks, a function still in m_funcs belongs to, or waits
   behind, a queueInLoop that has not reached its wakeup() yet (lines
   214-230): no queued function is left to the poll timeout.  This covers
   functions the loop thread queued itself without any wakeup, and functions
   hidden behind another producer's unlinked node.  A thrown exception
   abandons queued functions (comment at 300) and is excluded. *)
NoLostWakeup ==
  lpc = "poll" /\ ~wakeupFd /\ funcsTaken < Len(funcs) /\ ~threw =>
    \E t \in Thread : tpc[t] \in {"link", "wake"}

(* While poll() blocks, m_quit is set only if the quit() that set it has yet
   to write the eventfd (143-149), although quit() returns early, without a
   wakeup, when it finds m_quit set by another thread. *)
NoLostQuit ==
  lpc = "poll" /\ quit /\ ~wakeupFd => \E t \in Thread : tpc[t] = "quitWake"

(* loop() returns normally only when every function given to runOnQuit has
   run, or is one whose runOnQuit call is unfinished, or is queued behind
   such a one (187-188). *)
QuitFuncsAllRun ==
  [][lpc = "quitDequeue" /\ lpc' = "out" =>
       \/ quitTaken = Len(quitFuncs)
       \/ \E t \in Thread : tpc[t] = "onQuitLink" /\ tidx[t] = quitTaken + 1]_vars

(* Once m_quit is set while the loop runs, loop() returns. *)
QuitStopsLoop ==
  (quit /\ lpc \notin {"out", "enter"}) ~> (lpc = "out")

(* A function in m_funcs runs unless loop() returns first, or a callback has
   thrown (comment at 300). *)
FuncEventuallyRuns ==
  \A i \in 1..MaxFuncs :
    (Len(funcs) >= i) ~> (funcsTaken >= i \/ lpc = "out" \/ threw)
-----------------------------------------------------------------------------
(* The inductive invariant behind these properties. *)

LoopFlag ==
  looping <=> \/ lpc \in InWhile \cup {"enter", "exit"}
              \/ lpc = "link" /\ ret \in {"handle", "dequeue"}

Owned ==
  /\ \A i \in (1..Len(funcs)) \ funcsLinked :
       \/ lpc = "link" /\ lidx = i
       \/ \E t \in Thread : tpc[t] = "link" /\ tidx[t] = i
  /\ \A i \in (1..Len(quitFuncs)) \ quitLinked :
       \E t \in Thread : tpc[t] = "onQuitLink" /\ tidx[t] = i

Announced ==
  /\ lpc \in {"out", "enter", "test", "poll", "exit", "quitDequeue", "quitRun"}
  /\ funcsTaken < Len(funcs)
  /\ ~threw
  => \/ wakeupFd
     \/ \E t \in Thread : tpc[t] \in {"link", "wake"}

(* Every place claimed in a queue and not linked belongs to a call that is
   still running, m_looping says where the loop thread is, and whenever the
   loop thread is not between poll() and the end of doRunInLoopFuncs(), a
   function left in m_funcs is announced by the eventfd or about to be. *)
LoopInv == LoopFlag /\ Owned /\ Announced /\ NoLostQuit
=============================================================================
