-------------------------- MODULE EventLoopDestroy --------------------------
(***************************************************************************)
(* ~EventLoop() called by a thread other than the loop thread while loop() *)
(* may be running (netpoll/net/eventloop.cc 90-123).  C++ object lifetime  *)
(* lets no other thread use the loop any more; the destructor itself stops *)
(* the loop thread, by quit() and by spinning on m_looping.                *)
(***************************************************************************)
EXTENDS EventLoop

VARIABLE dpc    \* where the destructor is

dvars == <<vars, dpc>>

DInit == Init /\ dpc = "none"

(* The destructor is called; its quit() finds m_quit set or not. *)
DtorCall ==
  /\ dpc = "none"
  /\ lpc # "out" /\ ~(lpc = "link" /\ ret = "out")
  /\ \A t \in Thread : tpc[t] = "idle"
  /\ dpc' = IF quit THEN "spin" ELSE "quitStore"
  /\ UNCHANGED vars

DtorStoresQuit ==
  /\ dpc = "quitStore"
  /\ quit' = TRUE
  /\ dpc' = "quitWake"
  /\ UNCHANGED <<looping, wakeupFd, mfuncs, mquits, func, loopVars, threadVars>>

DtorWakesLoop ==
  /\ dpc = "quitWake"
  /\ wakeupFd' = TRUE
  /\ dpc' = "spin"
  /\ UNCHANGED <<looping, quit, mfuncs, mquits, func, loopVars, threadVars>>

(* Mutant: the destructor does not wait for m_looping. *)
DtorSpinSkipped ==
  /\ dpc = "spin"
  /\ dpc' = "destroyed"
  /\ UNCHANGED vars

(* while (m_looping) nanosleep; then the members are destroyed. *)
DtorSpinEnds ==
  /\ dpc = "spin"
  /\ ~looping
  /\ dpc' = "destroyed"
  /\ UNCHANGED vars

DtorStep == DtorCall \/ DtorStoresQuit \/ DtorWakesLoop \/ DtorSpinEnds

DNext ==
  \/ /\ dpc = "none"
     /\ \/ \E t \in Thread : ThreadCall(t)
        \/ LoopCall
     /\ UNCHANGED dpc
  \/ /\ \E t \in Thread : ThreadStep(t)
     /\ UNCHANGED dpc
  \/ /\ LoopStep \/ PollOther
     /\ UNCHANGED dpc
  \/ DtorStep

DSpec == DInit /\ [][DNext]_dvars

(* The loop thread and the destructor's thread are scheduled. *)
DFairSpec ==
  /\ DSpec
  /\ \A t \in Thread : WF_dvars(ThreadStep(t) /\ UNCHANGED dpc)
  /\ WF_dvars(LoopStep /\ UNCHANGED dpc)
  /\ WF_dvars(DtorStoresQuit \/ DtorWakesLoop \/ DtorSpinEnds)

(* Once the members are destroyed, the loop thread polls, handles channels
   and drains m_funcs no more: at most it still runs quit functions. *)
NoLoopAfterDestruction ==
  dpc = "destroyed" =>
    \/ lpc \in {"quitDequeue", "quitRun", "out"}
    \/ lpc = "link" /\ ret = "quitDequeue"

(* The destructor of a loop that is past the head of loop() finishes: its
   quit() ends the while loop it then spins on (98-113). *)
DestructorReturns ==
  (dpc = "quitStore" /\ lpc \notin {"enter", "out"}) ~> (dpc = "destroyed")
-----------------------------------------------------------------------------
(* The inductive invariant behind NoLoopAfterDestruction: m_looping says where
   the loop thread is, no call of loop() or queueInLoop begins once the
   destructor has, and the destructor's last test found m_looping false. *)
DestroyInv ==
  /\ TypeOK /\ LoopFlag
  /\ dpc \in {"none", "quitStore", "quitWake", "spin", "destroyed"}
  /\ dpc # "none" /\ lpc = "link" => ret # "out"
  /\ dpc = "destroyed" => ~looping
=============================================================================
