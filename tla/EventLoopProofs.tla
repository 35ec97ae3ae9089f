--------------------------- MODULE EventLoopProofs --------------------------
(***************************************************************************)
(* Proofs about EventLoop, for any number of threads, functions and calls: *)
(* no wakeup and no quit is lost, and loop() runs every quit function; the *)
(* destructor outlives the loop; and the thread that owns a loop, and      *)
(* those that use it, see it only while it is there.                       *)
(***************************************************************************)
EXTENDS EventLoopDestroy, EventLoopThread, TLAPS

(* A callback keeps the types, whatever its kind and wherever it returns. *)
LEMMA CallbackTypes ==
  ASSUME TypeOK, NEW k, NEW place \in {"handle", "dequeue", "quitDequeue"},
         RunCallback(k, place), active' \subseteq {"wakeup"} \cup Kind
  PROVE  TypeOK'
<1> USE EventLoopAssumption
    DEF TypeOK, InWhile, mfuncs, mquits, loopVars, threadVars
<1>1. CASE \E j \in Kind : LoopThreadQueues(j, place)
  BY <1>1 DEF LoopThreadQueues, Funcs!Claim
<1>2. CASE k = "quit" /\ quit' = TRUE /\ lpc' = place
           /\ UNCHANGED <<looping, wakeupFd, mfuncs, mquits, func, ret, lidx, loops, threw, threadVars>>
  BY <1>2, Zenon
<1>3. CASE lpc' = place
           /\ UNCHANGED <<looping, quit, wakeupFd, mfuncs, mquits, func, ret, lidx, loops, threw, threadVars>>
  BY <1>3, Zenon
<1>4. CASE threw' = TRUE /\ looping' = FALSE
           /\ lpc' = (IF place = "quitDequeue" THEN "out" ELSE "quitDequeue")
           /\ UNCHANGED <<quit, wakeupFd, mfuncs, mquits, func, ret, lidx, loops, threadVars>>
  BY <1>4, Zenon
<1> QED
  BY <1>1, <1>2, <1>3, <1>4, Zenon DEF RunCallback

(* Every step keeps the variables in their types. *)
LEMMA TypeStep == TypeOK /\ [Next]_vars => TypeOK'
<1> SUFFICES ASSUME TypeOK, [Next]_vars
             PROVE  TypeOK'
  BY Zenon
<1> USE EventLoopAssumption
    DEF TypeOK, InWhile, mfuncs, mquits, loopVars, threadVars
<1>1. ASSUME NEW t \in Thread, NEW k \in Kind, QueueInLoop(t, k)
      PROVE  TypeOK'
  BY <1>1 DEF QueueInLoop, Goto, Funcs!Claim
<1>2. ASSUME NEW t \in Thread, QueueInLoopLink(t)
      PROVE  TypeOK'
  BY <1>2, ZenonT(30) DEF QueueInLoopLink, Goto, Funcs!Publish
<1>3. ASSUME NEW t \in Thread, Wakeup(t)
      PROVE  TypeOK'
  BY <1>3, ZenonT(30) DEF Wakeup, Goto
<1>4. ASSUME NEW t \in Thread, QuitCall(t)
      PROVE  TypeOK'
  BY <1>4 DEF QuitCall, Goto
<1>5. ASSUME NEW t \in Thread, QuitStore(t)
      PROVE  TypeOK'
  BY <1>5, ZenonT(30) DEF QuitStore, Goto
<1>6. ASSUME NEW t \in Thread, QuitWakeup(t)
      PROVE  TypeOK'
  BY <1>6, Zenon DEF QuitWakeup, Goto
<1>7. ASSUME NEW t \in Thread, NEW k \in Kind, RunOnQuit(t, k)
      PROVE  TypeOK'
  BY <1>7 DEF RunOnQuit, Goto, QuitFuncs!Claim
<1>8. ASSUME NEW t \in Thread, RunOnQuitLink(t)
      PROVE  TypeOK'
  BY <1>8, ZenonT(30) DEF RunOnQuitLink, Goto, QuitFuncs!Publish
<1>9. CASE QueueBeforeLoop
  BY <1>9 DEF QueueBeforeLoop, LoopThreadQueues, Funcs!Claim
<1>10. CASE Enter
  BY <1>10 DEF Enter
<1>11. CASE ClearQuit
  BY <1>11, Zenon DEF ClearQuit
<1>12. CASE Test
  BY <1>12, Zenon DEF Test
<1>13. CASE PollWakeup
  BY <1>13, Zenon DEF PollWakeup, PollReturns, OtherChannels
<1>14. CASE PollOther
  BY <1>14 DEF PollOther, PollReturns, OtherChannels
<1>15. CASE HandleWakeup
  BY <1>15, Zenon DEF HandleWakeup
<1>16. CASE HandleEvent
  <2>1. PICK k \in active \cap Kind :
          RunCallback(k, "handle") /\ active' = IF k = "throw" THEN {} ELSE active \ {k}
    BY <1>16, Zenon DEF HandleEvent
  <2> QED
    BY <2>1, CallbackTypes, Zenon
<1>17. CASE HandleDone
  BY <1>17, Zenon DEF HandleDone
<1>18. CASE Drain
  BY <1>18, Zenon DEF Drain, Funcs!Visible
<1>19. CASE Dequeue
  <2>1. CASE Funcs!Take
    <3>1. funcsTaken + 1 \in 1..Len(funcs)
      BY <2>1, Zenon DEF Funcs!Take, Funcs!Visible
    <3>2. funcs[funcsTaken + 1] \in Kind
      BY <3>1
    <3>3. func' \in {<<j>> : j \in Kind}
      BY <2>1, <3>2, Zenon DEF Funcs!Take
    <3> QED
      BY <1>19, <2>1, <3>1, <3>3 DEF Dequeue, Funcs!Take, Funcs!ReportEmpty
  <2>2. CASE Funcs!ReportEmpty
    BY <1>19, <2>2, Zenon DEF Dequeue, Funcs!Take, Funcs!ReportEmpty
  <2> QED
    BY <1>19, <2>1, <2>2, Zenon DEF Dequeue
<1>20. CASE Run
  BY <1>20, CallbackTypes, Zenon DEF Run
<1>21. CASE LoopThreadLink
  BY <1>21, Zenon DEF LoopThreadLink, Funcs!Publish
<1>22. CASE Exit
  BY <1>22, Zenon DEF Exit
<1>23. CASE QuitDequeue
  <2>1. CASE QuitFuncs!Take
    <3>1. quitTaken + 1 \in 1..Len(quitFuncs)
      BY <2>1, Zenon DEF QuitFuncs!Take, QuitFuncs!Visible
    <3>2. quitFuncs[quitTaken + 1] \in Kind
      BY <3>1
    <3>3. func' \in {<<j>> : j \in Kind}
      BY <2>1, <3>2, Zenon DEF QuitFuncs!Take
    <3> QED
      BY <1>23, <2>1, <3>1, <3>3 DEF QuitDequeue, QuitFuncs!Take, QuitFuncs!ReportEmpty
  <2>2. CASE QuitFuncs!ReportEmpty
    BY <1>23, <2>2, Zenon DEF QuitDequeue, QuitFuncs!Take, QuitFuncs!ReportEmpty
  <2> QED
    BY <1>23, <2>1, <2>2, Zenon DEF QuitDequeue
<1>24. CASE QuitRun
  BY <1>24, CallbackTypes, Zenon DEF QuitRun
<1>25. CASE UNCHANGED vars
  BY <1>25 DEF vars
<1> QED
  BY <1>1, <1>2, <1>3, <1>4, <1>5, <1>6, <1>7, <1>8, <1>9, <1>10, <1>11, <1>12, <1>13, <1>14, <1>15, <1>16, <1>17, <1>18, <1>19, <1>20, <1>21, <1>22, <1>23, <1>24, <1>25, Zenon
  DEF Next, ThreadCall, ThreadStep, LoopCall, LoopStep

(* m_looping keeps saying where the loop thread is. *)
LEMMA FlagStep == TypeOK /\ LoopFlag /\ [Next]_vars => LoopFlag'
<1> SUFFICES ASSUME TypeOK, LoopFlag, [Next]_vars
             PROVE  LoopFlag'
  BY Zenon
<1> USE DEF TypeOK, InWhile, LoopFlag, mfuncs, mquits, loopVars, threadVars
<1>1. ASSUME NEW t \in Thread, NEW k \in Kind, QueueInLoop(t, k)
      PROVE  LoopFlag'
  BY <1>1, Zenon DEF QueueInLoop, Goto, Funcs!Claim
<1>2. ASSUME NEW t \in Thread, QueueInLoopLink(t)
      PROVE  LoopFlag'
  BY <1>2, Zenon DEF QueueInLoopLink, Goto, Funcs!Publish
<1>3. ASSUME NEW t \in Thread, Wakeup(t)
      PROVE  LoopFlag'
  BY <1>3, Zenon DEF Wakeup, Goto
<1>4. ASSUME NEW t \in Thread, QuitCall(t)
      PROVE  LoopFlag'
  BY <1>4, Zenon DEF QuitCall, Goto
<1>5. ASSUME NEW t \in Thread, QuitStore(t)
      PROVE  LoopFlag'
  BY <1>5, Zenon DEF QuitStore, Goto
<1>6. ASSUME NEW t \in Thread, QuitWakeup(t)
      PROVE  LoopFlag'
  BY <1>6, Zenon DEF QuitWakeup, Goto
<1>7. ASSUME NEW t \in Thread, NEW k \in Kind, RunOnQuit(t, k)
      PROVE  LoopFlag'
  BY <1>7, Zenon DEF RunOnQuit, Goto, QuitFuncs!Claim
<1>8. ASSUME NEW t \in Thread, RunOnQuitLink(t)
      PROVE  LoopFlag'
  BY <1>8, Zenon DEF RunOnQuitLink, Goto, QuitFuncs!Publish
<1>9. CASE QueueBeforeLoop
  BY <1>9, Zenon DEF QueueBeforeLoop, LoopThreadQueues, Funcs!Claim
<1>10. CASE Enter
  BY <1>10, Zenon DEF Enter
<1>11. CASE ClearQuit
  BY <1>11, Zenon DEF ClearQuit
<1>12. CASE Test
  BY <1>12, Zenon DEF Test
<1>13. CASE PollWakeup
  BY <1>13, Zenon DEF PollWakeup, PollReturns
<1>14. CASE PollOther
  BY <1>14, Zenon DEF PollOther, PollReturns
<1>15. CASE HandleWakeup
  BY <1>15, Zenon DEF HandleWakeup
<1>16. CASE HandleEvent
  BY <1>16, Zenon DEF HandleEvent, RunCallback, LoopThreadQueues, Funcs!Claim
<1>17. CASE HandleDone
  BY <1>17, Zenon DEF HandleDone
<1>18. CASE Drain
  BY <1>18, Zenon DEF Drain, Funcs!Visible
<1>19. CASE Dequeue
  BY <1>19, Zenon DEF Dequeue, Funcs!Take, Funcs!ReportEmpty
<1>20. CASE Run
  BY <1>20, Zenon DEF Run, RunCallback, LoopThreadQueues, Funcs!Claim
<1>21. CASE LoopThreadLink
  BY <1>21, Zenon DEF LoopThreadLink, Funcs!Publish
<1>22. CASE Exit
  BY <1>22, Zenon DEF Exit
<1>23. CASE QuitDequeue
  BY <1>23, Zenon DEF QuitDequeue, QuitFuncs!Take, QuitFuncs!ReportEmpty
<1>24. CASE QuitRun
  BY <1>24, Zenon DEF QuitRun, RunCallback, LoopThreadQueues, Funcs!Claim
<1>25. CASE UNCHANGED vars
  BY <1>25, Zenon DEF vars
<1> QED
  BY <1>1, <1>2, <1>3, <1>4, <1>5, <1>6, <1>7, <1>8, <1>9, <1>10, <1>11, 
     <1>12, <1>13, <1>14, <1>15, <1>16, <1>17, <1>18, <1>19, <1>20, <1>21, 
     <1>22, <1>23, <1>24, <1>25, Zenon
  DEF Next, ThreadCall, ThreadStep, LoopCall, LoopStep

(* A claimed place stays owned by the running call until it is linked. *)
LEMMA OwnedStep == TypeOK /\ Owned /\ [Next]_vars => Owned'
<1> SUFFICES ASSUME TypeOK, Owned, [Next]_vars
             PROVE  Owned'
  BY Zenon
<1> USE DEF TypeOK, InWhile, Owned, mfuncs, mquits, loopVars, threadVars
<1>1. ASSUME NEW t \in Thread, NEW k \in Kind, QueueInLoop(t, k)
      PROVE  Owned'
  <2>1. /\ Len(funcs') = Len(funcs) + 1 /\ funcsLinked' = funcsLinked /\ lpc' = lpc /\ lidx' = lidx
        /\ quitFuncs' = quitFuncs /\ quitLinked' = quitLinked
    BY <1>1 DEF QueueInLoop, Funcs!Claim
  <2>2. /\ tpc[t] = "idle" /\ tpc'[t] = "link" /\ tidx'[t] = Len(funcs) + 1
        /\ \A u \in Thread : u # t => tpc'[u] = tpc[u] /\ tidx'[u] = tidx[u]
    BY <1>1 DEF QueueInLoop, Goto
  <2>3. \A i \in 1..Len(funcs') : i \in 1..Len(funcs) \/ i = Len(funcs) + 1
    BY <2>1
  <2>4. ASSUME NEW i \in (1..Len(funcs')) \ funcsLinked'
        PROVE  (lpc' = "link" /\ lidx' = i) \/ \E u \in Thread : tpc'[u] = "link" /\ tidx'[u] = i
    <3>1. CASE i \in 1..Len(funcs)
      <4>1. (lpc = "link" /\ lidx = i) \/ \E u \in Thread : tpc[u] = "link" /\ tidx[u] = i
        BY <2>1, <2>4, <3>1, Zenon
      <4> QED
        BY <2>1, <2>2, <4>1, ZenonT(30)
    <3>2. CASE i = Len(funcs) + 1
      BY <2>2, <3>2, Zenon
    <3> QED
      BY <2>3, <2>4, <3>1, <3>2, Zenon
  <2>5. \A i \in (1..Len(quitFuncs')) \ quitLinked' :
          \E u \in Thread : tpc'[u] = "onQuitLink" /\ tidx'[u] = i
    <3>1. \A i \in (1..Len(quitFuncs)) \ quitLinked :
            \E u \in Thread : u # t /\ tpc[u] = "onQuitLink" /\ tidx[u] = i
      BY <2>2
    <3> QED
      BY <2>1, <2>2, <3>1
  <2> QED
    BY <2>4, <2>5, Zenon
<1>2. ASSUME NEW t \in Thread, QueueInLoopLink(t)
      PROVE  Owned'
  BY <1>2, ZenonT(30) DEF QueueInLoopLink, Goto, Funcs!Publish
<1>3. ASSUME NEW t \in Thread, Wakeup(t)
      PROVE  Owned'
  BY <1>3, ZenonT(30) DEF Wakeup, Goto
<1>4. ASSUME NEW t \in Thread, QuitCall(t)
      PROVE  Owned'
  BY <1>4 DEF QuitCall, Goto
<1>5. ASSUME NEW t \in Thread, QuitStore(t)
      PROVE  Owned'
  BY <1>5, ZenonT(30) DEF QuitStore, Goto
<1>6. ASSUME NEW t \in Thread, QuitWakeup(t)
      PROVE  Owned'
  BY <1>6 DEF QuitWakeup, Goto
<1>7. ASSUME NEW t \in Thread, NEW k \in Kind, RunOnQuit(t, k)
      PROVE  Owned'
  <2>1. (1..Len(funcs')) \ funcsLinked' = (1..Len(funcs)) \ funcsLinked
    BY <1>7, Zenon DEF RunOnQuit
  <2>2. ASSUME NEW i \in (1..Len(quitFuncs')) \ quitLinked'
        PROVE  \E s \in Thread : tpc'[s] = "onQuitLink" /\ tidx'[s] = i
    <3>1. Len(quitFuncs') = Len(quitFuncs) + 1 /\ quitLinked' = quitLinked
      BY <1>7 DEF RunOnQuit, QuitFuncs!Claim
    <3>2. CASE i = Len(quitFuncs) + 1
      BY <1>7, <3>2 DEF RunOnQuit, Goto
    <3>3. CASE i \in (1..Len(quitFuncs)) \ quitLinked
      BY <1>7, <3>3, Zenon DEF RunOnQuit, Goto
    <3> QED
      BY <3>1, <3>2, <3>3
  <2>3. ASSUME NEW i \in (1..Len(funcs)) \ funcsLinked
        PROVE  \/ lpc' = "link" /\ lidx' = i
               \/ \E s \in Thread : tpc'[s] = "link" /\ tidx'[s] = i
    BY <1>7, Zenon DEF RunOnQuit, Goto
  <2> QED
    BY <2>1, <2>2, <2>3, Zenon
<1>8. ASSUME NEW t \in Thread, RunOnQuitLink(t)
      PROVE  Owned'
  BY <1>8, ZenonT(30) DEF RunOnQuitLink, Goto, QuitFuncs!Publish
<1>9. CASE QueueBeforeLoop
  BY <1>9, SMTT(30) DEF QueueBeforeLoop, LoopThreadQueues, Funcs!Claim
<1>10. CASE Enter
  BY <1>10, Zenon DEF Enter
<1>11. CASE ClearQuit
  BY <1>11, Zenon DEF ClearQuit
<1>12. CASE Test
  BY <1>12, Zenon DEF Test
<1>13. CASE PollWakeup
  BY <1>13 DEF PollWakeup, PollReturns
<1>14. CASE PollOther
  BY <1>14 DEF PollOther, PollReturns
<1>15. CASE HandleWakeup
  BY <1>15, Zenon DEF HandleWakeup
<1>16. CASE HandleEvent
  BY <1>16 DEF HandleEvent, RunCallback, LoopThreadQueues, Funcs!Claim
<1>17. CASE HandleDone
  BY <1>17, Zenon DEF HandleDone
<1>18. CASE Drain
  BY <1>18, Zenon DEF Drain, Funcs!Visible
<1>19. CASE Dequeue
  BY <1>19, Zenon DEF Dequeue, Funcs!Take, Funcs!ReportEmpty
<1>20. CASE Run
  BY <1>20, SMTT(30) DEF Run, RunCallback, LoopThreadQueues, Funcs!Claim
<1>21. CASE LoopThreadLink
  BY <1>21, Zenon DEF LoopThreadLink, Funcs!Publish
<1>22. CASE Exit
  BY <1>22, Zenon DEF Exit
<1>23. CASE QuitDequeue
  BY <1>23, Zenon DEF QuitDequeue, QuitFuncs!Take, QuitFuncs!ReportEmpty
<1>24. CASE QuitRun
  BY <1>24, SMTT(30) DEF QuitRun, RunCallback, LoopThreadQueues, Funcs!Claim
<1>25. CASE UNCHANGED vars
  BY <1>25, Zenon DEF vars
<1> QED
  BY <1>1, <1>2, <1>3, <1>4, <1>5, <1>6, <1>7, <1>8, <1>9, <1>10, <1>11, 
     <1>12, <1>13, <1>14, <1>15, <1>16, <1>17, <1>18, <1>19, <1>20, <1>21, 
     <1>22, <1>23, <1>24, <1>25, Zenon
  DEF Next, ThreadCall, ThreadStep, LoopCall, LoopStep

(* A function left in m_funcs stays announced. *)
LEMMA AnnouncedStep == TypeOK /\ LoopFlag /\ Owned /\ Announced /\ [Next]_vars => Announced'
<1> SUFFICES ASSUME TypeOK, LoopFlag, Owned, Announced, [Next]_vars
             PROVE  Announced'
  BY Zenon
<1> USE DEF TypeOK, InWhile, LoopFlag, Announced, mfuncs, mquits, loopVars, threadVars
<1>1. ASSUME NEW t \in Thread, NEW k \in Kind, QueueInLoop(t, k)
      PROVE  Announced'
  BY <1>1, Zenon DEF QueueInLoop, Goto, Funcs!Claim
<1>2. ASSUME NEW t \in Thread, QueueInLoopLink(t)
      PROVE  Announced'
  BY <1>2, Zenon DEF QueueInLoopLink, Goto, Funcs!Publish
<1>3. ASSUME NEW t \in Thread, Wakeup(t)
      PROVE  Announced'
  BY <1>3, Zenon DEF Wakeup, Goto
<1>4. ASSUME NEW t \in Thread, QuitCall(t)
      PROVE  Announced'
  BY <1>4, Zenon DEF QuitCall, Goto
<1>5. ASSUME NEW t \in Thread, QuitStore(t)
      PROVE  Announced'
  BY <1>5, Zenon DEF QuitStore, Goto
<1>6. ASSUME NEW t \in Thread, QuitWakeup(t)
      PROVE  Announced'
  BY <1>6, Zenon DEF QuitWakeup, Goto
<1>7. ASSUME NEW t \in Thread, NEW k \in Kind, RunOnQuit(t, k)
      PROVE  Announced'
  BY <1>7, Zenon DEF RunOnQuit, Goto, QuitFuncs!Claim
<1>8. ASSUME NEW t \in Thread, RunOnQuitLink(t)
      PROVE  Announced'
  BY <1>8, Zenon DEF RunOnQuitLink, Goto, QuitFuncs!Publish
<1>9. CASE QueueBeforeLoop
  BY <1>9, Zenon DEF QueueBeforeLoop, LoopThreadQueues, Funcs!Claim
<1>10. CASE Enter
  BY <1>10, Zenon DEF Enter
<1>11. CASE ClearQuit
  BY <1>11, Zenon DEF ClearQuit
<1>12. CASE Test
  BY <1>12, Zenon DEF Test
<1>13. CASE PollWakeup
  BY <1>13, Zenon DEF PollWakeup, PollReturns
<1>14. CASE PollOther
  BY <1>14, Zenon DEF PollOther, PollReturns
<1>15. CASE HandleWakeup
  BY <1>15, Zenon DEF HandleWakeup
<1>16. CASE HandleEvent
  BY <1>16, Zenon DEF HandleEvent, RunCallback, LoopThreadQueues, Funcs!Claim
<1>17. CASE HandleDone
  BY <1>17, Zenon DEF HandleDone
<1>18. CASE Drain
  <2>1. CASE Funcs!Visible
    BY <1>18, <2>1, Zenon DEF Drain
  <2>2. CASE ~Funcs!Visible /\ funcsTaken < Len(funcs)
    <3>1. funcsTaken + 1 \in (1..Len(funcs)) \ funcsLinked
      BY <2>2 DEF Funcs!Visible
    <3>2. \E t \in Thread : tpc[t] = "link"
      BY <1>18, <3>1, Zenon DEF Drain, Owned
    <3> QED
      BY <1>18, <3>2, Zenon DEF Drain
  <2>3. CASE funcsTaken = Len(funcs)
    BY <1>18, <2>3 DEF Drain
  <2> QED
    BY <2>1, <2>2, <2>3
<1>19. CASE Dequeue
  BY <1>19, Zenon DEF Dequeue, Funcs!Take, Funcs!ReportEmpty
<1>20. CASE Run
  BY <1>20, Zenon DEF Run, RunCallback, LoopThreadQueues, Funcs!Claim
<1>21. CASE LoopThreadLink
  BY <1>21, Zenon DEF LoopThreadLink, Funcs!Publish
<1>22. CASE Exit
  BY <1>22, Zenon DEF Exit
<1>23. CASE QuitDequeue
  BY <1>23, Zenon DEF QuitDequeue, QuitFuncs!Take, QuitFuncs!ReportEmpty
<1>24. CASE QuitRun
  BY <1>24, Zenon DEF QuitRun, RunCallback, LoopThreadQueues, Funcs!Claim
<1>25. CASE UNCHANGED vars
  BY <1>25, Zenon DEF vars
<1> QED
  BY <1>1, <1>2, <1>3, <1>4, <1>5, <1>6, <1>7, <1>8, <1>9, <1>10, <1>11, 
     <1>12, <1>13, <1>14, <1>15, <1>16, <1>17, <1>18, <1>19, <1>20, <1>21, 
     <1>22, <1>23, <1>24, <1>25, Zenon
  DEF Next, ThreadCall, ThreadStep, LoopCall, LoopStep

(* quit() is noticed or followed by a write to the eventfd. *)
LEMMA QuitStep == TypeOK /\ NoLostQuit /\ [Next]_vars => NoLostQuit'
<1> SUFFICES ASSUME TypeOK, NoLostQuit, [Next]_vars
             PROVE  NoLostQuit'
  BY Zenon
<1> USE DEF TypeOK, InWhile, NoLostQuit, mfuncs, mquits, loopVars, threadVars
<1>1. ASSUME NEW t \in Thread, NEW k \in Kind, QueueInLoop(t, k)
      PROVE  NoLostQuit'
  BY <1>1, Zenon DEF QueueInLoop, Goto, Funcs!Claim
<1>2. ASSUME NEW t \in Thread, QueueInLoopLink(t)
      PROVE  NoLostQuit'
  BY <1>2, Zenon DEF QueueInLoopLink, Goto, Funcs!Publish
<1>3. ASSUME NEW t \in Thread, Wakeup(t)
      PROVE  NoLostQuit'
  BY <1>3, Zenon DEF Wakeup, Goto
<1>4. ASSUME NEW t \in Thread, QuitCall(t)
      PROVE  NoLostQuit'
  BY <1>4, Zenon DEF QuitCall, Goto
<1>5. ASSUME NEW t \in Thread, QuitStore(t)
      PROVE  NoLostQuit'
  BY <1>5, Zenon DEF QuitStore, Goto
<1>6. ASSUME NEW t \in Thread, QuitWakeup(t)
      PROVE  NoLostQuit'
  BY <1>6, Zenon DEF QuitWakeup, Goto
<1>7. ASSUME NEW t \in Thread, NEW k \in Kind, RunOnQuit(t, k)
      PROVE  NoLostQuit'
  BY <1>7, Zenon DEF RunOnQuit, Goto, QuitFuncs!Claim
<1>8. ASSUME NEW t \in Thread, RunOnQuitLink(t)
      PROVE  NoLostQuit'
  BY <1>8, Zenon DEF RunOnQuitLink, Goto, QuitFuncs!Publish
<1>9. CASE QueueBeforeLoop
  BY <1>9, Zenon DEF QueueBeforeLoop, LoopThreadQueues, Funcs!Claim
<1>10. CASE Enter
  BY <1>10, Zenon DEF Enter
<1>11. CASE ClearQuit
  BY <1>11, Zenon DEF ClearQuit
<1>12. CASE Test
  BY <1>12, Zenon DEF Test
<1>13. CASE PollWakeup
  BY <1>13, Zenon DEF PollWakeup, PollReturns
<1>14. CASE PollOther
  BY <1>14, Zenon DEF PollOther, PollReturns
<1>15. CASE HandleWakeup
  BY <1>15, Zenon DEF HandleWakeup
<1>16. CASE HandleEvent
  BY <1>16, Zenon DEF HandleEvent, RunCallback, LoopThreadQueues, Funcs!Claim
<1>17. CASE HandleDone
  BY <1>17, Zenon DEF HandleDone
<1>18. CASE Drain
  BY <1>18, Zenon DEF Drain, Funcs!Visible
<1>19. CASE Dequeue
  BY <1>19, Zenon DEF Dequeue, Funcs!Take, Funcs!ReportEmpty
<1>20. CASE Run
  BY <1>20, Zenon DEF Run, RunCallback, LoopThreadQueues, Funcs!Claim
<1>21. CASE LoopThreadLink
  BY <1>21, Zenon DEF LoopThreadLink, Funcs!Publish
<1>22. CASE Exit
  BY <1>22, Zenon DEF Exit
<1>23. CASE QuitDequeue
  BY <1>23, Zenon DEF QuitDequeue, QuitFuncs!Take, QuitFuncs!ReportEmpty
<1>24. CASE QuitRun
  BY <1>24, Zenon DEF QuitRun, RunCallback, LoopThreadQueues, Funcs!Claim
<1>25. CASE UNCHANGED vars
  BY <1>25, Zenon DEF vars
<1> QED
  BY <1>1, <1>2, <1>3, <1>4, <1>5, <1>6, <1>7, <1>8, <1>9, <1>10, <1>11, 
     <1>12, <1>13, <1>14, <1>15, <1>16, <1>17, <1>18, <1>19, <1>20, <1>21, 
     <1>22, <1>23, <1>24, <1>25, Zenon
  DEF Next, ThreadCall, ThreadStep, LoopCall, LoopStep

(* What the exit step of loop() sees in m_funcOnQuit. *)
LEMMA QuitExit ==
  ASSUME TypeOK, Owned, [Next]_vars, lpc = "quitDequeue", lpc' = "out"
  PROVE  \/ quitTaken = Len(quitFuncs)
         \/ \E t \in Thread : tpc[t] = "onQuitLink" /\ tidx[t] = quitTaken + 1
<1>1. QuitDequeue
  BY Zenon DEF Next, ThreadCall, ThreadStep, LoopCall, LoopStep, vars, loopVars,
    QueueInLoop, QueueInLoopLink, Wakeup, QuitCall, QuitStore, QuitWakeup,
    RunOnQuit, RunOnQuitLink, Enter, QueueBeforeLoop, ClearQuit, Test,
    PollWakeup, PollOther, HandleWakeup, HandleEvent, HandleDone, Drain,
    Dequeue, Run, LoopThreadLink, Exit, QuitRun, PollReturns
<1>2. ~QuitFuncs!Visible
  BY <1>1, Zenon DEF QuitDequeue, QuitFuncs!ReportEmpty
<1>3. CASE quitTaken < Len(quitFuncs)
  <2>1. quitTaken + 1 \in (1..Len(quitFuncs)) \ quitLinked
    BY <1>2, <1>3 DEF QuitFuncs!Visible, TypeOK
  <2> QED
    BY <2>1, Zenon DEF Owned
<1> QED
  BY <1>3 DEF TypeOK
-----------------------------------------------------------------------------
(* The loop begins in its invariant. *)
LEMMA LoopInit == Init => TypeOK /\ LoopInv
<1>1. Init => TypeOK
  <2>1. <<>> \in Seq(Kind) /\ Len(<<>>) = 0
    OBVIOUS
  <2> SUFFICES ASSUME Init
               PROVE  TypeOK
    BY Zenon
  <2>2. /\ funcs \in Seq(Kind) /\ quitFuncs \in Seq(Kind)
        /\ funcsLinked \subseteq 1..Len(funcs) /\ quitLinked \subseteq 1..Len(quitFuncs)
        /\ funcsTaken \in 0..Len(funcs) /\ quitTaken \in 0..Len(quitFuncs)
    BY <2>1 DEF Init, Funcs!FifoInit, QuitFuncs!FifoInit
  <2>3. func \in {<<>>} \cup {<<k>> : k \in Kind}
    BY Zenon DEF Init, Funcs!FifoInit
  <2>4. /\ tpc \in [Thread -> {"idle", "link", "wake", "quitStore", "quitWake", "onQuitLink"}]
        /\ tidx \in [Thread -> Nat]
    BY Zenon DEF Init
  <2> QED
    BY <2>2, <2>3, <2>4, Zenon DEF Init, TypeOK, InWhile
<1>2. Init => LoopInv
  BY DEF Init, LoopInv, LoopFlag, Owned, Announced, NoLostQuit, InWhile,
         Funcs!FifoInit, QuitFuncs!FifoInit
<1> QED
  BY <1>1, <1>2, Zenon

(* Every reachable state of the loop satisfies the inductive invariant. *)
THEOREM LoopInvariant == Spec => [](TypeOK /\ LoopInv)
<1>1. TypeOK /\ LoopInv /\ [Next]_vars => (TypeOK /\ LoopInv)'
  BY TypeStep, FlagStep, OwnedStep, AnnouncedStep, QuitStep, Zenon DEF LoopInv
<1> QED
  BY LoopInit, <1>1, PTL DEF Spec

(* poll() never blocks on a function that nobody is about to announce: the
   wakeups of queueInLoop (eventloop.cc 214-230) are enough, for any number
   of threads and functions. *)
THEOREM WakeupsSuffice == Spec => []NoLostWakeup
<1>1. LoopInv => NoLostWakeup
  BY Zenon DEF LoopInv, Announced, NoLostWakeup
<1> QED
  BY <1>1, LoopInvariant, PTL

(* poll() never blocks on an m_quit nobody is about to announce, early
   return of quit() (143-149) included. *)
THEOREM QuitIsAnnounced == Spec => []NoLostQuit
<1>1. LoopInv => NoLostQuit
  BY Zenon DEF LoopInv
<1> QED
  BY <1>1, LoopInvariant, PTL

(* loop() returns normally (187-204) only after every finished runOnQuit,
   and not behind an unfinished one, has had its function run. *)
THEOREM QuitFunctionsRun == Spec => QuitFuncsAllRun
<1>1. TypeOK /\ LoopInv /\ [Next]_vars =>
        [lpc = "quitDequeue" /\ lpc' = "out" =>
           \/ quitTaken = Len(quitFuncs)
           \/ \E t \in Thread : tpc[t] = "onQuitLink" /\ tidx[t] = quitTaken + 1]_vars
  BY QuitExit, Zenon DEF LoopInv
<1> QED
  BY <1>1, LoopInvariant, PTL DEF Spec, QuitFuncsAllRun
-----------------------------------------------------------------------------
(* The destructor. *)

(* Nothing but a call of loop() sets m_looping, and a queueInLoop that returns
   outside loop() is begun there. *)
LEMMA LoopStepKeeps ==
  ASSUME TypeOK, LoopStep \/ PollOther
  PROVE  /\ ~looping => ~looping'
         /\ lpc' = "link" => ret' # "out"
<1> USE DEF TypeOK, InWhile, mfuncs, mquits, loopVars, threadVars
<1>1. CASE HandleEvent
  BY <1>1 DEF HandleEvent, RunCallback, LoopThreadQueues, Funcs!Claim
<1>2. CASE Run
  BY <1>2 DEF Run, RunCallback, LoopThreadQueues, Funcs!Claim
<1>3. CASE QuitRun
  BY <1>3 DEF QuitRun, RunCallback, LoopThreadQueues, Funcs!Claim
<1> QED
  BY <1>1, <1>2, <1>3
  DEF LoopStep, PollOther, ClearQuit, Test, PollWakeup, PollReturns, HandleWakeup, HandleDone,
      Drain, Dequeue, LoopThreadLink, Exit, QuitDequeue

(* ~EventLoop() keeps its invariant. *)
LEMMA DestroyStep == DestroyInv /\ [DNext]_dvars => DestroyInv'
<1> SUFFICES ASSUME DestroyInv, [DNext]_dvars
             PROVE  DestroyInv'
  BY Zenon
<1> USE DEF DestroyInv
<1>1. ASSUME dpc = "none", (\E t \in Thread : ThreadCall(t)) \/ LoopCall, UNCHANGED dpc
      PROVE  DestroyInv'
  BY <1>1, TypeStep, FlagStep, Zenon DEF Next
<1>2. ASSUME NEW t \in Thread, ThreadStep(t), UNCHANGED dpc
      PROVE  DestroyInv'
  <2>1. TypeOK' /\ LoopFlag'
    BY <1>2, TypeStep, FlagStep, Zenon DEF Next
  <2>2. UNCHANGED <<lpc, ret, looping>>
    BY <1>2, Zenon DEF ThreadStep, QueueInLoopLink, Wakeup, QuitStore, QuitWakeup, RunOnQuitLink, loopVars
  <2> QED
    BY <1>2, <2>1, <2>2, Zenon
<1>3. ASSUME LoopStep \/ PollOther, UNCHANGED dpc
      PROVE  DestroyInv'
  <2>1. TypeOK' /\ LoopFlag'
    BY <1>3, TypeStep, FlagStep, Zenon DEF Next
  <2> QED
    BY <1>3, <2>1, LoopStepKeeps, Zenon DEF TypeOK
<1>4. CASE DtorCall
  BY <1>4 DEF DtorCall, vars, TypeOK, LoopFlag, mfuncs, mquits, loopVars, threadVars
<1>5. CASE DtorStoresQuit
  BY <1>5, Zenon DEF DtorStoresQuit, TypeOK, LoopFlag, mfuncs, mquits, loopVars, threadVars
<1>6. CASE DtorWakesLoop
  BY <1>6, Zenon DEF DtorWakesLoop, TypeOK, LoopFlag, mfuncs, mquits, loopVars, threadVars
<1>7. CASE DtorSpinEnds
  BY <1>7, Zenon DEF DtorSpinEnds, vars, TypeOK, LoopFlag, mfuncs, mquits, loopVars, threadVars
<1>8. CASE UNCHANGED dvars
  BY <1>8 DEF dvars, vars, TypeOK, LoopFlag, mfuncs, mquits, loopVars, threadVars
<1> QED
  BY <1>1, <1>2, <1>3, <1>4, <1>5, <1>6, <1>7, <1>8, Zenon DEF DNext, DtorStep

(* Every loop begins with the types and the flag it should have. *)
LEMMA InitTypes == Init => TypeOK /\ LoopFlag
  BY LoopInit, Zenon DEF LoopInv

(* The members of a loop that ~EventLoop() destroys (90-123), also while
   loop() runs in its thread, are used by the body of loop() no more. *)
THEOREM DestroyedLoopRests == DSpec => []NoLoopAfterDestruction
<1>1. DInit => DestroyInv
  BY InitTypes, Zenon DEF DInit, DestroyInv
<1>2. DestroyInv => NoLoopAfterDestruction
  BY Zenon DEF DestroyInv, NoLoopAfterDestruction, LoopFlag, TypeOK, InWhile
<1> QED
  BY <1>1, <1>2, DestroyStep, PTL DEF DSpec
-----------------------------------------------------------------------------
(* The thread that owns the loop.  An exception that escapes threadWorker ends
   the program, so callbacks throw none here. *)

(* The place of the loop thread, seen from threadWorker. *)
Inside == \/ quit
          \/ lpc \in InWhile \cup {"enter"}
          \/ lpc = "link" /\ ret # "quitDequeue"

(* What a step of loop() leaves true: it makes no other call of loop(), only
   takes functions, runs only what it has taken, and leaves the while loop
   only when m_quit is set. *)
LEMMA LoopStepEffect ==
  ASSUME TypeOK, LoopStep \/ PollOther, "throw" \notin Kind,
         lpc \in {"run", "quitRun"} => func # <<>>
  PROVE  /\ lpc # "out"
         /\ loops' = loops /\ funcsTaken <= funcsTaken'
         /\ lpc = "link" => lpc' = ret /\ UNCHANGED <<ret, quit, funcsTaken>>
         /\ lpc' \in {"run", "quitRun"} => func' # <<>>
         /\ lpc = "link" \/ Inside => Inside' \/ (lpc = "link" /\ ret \in {"out", "quitDequeue"})
<1> USE DEF TypeOK, InWhile, Inside, mfuncs, mquits, loopVars, threadVars
<1>1. CASE HandleEvent
  BY <1>1 DEF HandleEvent, RunCallback, LoopThreadQueues, Funcs!Claim
<1>2. CASE Run
  BY <1>2 DEF Run, RunCallback, LoopThreadQueues, Funcs!Claim
<1>3. CASE QuitRun
  BY <1>3 DEF QuitRun, RunCallback, LoopThreadQueues, Funcs!Claim
<1>4. \A k : <<k>> # <<>>
  <2> TAKE k
  <2>1. Len(<<k>>) = 1 /\ Len(<<>>) = 0
    BY Zenon
  <2> QED
    BY <2>1, Zenon
<1>5. CASE Dequeue
  <2>1. CASE Funcs!Take /\ lpc' = "run"
    BY <1>4, <1>5, <2>1 DEF Dequeue, Funcs!Take
  <2>2. CASE Funcs!ReportEmpty /\ lpc' = "drain"
    BY <1>5, <2>2 DEF Dequeue, Funcs!ReportEmpty
  <2> QED
    BY <1>5, <2>1, <2>2, Zenon DEF Dequeue
<1>6. CASE QuitDequeue
  <2>1. CASE QuitFuncs!Take /\ lpc' = "quitRun"
    BY <1>4, <1>6, <2>1 DEF QuitDequeue, QuitFuncs!Take
  <2>2. CASE QuitFuncs!ReportEmpty /\ lpc' = "out"
    BY <1>6, <2>2 DEF QuitDequeue, QuitFuncs!ReportEmpty
  <2> QED
    BY <1>6, <2>1, <2>2, Zenon DEF QuitDequeue
<1>7. CASE LoopThreadLink
  BY <1>7 DEF LoopThreadLink, Funcs!Publish
<1> QED
  BY <1>1, <1>2, <1>3, <1>5, <1>6, <1>7
  DEF LoopStep, PollOther, ClearQuit, Test, PollWakeup, PollReturns, HandleWakeup, HandleDone,
      Drain, Exit

(* The loop's own types survive every step of the thread and its users. *)
LEMMA ThreadTypes ==
  ASSUME ThreadInv, [TNext]_tvars, "plain" \in Kind
  PROVE  TypeOK'
<1> USE DEF ThreadInv, TTypeOK
<1>1. CASE DtorQuitStore
  BY <1>1, Zenon DEF DtorQuitStore, TypeOK, mfuncs, mquits, loopVars, threadVars
<1>2. CASE DtorQuitWakeup
  BY <1>2, Zenon DEF DtorQuitWakeup, TypeOK, mfuncs, mquits, loopVars, threadVars
<1>3. CASE WorkerQueue
  <2>1. QueueBeforeLoop
    BY <1>3, Zenon DEF WorkerQueue, WorkerPlace, QueueBeforeLoop
  <2> QED
    BY <2>1, TypeStep, Zenon DEF Next, LoopCall
<1>4. CASE ~(DtorQuitStore \/ DtorQuitWakeup \/ WorkerQueue)
  <2>1. [Next]_vars
    <3>1. CASE LoopStep \/ PollOther
      BY <3>1, Zenon DEF Next
    <3>2. CASE WorkerLoop
      BY <3>2, Zenon DEF WorkerLoop, Next, LoopCall
    <3>3. ASSUME NEW t \in Thread, UseLoop(t) \/ ThreadStep(t)
          PROVE  Next
      BY <3>3, Zenon DEF UseLoop, Next, ThreadCall
    <3>4. CASE UNCHANGED vars
      BY <3>4, Zenon
    <3> QED
      BY <1>4, <3>1, <3>2, <3>3, <3>4, Zenon
      DEF TNext, WorkerStep, WorkerSetPointer, WorkerStore, WorkerLeave, RunCall, UserStep,
          RunReturn, RunWaitReturn, CtorReturns, DtorLoad, DtorQuit, DtorJoin, DtorRun, tvars
  <2> QED
    BY <2>1, TypeStep, Zenon
<1> QED
  BY <1>1, <1>2, <1>3, <1>4, Zenon

(* A step of loop(), on the thread that owns it. *)
LEMMA WorkerLoopStep ==
  ASSUME ThreadInv, wpc \in {"setPointer", "loop"}, LoopStep \/ PollOther, UNCHANGED ext,
         TypeOK', "throw" \notin Kind
  PROVE  ThreadInv'
<1> USE DEF ThreadInv, TTypeOK, ext
<1>1. lpc \in {"run", "quitRun"} => func # <<>>
  BY Zenon DEF WorkerPlace
<1>2. /\ lpc # "out" /\ loops' = loops /\ funcsTaken <= funcsTaken'
      /\ lpc = "link" => lpc' = ret /\ UNCHANGED <<ret, quit, funcsTaken>>
      /\ lpc' \in {"run", "quitRun"} => func' # <<>>
      /\ lpc = "link" \/ Inside => Inside' \/ (lpc = "link" /\ ret \in {"out", "quitDequeue"})
      /\ lpc' = "link" => ret' # "out"
  BY <1>1, LoopStepEffect, LoopStepKeeps, Zenon
<1>3. WorkerPlace'
  BY <1>2, Zenon DEF WorkerPlace, TypeOK
<1>4. LeavesOnQuit'
  <2>1. CASE wpc = "loop"
    <3>1. Inside /\ (lpc = "link" => ret # "out")
      BY <2>1, Zenon DEF LeavesOnQuit, WorkerPlace, Inside
    <3>2. lpc = "link" /\ ret = "quitDequeue" => quit'
      BY <1>2, <3>1, Zenon DEF Inside, InWhile
    <3>3. Inside'
      BY <1>2, <3>1, <3>2, Zenon DEF Inside
    <3> QED
      BY <2>1, <3>3, Zenon DEF LeavesOnQuit, Inside
  <2> QED
    BY <2>1, Zenon DEF LeavesOnQuit
<1>5. RunComesFirst'
  BY <1>2 DEF RunComesFirst, TypeOK
<1> QED
  BY <1>3, <1>4, <1>5, Zenon

(* A step of another thread leaves the loop thread where it is, and only
   stores true into m_quit. *)
LEMMA OtherThreadStep ==
  ASSUME ThreadInv, NEW t \in Thread,
         ThreadStep(t) \/ QuitCall(t) \/ (\E k \in Kind : QueueInLoop(t, k)), UNCHANGED ext, TypeOK'
  PROVE  ThreadInv'
<1>1. UNCHANGED <<lpc, ret, loops, funcsTaken>>
  BY Zenon DEF ThreadStep, QueueInLoopLink, Wakeup, QuitStore, QuitWakeup, RunOnQuitLink, QuitCall,
         QueueInLoop, Funcs!Claim, Funcs!Publish, loopVars, mfuncs
<1>2. UNCHANGED func
  BY Zenon DEF ThreadStep, QueueInLoopLink, Wakeup, QuitStore, QuitWakeup, RunOnQuitLink, QuitCall,
         QueueInLoop, Funcs!Claim, Funcs!Publish, QuitFuncs!Publish
<1>3. quit => quit'
  BY Zenon DEF ThreadStep, QueueInLoopLink, Wakeup, QuitStore, QuitWakeup, RunOnQuitLink, QuitCall,
         QueueInLoop
<1> QED
  BY <1>1, <1>2, <1>3
  DEF ThreadInv, TTypeOK, WorkerPlace, LeavesOnQuit, RunComesFirst, ext

(* run() entered by any user keeps the invariant. *)
LEMMA EnterRunKeeps ==
  ASSUME ThreadInv, NEW u \in User, NEW after \in {"idle", "load"}, upc[u] = "idle",
         upc[Main] # "ctor", EnterRun(u, after), UNCHANGED <<vars, wpc, mloop>>, dtor' \in BOOLEAN
  PROVE  ThreadInv'
<1> USE DEF ThreadInv, TTypeOK, vars, mfuncs, mquits, loopVars, threadVars
<1>1. TTypeOK'
  BY DEF EnterRun, TypeOK
<1>2. WorkerPlace' /\ LeavesOnQuit'
  BY Zenon DEF WorkerPlace, LeavesOnQuit
<1>3. RunComesFirst'
  BY Zenon DEF RunComesFirst, EnterRun, User
<1> QED
  BY <1>1, <1>2, <1>3, Zenon

(* threadWorker and its users keep the thread's invariant. *)
LEMMA ThreadInvStep ==
  ASSUME ThreadInv, [TNext]_tvars, "plain" \in Kind, "throw" \notin Kind
  PROVE  ThreadInv'
<1>0. TypeOK'
  BY ThreadTypes, Zenon
<1>0a. Main \in User /\ Thread \subseteq User
  BY Zenon DEF User
<1> USE DEF ThreadInv, TTypeOK
<1>1. CASE WorkerQueue
  BY <1>0, <1>1, Zenon DEF WorkerQueue, LoopThreadQueues, Funcs!Claim, WorkerPlace, LeavesOnQuit,
    RunComesFirst
<1>2. CASE WorkerSetPointer
  BY <1>0, <1>2, Zenon DEF WorkerSetPointer, WorkerPlace, LeavesOnQuit, RunComesFirst, vars, loopVars,
    mfuncs
<1>3. CASE WorkerLoop
  BY <1>0, <1>3 DEF WorkerLoop, Enter, promiseForRun, WorkerPlace, LeavesOnQuit, RunComesFirst,
    mfuncs
<1>4. CASE WorkerStore
  BY <1>0, <1>4, Zenon DEF WorkerStore, WorkerPlace, LeavesOnQuit, RunComesFirst, vars, loopVars, mfuncs,
    InWhile
<1>5. CASE WorkerLeave
  BY <1>0, <1>5, Zenon DEF WorkerLeave, WorkerPlace, LeavesOnQuit, RunComesFirst, vars, loopVars, mfuncs
<1>6. ASSUME wpc \in {"setPointer", "loop"}, LoopStep \/ PollOther, UNCHANGED ext
      PROVE  ThreadInv'
  BY <1>0, <1>6, WorkerLoopStep, Zenon
<1>7. ASSUME NEW u \in User, RunCall(u)
      PROVE  ThreadInv'
  BY <1>7, EnterRunKeeps, Zenon DEF RunCall
<1>8. CASE DtorRun
  BY <1>0a, <1>8, EnterRunKeeps, Zenon DEF DtorRun
<1>9. ASSUME NEW u \in User, RunReturn(u) \/ RunWaitReturn(u)
      PROVE  ThreadInv'
  <2>1. once' = "done" /\ funcsTaken > 0
    BY <1>9 DEF RunReturn, RunWaitReturn, promiseForLoop, RunComesFirst, TypeOK
  <2>2. /\ upc[u] \in {"get", "wait"} /\ upc' = [upc EXCEPT ![u] = AfterRun(u)]
        /\ UNCHANGED <<vars, wpc, mloop, dtor>>
    BY <1>9, Zenon DEF RunReturn, RunWaitReturn
  <2>3. TTypeOK'
    BY <1>0, <2>1, <2>2, Zenon DEF AfterRun
  <2>4. WorkerPlace' /\ LeavesOnQuit'
    BY <2>2, Zenon DEF WorkerPlace, LeavesOnQuit, vars, loopVars, mfuncs
  <2>5. upc'[Main] # "ctor" /\ once # "no"
    BY <1>0a, <1>9, <2>2, Zenon DEF RunComesFirst, AfterRun
  <2>6. RunComesFirst'
    BY <2>1, <2>2, <2>5, Zenon DEF RunComesFirst, vars, mfuncs
  <2> QED
    BY <2>3, <2>4, <2>6, Zenon
<1>10. CASE CtorReturns
  BY <1>0, <1>0a, <1>10, Zenon DEF CtorReturns, WorkerPlace, LeavesOnQuit, RunComesFirst, vars, loopVars,
    mfuncs
<1>11. CASE DtorLoad \/ DtorQuit \/ DtorJoin
  BY <1>0, <1>0a, <1>11 DEF DtorLoad, DtorQuit, DtorJoin, DtorGoto, WorkerPlace, LeavesOnQuit,
    RunComesFirst, vars, loopVars, mfuncs
<1>12. CASE DtorQuitStore \/ DtorQuitWakeup
  BY <1>0, <1>0a, <1>12 DEF DtorQuitStore, DtorQuitWakeup, DtorGoto, WorkerPlace, LeavesOnQuit,
    RunComesFirst, loopVars, mfuncs
<1>13. ASSUME NEW t \in Thread, UseLoop(t) \/ (ThreadStep(t) /\ UNCHANGED ext)
       PROVE  ThreadInv'
  BY <1>0, <1>13, OtherThreadStep, Zenon DEF UseLoop
<1>14. CASE UNCHANGED tvars
  BY <1>0, <1>14 DEF tvars, ext, WorkerPlace, LeavesOnQuit, RunComesFirst, vars, loopVars, mfuncs
<1> QED
  BY <1>1, <1>2, <1>3, <1>4, <1>5, <1>6, <1>7, <1>8, <1>9, <1>10, <1>11, <1>12, <1>13, <1>14, Zenon
  DEF TNext, WorkerStep, UserStep

(* An EventLoopThread hands out its loop only while it is there (30-45): when
   run() returns loop() has been entered and drains m_funcs, a non-null m_loop
   points to a loop that exists, and the pointer with which the destructor
   calls quit() is good unless somebody else has told the loop to quit. *)
THEOREM ThreadOwnsItsLoop ==
  ASSUME "plain" \in Kind, "throw" \notin Kind
  PROVE  TSpec => []LoopsAreLive
<1>1. TInit => ThreadInv
  <2> SUFFICES ASSUME TInit
               PROVE  ThreadInv
    BY Zenon
  <2>1. TypeOK
    BY InitTypes, Zenon DEF TInit
  <2>2. TTypeOK
    BY <2>1, Zenon DEF TInit, TTypeOK
  <2> QED
    BY <2>2, Zenon DEF TInit, ThreadInv, Init, Funcs!FifoInit, WorkerPlace, LeavesOnQuit, RunComesFirst,
      User
<1>2. ThreadInv /\ [TNext]_tvars => ThreadInv'
  BY ThreadInvStep, Zenon
<1>3. ThreadInv => LoopsAreLive
  BY DEF ThreadInv, TTypeOK, WorkerPlace, LeavesOnQuit, RunComesFirst, LoopsAreLive,
    RunReturnsLooping, LoopPointerIsLive, TypeOK
<1> QED
  BY <1>1, <1>2, <1>3, PTL DEF TSpec
=============================================================================
