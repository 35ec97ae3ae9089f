-------------------------- MODULE TimerQueueProofs --------------------------
(***************************************************************************)
(* Proofs about TimerQueue: for any number of threads and timers, any      *)
(* delays, intervals and tags, the timerfd covers the heap, m_timerIdSet   *)
(* tracks the timers, and callbacks run in time, once, and not after their *)
(* cancellation.                                                           *)
(***************************************************************************)
EXTENDS TimerQueue, FiniteSetTheorems, TLAPS

(* The elements of a sequence, and the ids given out so far. *)
LEMMA SeqRange ==
  ASSUME NEW S, NEW s \in Seq(S)
  PROVE  /\ Range(s) \subseteq S
         /\ \A k \in 1..Len(s) : s[k] \in Range(s) /\ s[k] \in S
         /\ \A x \in Range(s) : \E k \in 1..Len(s) : s[k] = x
<1>1. DOMAIN s = 1..Len(s)
  OBVIOUS
<1> QED
  BY <1>1 DEF Range

LEMMA NextId ==
  ASSUME NEW n \in Nat
  PROVE  n + 1 \notin 1..n /\ 1..(n + 1) = (1..n) \cup {n + 1}
  OBVIOUS

(* What an enqueue into m_funcs adds to it. *)
LEMMA AppendRange ==
  ASSUME NEW S, NEW s \in Seq(S), NEW e \in S
  PROVE  /\ Append(s, e) \in Seq(S) /\ Range(Append(s, e)) = Range(s) \cup {e}
         /\ Len(Append(s, e)) = Len(s) + 1 /\ Append(s, e)[Len(s) + 1] = e
         /\ \A k \in 1..Len(s) : Append(s, e)[k] = s[k]
<1>1. /\ Append(s, e) \in Seq(S)
      /\ Len(Append(s, e)) = Len(s) + 1 /\ Append(s, e)[Len(s) + 1] = e
      /\ \A k \in 1..Len(s) : Append(s, e)[k] = s[k]
  OBVIOUS
<1>2. DOMAIN s = 1..Len(s) /\ DOMAIN Append(s, e) = 1..(Len(s) + 1) /\ Len(s) \in Nat
  OBVIOUS
<1>3. Range(Append(s, e)) = Range(s) \cup {e}
  BY <1>1, <1>2 DEF Range
<1> QED
  BY <1>1, <1>3, Zenon

(* What a dequeue from m_funcs leaves in it. *)
LEMMA TailRange ==
  ASSUME NEW S, NEW s \in Seq(S), s # <<>>
  PROVE  /\ Tail(s) \in Seq(S) /\ Head(s) = s[1] /\ Head(s) \in S
         /\ Range(s) = Range(Tail(s)) \cup {Head(s)}
         /\ Len(Tail(s)) = Len(s) - 1 /\ Len(s) \in Nat \ {0}
         /\ \A k \in 1..Len(Tail(s)) : Tail(s)[k] = s[k + 1]
<1>1. /\ Tail(s) \in Seq(S) /\ Head(s) = s[1] /\ Head(s) \in S
      /\ Len(Tail(s)) = Len(s) - 1 /\ Len(s) \in Nat \ {0}
      /\ \A k \in 1..Len(Tail(s)) : Tail(s)[k] = s[k + 1]
  OBVIOUS
<1>2. DOMAIN s = 1..Len(s) /\ DOMAIN Tail(s) = 1..(Len(s) - 1)
  BY <1>1
<1>3. \A k \in 2..Len(s) : Tail(s)[k - 1] = s[k] /\ k - 1 \in DOMAIN Tail(s)
  BY <1>1, <1>2
<1>4. Range(s) \subseteq Range(Tail(s)) \cup {Head(s)}
  <2> SUFFICES ASSUME NEW k \in 1..Len(s)
               PROVE  s[k] \in Range(Tail(s)) \cup {Head(s)}
    BY <1>2, Zenon DEF Range
  <2>1. CASE k = 1
    BY <1>1, <2>1, Zenon
  <2>2. CASE k \in 2..Len(s)
    BY <1>3, <2>2, Zenon DEF Range
  <2> QED
    BY <1>1, <2>1, <2>2
<1>5. Range(Tail(s)) \cup {Head(s)} \subseteq Range(s)
  BY <1>1, <1>2 DEF Range
<1> QED
  BY <1>1, <1>4, <1>5, Zenon

(* getExpired never has a highest or lowest task to replace: what it takes out
   of the heap is the batch, every timer of it once. *)
LEMMA ReadTakesExpired ==
  ASSUME TypeOK, highestTask = None, lowestTask = None, HandleRead
  PROVE  /\ highestTask' = None /\ lowestTask' = None
         /\ timers' = timers \ {i \in timers : when[i] < clock}
         /\ batch' \in Seq(Id) /\ Range(batch') = {i \in timers : when[i] < clock}
         /\ \A j, k \in 1..Len(batch') : batch'[j] = batch'[k] => j = k
<1> DEFINE expired == {i \in timers : when[i] < clock}
<1>1. Tagged(expired, "highest", highestTask) = {} /\ Tagged(expired, "lowest", lowestTask) = {}
  BY Zenon DEF Tagged
<1>2. highestTask' = None /\ lowestTask' = None
  BY <1>1, Zenon DEF HandleRead, NewTasks
<1>3. PICK s \in PopOrders(expired) : batch' = Single(highestTask') \o s \o Single(lowestTask')
  <2>1. expired \ ({} \cup {}) = expired
    BY Zenon
  <2> QED
    BY <1>1, <2>1, Zenon DEF HandleRead
<1>4. Cardinality(expired) \in Nat
  <2>1. IsFiniteSet(Id)
    BY FS_Interval, TimerQueueAssumption DEF Id
  <2>2. IsFiniteSet(expired)
    BY <2>1, FS_Subset, Zenon DEF TypeOK
  <2> QED
    BY <2>2, FS_CardinalityType, Zenon
<1> HIDE DEF expired
<1>5. /\ s \in [1..Cardinality(expired) -> expired]
      /\ \A j, k \in 1..Cardinality(expired) : s[j] = s[k] => j = k
      /\ \A i \in expired : \E k \in 1..Cardinality(expired) : s[k] = i
  <2>1. s \in Injection(1..Cardinality(expired), expired) /\ s \in Surjection(1..Cardinality(expired), expired)
    BY <1>3, Zenon DEF PopOrders, Bijection
  <2> QED
    BY <2>1, Zenon DEF Injection, IsInjective, Surjection
<1>6. s \in Seq(expired) /\ Len(s) = Cardinality(expired) /\ DOMAIN s = 1..Cardinality(expired)
  BY <1>4, <1>5
<1>7. batch' = s
  <2>1. batch' = <<>> \o s \o <<>>
    BY <1>2, <1>3, Zenon DEF Single
  <2> QED
    BY <1>6, <2>1
<1>8. Range(s) = expired
  BY <1>5, <1>6 DEF Range
<1>9. expired \subseteq Id
  BY Zenon DEF TypeOK, expired
<1>10. batch' \in Seq(Id)
  BY <1>6, <1>7, <1>9
<1> QED
  BY <1>2, <1>5, <1>6, <1>7, <1>8, <1>10, Zenon DEF HandleRead, expired

(* new Timer(...) keeps the types, and takes an id nobody has. *)
LEMMA NewTimerTypes ==
  ASSUME TypeOK, NEW d \in Delays, NEW v \in Intervals, NEW g \in Tags, NewTimer(d, v, g)
  PROVE  /\ created' = created + 1 /\ created' \in Id /\ created' \in 0..MaxTimers
         /\ alive' \subseteq Id /\ when' \in [Id -> Nat] /\ interval' \in [Id -> Nat]
         /\ tag' \in [Id -> Tags \cup {"normal"}] /\ Due(d) \in Nat
         /\ when'[created'] = Due(d)
         /\ \A i \in Id : i # created' => when'[i] = when[i] /\ interval'[i] = interval[i]
<1>1. created' = created + 1 /\ created' \in Id /\ created' \in 0..MaxTimers
  BY TimerQueueAssumption DEF NewTimer, TypeOK, Id
<1>2. Due(d) \in Nat
  BY TimerQueueAssumption DEF Due, TypeOK
<1> QED
  BY <1>1, <1>2, TimerQueueAssumption, Zenon DEF NewTimer, TypeOK

(* The timerfd is set to a time that suits the timer it is set for, and every
   later one, and time does not change that. *)
LEMMA ExpiryType ==
  ASSUME clock \in Nat, NEW w \in Nat
  PROVE  Expiry(w) \in Nat /\ \A v \in Nat : w <= v => InTimeFor(Expiry(w), v, clock)
  BY DEF Expiry, InTimeFor, None

LEMMA InTimeLater ==
  ASSUME NEW fd \in Nat \cup {None}, NEW w \in Nat, NEW t \in Nat, InTimeFor(fd, w, t)
  PROVE  /\ \A u \in Nat : t <= u => InTimeFor(fd, w, u)
         /\ \A v \in Nat : w <= v => InTimeFor(fd, v, t)
  BY DEF InTimeFor

(* Types are kept by every step. *)
LEMMA TypeStep ==
  ASSUME TypeOK, highestTask = None, lowestTask = None, [Next]_vars
  PROVE  TypeOK'
<1> USE TimerQueueAssumption DEF timerVars, heapVars, batchVars, hist
<1>1. ASSUME NEW d \in Delays, NEW v \in Intervals, NEW g \in Tags, LoopAddTimer(d, v, g)
      PROVE  TypeOK'
  <2>1. NewTimer(d, v, g) /\ AddTimerInLoop(created', Due(d))
    BY <1>1, Zenon DEF LoopAddTimer
  <2>2. fdAt' \in Nat \cup {None}
    BY <2>1, NewTimerTypes, ExpiryType, Zenon DEF AddTimerInLoop, TypeOK
  <2>3. timers' \subseteq Id /\ idSet' \subseteq Id
    BY <2>1, NewTimerTypes, Zenon DEF AddTimerInLoop, TypeOK
  <2> QED
    BY <1>1, <2>1, <2>2, <2>3, NewTimerTypes, Zenon DEF LoopAddTimer, TypeOK
<1>2. ASSUME NEW d \in Delays, NEW v \in Intervals, NEW g \in Tags, NEW t \in Thread,
             AddTimer(t, d, v, g)
      PROVE  TypeOK'
  <2>1. NewTimer(d, v, g)
    BY <1>2, Zenon DEF AddTimer
  <2>2. <<"add", created'>> \in {"add", "cancel"} \X Id
    BY <2>1, NewTimerTypes, Zenon
  <2>3. queue' \in Seq({"add", "cancel"} \X Id)
    BY <1>2, <2>2, AppendRange, Zenon DEF AddTimer, TypeOK
  <2> QED
    BY <1>2, <2>1, <2>3, NewTimerTypes, Zenon DEF AddTimer, TypeOK
<1>3. ASSUME NEW i \in Id, LoopCancelTimer(i)
      PROVE  TypeOK'
  BY <1>3, Zenon DEF LoopCancelTimer, TypeOK
<1>4. ASSUME NEW i \in Id, NEW t \in Thread, CancelTimer(t, i)
      PROVE  TypeOK'
  <2>1. <<"cancel", i>> \in {"add", "cancel"} \X Id
    BY Zenon
  <2>2. queue' \in Seq({"add", "cancel"} \X Id)
    BY <1>4, <2>1, AppendRange, Zenon DEF CancelTimer, TypeOK
  <2> QED
    BY <1>4, <2>2, Zenon DEF CancelTimer, TypeOK
<1>5. ASSUME NEW t \in Thread, ReturnId(t)
      PROVE  TypeOK'
  BY <1>5, Zenon DEF ReturnId, TypeOK
<1>6. CASE LoopQuit \/ Loop \/ PollWakeup \/ FuncsDone \/ Tick
  <2>1. CASE LoopQuit
    BY <2>1, Zenon DEF LoopQuit, TypeOK
  <2>2. CASE Loop
    BY <2>2, Zenon DEF Loop, TypeOK
  <2>3. CASE PollWakeup \/ FuncsDone
    BY <2>3, Zenon DEF PollWakeup, FuncsDone, TypeOK
  <2>4. CASE Tick
    BY <2>4 DEF Tick, TypeOK
  <2> QED
    BY <1>6, <2>1, <2>2, <2>3, <2>4, Zenon
<1>7. CASE ResetAfterFork
  <2>1. fdAt' \in Nat \cup {None}
    BY <1>7, ExpiryType, Zenon DEF ResetAfterFork, TypeOK, IsTop
  <2> QED
    BY <1>7, <2>1, Zenon DEF ResetAfterFork, TypeOK
<1>8. CASE TimerThrows
  <2>1. batch[pos] \in Id
    BY <1>8, Zenon DEF TimerThrows, TypeOK
  <2>2. batch' \in Seq(Id) /\ pos' \in 1..(Len(batch') + 1)
    BY <1>8 DEF TimerThrows
  <2>3. runs' \in [Id -> Nat] /\ alive' \subseteq Id
    <3>1. runs' = [runs EXCEPT ![batch[pos]] = @ + 1] /\ alive' \subseteq alive
      BY <1>8, Zenon DEF TimerThrows
    <3>2. runs \in [Id -> Nat] /\ alive \subseteq Id
      BY Zenon DEF TypeOK
    <3>3. runs[batch[pos]] + 1 \in Nat
      <4>1. runs[batch[pos]] \in Nat
        BY <2>1, <3>2, Zenon
      <4> QED
        BY <4>1
    <3> QED
      BY <3>1, <3>2, <3>3, Zenon
  <2>4. /\ lpc' = "out" /\ thrown' = TRUE
        /\ UNCHANGED <<clock, created, timerVars, heapVars, fdAt, now, queue, quit, tid, sent, cancelled>>
    BY <1>8, Zenon DEF TimerThrows
  <2> QED
    BY <2>2, <2>3, <2>4, Zenon DEF TypeOK
<1>9. CASE HandleRead
  <2>1. /\ batch' \in Seq(Id) /\ highestTask' = None /\ lowestTask' = None
        /\ timers' = timers \ {i \in timers : when[i] < clock}
    BY <1>9, ReadTakesExpired, Zenon
  <2>2. pos' \in 1..(Len(batch') + 1)
    <3>1. pos' = 1 /\ Len(batch') \in Nat
      BY <1>9, <2>1 DEF HandleRead
    <3> QED
      BY <3>1
  <2>3. /\ fdAt' = None /\ now' = clock /\ lpc' = "timers"
        /\ UNCHANGED <<clock, created, alive, timerVars, idSet, queue, quit, tid, hist>>
    BY <1>9, Zenon DEF HandleRead
  <2> QED
    BY <2>1, <2>2, <2>3, Zenon DEF TypeOK
<1>10. CASE RunTimer
  <2>1. pos' \in 1..(Len(batch) + 1)
    BY <1>10 DEF RunTimer, TypeOK
  <2>2. runs' \in [Id -> Nat]
    BY <1>10, SMTT(30) DEF RunTimer, TypeOK
  <2> QED
    BY <1>10, <2>1, <2>2, Zenon DEF RunTimer, TypeOK
<1>11. CASE Reset
  <2>1. Range(batch) \subseteq Id
    BY DEF TypeOK, Range
  <2>2. batch' \in Seq(Id) /\ pos' \in 1..(Len(batch') + 1)
    BY <1>11 DEF Reset
  <2>3. /\ when' \in [Id -> Nat] /\ timers' \subseteq Id /\ idSet' \subseteq Id
        /\ alive' \subseteq Id
    BY <1>11, <2>1 DEF Reset, TypeOK
  <2>4. fdAt' \in Nat \cup {None}
    BY <1>11, <2>3, ExpiryType, Zenon DEF Reset, TypeOK, IsTop
  <2> QED
    BY <1>11, <2>2, <2>3, <2>4, Zenon DEF Reset, TypeOK
<1>12. CASE RunAdd
  <2>1. Head(queue) \in {"add", "cancel"} \X Id /\ queue' \in Seq({"add", "cancel"} \X Id)
    BY <1>12, TailRange, Zenon DEF RunAdd, TypeOK
  <2>2. Head(queue)[2] \in Id
    BY <2>1, Zenon
  <2>3. fdAt' \in Nat \cup {None} /\ timers' \subseteq Id /\ idSet' \subseteq Id
    BY <1>12, <2>2, ExpiryType, Zenon DEF RunAdd, AddTimerInLoop, TypeOK
  <2> QED
    BY <1>12, <2>1, <2>3, Zenon DEF RunAdd, TypeOK
<1>13. CASE RunCancel
  <2>1. queue' \in Seq({"add", "cancel"} \X Id)
    BY <1>13, TailRange, Zenon DEF RunCancel, TypeOK
  <2> QED
    BY <1>13, <2>1, Zenon DEF RunCancel, TypeOK
<1>14. CASE UNCHANGED vars
  BY <1>14, Zenon DEF vars, TypeOK
<1> QED
  BY <1>1, <1>2, <1>3, <1>4, <1>5, <1>6, <1>7, <1>8, <1>9, <1>10, <1>11, <1>12, <1>13, <1>14, Zenon
  DEF Next, LoopStep
-----------------------------------------------------------------------------
(* A function queued in m_funcs is of addTimer or of cancelTimer. *)
LEMMA QueueAppend ==
  ASSUME TypeOK, NEW c \in {"add", "cancel"}, NEW i \in Id, queue' = Append(queue, <<c, i>>), AddedOnce,
         c = "add" => i \notin Pending
  PROVE  AddedOnce' /\ Pending' = IF c = "add" THEN Pending \cup {i} ELSE Pending
<1>1. queue \in Seq({"add", "cancel"} \X Id) /\ <<c, i>> \in {"add", "cancel"} \X Id
  BY Zenon DEF TypeOK
<1>2. /\ Range(queue') = Range(queue) \cup {<<c, i>>}
      /\ Len(queue') = Len(queue) + 1 /\ queue'[Len(queue) + 1] = <<c, i>>
      /\ \A k \in 1..Len(queue) : queue'[k] = queue[k]
  BY <1>1, AppendRange
<1>3. Pending' = IF c = "add" THEN Pending \cup {i} ELSE Pending
  BY <1>2, Zenon DEF Pending
<1>4. \A k \in 1..Len(queue) : queue[k] \in Range(queue)
  BY <1>1 DEF Range
<1>5. \A k \in 1..Len(queue) : c = "add" => queue[k] # <<c, i>>
  BY <1>4, Zenon DEF Pending
<1>6. \A k \in 1..Len(queue') : k \in 1..Len(queue) \/ k = Len(queue) + 1
  BY <1>1, <1>2
<1>7. AddedOnce'
  BY <1>2, <1>5, <1>6 DEF AddedOnce
<1> QED
  BY <1>3, <1>7, Zenon

(* The function at the head of m_funcs is run. *)
LEMMA QueueTail ==
  ASSUME TypeOK, queue # <<>>, queue' = Tail(queue), AddedOnce
  PROVE  /\ AddedOnce' /\ Head(queue)[2] \in Id
         /\ Head(queue)[1] = "add" => Head(queue)[2] \in Pending /\ Pending' = Pending \ {Head(queue)[2]}
         /\ Head(queue)[1] = "cancel" => Pending' = Pending
<1>1. queue \in Seq({"add", "cancel"} \X Id)
  BY Zenon DEF TypeOK
<1>2. /\ queue' \in Seq({"add", "cancel"} \X Id)
      /\ Head(queue) = queue[1] /\ Head(queue) \in {"add", "cancel"} \X Id
      /\ Range(queue) = Range(queue') \cup {Head(queue)}
      /\ Len(queue') = Len(queue) - 1 /\ Len(queue) \in Nat \ {0}
      /\ \A k \in 1..Len(queue') : queue'[k] = queue[k + 1]
  BY <1>1, TailRange, Zenon
<1>3. \A k \in 1..Len(queue') : k + 1 \in 1..Len(queue) /\ k + 1 # 1
  BY <1>2
<1>4. AddedOnce'
  BY <1>2, <1>3 DEF AddedOnce
<1>5. Head(queue) = <<Head(queue)[1], Head(queue)[2]>> /\ Head(queue)[2] \in Id
  BY <1>2
<1>6. Head(queue)[1] = "cancel" => Pending' = Pending
  BY <1>2, <1>5 DEF Pending
<1>7. ASSUME Head(queue)[1] = "add"
      PROVE  Head(queue)[2] \in Pending /\ Pending' = Pending \ {Head(queue)[2]}
  <2>1. \A k \in 1..Len(queue') : queue'[k] # Head(queue)
    BY <1>2, <1>3, <1>7 DEF AddedOnce
  <2>2. Head(queue) \notin Range(queue')
    BY <1>2, <2>1 DEF Range
  <2>3. \A i \in Id : <<"add", i>> = Head(queue) <=> i = Head(queue)[2]
    BY <1>5, <1>7
  <2> QED
    BY <1>2, <1>5, <2>2, <2>3, Zenon DEF Pending
<1> QED
  BY <1>4, <1>5, <1>6, <1>7, Zenon

(* Steps that move no timer. *)
LEMMA QuietStep ==
  ASSUME QueueInv, TypeOK', UNCHANGED <<created, alive, timerVars, heapVars, fdAt, batchVars, queue, runs,
                                        cancelled, thrown>>,
         clock' \in {clock, clock + 1}, lpc' = "timers" <=> lpc = "timers"
  PROVE  QueueInv'
<1> USE DEF QueueInv, HeapIsArmed, IdSetTracksTimers, timerVars, heapVars, batchVars
<1>1. Pending' = Pending /\ (AddedOnce => AddedOnce')
  BY Zenon DEF Pending, AddedOnce
<1>2. TimerfdCovers'
  <2>1. clock \in Nat /\ fdAt \in Nat \cup {None} /\ TimerfdCovers
    BY Zenon DEF TypeOK
  <2>2. fdAt' = fdAt /\ when' = when /\ timers' = timers /\ thrown' = thrown
    BY Zenon
  <2>3. clock' \in Nat /\ clock <= clock'
    BY <2>1
  <2>4. \A i \in timers : when[i] \in Nat
    BY Zenon DEF TypeOK
  <2> QED
    BY <2>1, <2>2, <2>3, <2>4, InTimeLater DEF TimerfdCovers
<1>3. IdSetTracksTimers'
  BY Zenon
<1>4. OnePlace' /\ IdsComeOnce'
  BY <1>1 DEF OnePlace, IdsComeOnce
<1>5. RunsLeft'
  BY <1>1 DEF RunsLeft, TypeOK
<1> QED
  BY <1>2, <1>3, <1>4, <1>5, Zenon

(* insert (234-244) leaves the timerfd in time for the new timer and for the
   others. *)
LEMMA InsertCovers ==
  ASSUME TypeOK, TimerfdCovers, NEW i \in Id, NEW w \in Nat, AddTimerInLoop(i, w),
         when' \in [Id -> Nat], when'[i] = w, \A j \in timers : when'[j] = when[j],
         UNCHANGED <<clock, lpc, thrown>>
  PROVE  TimerfdCovers'
<1> SUFFICES ASSUME lpc # "timers", ~thrown, NEW j \in timers \cup {i}
             PROVE  InTimeFor(fdAt', when'[j], clock)
  BY Zenon DEF TimerfdCovers, AddTimerInLoop
<1> USE DEF TypeOK
<1>1. when'[j] \in Nat /\ j \in Id
  BY Zenon
<1>2. CASE \A k \in timers : w < when[k]
  <2>1. fdAt' = Expiry(w) /\ w <= when'[j]
    BY <1>1, <1>2, SMTT(30) DEF AddTimerInLoop
  <2> QED
    BY <1>1, <2>1, ExpiryType, Zenon
<1>3. ASSUME NEW k \in timers, ~(w < when[k])
      PROVE  InTimeFor(fdAt', when'[j], clock)
  <2>1. fdAt' = fdAt
    BY <1>3, Zenon DEF AddTimerInLoop
  <2>2. InTimeFor(fdAt, when[k], clock) /\ when[k] \in Nat /\ when[k] <= w
    BY <1>3, SMTT(30) DEF TimerfdCovers
  <2>3. CASE j = i
    BY <1>1, <2>1, <2>2, <2>3, InTimeLater, Zenon
  <2>4. CASE j \in timers
    BY <2>1, <2>4, Zenon DEF TimerfdCovers
  <2> QED
    BY <2>3, <2>4, Zenon
<1> QED
  BY <1>2, <1>3, Zenon

(* addTimer on the loop thread. *)
LEMMA LoopAddStep ==
  ASSUME QueueInv, TypeOK', NEW d \in Delays, NEW v \in Intervals, NEW g \in Tags,
         LoopAddTimer(d, v, g)
  PROVE  QueueInv'
<1> DEFINE i == created + 1
<1> USE DEF batchVars, hist
<1>1. /\ NewTimer(d, v, g) /\ AddTimerInLoop(created', Due(d)) /\ TypeOK
      /\ UNCHANGED <<clock, highestTask, lowestTask, batchVars, queue, lpc, quit, tid, hist>>
  BY Zenon DEF LoopAddTimer, QueueInv, HeapIsArmed, IdSetTracksTimers
<1>2. /\ created' = i /\ i \in Id /\ when' \in [Id -> Nat] /\ Due(d) \in Nat /\ when'[i] = Due(d)
      /\ \A j \in Id : j # i => when'[j] = when[j] /\ interval'[j] = interval[j]
      /\ alive' = alive \cup {i}
  BY <1>1, NewTimerTypes, Zenon DEF NewTimer
<1>3. idSet' = idSet \cup {i} /\ timers' = timers \cup {i}
  BY <1>1, <1>2, Zenon DEF AddTimerInLoop
<1>4. i \notin 1..created /\ 1..created' = (1..created) \cup {i}
  <2>1. created \in Nat
    BY <1>1 DEF TypeOK
  <2>2. i \notin 1..created /\ 1..i = (1..created) \cup {i}
    BY <2>1, NextId, Zenon
  <2> QED
    BY <1>2, <2>2, Zenon
<1>5. i \notin Pending \cup timers \cup Range(batch) \cup idSet \cup cancelled
  BY <1>4, Zenon DEF QueueInv, OnePlace, IdsComeOnce
<1>6. Pending' = Pending /\ (AddedOnce => AddedOnce') /\ Range(batch') = Range(batch)
  BY <1>1, Zenon DEF Pending, AddedOnce
<1> HIDE DEF i
<1>7. TimerfdCovers'
  <2>1. TimerfdCovers /\ AddTimerInLoop(i, Due(d)) /\ UNCHANGED <<clock, lpc, thrown>>
    BY <1>1, <1>2, Zenon DEF QueueInv, HeapIsArmed
  <2>2. \A j \in timers : when'[j] = when[j]
    BY <1>1, <1>2, <1>5, Zenon DEF TypeOK
  <2> QED
    BY <1>1, <1>2, <2>1, <2>2, InsertCovers, Zenon
<1>8. IdSetTracksTimers'
  BY <1>1, <1>2, <1>3, <1>5, <1>6, ZenonT(30) DEF QueueInv, HeapIsArmed, IdSetTracksTimers
<1>9. OnePlace'
  BY <1>1, <1>2, <1>3, <1>4, <1>5, <1>6 DEF QueueInv, OnePlace
<1>10. IdsComeOnce'
  BY <1>1, <1>3, <1>4, <1>5, <1>6, Zenon DEF QueueInv, IdsComeOnce
<1>11. RunsLeft'
  <2>1. \A k \in 1..Len(batch) : batch[k] # i /\ batch[k] \in Id
    <3>1. batch \in Seq(Id)
      BY <1>1, Zenon DEF TypeOK
    <3> QED
      BY <1>5, <3>1, SeqRange
  <2>2. now' <= clock' /\ \A k \in 1..Len(batch') : when'[batch'[k]] < now'
    BY <1>1, <1>2, <2>1, Zenon DEF QueueInv, RunsLeft
  <2>3. runs[i] = 0 /\ \A j \in Id : j > created' => runs'[j] = 0
    BY <1>1, <1>2 DEF QueueInv, RunsLeft, TypeOK, i, Id
  <2>4. \A j \in Pending' \cup timers' : interval'[j] = 0 => runs'[j] = 0
    BY <1>1, <1>2, <1>3, <1>6, <2>3, Zenon DEF QueueInv, RunsLeft, TypeOK, Pending
  <2>5. \A k \in pos'..Len(batch') : interval'[batch'[k]] = 0 => runs'[batch'[k]] = 0
    <3>1. \A k \in pos..Len(batch) : k \in 1..Len(batch)
      BY <1>1 DEF TypeOK
    <3>2. \A k \in pos..Len(batch) : interval'[batch[k]] = interval[batch[k]]
      BY <1>2, <2>1, <3>1, Zenon
    <3>3. \A k \in pos..Len(batch) : interval[batch[k]] = 0 => runs[batch[k]] = 0
      BY Zenon DEF QueueInv, RunsLeft
    <3> QED
      BY <1>1, <3>2, <3>3, Zenon
  <2> QED
    BY <2>2, <2>3, <2>4, <2>5, Zenon DEF RunsLeft
<1> QED
  BY <1>7, <1>8, <1>9, <1>10, <1>11, Zenon DEF QueueInv, HeapIsArmed

(* addTimer on another thread. *)
LEMMA AddStep ==
  ASSUME QueueInv, TypeOK', NEW d \in Delays, NEW v \in Intervals, NEW g \in Tags, NEW t \in Thread,
         AddTimer(t, d, v, g)
  PROVE  QueueInv'
<1> DEFINE i == created + 1
<1> USE DEF heapVars, batchVars, hist
<1>1. /\ NewTimer(d, v, g) /\ TypeOK /\ queue' = Append(queue, <<"add", created'>>)
      /\ UNCHANGED <<clock, heapVars, fdAt, batchVars, lpc, quit, hist>>
  BY Zenon DEF AddTimer, QueueInv, HeapIsArmed, IdSetTracksTimers
<1>2. /\ created' = i /\ i \in Id /\ when' \in [Id -> Nat]
      /\ \A j \in Id : j # i => when'[j] = when[j] /\ interval'[j] = interval[j]
      /\ alive' = alive \cup {i}
  BY <1>1, NewTimerTypes, Zenon DEF NewTimer
<1>3. i \notin 1..created /\ 1..created' = (1..created) \cup {i}
  <2>1. created \in Nat
    BY <1>1 DEF TypeOK
  <2>2. i \notin 1..created /\ 1..i = (1..created) \cup {i}
    BY <2>1, NextId, Zenon
  <2> QED
    BY <1>2, <2>2, Zenon
<1>4. i \notin Pending \cup timers \cup Range(batch) \cup idSet \cup cancelled
  BY <1>3, Zenon DEF QueueInv, OnePlace, IdsComeOnce
<1> HIDE DEF i
<1>5. Pending' = Pending \cup {i} /\ AddedOnce' /\ Range(batch') = Range(batch)
  <2>1. AddedOnce /\ "add" \in {"add", "cancel"} /\ queue' = Append(queue, <<"add", i>>)
    BY <1>1, <1>2, Zenon DEF QueueInv, OnePlace
  <2>2. AddedOnce' /\ Pending' = IF "add" = "add" THEN Pending \cup {i} ELSE Pending
    BY <1>1, <1>2, <1>4, <2>1, QueueAppend, Zenon
  <2> QED
    BY <1>1, <2>2, Zenon
<1>6. \A j \in timers : when'[j] = when[j] /\ interval'[j] = interval[j]
  BY <1>1, <1>2, <1>4, Zenon DEF TypeOK
<1>7. \A k \in 1..Len(batch) :
        when'[batch[k]] = when[batch[k]] /\ interval'[batch[k]] = interval[batch[k]]
  <2>1. batch \in Seq(Id)
    BY <1>1, Zenon DEF TypeOK
  <2> QED
    BY <1>2, <1>4, <2>1, SeqRange
<1>8. TimerfdCovers'
  BY <1>1, <1>6, Zenon DEF QueueInv, HeapIsArmed, TimerfdCovers
<1>9. IdSetTracksTimers'
  BY <1>1, <1>2, Zenon DEF QueueInv, HeapIsArmed, IdSetTracksTimers
<1>10. OnePlace'
  <2>1. /\ timers' = timers /\ batch' = batch /\ lpc' = lpc /\ highestTask' = highestTask
        /\ lowestTask' = lowestTask /\ alive' = alive \cup {i}
    BY <1>1, <1>2, Zenon DEF heapVars, batchVars
  <2>2. OnePlace
    BY Zenon DEF QueueInv
  <2>3. /\ (Pending \cup timers \cup Range(batch)) \cup {i} \subseteq (alive \cup {i}) \cap (1..created')
        /\ (Pending \cup {i}) \cap timers = {} /\ (Pending \cup {i}) \cap Range(batch) = {}
    BY <1>3, <1>4, <2>2, ZenonT(30) DEF OnePlace
  <2>4. /\ Pending' \cup timers' \cup Range(batch') \subseteq alive' \cap (1..created')
        /\ Pending' \cap timers' = {} /\ Pending' \cap Range(batch') = {}
    BY <1>5, <2>1, <2>3, Zenon
  <2> QED
    BY <1>5, <2>1, <2>2, <2>4 DEF OnePlace
<1>11. IdsComeOnce'
  BY <1>1, <1>3, <1>4, <1>5, Zenon DEF QueueInv, IdsComeOnce
<1>12. RunsLeft'
  <2>1. now' <= clock' /\ \A k \in 1..Len(batch') : when'[batch'[k]] < now'
    BY <1>1, <1>7, Zenon DEF QueueInv, RunsLeft
  <2>2. runs[i] = 0 /\ \A j \in Id : j > created' => runs'[j] = 0
    BY <1>1, <1>2 DEF QueueInv, RunsLeft, TypeOK, i, Id
  <2>3. \A j \in Pending' \cup timers' : interval'[j] = 0 => runs'[j] = 0
    BY <1>1, <1>2, <1>5, <2>2, Zenon DEF QueueInv, RunsLeft, TypeOK, Pending
  <2>4. \A k \in pos..Len(batch) : k \in 1..Len(batch)
    BY <1>1 DEF TypeOK
  <2>5. \A k \in pos'..Len(batch') : interval'[batch'[k]] = 0 => runs'[batch'[k]] = 0
    BY <1>1, <1>7, <2>4, Zenon DEF QueueInv, RunsLeft
  <2> QED
    BY <2>1, <2>2, <2>3, <2>5, Zenon DEF RunsLeft
<1> QED
  BY <1>8, <1>9, <1>10, <1>11, <1>12, Zenon DEF QueueInv, HeapIsArmed

(* Steps that only erase an id, queue its cancellation, or set the timerfd. *)
LEMMA EraseStep ==
  ASSUME QueueInv, TypeOK', NEW gone \in SUBSET idSet, idSet' = idSet \ gone,
         cancelled' = cancelled \cup gone, Pending' = Pending, AddedOnce', TimerfdCovers',
         UNCHANGED <<clock, created, alive, timerVars, timers, highestTask, lowestTask, batchVars,
                     lpc, runs, thrown>>
  PROVE  QueueInv'
<1> USE DEF timerVars, batchVars
<1>1. TypeOK
  BY Zenon DEF QueueInv, HeapIsArmed, IdSetTracksTimers
<1>2. IdSetTracksTimers'
  BY Zenon DEF QueueInv, HeapIsArmed, IdSetTracksTimers
<1>3. OnePlace' /\ IdsComeOnce'
  BY DEF QueueInv, OnePlace, IdsComeOnce
<1>4. RunsLeft'
  BY Zenon DEF QueueInv, RunsLeft
<1> QED
  BY <1>2, <1>3, <1>4, Zenon DEF QueueInv, HeapIsArmed

LEMMA CancelSteps ==
  ASSUME QueueInv, TypeOK',
         \/ \E i \in Id : LoopCancelTimer(i) \/ \E t \in Thread : CancelTimer(t, i)
         \/ RunCancel
  PROVE  QueueInv'
<1> USE DEF timerVars, heapVars, batchVars, hist
<1>1. TypeOK /\ AddedOnce /\ TimerfdCovers
  BY Zenon DEF QueueInv, HeapIsArmed, IdSetTracksTimers, OnePlace
<1>2. UNCHANGED <<clock, created, alive, timerVars, timers, highestTask, lowestTask, batchVars,
                  fdAt, lpc, runs, thrown>>
  BY Zenon DEF LoopCancelTimer, CancelTimer, RunCancel
<1>3. TimerfdCovers'
  BY <1>1, <1>2, Zenon DEF TimerfdCovers
<1>4. ASSUME NEW i \in Id, LoopCancelTimer(i)
      PROVE  QueueInv'
  <2>1. /\ idSet' = idSet \ (idSet \ idSet') /\ cancelled' = cancelled \cup (idSet \ idSet')
        /\ queue' = queue
    BY <1>4, Zenon DEF LoopCancelTimer
  <2>2. Pending' = Pending /\ AddedOnce'
    BY <1>1, <2>1, Zenon DEF Pending, AddedOnce
  <2>3. idSet \ idSet' \in SUBSET idSet
    BY Zenon
  <2> QED
    BY <1>2, <1>3, <2>1, <2>2, <2>3, EraseStep, Zenon
<1>5. ASSUME NEW i \in Id, NEW t \in Thread, CancelTimer(t, i)
      PROVE  QueueInv'
  <2>1. idSet' = idSet \ {} /\ cancelled' = cancelled \cup {} /\ queue' = Append(queue, <<"cancel", i>>)
    BY <1>5, Zenon DEF CancelTimer
  <2>2. AddedOnce' /\ Pending' = IF "cancel" = "add" THEN Pending \cup {i} ELSE Pending
    BY <1>1, <2>1, QueueAppend, Zenon
  <2>3. Pending' = Pending /\ {} \in SUBSET idSet
    BY <2>2, Zenon
  <2> QED
    BY <1>2, <1>3, <2>1, <2>2, <2>3, EraseStep, Zenon
<1>6. CASE RunCancel
  <2>1. /\ idSet' = idSet \ (idSet \ idSet') /\ cancelled' = cancelled \cup (idSet \ idSet')
        /\ queue # <<>> /\ queue' = Tail(queue) /\ Head(queue)[1] = "cancel"
    BY <1>6, Zenon DEF RunCancel
  <2>2. Pending' = Pending /\ AddedOnce'
    BY <1>1, <2>1, QueueTail, Zenon
  <2>3. idSet \ idSet' \in SUBSET idSet
    BY Zenon
  <2> QED
    BY <1>2, <1>3, <2>1, <2>2, <2>3, EraseStep, ZenonT(30)
<1> QED
  BY <1>4, <1>5, <1>6, Zenon

(* After a fork the new timerfd is set for the top of the heap. *)
LEMMA ForkStep ==
  ASSUME QueueInv, TypeOK', ResetAfterFork
  PROVE  QueueInv'
<1> USE DEF timerVars, heapVars, batchVars, hist
<1>1. TypeOK /\ AddedOnce
  BY Zenon DEF QueueInv, HeapIsArmed, IdSetTracksTimers, OnePlace
<1>2. UNCHANGED <<clock, created, alive, timerVars, timers, highestTask, lowestTask, batchVars, lpc,
                  runs, thrown, idSet, cancelled, queue>>
  BY Zenon DEF ResetAfterFork
<1>3. Pending' = Pending /\ AddedOnce'
  BY <1>1, <1>2, Zenon DEF Pending, AddedOnce
<1>4. TimerfdCovers'
  <2>1. \A i \in timers : when[i] \in Nat
    BY <1>1, Zenon DEF TypeOK
  <2>2. \A i \in timers : InTimeFor(fdAt', when[i], clock)
    BY <1>1, <2>1, ExpiryType, ZenonT(30) DEF ResetAfterFork, IsTop, TypeOK
  <2> QED
    BY <1>2, <2>2, Zenon DEF TimerfdCovers
<1>5. {} \in SUBSET idSet /\ idSet' = idSet \ {} /\ cancelled' = cancelled \cup {}
  BY <1>2, Zenon
<1> QED
  BY <1>2, <1>3, <1>4, <1>5, EraseStep, Zenon

(* A queued addTimerInLoop runs. *)
LEMMA RunAddStep ==
  ASSUME QueueInv, TypeOK', RunAdd
  PROVE  QueueInv'
<1> DEFINE i == Head(queue)[2]
<1> USE DEF timerVars, heapVars, batchVars, hist
<1>1. TypeOK /\ AddedOnce /\ TimerfdCovers
  BY Zenon DEF QueueInv, HeapIsArmed, IdSetTracksTimers, OnePlace
<1>2. i \in Id /\ i \in Pending /\ Pending' = Pending \ {i} /\ AddedOnce'
  BY <1>1, QueueTail, Zenon DEF RunAdd
<1> HIDE DEF i
<1>3. /\ AddTimerInLoop(i, when[i]) /\ idSet' = idSet \cup {i} /\ timers' = timers \cup {i}
      /\ UNCHANGED <<clock, created, alive, timerVars, highestTask, lowestTask, batchVars, lpc, hist>>
  BY Zenon DEF RunAdd, AddTimerInLoop, i
<1>4. TimerfdCovers'
  <2>1. when' \in [Id -> Nat] /\ when'[i] = when[i] /\ when[i] \in Nat
    BY <1>1, <1>2, <1>3, Zenon DEF TypeOK
  <2>2. \A j \in timers : when'[j] = when[j]
    BY <1>3, Zenon
  <2> QED
    BY <1>1, <1>2, <1>3, <2>1, <2>2, InsertCovers, Zenon
<1>5. i \in alive /\ i \in 1..created /\ i \notin idSet \cup cancelled /\ i \notin Range(batch)
  BY <1>2, Zenon DEF QueueInv, OnePlace, IdsComeOnce
<1>6. IdSetTracksTimers'
  BY <1>3, <1>5, Zenon DEF QueueInv, HeapIsArmed, IdSetTracksTimers
<1>7. OnePlace' /\ IdsComeOnce'
  BY <1>2, <1>3, <1>5 DEF QueueInv, OnePlace, IdsComeOnce
<1>8. RunsLeft'
  BY <1>2, <1>3, Zenon DEF QueueInv, RunsLeft
<1> QED
  BY <1>4, <1>6, <1>7, <1>8, Zenon DEF QueueInv, HeapIsArmed

(* handleRead takes the expired timers out of the heap. *)
LEMMA ReadStep ==
  ASSUME QueueInv, TypeOK', HandleRead
  PROVE  QueueInv'
<1> DEFINE expired == {i \in timers : when[i] < clock}
<1> USE DEF timerVars, hist
<1>1. TypeOK /\ highestTask = None /\ lowestTask = None
  BY Zenon DEF QueueInv, HeapIsArmed, IdSetTracksTimers, OnePlace
<1>2. /\ highestTask' = None /\ lowestTask' = None /\ timers' = timers \ expired
      /\ batch' \in Seq(Id) /\ Range(batch') = expired
      /\ \A j, k \in 1..Len(batch') : batch'[j] = batch'[k] => j = k
  BY <1>1, ReadTakesExpired, Zenon
<1>3. /\ now' = clock /\ pos' = 1 /\ lpc = "poll" /\ lpc' = "timers"
      /\ UNCHANGED <<clock, created, alive, timerVars, idSet, queue, hist>>
  BY Zenon DEF HandleRead
<1>4. Pending' = Pending /\ (AddedOnce => AddedOnce')
  BY <1>3, Zenon DEF Pending, AddedOnce
<1>5. batch = <<>> /\ Range(batch) = {}
  BY <1>3, SeqRange DEF QueueInv, OnePlace, Range
<1>6. TimerfdCovers'
  BY <1>3, Zenon DEF TimerfdCovers
<1>7. IdSetTracksTimers'
  BY <1>2, <1>3, <1>5, Zenon DEF QueueInv, HeapIsArmed, IdSetTracksTimers
<1>8. OnePlace'
  BY <1>2, <1>3, <1>4, Zenon DEF QueueInv, OnePlace
<1>9. IdsComeOnce'
  BY <1>3, <1>4, Zenon DEF QueueInv, IdsComeOnce
<1>10. RunsLeft'
  <2>1. \A k \in 1..Len(batch') : batch'[k] \in timers /\ when[batch'[k]] < clock
    BY <1>2, SeqRange, Zenon
  <2>2. now' <= clock' /\ \A k \in 1..Len(batch') : when'[batch'[k]] < now'
    BY <1>1, <1>3, <2>1 DEF TypeOK
  <2>3. /\ \A i \in Id : i > created' => runs'[i] = 0
        /\ \A i \in Pending' \cup timers' : interval'[i] = 0 => runs'[i] = 0
    BY <1>2, <1>3, <1>4, Zenon DEF QueueInv, RunsLeft
  <2>4. \A k \in pos'..Len(batch') : interval'[batch'[k]] = 0 => runs'[batch'[k]] = 0
    BY <1>3, <2>1, Zenon DEF QueueInv, RunsLeft
  <2> QED
    BY <2>2, <2>3, <2>4, Zenon DEF RunsLeft
<1> QED
  BY <1>6, <1>7, <1>8, <1>9, <1>10, Zenon DEF QueueInv, HeapIsArmed

(* What the call of a callback changes: one timer of the batch, that is due
   and whose id is in m_timerIdSet, has run once more. *)
LEMMA CallEffect ==
  ASSUME QueueInv, RunTimer \/ TimerThrows
  PROVE  /\ pos \in 1..Len(batch) /\ batch[pos] \in Id /\ batch[pos] \in Range(batch)
         /\ \A i \in Id : i # batch[pos] => runs'[i] = runs[i]
         /\ runs'[batch[pos]] # runs[batch[pos]] => batch[pos] \in idSet
         /\ when[batch[pos]] < clock
         /\ interval[batch[pos]] = 0 => runs[batch[pos]] = 0
<1>1. TypeOK /\ RunsLeft
  BY Zenon DEF QueueInv, HeapIsArmed, IdSetTracksTimers
<1>2. pos \in 1..Len(batch) /\ pos \in pos..Len(batch) /\ batch \in Seq(Id)
  BY <1>1 DEF RunTimer, TimerThrows, TypeOK
<1>3. batch[pos] \in Id /\ batch[pos] \in Range(batch)
  BY <1>2, SeqRange, Zenon
<1>4. /\ \A i \in Id : i # batch[pos] => runs'[i] = runs[i]
      /\ runs'[batch[pos]] # runs[batch[pos]] => batch[pos] \in idSet
  BY <1>1, <1>3, Zenon DEF RunTimer, TimerThrows, TypeOK
<1>5. when[batch[pos]] < clock
  <2>1. when[batch[pos]] < now /\ now <= clock
    BY <1>1, <1>2, Zenon DEF RunsLeft
  <2>2. when[batch[pos]] \in Nat /\ now \in Nat /\ clock \in Nat
    BY <1>1, <1>3, Zenon DEF TypeOK
  <2> QED
    BY <2>1, <2>2
<1>6. interval[batch[pos]] = 0 => runs[batch[pos]] = 0
  BY <1>1, <1>2, Zenon DEF RunsLeft
<1> QED
  BY <1>2, <1>3, <1>4, <1>5, <1>6, Zenon

(* A callback of the batch is called, or passed over. *)
LEMMA RunStep ==
  ASSUME QueueInv, TypeOK', RunTimer
  PROVE  QueueInv'
<1> USE DEF timerVars, heapVars
<1>1. /\ pos' = pos + 1 /\ lpc = "timers"
      /\ UNCHANGED <<clock, created, alive, timerVars, heapVars, fdAt, now, batch, queue, lpc, cancelled,
                     thrown>>
  BY Zenon DEF RunTimer
<1>2. TypeOK /\ pos \in 1..Len(batch) /\ batch[pos] \in Range(batch)
      /\ \A i \in Id : i # batch[pos] => runs'[i] = runs[i]
  BY CallEffect, Zenon DEF QueueInv, HeapIsArmed, IdSetTracksTimers
<1>3. Pending' = Pending /\ (AddedOnce => AddedOnce')
  BY <1>1, Zenon DEF Pending, AddedOnce
<1>4. HeapIsArmed' /\ OnePlace' /\ IdsComeOnce'
  BY <1>1, <1>3
  DEF QueueInv, HeapIsArmed, IdSetTracksTimers, TimerfdCovers, OnePlace, IdsComeOnce
<1>5. RunsLeft'
  <2>1. now' <= clock' /\ \A k \in 1..Len(batch') : when'[batch'[k]] < now'
    BY <1>1, Zenon DEF QueueInv, RunsLeft
  <2>2. /\ \A i \in Pending \cup timers : i # batch[pos] /\ i \in Id
        /\ batch[pos] \in 1..created
    BY <1>2, Zenon DEF QueueInv, OnePlace, TypeOK, Pending
  <2>3. \A i \in Id : i > created' => runs'[i] = 0
    <3>1. \A i \in Id : i > created => i # batch[pos]
      <4>1. created \in Nat
        BY <1>2 DEF TypeOK
      <4> QED
        BY <2>2, <4>1 DEF Id
    <3> QED
      BY <1>1, <1>2, <3>1, Zenon DEF QueueInv, RunsLeft
  <2>4. \A i \in Pending' \cup timers' : interval'[i] = 0 => runs'[i] = 0
    BY <1>1, <1>2, <1>3, <2>2, Zenon DEF QueueInv, RunsLeft
  <2>5. \A k \in pos'..Len(batch') : interval'[batch'[k]] = 0 => runs'[batch'[k]] = 0
    <3> SUFFICES ASSUME NEW k \in (pos + 1)..Len(batch), interval[batch[k]] = 0
                 PROVE  runs'[batch[k]] = 0
      BY <1>1, Zenon
    <3>1. k \in pos..Len(batch) /\ k \in 1..Len(batch) /\ k # pos
      BY <1>2
    <3>2. batch[k] # batch[pos]
      BY <1>2, <3>1, Zenon DEF QueueInv, OnePlace
    <3>3. batch[k] \in Id
      BY <1>2, <3>1, SMTT(30) DEF TypeOK
    <3>4. runs[batch[k]] = 0
      BY <3>1, Zenon DEF QueueInv, RunsLeft
    <3> QED
      BY <1>2, <3>2, <3>3, <3>4, Zenon
  <2> QED
    BY <2>1, <2>3, <2>4, <2>5, Zenon DEF RunsLeft
<1> QED
  BY <1>4, <1>5, Zenon DEF QueueInv

(* The end of a batch: its timers leave it, and those of `again` are back in
   the heap. *)
LEMMA BatchEnds ==
  ASSUME QueueInv, TypeOK', NEW again \in SUBSET Range(batch), lpc = "timers", lpc' # "timers",
         \A i \in again : interval[i] # 0,
         timers' = timers \cup again, alive' = alive \ (Range(batch) \ again), batch' = <<>>,
         highestTask' = None, lowestTask' = None, idSet' \subseteq idSet,
         thrown' \/ idSet' \subseteq timers',
         \A i \in Id : i \notin Range(batch) => runs'[i] = runs[i],
         UNCHANGED <<clock, created, interval, now, queue, cancelled>>, TimerfdCovers',
         thrown => thrown'
  PROVE  QueueInv'
<1>1. TypeOK /\ Range(batch') = {} /\ Len(batch') = 0
  BY DEF QueueInv, HeapIsArmed, IdSetTracksTimers, Range
<1>2. Pending' = Pending /\ (AddedOnce => AddedOnce')
  BY Zenon DEF Pending, AddedOnce
<1>3. IdSetTracksTimers'
  BY <1>1, Zenon DEF QueueInv, HeapIsArmed, IdSetTracksTimers, OnePlace
<1>4. OnePlace'
  BY <1>1, <1>2 DEF QueueInv, OnePlace
<1>5. IdsComeOnce'
  BY <1>2, Zenon DEF QueueInv, IdsComeOnce
<1>6. RunsLeft'
  <2>1. Range(batch) \subseteq 1..created /\ created \in Nat
    BY <1>1 DEF QueueInv, OnePlace, TypeOK
  <2>2. \A i \in Id : i > created' => runs'[i] = 0
    <3>1. \A i \in Id : i > created => i \notin Range(batch)
      <4>1. \A i \in Id : i > created => i \notin 1..created
        BY <2>1 DEF Id
      <4> QED
        BY <2>1, <4>1, Zenon
    <3> QED
      BY <3>1, Zenon DEF QueueInv, RunsLeft
  <2>3. \A i \in Pending' \cup timers' : interval'[i] = 0 => runs'[i] = 0
    <3>1. \A i \in Pending \cup timers : i \notin Range(batch) /\ i \in Id
      BY <1>1, Zenon DEF QueueInv, OnePlace, TypeOK, Pending
    <3> QED
      BY <1>2, <3>1, Zenon DEF QueueInv, RunsLeft
  <2>4. now' <= clock'
    BY Zenon DEF QueueInv, RunsLeft
  <2>5. 1..Len(batch') = {} /\ pos'..Len(batch') = {}
    BY <1>1 DEF TypeOK
  <2> QED
    BY <2>2, <2>3, <2>4, <2>5, Zenon DEF RunsLeft
<1> QED
  BY <1>3, <1>4, <1>5, <1>6, Zenon DEF QueueInv, HeapIsArmed

(* A callback throws. *)
LEMMA ThrowStep ==
  ASSUME QueueInv, TypeOK', TimerThrows
  PROVE  QueueInv'
<1> USE DEF timerVars, heapVars
<1>1. /\ batch' = <<>> /\ lpc = "timers" /\ lpc' # "timers" /\ thrown'
      /\ alive' = alive \ (Range(batch) \ {highestTask, lowestTask})
      /\ UNCHANGED <<clock, created, timerVars, heapVars, now, queue, cancelled>>
  BY Zenon DEF TimerThrows
<1>2. highestTask = None /\ lowestTask = None /\ TypeOK
  BY Zenon DEF QueueInv, OnePlace, HeapIsArmed, IdSetTracksTimers
<1>3. None \notin Range(batch)
  <2>1. Range(batch) \subseteq Id
    BY <1>2, SeqRange, Zenon DEF TypeOK
  <2> QED
    BY <2>1 DEF None, Id
<1>4. alive' = alive \ (Range(batch) \ {})
  BY <1>1, <1>2, <1>3, Zenon
<1>5. timers' = timers \cup {} /\ TimerfdCovers' /\ {} \in SUBSET Range(batch)
  BY <1>1, Zenon DEF TimerfdCovers
<1>6. \A i \in Id : i \notin Range(batch) => runs'[i] = runs[i]
  BY CallEffect, Zenon
<1> QED
  BY <1>1, <1>2, <1>4, <1>5, <1>6, BatchEnds, Zenon

(* reset (280-304) puts the repeating timers back and sets the timerfd. *)
LEMMA ResetStep ==
  ASSUME QueueInv, TypeOK', Reset
  PROVE  QueueInv'
<1> DEFINE again == {i \in Range(batch) \cap idSet : interval[i] > 0}
<1> USE DEF timerVars, hist
<1>1. /\ batch' = <<>> /\ lpc = "timers" /\ lpc' # "timers" /\ highestTask' = None /\ lowestTask' = None
      /\ timers' = timers \cup again /\ alive' = alive \ (Range(batch) \ again)
      /\ idSet' = idSet \ (Range(batch) \ again)
      /\ UNCHANGED <<clock, created, interval, now, queue, hist>>
  BY Zenon DEF Reset
<1>2. TypeOK /\ Range(batch) \subseteq Id
  BY SeqRange, Zenon DEF QueueInv, HeapIsArmed, IdSetTracksTimers, TypeOK
<1>3. again \in SUBSET Range(batch) /\ \A i \in again : interval[i] # 0
  BY <1>2 DEF TypeOK
<1>4. thrown' \/ idSet' \subseteq timers'
  <2>1. thrown \/ idSet \subseteq timers \cup Range(batch)
    BY Zenon DEF QueueInv, HeapIsArmed, IdSetTracksTimers
  <2> QED
    BY <1>1, <2>1, Zenon
<1> HIDE DEF again
<1>5. TimerfdCovers'
  <2>1. clock \in Nat /\ clock' = clock /\ \A i \in timers' : when'[i] \in Nat
    BY <1>1, <1>2, Zenon DEF TypeOK
  <2>2. \A i \in timers' : InTimeFor(fdAt', when'[i], clock)
    BY <2>1, ExpiryType, Zenon DEF Reset, IsTop
  <2> QED
    BY <2>1, <2>2, Zenon DEF TimerfdCovers
<1> QED
  BY <1>1, <1>3, <1>4, <1>5, BatchEnds, Zenon
-----------------------------------------------------------------------------
(* Every step keeps the inductive invariant. *)
LEMMA QueueInvStep ==
  ASSUME QueueInv, [Next]_vars
  PROVE  QueueInv'
<1>1. TypeOK'
  <2>1. TypeOK /\ highestTask = None /\ lowestTask = None
    BY Zenon DEF QueueInv, HeapIsArmed, IdSetTracksTimers, OnePlace
  <2> QED
    BY <2>1, TypeStep, Zenon
<1>2. ASSUME \/ \E t \in Thread : ReturnId(t)
             \/ LoopQuit \/ Loop \/ PollWakeup \/ FuncsDone \/ Tick \/ UNCHANGED vars
      PROVE  QueueInv'
  <2>1. /\ UNCHANGED <<created, alive, timerVars, heapVars, fdAt, batchVars, queue, runs, cancelled,
                       thrown>>
        /\ clock' \in {clock, clock + 1} /\ (lpc' = "timers" <=> lpc = "timers")
    BY <1>2, Zenon DEF ReturnId, LoopQuit, Loop, PollWakeup, FuncsDone, Tick, vars, hist
  <2> QED
    BY <1>1, <2>1, QuietStep, Zenon
<1> QED
  BY <1>1, <1>2, LoopAddStep, AddStep, CancelSteps, ForkStep, ThrowStep, ReadStep, RunStep, ResetStep,
     RunAddStep, Zenon
  DEF Next, LoopStep

(* Every timer queue begins in the invariant. *)
LEMMA QueueInvInit == Init => QueueInv
<1> SUFFICES ASSUME Init
             PROVE  QueueInv
  BY Zenon
<1> USE TimerQueueAssumption DEF Init
<1>1. Range(batch) = {} /\ Range(queue) = {} /\ Len(batch) = 0 /\ Len(queue) = 0
  BY DEF Range
<1>2. TypeOK
  <2>1. batch \in Seq(Id) /\ queue \in Seq({"add", "cancel"} \X Id)
    OBVIOUS
  <2>2. pos \in 1..(Len(batch) + 1) /\ created \in 0..MaxTimers
    BY <1>1
  <2> QED
    BY <2>1, <2>2, Zenon DEF TypeOK
<1>3. Pending = {} /\ AddedOnce
  BY <1>1 DEF Pending, AddedOnce
<1>4. HeapIsArmed
  BY <1>1, <1>2, Zenon DEF HeapIsArmed, TimerfdCovers, IdSetTracksTimers
<1>5. OnePlace /\ IdsComeOnce
  BY <1>1, <1>3 DEF OnePlace, IdsComeOnce
<1>6. RunsLeft
  BY <1>1, <1>3 DEF RunsLeft
<1> QED
  BY <1>4, <1>5, <1>6, Zenon DEF QueueInv

(* The timerfd covers the heap and m_timerIdSet tracks the timers, whatever
   other threads and callbacks add and cancel (234-244, 280-304). *)
THEOREM TimerfdKeepsUp == Spec => []HeapIsArmed
<1>1. QueueInv => HeapIsArmed
  BY Zenon DEF QueueInv
<1> QED
  BY <1>1, QueueInvInit, QueueInvStep, PTL DEF Spec

(* Callbacks run only after their time, a one-shot timer's at most once, and
   none once cancelTimer has erased its id (80, 287), also after another
   callback has thrown. *)
THEOREM TimersRunAsAsked == Spec => RunsAsAsked
<1>1. ASSUME QueueInv, [Next]_vars
      PROVE  [\A i \in Id : runs'[i] # runs[i] =>
                i \notin cancelled /\ when[i] < clock /\ (interval[i] > 0 \/ runs[i] = 0)]_vars
  <2>1. TypeOK /\ idSet \cap cancelled = {}
    BY <1>1, Zenon DEF QueueInv, HeapIsArmed, IdSetTracksTimers
  <2>2. CASE RunTimer \/ TimerThrows
    <3>1. \A i \in Id : interval[i] = 0 \/ interval[i] > 0
      BY <2>1 DEF TypeOK
    <3> QED
      BY <1>1, <2>1, <2>2, <3>1, CallEffect, Zenon
  <2>3. CASE ~(RunTimer \/ TimerThrows)
    <3>1. UNCHANGED runs
      BY <1>1, <2>3, Zenon
      DEF Next, LoopStep, LoopAddTimer, AddTimer, LoopCancelTimer, CancelTimer, ReturnId, LoopQuit,
          ResetAfterFork, Loop, HandleRead, Reset, PollWakeup, RunAdd, RunCancel, FuncsDone, Tick, vars, hist
    <3> QED
      BY <3>1, Zenon
  <2> QED
    BY <2>2, <2>3, Zenon
<1> QED
  BY <1>1, QueueInvInit, QueueInvStep, PTL DEF Spec, RunsAsAsked
=============================================================================
