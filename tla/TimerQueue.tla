----------------------------- MODULE TimerQueue -----------------------------
(***************************************************************************)
(* netpoll/net/inner/timer_queue.cc and timer.cc: the timers of a loop,    *)
(* kept in a heap and driven by one timerfd, and the calls that add and    *)
(* cancel them from the loop thread and from other threads (runAt,         *)
(* runAfter, runEvery and cancelTimer of eventloop.cc).                    *)
(*                                                                         *)
(* Time counts units of 100 microseconds, the shortest time the timerfd is *)
(* set to.  `queue` is m_funcs, of which only the functions queued here    *)
(* are kept.  The loop thread handles the timerfd, then drains `queue`.    *)
(***************************************************************************)
EXTENDS Integers, Sequences, FiniteSets, Functions

CONSTANTS
  Thread,         \* threads other than the loop thread
  MaxTimers,      \* bound on the timers ever created
  MaxTime,        \* bound on the clock
  Delays,         \* delays of new timers
  Intervals,      \* intervals of new timers, 0 for one-shot ones
  Tags            \* subset of {"normal", "highest", "lowest"}

ASSUME TimerQueueAssumption ==
  /\ MaxTimers \in Nat /\ MaxTime \in Nat
  /\ Delays \subseteq Nat /\ Intervals \subseteq Nat
  /\ Tags \subseteq {"normal", "highest", "lowest"}

None == 0 - 1

Id == 1..MaxTimers

VARIABLES
  clock,          \* steady_clock
  created,        \* Timer::timersCreated_
  alive,          \* Timer objects that are allocated
  when, interval, tag,      \* m_when, m_interval, m_highest/m_lowest per timer
  timers,         \* m_timers, the heap
  idSet,          \* m_timerIdSet
  highestTask, lowestTask,  \* m_highestTask, m_lowestTask, or None
  fdAt,           \* when the timerfd is or was to expire; None if disarmed
  now,            \* `now` of handleRead
  batch, pos,     \* the timers handleRead goes through, and how far it is
  queue,          \* functions queued by other threads: <<"add" or "cancel", id>>
  lpc,            \* the loop thread: "out" of loop(), "poll", "timers" or "funcs"
  quit,           \* m_quit
  tid,            \* tid[t]: the timer whose id addTimer is about to return, or None
  runs,           \* history: how often each timer's callback was called
  sent,           \* timers another thread called cancelTimer for
  cancelled,      \* history: timers whose id cancelTimer has erased
  thrown          \* history: a timer's callback has thrown

timerVars == <<when, interval, tag>>
heapVars == <<timers, idSet, highestTask, lowestTask>>
batchVars == <<now, batch, pos>>
hist == <<runs, sent, cancelled, thrown>>
vars == <<clock, created, alive, timerVars, heapVars, fdAt, batchVars, queue, lpc, quit, tid, hist>>

Init ==
  /\ clock = 0
  /\ created = 0
  /\ alive = {}
  /\ when = [i \in Id |-> 0] /\ interval = [i \in Id |-> 0] /\ tag = [i \in Id |-> "normal"]
  /\ timers = {} /\ idSet = {} /\ highestTask = None /\ lowestTask = None
  /\ fdAt = None
  /\ now = 0 /\ batch = <<>> /\ pos = 1
  /\ queue = <<>>
  /\ lpc = "out"
  /\ quit = FALSE
  /\ tid = [t \in Thread |-> None]
  /\ runs = [i \in Id |-> 0] /\ sent = {} /\ cancelled = {} /\ thrown = FALSE

(* isRunning() *)
running == lpc # "out" /\ ~quit

(* howMuchTimeFromNow and resetTimerfd: at least one unit from now. *)
Expiry(w) == IF w - clock < 1 THEN clock + 1 ELSE w

(* The `when` of m_timers.top(). *)
IsTop(i, S, w) == i \in S /\ \A j \in S : w[i] <= w[j]
-----------------------------------------------------------------------------
(* runAt, runAfter and runEvery: steady_clock::now() plus the delay. *)
Due(d) == clock + d

(* new Timer(...): the next id, expiring d from now. *)
NewTimer(d, v, g) ==
  /\ created < MaxTimers
  /\ Due(d) + 2 <= MaxTime
  /\ created' = created + 1
  /\ alive' = alive \cup {created'}
  /\ when' = [when EXCEPT ![created'] = Due(d)]
  /\ interval' = [interval EXCEPT ![created'] = v]
  /\ tag' = [tag EXCEPT ![created'] = g]

(* Mutant: the timerfd is set only for the first timer. *)
AddTimerInLoopFirstOnly(i, w) ==
  /\ idSet' = idSet \cup {i}
  /\ timers' = timers \cup {i}
  /\ fdAt' = IF timers = {} THEN Expiry(w) ELSE fdAt

(* addTimerInLoop and insert, for timer i expiring at w. *)
AddTimerInLoop(i, w) ==
  /\ idSet' = idSet \cup {i}
  /\ timers' = timers \cup {i}
  /\ fdAt' = IF \A j \in timers : w < when[j] THEN Expiry(w) ELSE fdAt

(* addTimer on another thread: queueInLoop, ... *)
AddTimer(t, d, v, g) ==
  /\ tid[t] = None
  /\ NewTimer(d, v, g)
  /\ queue' = Append(queue, <<"add", created'>>)
  /\ tid' = [tid EXCEPT ![t] = created']
  /\ UNCHANGED <<clock, heapVars, fdAt, batchVars, lpc, quit, hist>>

(* ... then return timerPtr->id(). *)
ReturnId(t) ==
  /\ tid[t] # None
  /\ tid' = [tid EXCEPT ![t] = None]
  /\ UNCHANGED <<clock, created, alive, timerVars, heapVars, fdAt, batchVars, queue, lpc, quit, hist>>

(* cancelTimer on another thread, with an id some addTimer has returned;
   called once for each timer. *)
CancelTimer(t, i) ==
  /\ tid[t] = None
  /\ i <= created /\ \A s \in Thread : tid[s] # i
  /\ running
  /\ i \notin sent
  /\ sent' = sent \cup {i}
  /\ queue' = Append(queue, <<"cancel", i>>)
  /\ UNCHANGED <<clock, created, alive, timerVars, heapVars, fdAt, batchVars, lpc, quit, tid, runs, cancelled, thrown>>
-----------------------------------------------------------------------------
(* Some callback, a timer's or a queued function, runs on the loop thread. *)
InCallback == lpc = "funcs" \/ (lpc = "timers" /\ pos > 1)

(* addTimer on the loop thread, by a callback or outside loop(). *)
LoopAddTimer(d, v, g) ==
  /\ InCallback \/ lpc = "out"
  /\ NewTimer(d, v, g)
  /\ AddTimerInLoop(created', Due(d))
  /\ UNCHANGED <<clock, highestTask, lowestTask, batchVars, queue, lpc, quit, tid, hist>>

(* cancelTimer on the loop thread: nothing unless the loop is running. *)
LoopCancelTimer(i) ==
  /\ InCallback \/ lpc = "out"
  /\ i <= created /\ \A s \in Thread : tid[s] # i
  /\ idSet' = IF running THEN idSet \ {i} ELSE idSet
  /\ cancelled' = cancelled \cup (idSet \ idSet')
  /\ UNCHANGED <<clock, created, alive, timerVars, timers, highestTask, lowestTask, fdAt, batchVars, queue, lpc, quit, tid, runs, sent, thrown>>

(* A callback calls quit(). *)
LoopQuit ==
  /\ InCallback
  /\ quit' = TRUE
  /\ UNCHANGED <<clock, created, alive, timerVars, heapVars, fdAt, batchVars, queue, lpc, tid, hist>>

(* resetTimerQueue after a fork: a new timerfd. *)
ResetAfterFork ==
  /\ lpc = "out"
  /\ \/ timers = {} /\ fdAt' = None
     \/ \E i \in timers : IsTop(i, timers, when) /\ fdAt' = Expiry(when[i])
  /\ UNCHANGED <<clock, created, alive, timerVars, heapVars, batchVars, queue, lpc, quit, tid, hist>>

Loop ==
  /\ lpc = "out"
  /\ quit' = FALSE
  /\ lpc' = "poll"
  /\ UNCHANGED <<clock, created, alive, timerVars, heapVars, fdAt, batchVars, queue, tid, hist>>
-----------------------------------------------------------------------------
(* The orders in which the heap may give out the timers of S. *)
PopOrders(S) ==
  {s \in Bijection(1..Cardinality(S), S) :
     \A j, k \in 1..Cardinality(S) : j < k => when[s[j]] <= when[s[k]]}

(* A tagged timer becomes the task of its tag if there is one already; the
   last one popped stays. *)
Tagged(S, g, task) == {i \in S : tag[i] = g /\ task # None}

NewTasks(S, task) ==
  IF S = {} THEN {task} ELSE {i \in S : \A j \in S : when[j] <= when[i]}

Single(task) == IF task = None THEN <<>> ELSE <<task>>

(* handleRead, up to the calls: read the timerfd and take the timers that
   expired before now out of the heap (getExpired). *)
HandleRead ==
  /\ lpc = "poll"
  /\ fdAt # None /\ fdAt <= clock
  /\ fdAt' = None
  /\ now' = clock
  /\ LET expired == {i \in timers : when[i] < clock}
         highest == Tagged(expired, "highest", highestTask)
         lowest == Tagged(expired, "lowest", lowestTask) IN
     /\ timers' = timers \ expired
     /\ highestTask' \in NewTasks(highest, highestTask)
     /\ lowestTask' \in NewTasks(lowest, lowestTask)
     /\ \E s \in PopOrders(expired \ (highest \cup lowest)) :
          batch' = Single(highestTask') \o s \o Single(lowestTask')
  /\ pos' = 1
  /\ lpc' = "timers"
  /\ UNCHANGED <<clock, created, alive, timerVars, idSet, queue, quit, tid, hist>>

(* Mutant: the id is not looked up before the call. *)
RunTimerUnchecked ==
  /\ lpc = "timers"
  /\ pos <= Len(batch)
  /\ runs' = [runs EXCEPT ![batch[pos]] = @ + 1]
  /\ pos' = pos + 1
  /\ UNCHANGED <<clock, created, alive, timerVars, heapVars, fdAt, now, batch, queue, lpc, quit, tid, sent, cancelled, thrown>>

(* The next callback of the batch, unless its id was erased. *)
RunTimer ==
  /\ lpc = "timers"
  /\ pos <= Len(batch)
  /\ runs' = [runs EXCEPT ![batch[pos]] = IF batch[pos] \in idSet THEN @ + 1 ELSE @]
  /\ pos' = pos + 1
  /\ UNCHANGED <<clock, created, alive, timerVars, heapVars, fdAt, now, batch, queue, lpc, quit, tid, sent, cancelled, thrown>>

(* The next callback throws: handleRead is left before reset(), the expired
   timers are deleted, the timerfd stays unset, and loop() ends. *)
TimerThrows ==
  /\ lpc = "timers"
  /\ pos <= Len(batch) /\ batch[pos] \in idSet
  /\ runs' = [runs EXCEPT ![batch[pos]] = @ + 1]
  /\ alive' = alive \ (Range(batch) \ {highestTask, lowestTask})
  /\ batch' = <<>> /\ pos' = 1
  /\ lpc' = "out"
  /\ thrown' = TRUE
  /\ UNCHANGED <<clock, created, timerVars, heapVars, fdAt, now, queue, quit, tid, sent, cancelled>>

(* Mutant: reset does not set the timerfd. *)
ResetNoRearm ==
  /\ lpc = "timers"
  /\ pos > Len(batch)
  /\ LET done == Range(batch)
         again == {i \in done \cap idSet : interval[i] > 0} IN
     /\ when' = [i \in Id |-> IF i \in again THEN now + interval[i] ELSE when[i]]
     /\ timers' = timers \cup again
     /\ idSet' = idSet \ (done \ again)
     /\ alive' = alive \ (done \ again)
  /\ highestTask' = None /\ lowestTask' = None
  /\ batch' = <<>> /\ pos' = 1
  /\ lpc' = "funcs"
  /\ UNCHANGED <<clock, created, interval, tag, fdAt, now, queue, quit, tid, hist>>

(* The end of handleRead, reset(expired, now): repeating timers go back into
   the heap, ids of the others are erased, and the timerfd is set for the
   top of the heap.  The timers that are not put back are deleted. *)
Reset ==
  /\ lpc = "timers"
  /\ pos > Len(batch)
  /\ LET done == Range(batch)
         again == {i \in done \cap idSet : interval[i] > 0} IN
     /\ when' = [i \in Id |-> IF i \in again THEN now + interval[i] ELSE when[i]]
     /\ timers' = timers \cup again
     /\ idSet' = idSet \ (done \ again)
     /\ alive' = alive \ (done \ again)
  /\ \/ timers' = {} /\ UNCHANGED fdAt
     \/ \E i \in timers' : IsTop(i, timers', when') /\ fdAt' = Expiry(when'[i])
  /\ highestTask' = None /\ lowestTask' = None
  /\ batch' = <<>> /\ pos' = 1
  /\ lpc' = "funcs"
  /\ UNCHANGED <<clock, created, interval, tag, now, queue, quit, tid, hist>>

(* poll() returns for the eventfd only. *)
PollWakeup ==
  /\ lpc = "poll"
  /\ queue # <<>>
  /\ ~(fdAt # None /\ fdAt <= clock)
  /\ lpc' = "funcs"
  /\ UNCHANGED <<clock, created, alive, timerVars, heapVars, fdAt, batchVars, queue, quit, tid, hist>>

(* The drain of m_funcs runs the next queued function. *)
RunAdd ==
  /\ lpc = "funcs"
  /\ queue # <<>> /\ Head(queue)[1] = "add"
  /\ AddTimerInLoop(Head(queue)[2], when[Head(queue)[2]])
  /\ queue' = Tail(queue)
  /\ UNCHANGED <<clock, created, alive, timerVars, highestTask, lowestTask, batchVars, lpc, quit, tid, hist>>

RunCancel ==
  /\ lpc = "funcs"
  /\ queue # <<>> /\ Head(queue)[1] = "cancel"
  /\ idSet' = idSet \ {Head(queue)[2]}
  /\ cancelled' = cancelled \cup (idSet \ idSet')
  /\ queue' = Tail(queue)
  /\ UNCHANGED <<clock, created, alive, timerVars, timers, highestTask, lowestTask, fdAt, batchVars, lpc, quit, tid, runs, sent, thrown>>

FuncsDone ==
  /\ lpc = "funcs"
  /\ queue = <<>>
  /\ lpc' = IF quit THEN "out" ELSE "poll"
  /\ UNCHANGED <<clock, created, alive, timerVars, heapVars, fdAt, batchVars, queue, quit, tid, hist>>

Tick ==
  /\ clock < MaxTime
  /\ clock' = clock + 1
  /\ UNCHANGED <<created, alive, timerVars, heapVars, fdAt, batchVars, queue, lpc, quit, tid, hist>>

LoopStep ==
  HandleRead \/ RunTimer \/ Reset \/ PollWakeup \/ RunAdd \/ RunCancel \/ FuncsDone

Next ==
  \/ \E d \in Delays, v \in Intervals, g \in Tags :
       LoopAddTimer(d, v, g) \/ \E t \in Thread : AddTimer(t, d, v, g)
  \/ \E i \in Id : LoopCancelTimer(i) \/ \E t \in Thread : CancelTimer(t, i)
  \/ \E t \in Thread : ReturnId(t)
  \/ LoopQuit \/ ResetAfterFork \/ Loop \/ TimerThrows
  \/ LoopStep
  \/ Tick

Spec == Init /\ [][Next]_vars

(* Time goes on, and the loop thread is scheduled. *)
FairSpec == Spec /\ WF_vars(Tick) /\ WF_vars(LoopStep)
-----------------------------------------------------------------------------
(* Types. *)
TypeOK ==
  /\ clock \in Nat
  /\ created \in 0..MaxTimers
  /\ alive \subseteq Id
  /\ when \in [Id -> Nat] /\ interval \in [Id -> Nat] /\ tag \in [Id -> Tags \cup {"normal"}]
  /\ timers \subseteq Id /\ idSet \subseteq Id
  /\ highestTask \in Id \cup {None} /\ lowestTask \in Id \cup {None}
  /\ fdAt \in Nat \cup {None}
  /\ now \in Nat /\ batch \in Seq(Id) /\ pos \in 1..(Len(batch) + 1)
  /\ queue \in Seq({"add", "cancel"} \X Id)
  /\ lpc \in {"out", "poll", "timers", "funcs"}
  /\ quit \in BOOLEAN
  /\ tid \in [Thread -> Id \cup {None}]
  /\ runs \in [Id -> Nat] /\ sent \subseteq Id /\ cancelled \subseteq Id /\ thrown \in BOOLEAN

(* A timerfd set to `fd` is in time for a timer due at w. *)
InTimeFor(fd, w, t) == fd # None /\ (fd <= w \/ fd <= t + 1)

(* Outside handleRead the timerfd is set no later than any timer in the heap
   needs, or one unit from now if that one is overdue: no timer sleeps past
   its time because insert (234-244) or reset (280-304) left the timerfd
   alone.  A callback that has thrown kept reset from setting it. *)
TimerfdCovers ==
  lpc # "timers" /\ ~thrown =>
    \A i \in timers : InTimeFor(fdAt, when[i], clock)

(* m_timerIdSet holds ids of timers in the heap, or of the batch handleRead
   is going through, and nothing else: ids do not pile up, and an id that
   was erased never comes back; a callback that throws leaves the ids of the
   batch behind.  With the types of the variables. *)
IdSetTracksTimers ==
  /\ TypeOK
  /\ thrown \/ idSet \subseteq timers \cup Range(batch)
  /\ idSet \cap cancelled = {}
  /\ timers \subseteq alive

(* The timerfd and m_timerIdSet keep up with the heap: no timer sleeps past
   its time because insert or reset left the timerfd alone, and no id is left
   behind or comes back (234-244, 280-304). *)
HeapIsArmed == TimerfdCovers /\ IdSetTracksTimers

(* A callback is called only after its time, a one-shot timer's at most once,
   also after another callback has thrown, and none after cancelTimer has
   erased its id, not even later in the same handleRead (80); a repeating
   timer that was cancelled is not put back (287). *)
RunsAsAsked ==
  [][\A i \in Id : runs'[i] # runs[i] =>
       i \notin cancelled /\ when[i] < clock /\ (interval[i] > 0 \/ runs[i] = 0)]_vars

(* A timer that is in the queue runs, or is cancelled, or the loop ends, or
   the timerfd is set for a time beyond the bound of the clock, or a
   callback has thrown. *)
TimerEventuallyRuns ==
  \A i \in Id :
    (i \in idSet /\ lpc # "out") ~>
      (runs[i] > 0 \/ i \notin idSet \/ lpc = "out" \/ thrown \/ fdAt > MaxTime)
-----------------------------------------------------------------------------
(* The inductive invariant behind HeapIsArmed and RunsAsAsked. *)

(* The timers whose addTimerInLoop is still in m_funcs. *)
Pending == {i \in Id : <<"add", i>> \in Range(queue)}

AddedOnce ==
  \A j, k \in 1..Len(queue) : queue[j] = queue[k] /\ queue[j][1] = "add" => j = k

(* A timer is in one place at a time: on its way in m_funcs, in the heap, or
   in the batch.  getExpired never finds a highest or lowest task. *)
OnePlace ==
  /\ highestTask = None /\ lowestTask = None
  /\ Pending \cup timers \cup Range(batch) \subseteq alive \cap (1..created)
  /\ Pending \cap timers = {} /\ Pending \cap Range(batch) = {} /\ timers \cap Range(batch) = {}
  /\ AddedOnce
  /\ \A j, k \in 1..Len(batch) : batch[j] = batch[k] => j = k
  /\ lpc # "timers" => batch = <<>>

(* An id enters m_timerIdSet once, with its timer, and leaves it for good. *)
IdsComeOnce ==
  /\ idSet \cup cancelled \subseteq 1..created
  /\ Pending \cap (idSet \cup cancelled) = {}

(* The timers of the batch are due, and a one-shot timer that has run is
   neither in the heap nor further on in the batch. *)
RunsLeft ==
  /\ now <= clock
  /\ \A k \in 1..Len(batch) : when[batch[k]] < now
  /\ \A i \in Id : i > created => runs[i] = 0
  /\ \A i \in Pending \cup timers : interval[i] = 0 => runs[i] = 0
  /\ \A k \in pos..Len(batch) : interval[batch[k]] = 0 => runs[batch[k]] = 0

QueueInv == HeapIsArmed /\ OnePlace /\ IdsComeOnce /\ RunsLeft
=============================================================================
