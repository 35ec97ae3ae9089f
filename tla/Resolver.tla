------------------------------ MODULE Resolver ------------------------------
(***************************************************************************)
(* netpoll/util/concurrent_task_queue.cc (a queue of tasks and the threads *)
(* that run them), TaskQueue::syncTask, and net/inner/resolver_impl.cc,    *)
(* which looks a host name up on such a queue behind a cache.  A caller    *)
(* calls syncResolve(h), or syncTask on a task of its own (h = NoHost).    *)
(* An address is the number of the lookup that returned it; 0 stands for   *)
(* InetAddress{}.                                                          *)
(*                                                                         *)
(* m_stop is read without m_mtx: a worker that found the queue empty holds *)
(* m_mtx from the test ("tested") until m_cv.wait releases it ("waits"),   *)
(* but stop() does not take m_mtx and may run in between.                  *)
(***************************************************************************)
EXTENDS Integers, Sequences

CONSTANTS Workers, Callers, Hosts, NoHost,
          m_timeout,      \* how long a cached address is used; 0: for ever
          MaxCalls,       \* bound: calls of a caller
          MaxClock        \* bound: the clock

VARIABLES m_stop, m_que,  \* the flag and the queued tasks, [by, host]
          rpc, task,      \* per worker: where queueFunc is, the task it runs
          found,          \* per worker: the address getaddrinfo returned
          stopPc,            \* where stop() is: "no", "join" or "done"
          cache,          \* host -> [addr, at], at = Never when absent
          clock,
          callPc, want,      \* per caller: where its call is, and its host
          calls, answers, \* per caller: calls made, callbacks that ran
          looked,         \* host -> lookups that returned an address
          seen,           \* history: caller, host -> the latest address it got
          stale           \* history: a caller got an older address than before

rvars == <<m_stop, m_que, rpc, task, found, stopPc, cache, clock, callPc, want, calls, answers,
           looked, seen, stale>>

ASSUME ResolverAssumption ==
  /\ NoHost \notin Hosts
  /\ m_timeout \in Nat /\ MaxCalls \in Nat /\ MaxClock \in Nat

Never == -1
NoTask == [by |-> NoHost, host |-> NoHost]

ResolverInit ==
  /\ m_stop = FALSE /\ m_que = <<>> /\ stopPc = "no"
  /\ rpc = [w \in Workers |-> "top"]
  /\ task = [w \in Workers |-> NoTask]
  /\ found = [w \in Workers |-> 0]
  /\ cache = [h \in Hosts |-> [addr |-> 0, at |-> Never]]
  /\ clock = 0
  /\ callPc = [c \in Callers |-> "idle"]
  /\ want = [c \in Callers |-> NoHost]
  /\ calls = [c \in Callers |-> 0]
  /\ answers = [c \in Callers |-> 0]
  /\ looked = [h \in Hosts |-> 0]
  /\ seen = [c \in Callers |-> [h \in Hosts |-> 0]]
  /\ stale = FALSE

lockFree == \A w \in Workers : rpc[w] # "tested"     \* m_mtx
-----------------------------------------------------------------------------
(* The callback of a call of c runs for host h with address a. *)
Callback(c, h, a) ==
  /\ answers' = [answers EXCEPT ![c] = @ + 1]
  /\ IF h = NoHost \/ a = 0 THEN UNCHANGED <<seen, stale>>
     ELSE /\ seen' = [seen EXCEPT ![c][h] = a]
          /\ stale' = (stale \/ a < seen[c][h] \/ a > looked[h])

Fresh(h) == /\ cache[h].at # Never
            /\ m_timeout = 0 \/ cache[h].at + m_timeout > clock

(* syncResolve and resolve: a fresh cache entry answers at once, under the mutex; *)
resolve(c, h) ==
  /\ callPc[c] = "idle" /\ calls[c] < MaxCalls
  /\ calls' = [calls EXCEPT ![c] = @ + 1]
  /\ want' = [want EXCEPT ![c] = h]
  /\ IF Fresh(h) THEN Callback(c, h, cache[h].addr) /\ callPc' = [callPc EXCEPT ![c] = "get"]
                 ELSE callPc' = [callPc EXCEPT ![c] = "push"] /\ UNCHANGED <<answers, seen, stale>>
  /\ UNCHANGED <<m_stop, m_que, rpc, task, found, stopPc, cache, clock, looked>>

(* syncTask goes straight to the queue. *)
syncTask(c) ==
  /\ callPc[c] = "idle" /\ calls[c] < MaxCalls
  /\ calls' = [calls EXCEPT ![c] = @ + 1]
  /\ want' = [want EXCEPT ![c] = NoHost]
  /\ callPc' = [callPc EXCEPT ![c] = "push"]
  /\ UNCHANGED <<m_stop, m_que, rpc, task, found, stopPc, cache, clock, answers, looked, seen, stale>>

(* Mutant: nobody is notified of the new task. *)
runTaskSilent(c) ==
  /\ callPc[c] = "push" /\ lockFree
  /\ m_que' = Append(m_que, [by |-> c, host |-> want[c]])
  /\ callPc' = [callPc EXCEPT ![c] = "get"]
  /\ UNCHANGED <<m_stop, rpc, task, found, stopPc, cache, clock, want, calls, answers, looked, seen, stale>>

runTask(c) ==
  /\ callPc[c] = "push" /\ lockFree
  /\ m_que' = Append(m_que, [by |-> c, host |-> want[c]])
  /\ \/ \E w \in Workers : rpc[w] = "waits" /\ rpc' = [rpc EXCEPT ![w] = "lock"]
     \/ (\A w \in Workers : rpc[w] # "waits") /\ UNCHANGED rpc
  /\ callPc' = [callPc EXCEPT ![c] = "get"]
  /\ UNCHANGED <<m_stop, task, found, stopPc, cache, clock, want, calls, answers, looked, seen, stale>>

(* fu.get() returns when the promise is set. *)
SyncReturns(c) ==
  /\ callPc[c] = "get" /\ answers[c] = calls[c]
  /\ callPc' = [callPc EXCEPT ![c] = "idle"]
  /\ UNCHANGED <<m_stop, m_que, rpc, task, found, stopPc, cache, clock, want, calls, answers,
                 looked, seen, stale>>
-----------------------------------------------------------------------------
(* queueFunc: while (!m_stop), *)
WorkerTop(w) ==
  /\ rpc[w] = "top"
  /\ rpc' = [rpc EXCEPT ![w] = IF m_stop THEN "ended" ELSE "lock"]
  /\ UNCHANGED <<m_stop, m_que, task, found, stopPc, cache, clock, callPc, want, calls, answers,
                 looked, seen, stale>>

(* lock m_mtx, test, and take the front task or continue, *)
WorkerLock(w) ==
  /\ rpc[w] = "lock" /\ lockFree
  /\ CASE m_que # <<>> -> /\ m_que' = Tail(m_que)
                          /\ task' = [task EXCEPT ![w] = Head(m_que)]
                          /\ rpc' = [rpc EXCEPT ![w] = "run"]
       [] m_que = <<>> /\ m_stop  -> rpc' = [rpc EXCEPT ![w] = "top"] /\ UNCHANGED <<m_que, task>>
       [] m_que = <<>> /\ ~m_stop -> rpc' = [rpc EXCEPT ![w] = "tested"] /\ UNCHANGED <<m_que, task>>
  /\ UNCHANGED <<m_stop, found, stopPc, cache, clock, callPc, want, calls, answers, looked, seen, stale>>

(* and m_cv.wait, *)
WorkerWait(w) ==
  /\ rpc[w] = "tested"
  /\ rpc' = [rpc EXCEPT ![w] = "waits"]
  /\ UNCHANGED <<m_stop, m_que, task, found, stopPc, cache, clock, callPc, want, calls, answers,
                 looked, seen, stale>>

(* cb(): the caller's task, or the resolver's, which looks in the cache again. *)
WorkerRun(w) ==
  /\ rpc[w] = "run"
  /\ LET c == task[w].by  h == task[w].host
     IN  IF h = NoHost \/ Fresh(h)
         THEN /\ Callback(c, h, IF h = NoHost THEN 0 ELSE cache[h].addr)
              /\ rpc' = [rpc EXCEPT ![w] = "top"]
         ELSE rpc' = [rpc EXCEPT ![w] = "lookup"] /\ UNCHANGED <<answers, seen, stale>>
  /\ UNCHANGED <<m_stop, m_que, task, found, stopPc, cache, clock, callPc, want, calls, looked>>

(* getaddrinfo fails, and the callback gets InetAddress{}, *)
LookupFails(w) ==
  /\ rpc[w] = "lookup"
  /\ Callback(task[w].by, task[w].host, 0)
  /\ rpc' = [rpc EXCEPT ![w] = "top"]
  /\ UNCHANGED <<m_stop, m_que, task, found, stopPc, cache, clock, callPc, want, calls, looked>>

(* or returns an address, *)
getaddrinfo(w) ==
  /\ rpc[w] = "lookup"
  /\ found' = [found EXCEPT ![w] = looked[task[w].host] + 1]
  /\ looked' = [looked EXCEPT ![task[w].host] = @ + 1]
  /\ rpc' = [rpc EXCEPT ![w] = "answer"]
  /\ UNCHANGED <<m_stop, m_que, task, stopPc, cache, clock, callPc, want, calls, answers, seen, stale>>

(* which the callback gets, *)
LookupAnswers(w) ==
  /\ rpc[w] = "answer"
  /\ Callback(task[w].by, task[w].host, found[w])
  /\ rpc' = [rpc EXCEPT ![w] = "store"]
  /\ UNCHANGED <<m_stop, m_que, task, found, stopPc, cache, clock, callPc, want, calls, looked>>

(* Mutant: an expired entry gets a new time and keeps its old address. *)
LookupStoresTime(w) ==
  /\ rpc[w] = "store"
  /\ cache' = [cache EXCEPT ![task[w].host] =
       [addr |-> IF @.at = Never THEN found[w] ELSE @.addr, at |-> clock]]
  /\ rpc' = [rpc EXCEPT ![w] = "top"]
  /\ UNCHANGED <<m_stop, m_que, task, found, stopPc, clock, callPc, want, calls, answers, looked,
                 seen, stale>>

(* and the cache keeps, with the time. *)
LookupStores(w) ==
  /\ rpc[w] = "store"
  /\ cache' = [cache EXCEPT ![task[w].host] = [addr |-> found[w], at |-> clock]]
  /\ rpc' = [rpc EXCEPT ![w] = "top"]
  /\ UNCHANGED <<m_stop, m_que, task, found, stopPc, clock, callPc, want, calls, answers, looked, seen, stale>>

queueFunc(w) ==
  \/ WorkerTop(w) \/ WorkerLock(w) \/ WorkerWait(w) \/ WorkerRun(w)
  \/ LookupFails(w) \/ LookupAnswers(w) \/ LookupStores(w)
  \/ getaddrinfo(w)
-----------------------------------------------------------------------------
(* stop(): set m_stop, notify the threads that wait, *)
StopNotify ==
  /\ stopPc = "no"
  /\ m_stop' = TRUE
  /\ rpc' = [w \in Workers |-> IF rpc[w] = "waits" THEN "lock" ELSE rpc[w]]
  /\ stopPc' = "join"
  /\ UNCHANGED <<m_que, task, found, cache, clock, callPc, want, calls, answers, looked, seen, stale>>

(* and join them all. *)
StopJoins ==
  /\ stopPc = "join" /\ \A w \in Workers : rpc[w] = "ended"
  /\ stopPc' = "done"
  /\ UNCHANGED <<m_stop, m_que, rpc, task, found, cache, clock, callPc, want, calls, answers,
                 looked, seen, stale>>

Tick ==
  /\ clock < MaxClock
  /\ clock' = clock + 1
  /\ UNCHANGED <<m_stop, m_que, rpc, task, found, stopPc, cache, callPc, want, calls, answers,
                 looked, seen, stale>>

CallerStep(c) == runTask(c) \/ SyncReturns(c)

ResolverNext ==
  \/ \E c \in Callers : CallerStep(c) \/ syncTask(c) \/ \E h \in Hosts : resolve(c, h)
  \/ \E w \in Workers : queueFunc(w)
  \/ StopNotify \/ StopJoins \/ Tick

ResolverSpec == ResolverInit /\ [][ResolverNext]_rvars
-----------------------------------------------------------------------------
(* A callback runs exactly once per call, whichever thread of the queue     *)
(* takes the task (concurrent_task_queue.cc, queueFunc).                    *)
AnsweredOnce ==
  \A c \in Callers :
    /\ answers[c] \in {calls[c] - 1, calls[c]}
    /\ callPc[c] = "idle" => answers[c] = calls[c]
    /\ callPc[c] = "push" => answers[c] = calls[c] - 1

(* A callback runs exactly once per call, and the addresses a caller gets   *)
(* for a host never go back to an earlier lookup, whether they come from    *)
(* the cache of resolve, the second look of the queued task or getaddrinfo: *)
(* the queue of ResolverImpl has one thread, which stores what it found     *)
(* after the callback and outside the first lock.                           *)
AnsweredOnceInOrder ==
  ~stale /\ AnsweredOnce

(* Every syncResolve and syncTask returns unless the queue is stopped, and  *)
(* stop() returns unless a worker that had found the queue empty before     *)
(* m_stop was set began to wait after the notification (stop takes no lock). *)
TasksReturn ==
  /\ \A c \in Callers : callPc[c] # "idle" ~> (callPc[c] = "idle" \/ m_stop)
  /\ m_stop ~> (stopPc = "done" \/ \E w \in Workers : rpc[w] = "waits")
-----------------------------------------------------------------------------
(* The inductive invariant. *)

Task == [by : Callers, host : Hosts \cup {NoHost}]

(* A worker whose task has not called back yet, and one that looks a name up. *)
Holds(w) == rpc[w] \in {"run", "lookup", "answer"}
LooksUp(w) == rpc[w] \in {"lookup", "answer", "store"}

WorkerPc == {"top", "lock", "tested", "waits", "run", "lookup", "answer", "store", "ended"}

ResolverTypes ==
  /\ m_que \in Seq(Task)
  /\ rpc \in [Workers -> WorkerPc]
  /\ task \in [Workers -> Task \cup {NoTask}] /\ found \in [Workers -> Nat]
  /\ cache \in [Hosts -> [addr : Nat, at : Int]] /\ clock \in Nat
  /\ callPc \in [Callers -> {"idle", "push", "get"}] /\ want \in [Callers -> Hosts \cup {NoHost}]
  /\ calls \in [Callers -> Nat] /\ answers \in [Callers -> Nat]
  /\ looked \in [Hosts -> Nat] /\ seen \in [Callers -> [Hosts -> Nat]]
  /\ stale \in BOOLEAN
  /\ \A w \in Workers : Holds(w) \/ LooksUp(w) => task[w] \in Task
  /\ \A w \in Workers : LooksUp(w) => task[w].host \in Hosts

(* A caller in fu.get() whose callback has not run. *)
Owed(c) == callPc[c] = "get" /\ answers[c] = calls[c] - 1

(* A task stands for a caller that is owed a callback, and a caller has one:
   queued, or held by one worker. *)
OneTask ==
  /\ \A i, j \in 1..Len(m_que) : m_que[i].by = m_que[j].by => i = j
  /\ \A i \in 1..Len(m_que) : Owed(m_que[i].by)
  /\ \A w \in Workers : Holds(w) =>
       /\ Owed(task[w].by)
       /\ \A i \in 1..Len(m_que) : task[w].by # m_que[i].by
       /\ \A v \in Workers : Holds(v) /\ task[v].by = task[w].by => v = w

(* The queue of ResolverImpl has one thread. *)
OneThread == \A v, w \in Workers : v = w

(* A name is looked up while its entry has expired, and the result replaces
   the entry before anybody can use it: an entry that can be used is the latest
   address anybody got. *)
Latest ==
  /\ \A w \in Workers : LooksUp(w) =>
       /\ ~Fresh(task[w].host)
       /\ rpc[w] # "lookup" => found[w] = looked[task[w].host]
  /\ \A h \in Hosts :
       /\ cache[h].addr <= looked[h]
       /\ \A c \in Callers : /\ seen[c][h] <= looked[h]
                             /\ Fresh(h) => seen[c][h] <= cache[h].addr
=============================================================================
