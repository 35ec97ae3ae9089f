------------------------------ MODULE MCThreads -----------------------------
(* What starts, feeds and ends threads, checked side by side: a loop thread, *)
(* the task queue with the resolver, and serve with QuitAllEventLoop.  part  *)
(* says which one runs.                                                      *)
EXTENDS EventLoopThread, Resolver

CONSTANTS N, MaxDialers

VARIABLES part,
          kind, dialers, at, m_quit, dials, ran, up, m_loopIndex, all, servePc, i, caller, qi,
          allRan, dangling, joined

S == INSTANCE Wrap WITH funcs <- dials, spc <- servePc

wrapVars == <<kind, dialers, at, m_quit, dials, ran, up, m_loopIndex, all, servePc, i, caller,
              qi, allRan, dangling, joined>>
mcvars == <<tvars, rvars, wrapVars, part>>

MCInit ==
  /\ part \in {"thread", "resolver", "serve"}
  /\ TInit /\ ResolverInit /\ S!WrapInit
  /\ part # "serve" => kind = "listener"

MCNext ==
  \/ part = "thread" /\ TNext /\ UNCHANGED <<part, rvars, wrapVars>>
  \/ part = "resolver" /\ ResolverNext /\ UNCHANGED <<part, tvars, wrapVars>>
  \/ part = "serve" /\ S!WrapNext /\ UNCHANGED <<part, tvars, rvars>>

(* Threads are scheduled. *)
MCSpec ==
  /\ MCInit /\ [][MCNext]_mcvars
  /\ WF_tvars(part = "thread" /\ WorkerStep)
  /\ \A u \in User : WF_tvars(part = "thread" /\ UserStep(u))
  /\ \A t \in Thread : WF_tvars(part = "thread" /\ ThreadStep(t) /\ UNCHANGED ext)
  /\ \A c \in Callers : WF_rvars(part = "resolver" /\ CallerStep(c))
  /\ \A w \in Workers : WF_rvars(part = "resolver" /\ queueFunc(w))
  /\ WF_rvars(part = "resolver" /\ StopJoins)
  /\ \A l \in 0 .. N : WF_wrapVars(part = "serve" /\ S!LoopStep(l))
  /\ WF_wrapVars(part = "serve" /\ S!ServeStep)
  /\ WF_wrapVars(part = "serve" /\ S!QuitOne)

(* run() returns to all its callers, and ~EventLoopThread ends the loop and  *)
(* joins the thread, whatever else is queued or quits (18-33, 55-65).        *)
LoopThreadFinishes == part = "thread" => RunReturns /\ DestructorJoins

(* Every syncResolve and syncTask returns unless the queue is stopped, and   *)
(* stop() returns unless its notification came between a worker's test of    *)
(* m_stop and its wait (concurrent_task_queue.cc 26, 43).                    *)
TasksFinish == part = "resolver" => TasksReturn

(* Dialers connect, serve returns after QuitAllEventLoop was called with     *)
(* every loop running (eventloop_wrap.cc 27-68), and QuitAllEventLoop quits  *)
(* no loop that has ended (22).                                              *)
ServeFinishes == part = "serve" => S!ServeFinishes /\ []S!QuitVisitsLiveLoops
=============================================================================
