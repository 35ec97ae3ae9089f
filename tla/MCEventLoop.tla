----------------------------- MODULE MCEventLoop ----------------------------
(* EventLoop in two scopes: several threads and one call of loop(), or one   *)
(* thread, callbacks that throw, MaxLoops calls of loop() and ~EventLoop().  *)
EXTENDS EventLoopDestroy, SequencesExt

VARIABLE scope

mcvars == <<dvars, scope>>

MCInit == DInit /\ scope \in {"threads", "throws"}

(* Bound: what the callers of a scope do. *)
First == CHOOSE t \in Thread : TRUE

InScope ==
  LET kinds == ToSet(funcs) \cup ToSet(quitFuncs)
  IN  IF scope = "threads" THEN dpc = "none" /\ loops <= 1 /\ "throw" \notin kinds
      ELSE "spawn" \notin kinds /\ Len(funcs) + Len(quitFuncs) <= 2
           /\ \A t \in Thread \ {First} : tpc[t] = "idle"

MCNext == DNext /\ UNCHANGED scope /\ InScope'

MCSpec ==
  /\ MCInit /\ [][MCNext]_mcvars
  /\ \A t \in Thread : WF_dvars(ThreadStep(t) /\ UNCHANGED dpc)
  /\ WF_dvars(LoopStep /\ UNCHANGED dpc)
  /\ WF_dvars(DtorStoresQuit \/ DtorWakesLoop \/ DtorSpinEnds)

(* A quit() that comes after the head of loop() ends the loop, whichever     *)
(* thread calls it, and so does the one of ~EventLoop(), which then returns. *)
QuitEndsLoop == QuitStopsLoop /\ DestructorReturns
=============================================================================
