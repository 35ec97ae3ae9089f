------------------------------ MODULE MCTimers ------------------------------
(* The two kinds of timers, checked side by side: part says which one runs. *)
EXTENDS TimerQueue

CONSTANTS Conn, MaxTimeout, TickInterval, BucketsNum, WheelDelays, MaxTicks

VARIABLES part, ticks, wheel, status, idleTimeout, kept, born, delay, active, kickedAt,
          outOfRange, destroyed

W == INSTANCE TimingWheel WITH Delays <- WheelDelays

ASSUME WheelAssumption == W!WheelConstants

wheelVars == <<ticks, wheel, status, idleTimeout, kept, born, delay, active, kickedAt,
               outOfRange, destroyed>>
mcvars == <<vars, wheelVars, part>>

MCInit == part \in {"queue", "wheel"} /\ Init /\ W!Init

MCNext ==
  \/ part = "queue" /\ Next /\ UNCHANGED <<part, wheelVars>>
  \/ part = "wheel" /\ W!Next /\ UNCHANGED <<part, vars>>

MCSpec ==
  /\ MCInit /\ [][MCNext]_mcvars
  /\ WF_vars(part = "queue" /\ Tick)
  /\ WF_vars(part = "queue" /\ LoopStep)

(* The wheel kicks a connection off after its timeout, up to the error of a *)
(* cascade, and moves entries only into buckets that exist (57-125).        *)
WheelKicksInTime == W!BucketsExist /\ W!KickedInTime
=============================================================================
