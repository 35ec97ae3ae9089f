----------------------------- MODULE TimingWheel ----------------------------
(***************************************************************************)
(* netpoll/net/inner/timing_wheel.{h,cc} and the idle connections of       *)
(* TcpServer it kicks off: KickoffEntry, enableKickingOff, extendLife and  *)
(* keepAlive of tcp_connection_impl.{h,cc}.  All of it runs in one loop    *)
(* thread.                                                                 *)
(*                                                                         *)
(* A bucket is a set of entries.  An entry is the KickoffEntry of a        *)
(* connection below a path of CallbackEntries, each of which puts the rest *)
(* into bucket `pos` of queue `q` when it is destroyed.                    *)
(***************************************************************************)
EXTENDS Integers, Sequences

CONSTANTS
  Conn,           \* connections
  MaxTimeout,     \* maxTimeout: the server's idle timeout, in seconds
  TickInterval,   \* m_ticksInterval
  BucketsNum,     \* m_bucketsNumPerQueue
  Delays,         \* delays given to insertEntry
  MaxTicks        \* bound on the ticks

WheelConstants ==
  /\ MaxTimeout \in Nat /\ MaxTimeout > 1
  /\ TickInterval \in Nat \ {0}
  /\ BucketsNum \in Nat /\ BucketsNum > 1
  /\ Delays \subseteq Nat \ {0} /\ MaxTicks \in Nat

VARIABLES
  ticks,          \* m_ticksCounter
  wheel,          \* m_taskQueues: wheel[q][b], a set of entries
  status,         \* "new", "up", "kicked" (forceClose by the KickoffEntry) or "closed"
  idleTimeout,    \* m_idleTimeout of each connection
  kept,           \* kept[c]: keepAlive() was called, the KickoffEntry is reset
  born,           \* tick of the connection's insertEntry
  delay,          \* its delay, in ticks
  active,         \* tick of its last read or write
  kickedAt,       \* tick at which it was kicked off
  outOfRange,     \* an entry was put into a bucket that does not exist
  destroyed       \* ~TimingWheel has run

connVars == <<status, idleTimeout, kept, born, delay, active, kickedAt>>
vars == <<ticks, wheel, connVars, outOfRange, destroyed>>

(* The queues the constructor makes: enough for MaxTimeout. *)
QueueNum ==
  CHOOSE n \in 1..(MaxTimeout + 1) :
    /\ MaxTimeout \div TickInterval <= BucketsNum ^ n
    /\ \A m \in 1..(n - 1) : MaxTimeout \div TickInterval > BucketsNum ^ m

Queue == 1..QueueNum

Init ==
  /\ ticks = 0
  /\ wheel = [q \in Queue |-> [b \in 1..BucketsNum |-> {}]]
  /\ status = [c \in Conn |-> "new"]
  /\ idleTimeout = [c \in Conn |-> 0]
  /\ kept = [c \in Conn |-> FALSE]
  /\ born = [c \in Conn |-> 0] /\ delay = [c \in Conn |-> 0]
  /\ active = [c \in Conn |-> 0] /\ kickedAt = [c \in Conn |-> 0]
  /\ outOfRange = FALSE /\ destroyed = FALSE
-----------------------------------------------------------------------------
(* insertEntryInLoop *)

TicksOf(d) ==
  d \div TickInterval + (IF d % TickInterval = 0 THEN 0 ELSE 1)

(* delay and t at the start of the loop's iteration for queue q. *)
At(d) ==
  LET at[q \in Queue] ==
        IF q = 1 THEN [delay |-> TicksOf(d), t |-> ticks]
        ELSE [delay |-> (at[q - 1].delay + (at[q - 1].t % BucketsNum) - 1) \div BucketsNum,
              t |-> at[q - 1].t \div BucketsNum]
  IN at

(* The queue the entry goes to: the first that reaches far enough, or the last. *)
QueueOf(d) ==
  CHOOSE q \in Queue :
    /\ At(d)[q].delay <= BucketsNum \/ q = QueueNum
    /\ \A p \in 1..(q - 1) : At(d)[p].delay > BucketsNum

BucketOf(d) ==
  LET n == At(d)[QueueOf(d)].delay IN IF n <= BucketsNum THEN n ELSE BucketsNum

(* The position a CallbackEntry computes for queue q. *)
Pos(a) == (a.delay + (a.t % BucketsNum) - 0) % BucketsNum

(* The CallbackEntries around c's entry, outermost first. *)
EntryOf(c, d) ==
  LET n == QueueOf(d) - 1 IN
  [conn |-> c, path |-> [i \in 1..n |-> [q |-> n + 1 - i, pos |-> Pos(At(d)[n + 1 - i])]]]

insertEntryInLoop(c, d) ==
  /\ wheel' = [wheel EXCEPT ![QueueOf(d)][BucketOf(d)] = @ \cup {EntryOf(c, d)}]
  /\ UNCHANGED outOfRange
-----------------------------------------------------------------------------
(* Destroying the entries of a bucket: ~CallbackEntry puts the rest of the
   path into the wheel w. *)
Release(w, bucket) ==
  [q \in Queue |-> [b \in DOMAIN w[q] |->
     w[q][b] \cup {[conn |-> e.conn, path |-> Tail(e.path)] :
                     e \in {x \in bucket : /\ x.path # <<>>
                                           /\ x.path[1].q = q /\ x.path[1].pos + 1 = b}}]]

Misses(w, bucket) ==
  \E e \in bucket : e.path # <<>> /\ e.path[1].pos + 1 \notin DOMAIN w[e.path[1].q]

Held(w) ==
  {c \in Conn : \E q \in Queue : \E b \in DOMAIN w[q] : \E e \in w[q][b] : e.conn = c}

(* ~KickoffEntry of the entries that are in no bucket of w any more:
   forceClose, unless the connection is gone or was kept alive. *)
KickOff(w) ==
  LET gone == {c \in Held(wheel) \ Held(w) : status[c] = "up" /\ ~kept[c]} IN
  /\ status' = [c \in Conn |-> IF c \in gone THEN "kicked" ELSE status[c]]
  /\ kickedAt' = [c \in Conn |-> IF c \in gone THEN ticks' ELSE kickedAt[c]]

(* Mutant: only the first queue turns. *)
TurnFirstOnly(w, q, t) ==
  IF q > 1 THEN w
  ELSE Release([w EXCEPT ![q] = Append(Tail(@), {})], w[q][1])

(* One iteration of the timer callback's loop, for queue q at tick t. *)
Turn(w, q, t) ==
  IF t % (BucketsNum ^ (q - 1)) # 0 THEN w
  ELSE Release([w EXCEPT ![q] = Append(Tail(@), {})], w[q][1])

(* The timer callback of the constructor: a tick. *)
Tick ==
  /\ ~destroyed /\ ticks < MaxTicks
  /\ ticks' = ticks + 1
  /\ LET turned[q \in 0..QueueNum] == IF q = 0 THEN wheel ELSE Turn(turned[q - 1], q, ticks')
     IN wheel' = turned[QueueNum] /\ KickOff(turned[QueueNum])
  /\ UNCHANGED <<idleTimeout, kept, born, delay, active, outOfRange, destroyed>>

(* ~TimingWheel: the queues are cleared from the last to the first. *)
Destroy ==
  /\ ~destroyed
  /\ destroyed' = TRUE
  /\ LET cleared[q \in 1..(QueueNum + 1)] ==
           IF q > QueueNum THEN [w |-> wheel, miss |-> FALSE]
           ELSE LET w == cleared[q + 1].w
                    bucket == UNION {w[q][b] : b \in DOMAIN w[q]}
                    empty == [w EXCEPT ![q] = <<>>]
                IN [w |-> Release(empty, bucket), miss |-> cleared[q + 1].miss \/ Misses(empty, bucket)]
     IN /\ wheel' = cleared[1].w
        /\ outOfRange' = (outOfRange \/ cleared[1].miss)
        /\ UNCHANGED ticks
        /\ KickOff(cleared[1].w)
  /\ UNCHANGED <<idleTimeout, kept, born, delay, active>>
-----------------------------------------------------------------------------
(* Connections. *)

(* newConnection with enableKickingOff(d): m_idleTimeout keeps its value. *)
EnableKickingOff(c, d) ==
  /\ status[c] = "new" /\ ~destroyed
  /\ status' = [status EXCEPT ![c] = "up"]
  /\ insertEntryInLoop(c, d)
  /\ born' = [born EXCEPT ![c] = ticks]
  /\ delay' = [delay EXCEPT ![c] = TicksOf(d)]
  /\ active' = [active EXCEPT ![c] = ticks]
  /\ UNCHANGED <<ticks, idleTimeout, kept, kickedAt, destroyed>>

(* A read or a write, with extendLife: nothing unless m_idleTimeout is set
   and the entry is still held. *)
Activity(c) ==
  /\ status[c] = "up"
  /\ active' = [active EXCEPT ![c] = ticks]
  /\ IF idleTimeout[c] > 0 /\ ticks >= active[c] + 1 /\ c \in Held(wheel)
     THEN insertEntryInLoop(c, idleTimeout[c])
     ELSE UNCHANGED <<wheel, outOfRange>>
  /\ UNCHANGED <<ticks, status, idleTimeout, kept, born, delay, kickedAt, destroyed>>

KeepAlive(c) ==
  /\ status[c] = "up"
  /\ idleTimeout' = [idleTimeout EXCEPT ![c] = 0]
  /\ kept' = [kept EXCEPT ![c] = kept[c] \/ c \in Held(wheel)]
  /\ UNCHANGED <<ticks, wheel, status, born, delay, active, kickedAt, outOfRange, destroyed>>

(* The connection ends for another reason; its entry stays in the wheel. *)
Close(c) ==
  /\ status[c] = "up"
  /\ status' = [status EXCEPT ![c] = "closed"]
  /\ UNCHANGED <<ticks, wheel, idleTimeout, kept, born, delay, active, kickedAt, outOfRange, destroyed>>

Next ==
  \/ Tick \/ Destroy
  \/ \E c \in Conn :
       \/ \E d \in Delays : EnableKickingOff(c, d)
       \/ Activity(c) \/ KeepAlive(c) \/ Close(c)

Spec == Init /\ [][Next]_vars
-----------------------------------------------------------------------------
(* Types. *)
TypeOK ==
  /\ ticks \in 0..MaxTicks
  /\ \A q \in Queue : \A b \in DOMAIN wheel[q] : \A e \in wheel[q][b] :
       e.conn \in Conn /\ \A i \in DOMAIN e.path : e.path[i].q \in Queue /\ e.path[i].pos \in 0..(BucketsNum - 1)
  /\ \A q \in Queue : Len(wheel[q]) = (IF destroyed THEN 0 ELSE BucketsNum)
  /\ status \in [Conn -> {"new", "up", "kicked", "closed"}]
  /\ kept \in [Conn -> BOOLEAN]

(* ~CallbackEntry only puts entries into buckets that exist, also while the
   destructor clears the queues (64), and the queues keep their lengths. *)
BucketsExist == TypeOK /\ ~outOfRange

(* How many ticks too late (too early if negative) c was kicked off. *)
Error(c) == kickedAt[c] - born[c] - delay[c]

(* The most a cascade through all the queues can be late and early. *)
Late == (BucketsNum ^ (QueueNum - 1) - 1) \div (BucketsNum - 1)

Early == BucketsNum ^ (QueueNum - 1) - 1

(* An entry that goes straight to a bucket of the first queue (98) expires
   after exactly its delay.  One that cascades is wrong by at most one place
   of each queue it leaves, which a position that wraps around (108) makes a
   whole turn less one place too early. *)
KickedInTime ==
  \A c \in Conn : delay[c] <= BucketsNum ^ QueueNum =>
    /\ status[c] = "kicked" /\ ~destroyed =>
         IF delay[c] <= BucketsNum THEN Error(c) = 0 ELSE Error(c) \in -Early..Late
    /\ status[c] = "up" /\ ~kept[c] => ticks - born[c] < delay[c] + Late

(* "An idle connection is a connection that has no read or write, kick off
   it after timeout seconds" (tcp_server.h 168): a connection that was active
   less than its timeout ago is not kicked off.  Does not hold:
   enableKickingOff never sets m_idleTimeout, so extendLife does nothing. *)
OnlyIdleKicked ==
  \A c \in Conn : status[c] = "kicked" /\ ~destroyed => kickedAt[c] - active[c] >= delay[c] - 1
=============================================================================
