--------------------------- MODULE TcpServerProofs --------------------------
(***************************************************************************)
(* Proofs about TcpServer: for any number of clients, pool loops,          *)
(* descriptors and calls of stop(), nothing that was destroyed is used but *)
(* in the three cases NothingDangles names.                                *)
(***************************************************************************)
EXTENDS TcpServer, FiniteSetTheorems, SequenceTheorems, TLAPS

-----------------------------------------------------------------------------
(* The functions queued in the loops. *)

Ops == {"start", "stop", "wheel", "establish", "forceClose", "closed", "destroy"}

Args == Conn \cup {None}

Func == [op : Ops, conn : Args]

Fn(op, c) == [op |-> op, conn |-> c]

Queues == [Loop -> Seq(Func)]

(* f is in the queue q[l]. *)
In(q, l, f) == \E i \in 1..Len(q[l]) : q[l][i] = f

Has(q, l, op, c) == In(q, l, Fn(op, c))

(* Functions queued once in the life of what they stand for. *)
OnceOps == {"start", "stop", "wheel", "establish", "closed"}

Once(q) ==
  \A l, m \in Loop : \A i \in 1..Len(q[l]), j \in 1..Len(q[m]) :
    q[l][i] = q[m][j] /\ q[l][i].op \in OnceOps => l = m /\ i = j

(* queueInLoop, and doRunInLoopFuncs taking a function. *)
Put(q, l, f) == [q EXCEPT ![l] = Append(@, f)]
Take(q, l) == [q EXCEPT ![l] = Tail(@)]
Emptied(q, l) == [q EXCEPT ![l] = <<>>]

(* f is not queued anywhere. *)
Absent(q, f) == \A m \in Loop : ~In(q, m, f)

LEMMA PutFn ==
  ASSUME NEW q \in Queues, NEW l \in Loop, NEW f \in Func, Once(q), f.op \in OnceOps => Absent(q, f)
  PROVE  /\ Put(q, l, f) \in Queues /\ Once(Put(q, l, f))
         /\ \A m \in Loop : \A g : In(Put(q, l, f), m, g) <=> In(q, m, g) \/ (m = l /\ g = f)
         /\ Put(q, l, f)[l] # <<>>
         /\ q[l] # <<>> => Head(Put(q, l, f)[l]) = Head(q[l])
         /\ \A m \in Loop : m # l => Put(q, l, f)[m] = q[m]
<1>0. q[l] \in Seq(Func)
  BY Zenon DEF Queues
<1>a. PICK s : s = Append(q[l], f)
  BY Zenon
<1>1. /\ s \in Seq(Func) /\ s # <<>> /\ Len(s) = Len(q[l]) + 1
      /\ \A i \in 1..Len(q[l]) : s[i] = q[l][i]
      /\ s[Len(q[l]) + 1] = f
  BY <1>0, <1>a, AppendProperties
<1>b. PICK p : p = Put(q, l, f)
  BY Zenon
<1>2. p \in Queues /\ p = Put(q, l, f) /\ p[l] = s /\ \A m \in Loop : m # l => p[m] = q[m]
  <2>1. p = [q EXCEPT ![l] = s]
    BY <1>a, <1>b, Zenon DEF Put
  <2> QED
    BY <1>1, <1>b, <2>1, Zenon DEF Queues
<1>3. Len(q[l]) \in Nat /\ \A i \in 1..Len(s) : i \in 1..Len(q[l]) \/ i = Len(q[l]) + 1
  BY <1>0, <1>1, LenProperties
<1>4. \A i \in 1..Len(q[l]) : i \in 1..Len(s)
  BY <1>1, <1>3
<1>5. Len(q[l]) + 1 \in 1..Len(s)
  BY <1>1, <1>3
<1>6. ASSUME NEW m \in Loop, NEW g
      PROVE  In(p, m, g) <=> In(q, m, g) \/ (m = l /\ g = f)
  <2>1. CASE m # l
    BY <1>2, <2>1, Zenon DEF In
  <2>2. CASE m = l
    BY <1>1, <1>2, <1>3, <1>4, <1>5, <2>2, SMTT(30) DEF In
  <2> QED
    BY <2>1, <2>2, Zenon
<1>7. Once(p)
  <2> SUFFICES ASSUME NEW k \in Loop, NEW m \in Loop, NEW i \in 1..Len(p[k]), NEW j \in 1..Len(p[m]),
                      p[k][i] = p[m][j], p[k][i].op \in OnceOps
               PROVE  k = m /\ i = j
    BY DEF Once
  <2>1. ASSUME NEW x \in Loop, NEW y \in 1..Len(p[x])
        PROVE  \/ y \in 1..Len(q[x]) /\ p[x][y] = q[x][y]
               \/ x = l /\ y = Len(q[l]) + 1 /\ p[x][y] = f
    <3>1. CASE x # l
      BY <1>2, <2>1, <3>1, Zenon
    <3>2. CASE x = l
      BY <1>1, <1>2, <1>3, <2>1, <3>2, Zenon
    <3> QED
      BY <3>1, <3>2, Zenon
  <2>2. CASE i \in 1..Len(q[k]) /\ p[k][i] = q[k][i] /\ j \in 1..Len(q[m]) /\ p[m][j] = q[m][j]
    <3>1. q[k][i] = q[m][j] /\ q[k][i].op \in OnceOps
      BY <2>2, Zenon
    <3> QED
      BY <2>2, <3>1, ZenonT(30) DEF Once
  <2>3. CASE p[k][i] = f
    <3>1. Absent(q, f)
      BY <2>3, Zenon
    <3>2. ~(i \in 1..Len(q[k]) /\ p[k][i] = q[k][i]) /\ ~(j \in 1..Len(q[m]) /\ p[m][j] = q[m][j])
      BY <2>3, <3>1, Zenon DEF Absent, In
    <3>3. k = l /\ i = Len(q[l]) + 1
      BY <2>1, <3>2, Zenon
    <3>4. m = l /\ j = Len(q[l]) + 1
      BY <2>1, <3>2, Zenon
    <3> QED
      BY <3>3, <3>4, Zenon
  <2> QED
    BY <2>1, <2>2, <2>3, Zenon
<1>8. q[l] # <<>> => Head(s) = Head(q[l])
  <2>1. q[l] # <<>> => Len(q[l]) \in Nat \ {0}
    BY <1>0, EmptySeq, Zenon
  <2>2. q[l] # <<>> => 1 \in 1..Len(q[l])
    BY <2>1
  <2> QED
    BY <1>0, <1>1, <2>2
<1> QED
  BY <1>1, <1>2, <1>6, <1>7, <1>8, Zenon

LEMMA TakeFn ==
  ASSUME NEW q \in Queues, NEW l \in Loop, q[l] # <<>>, Once(q)
  PROVE  /\ Take(q, l) \in Queues /\ Once(Take(q, l))
         /\ Head(q[l]) \in Func /\ In(q, l, Head(q[l]))
         /\ \A m \in Loop : \A g : In(Take(q, l), m, g) => In(q, m, g)
         /\ \A m \in Loop : \A g : In(q, m, g) => In(Take(q, l), m, g) \/ (m = l /\ g = Head(q[l]))
         /\ Head(q[l]).op \in OnceOps => Absent(Take(q, l), Head(q[l]))
         /\ \A m \in Loop : m # l => Take(q, l)[m] = q[m]
<1>0. q[l] \in Seq(Func) /\ Len(q[l]) \in Nat \ {0} /\ Head(q[l]) = q[l][1] /\ Head(q[l]) \in Func
  <2>1. q[l] \in Seq(Func)
    BY Zenon DEF Queues
  <2> QED
    BY <2>1, EmptySeq, HeadTailProperties
<1>a. PICK s : s = Tail(q[l])
  BY Zenon
<1>1. s \in Seq(Func) /\ Len(s) = Len(q[l]) - 1 /\ \A i \in 1..Len(s) : s[i] = q[l][i + 1]
  BY <1>0, <1>a, HeadTailProperties, Zenon
<1>b. PICK p : p = Take(q, l)
  BY Zenon
<1>2. p \in Queues /\ p = Take(q, l) /\ p[l] = s /\ \A m \in Loop : m # l => p[m] = q[m]
  <2>1. p = [q EXCEPT ![l] = s]
    BY <1>a, <1>b, Zenon DEF Take
  <2> QED
    BY <1>1, <1>b, <2>1, Zenon DEF Queues
<1>3. /\ \A i \in 1..Len(s) : i + 1 \in 1..Len(q[l]) /\ i + 1 # 1
      /\ \A i \in 1..Len(q[l]) : i = 1 \/ (i - 1 \in 1..Len(s) /\ (i - 1) + 1 = i)
      /\ \A i, j \in 1..Len(s) : i + 1 = j + 1 => i = j
      /\ 1 \in 1..Len(q[l])
  BY <1>0, <1>1
<1>4. In(q, l, Head(q[l]))
  BY <1>0, <1>3, Zenon DEF In
<1>5. ASSUME NEW m \in Loop, NEW g, In(p, m, g)
      PROVE  In(q, m, g)
  <2>1. PICK i \in 1..Len(p[m]) : p[m][i] = g
    BY <1>5, Zenon DEF In
  <2>2. CASE m # l
    BY <1>2, <2>1, <2>2, Zenon DEF In
  <2>3. CASE m = l
    <3>1. i \in 1..Len(s) /\ s[i] = g
      BY <1>2, <2>1, <2>3, Zenon
    <3>2. i + 1 \in 1..Len(q[l]) /\ q[l][i + 1] = g
      BY <1>1, <1>3, <3>1, Zenon
    <3> QED
      BY <2>3, <3>2, Zenon DEF In
  <2> QED
    BY <2>2, <2>3, Zenon
<1>6. ASSUME NEW m \in Loop, NEW g, In(q, m, g)
      PROVE  In(p, m, g) \/ (m = l /\ g = Head(q[l]))
  <2>1. PICK i \in 1..Len(q[m]) : q[m][i] = g
    BY <1>6, Zenon DEF In
  <2>2. CASE m # l
    BY <1>2, <2>1, <2>2, Zenon DEF In
  <2>3. CASE m = l /\ i = 1
    BY <1>0, <2>1, <2>3, Zenon
  <2>4. CASE m = l /\ i # 1
    <3>1. i - 1 \in 1..Len(s) /\ (i - 1) + 1 = i
      BY <1>3, <2>1, <2>4, Zenon
    <3>2. s[i - 1] = g
      BY <1>1, <2>1, <2>4, <3>1, Zenon
    <3> QED
      BY <1>2, <2>4, <3>1, <3>2, Zenon DEF In
  <2> QED
    BY <2>2, <2>3, <2>4, Zenon
<1>7. ASSUME NEW x \in Loop, NEW y \in 1..Len(p[x])
      PROVE  \/ x # l /\ y \in 1..Len(q[x]) /\ p[x][y] = q[x][y]
             \/ x = l /\ y \in 1..Len(s) /\ p[x][y] = q[l][y + 1] /\ y + 1 \in 1..Len(q[l]) /\ y + 1 # 1
  BY <1>1, <1>2, <1>3, <1>7, Zenon
<1>8. Once(p)
  <2> SUFFICES ASSUME NEW k \in Loop, NEW m \in Loop, NEW i \in 1..Len(p[k]), NEW j \in 1..Len(p[m]),
                      p[k][i] = p[m][j], p[k][i].op \in OnceOps
               PROVE  k = m /\ i = j
    BY DEF Once
  <2>1. CASE k # l /\ m # l
    <3>1. q[k][i] = q[m][j] /\ q[k][i].op \in OnceOps /\ i \in 1..Len(q[k]) /\ j \in 1..Len(q[m])
      BY <1>7, <2>1, Zenon
    <3> QED
      BY <2>1, <3>1, Zenon DEF Once
  <2>2. CASE k = l /\ m # l
    <3>1. q[l][i + 1] = q[m][j] /\ q[l][i + 1].op \in OnceOps /\ i + 1 \in 1..Len(q[l]) /\ j \in 1..Len(q[m])
      BY <1>7, <2>2, Zenon
    <3> QED
      BY <2>2, <3>1, Zenon DEF Once
  <2>3. CASE k # l /\ m = l
    <3>1. q[k][i] = q[l][j + 1] /\ q[k][i].op \in OnceOps /\ i \in 1..Len(q[k]) /\ j + 1 \in 1..Len(q[l])
      BY <1>7, <2>3, Zenon
    <3> QED
      BY <2>3, <3>1, Zenon DEF Once
  <2>4. CASE k = l /\ m = l
    <3>1. i \in 1..Len(s) /\ j \in 1..Len(s) /\ q[l][i + 1] = q[l][j + 1] /\ q[l][i + 1].op \in OnceOps
          /\ i + 1 \in 1..Len(q[l]) /\ j + 1 \in 1..Len(q[l])
      BY <1>7, <2>4, Zenon
    <3>a. PICK i1 \in 1..Len(q[l]), j1 \in 1..Len(q[l]) : i1 = i + 1 /\ j1 = j + 1
      BY <3>1, Zenon
    <3>b. q[l][i1] = q[l][j1] /\ q[l][i1].op \in OnceOps
      BY <3>1, <3>a, Zenon
    <3>c. i1 = j1
      BY <3>b, ZenonT(30) DEF Once
    <3>2. i + 1 = j + 1
      BY <3>a, <3>c, Zenon
    <3> QED
      BY <1>3, <2>4, <3>1, <3>2, Zenon
  <2> QED
    BY <2>1, <2>2, <2>3, <2>4, Zenon
<1>9. ASSUME Head(q[l]).op \in OnceOps, NEW m \in Loop, In(p, m, Head(q[l]))
      PROVE  FALSE
  <2>1. PICK i \in 1..Len(p[m]) : p[m][i] = q[l][1]
    BY <1>0, <1>9, Zenon DEF In
  <2>2. CASE m # l
    <3>1. i \in 1..Len(q[m]) /\ q[m][i] = q[l][1] /\ q[m][i].op \in OnceOps
      BY <1>0, <1>7, <1>9, <2>1, <2>2, Zenon
    <3> QED
      BY <1>3, <2>2, <3>1, Zenon DEF Once
  <2>3. CASE m = l
    <3>1. i + 1 \in 1..Len(q[l]) /\ i + 1 # 1 /\ q[l][i + 1] = q[l][1]
      BY <1>7, <2>1, <2>3, Zenon
    <3>2. q[l][i + 1].op \in OnceOps
      BY <1>0, <1>9, <3>1, Zenon
    <3> QED
      BY <1>3, <3>1, <3>2, Zenon DEF Once
  <2> QED
    BY <2>2, <2>3, Zenon
<1>10. Head(q[l]).op \in OnceOps => Absent(p, Head(q[l]))
  BY <1>9, Zenon DEF Absent
<1> QED
  BY <1>0, <1>2, <1>4, <1>5, <1>6, <1>8, <1>10, Zenon

LEMMA EmptiedFns ==
  ASSUME NEW q \in Queues, NEW l \in Loop, Once(q)
  PROVE  /\ Emptied(q, l) \in Queues /\ Once(Emptied(q, l))
         /\ \A m \in Loop : \A g : In(Emptied(q, l), m, g) <=> In(q, m, g) /\ m # l
         /\ \A m \in Loop : m # l => Emptied(q, l)[m] = q[m]
<1>0. PICK s \in Seq(Func) : s = <<>>
  BY EmptySeq, Zenon
<1>a. PICK p : p = Emptied(q, l)
  BY Zenon
<1>b. p = [q EXCEPT ![l] = s]
  BY <1>0, <1>a, Zenon DEF Emptied
<1>c. p \in Queues /\ p[l] = s /\ \A m \in Loop : m # l => p[m] = q[m]
  BY <1>b, Zenon DEF Queues
<1>1. p \in Queues /\ p = Emptied(q, l) /\ p[l] = <<>> /\ \A m \in Loop : m # l => p[m] = q[m]
  BY <1>0, <1>a, <1>c, Zenon
<1>2. 1..Len(p[l]) = {}
  BY <1>1
<1>3. \A m \in Loop : \A g : In(p, m, g) <=> In(q, m, g) /\ m # l
  BY <1>1, <1>2, Zenon DEF In
<1>4. Once(p)
  BY <1>1, <1>2, SMTT(30) DEF Once
<1> QED
  BY <1>1, <1>3, <1>4, Zenon

-----------------------------------------------------------------------------
(* The inductive invariant behind NothingDangles, as long as nothing is     *)
(* broken.                                                                  *)

Up == {"Connecting", "Connected"}

Plain ==
  /\ pool \in {"none", "own", "shared"} /\ idle \in BOOLEAN
  /\ backlog \in Nat /\ refused \in Nat /\ stops \in Nat
  /\ queue \in Queues /\ visited \subseteq Loop
  /\ openAtStop \in BOOLEAN

(* Connections are numbered as they are accepted, in loops of the pool if    *)
(* there is one.                                                             *)
Numbered ==
  \A c \in Conn :
    /\ status[c] # "none" <=> c <= clients - (backlog + refused)
    /\ status[c] # "none" => (loopOf[c] = Base <=> pool = "none")
    /\ status[c] = "Connecting" => pool # "none"

(* The acceptor goes when stop() begins; loops end and wheels go after that. *)
StopOrder ==
  /\ spc \notin {"idle", "body"} \/ server = "dead" \/ quit # {} => acceptor = "gone"
  /\ quit # {} => pool = "own"
  /\ spc = "close" => lpc[Base] \in {"stop", "body"} /\ copied # {} /\ openAtStop
  /\ spc # "close" => copied = {}
  /\ spc # "idle" => stops > 0 /\ server # "dead"
  /\ lpc[Base] \notin {"test", "ended"}
  /\ \A l \in PoolLoop : lpc[l] = "ended" => pool = "none" \/ l \in quit

Wheels ==
  /\ \A l \in Loop : wheel[l] # "none" => idle /\ (l = Base \/ pool # "none")
  /\ acceptor = "listening" /\ idle =>
       \A l \in Loop : l = Base \/ pool # "none" => wheel[l] = "live"
  /\ stops = 0 => visited = {}
  /\ stops <= 1 => \A l \in Loop : wheel[l] = "null" \/ Has(queue, l, "wheel", None) => l \in visited
  /\ \A l \in Loop : Has(queue, l, "wheel", None) => wheel[l] # "none"

(* What a queued function stands for. *)
MeansAt(l, c) ==
  /\ Has(queue, l, "start", c) => l = Base /\ c = None /\ acceptor = "made"
  /\ Has(queue, l, "stop", c) => l = Base /\ c = None /\ spc = "body"
  /\ Has(queue, l, "wheel", c) => c = None /\ spc = "wait"
  /\ Has(queue, l, "establish", c) => l # Base /\ c \in Conn /\ status[c] = "Connecting"
  /\ Has(queue, l, "forceClose", c) =>
       l # Base /\ c \in Conn /\ loopOf[c] # Base /\ status[c] # "none"
  /\ Has(queue, l, "closed", c) =>
       l = Base /\ c \in Conn /\ loopOf[c] # Base /\ status[c] = "Disconnected"
  /\ Has(queue, l, "destroy", c) =>
       /\ c \in Conn /\ status[c] \in {"Disconnected", "Destroyed"}
       /\ ~Has(queue, Base, "closed", c)

Means == \A l \in Loop : \A c \in Args : MeansAt(l, c)

(* start() is the first function of all. *)
StartFirst == acceptor = "made" => queue[Base] # <<>> /\ Head(queue[Base]).op = "start"

(* m_connSet holds the connections that are up and those whose close is     *)
(* still to be handled in the Base loop.                                    *)
Open(c) == status[c] \in Up \/ Has(queue, Base, "closed", c)

ConnSet ==
  /\ server # "dead" => \A c \in Conn : c \in connSet <=> Open(c)
  /\ server = "dead" => connSet = {}
  /\ acceptor = "gone" /\ ~openAtStop => \A c \in Conn : ~Open(c)
  /\ acceptor = "gone" /\ pool = "none" => \A c \in Conn : status[c] = "Connected" => c \in copied
  /\ \A c \in copied : status[c] # "none"

Sound ==
  /\ Plain /\ Numbered /\ StopOrder /\ Wheels
  /\ Means /\ StartFirst /\ Once(queue)
  /\ ConnSet

SoundUntilBroken == broken = "" => Sound

-----------------------------------------------------------------------------
(* The queues, by operation and connection. *)

LEMMA FnFacts ==
  /\ \A op \in Ops : \A c \in Args : Fn(op, c) \in Func /\ Fn(op, c).op = op /\ Fn(op, c).conn = c
  /\ \A f \in Func : f.op \in Ops /\ f.conn \in Args /\ f = Fn(f.op, f.conn)
  /\ \A o, p \in Ops : \A c, d \in Args : Fn(o, c) = Fn(p, d) <=> o = p /\ c = d
  BY DEF Fn, Func

LEMMA PutHas ==
  ASSUME NEW q \in Queues, NEW l \in Loop, NEW op \in Ops, NEW c \in Args, Once(q),
         op \in OnceOps => \A m \in Loop : ~Has(q, m, op, c)
  PROVE  /\ Put(q, l, Fn(op, c)) \in Queues /\ Once(Put(q, l, Fn(op, c)))
         /\ \A m \in Loop : \A o \in Ops : \A d \in Args :
              Has(Put(q, l, Fn(op, c)), m, o, d) <=> Has(q, m, o, d) \/ (m = l /\ o = op /\ d = c)
         /\ q[Base] # <<>> =>
              /\ Put(q, l, Fn(op, c))[Base] # <<>>
              /\ Head(Put(q, l, Fn(op, c))[Base]) = Head(q[Base])
<1>1. PICK f \in Func : f = Fn(op, c)
  BY FnFacts, Zenon
<1>2. f.op = op /\ (f.op \in OnceOps => Absent(q, f))
  BY <1>1, FnFacts, Zenon DEF Absent, Has
<1>3. /\ Put(q, l, f) \in Queues /\ Once(Put(q, l, f))
      /\ \A m \in Loop : \A g : In(Put(q, l, f), m, g) <=> In(q, m, g) \/ (m = l /\ g = f)
      /\ Put(q, l, f)[l] # <<>>
      /\ q[l] # <<>> => Head(Put(q, l, f)[l]) = Head(q[l])
      /\ \A m \in Loop : m # l => Put(q, l, f)[m] = q[m]
  BY <1>2, PutFn
<1>4. \A m \in Loop : \A o \in Ops : \A d \in Args :
        Has(Put(q, l, f), m, o, d) <=> Has(q, m, o, d) \/ (m = l /\ o = op /\ d = c)
  BY <1>1, <1>3, FnFacts DEF Has
<1>5. q[Base] # <<>> => Put(q, l, f)[Base] # <<>> /\ Head(Put(q, l, f)[Base]) = Head(q[Base])
  <2>1. Base \in Loop
    BY Zenon DEF Loop
  <2> QED
    BY <1>3, <2>1, Zenon
<1> QED
  BY <1>1, <1>3, <1>4, <1>5, Zenon

LEMMA TakeHas ==
  ASSUME NEW q \in Queues, NEW l \in Loop, q[l] # <<>>, Once(q)
  PROVE  \E op \in Ops, c \in Args :
           /\ Head(q[l]) = Fn(op, c) /\ Head(q[l]).op = op /\ Head(q[l]).conn = c
           /\ Has(q, l, op, c)
           /\ Take(q, l) \in Queues /\ Once(Take(q, l))
           /\ \A m \in Loop : \A o \in Ops : \A d \in Args : Has(Take(q, l), m, o, d) => Has(q, m, o, d)
           /\ \A m \in Loop : \A o \in Ops : \A d \in Args :
                Has(q, m, o, d) => Has(Take(q, l), m, o, d) \/ (m = l /\ o = op /\ d = c)
           /\ op \in OnceOps => \A m \in Loop : ~Has(Take(q, l), m, op, c)
           /\ l # Base => Take(q, l)[Base] = q[Base]
<1>1. /\ Take(q, l) \in Queues /\ Once(Take(q, l))
      /\ Head(q[l]) \in Func /\ In(q, l, Head(q[l]))
      /\ \A m \in Loop : \A g : In(Take(q, l), m, g) => In(q, m, g)
      /\ \A m \in Loop : \A g : In(q, m, g) => In(Take(q, l), m, g) \/ (m = l /\ g = Head(q[l]))
      /\ Head(q[l]).op \in OnceOps => Absent(Take(q, l), Head(q[l]))
      /\ \A m \in Loop : m # l => Take(q, l)[m] = q[m]
  BY TakeFn, Zenon
<1>2. PICK f \in Func : f = Head(q[l])
  BY <1>1, Zenon
<1>3. PICK op \in Ops, c \in Args : f = Fn(op, c) /\ f.op = op /\ f.conn = c
  BY FnFacts, Zenon
<1>4. /\ Has(q, l, op, c)
      /\ op \in OnceOps => \A m \in Loop : ~Has(Take(q, l), m, op, c)
  BY <1>1, <1>2, <1>3, Zenon DEF Has, Absent
<1>5. \A m \in Loop : \A o \in Ops : \A d \in Args : Has(Take(q, l), m, o, d) => Has(q, m, o, d)
  BY <1>1, Zenon DEF Has
<1>6. \A m \in Loop : \A o \in Ops : \A d \in Args :
        Has(q, m, o, d) => Has(Take(q, l), m, o, d) \/ (m = l /\ o = op /\ d = c)
  BY <1>1, <1>2, <1>3, FnFacts DEF Has
<1>7. l # Base => Take(q, l)[Base] = q[Base]
  BY <1>1, Zenon DEF Loop
<1> QED
  BY <1>1, <1>2, <1>3, <1>4, <1>5, <1>6, <1>7

LEMMA EmptiedHas ==
  ASSUME NEW q \in Queues, NEW l \in Loop, l # Base, Once(q)
  PROVE  /\ Emptied(q, l) \in Queues /\ Once(Emptied(q, l))
         /\ \A m \in Loop : \A o \in Ops : \A d \in Args : Has(Emptied(q, l), m, o, d) => Has(q, m, o, d)
         /\ \A o \in Ops : \A d \in Args : Has(q, Base, o, d) => Has(Emptied(q, l), Base, o, d)
         /\ Emptied(q, l)[Base] = q[Base]
  BY EmptiedFns, Zenon DEF Has, Loop

-----------------------------------------------------------------------------
(* What a step leaves alone. *)

LEMMA BaseAlone == Base \in Loop /\ Base \notin PoolLoop /\ PoolLoop \subseteq Loop
  BY DEF Base, PoolLoop, Loop

BrokenOK ==
  /\ broken \in {"", "loop", "server", "wheel"}
  /\ broken = "loop" => pool = "own" /\ (openAtStop \/ idle)
  /\ broken = "server" => pool # "none" /\ server = "dead" /\ openAtStop
  /\ broken = "wheel" => idle /\ stops > 1

ServerInv == TypeOK /\ BrokenOK /\ SoundUntilBroken

Well == TypeOK /\ Sound /\ broken = ""

(* Connections and their numbers stay: none is accepted. *)
LEMMA NumberedKept ==
  ASSUME Numbered, pool' = pool, clients' = clients, backlog' = backlog, refused' = refused,
         loopOf' = loopOf,
         \A c \in Conn : /\ status'[c] # "none" <=> status[c] # "none"
                         /\ status'[c] = "Connecting" => status[c] = "Connecting"
  PROVE  Numbered'
  BY Zenon DEF Numbered

LEMMA WheelsKept ==
  ASSUME Wheels, wheel' = wheel, idle' = idle, pool' = pool, stops' = stops, visited' = visited,
         acceptor' = "listening" => acceptor = "listening",
         \A l \in Loop : Has(queue', l, "wheel", None) => Has(queue, l, "wheel", None)
  PROVE  Wheels'
  BY Zenon DEF Wheels

(* Functions go, and none comes. *)
LEMMA MeansKept ==
  ASSUME Means, acceptor' = acceptor, spc' = spc, status' = status, loopOf' = loopOf,
         \A l \in Loop : \A o \in Ops : \A c \in Args : Has(queue', l, o, c) => Has(queue, l, o, c)
  PROVE  Means'
<1> SUFFICES ASSUME NEW l \in Loop, NEW c \in Args PROVE MeansAt(l, c)'
  BY Zenon DEF Means
<1>1. \A o \in Ops : /\ Has(queue', l, o, c) => Has(queue, l, o, c)
                     /\ Has(queue', Base, o, c) => Has(queue, Base, o, c)
  BY Zenon DEF Loop
<1> QED
  BY <1>1, Zenon DEF Means, MeansAt, Ops

LEMMA ClientConnectsStep ==
  ASSUME Well, ClientConnects
  PROVE  ServerInv'
<1>0. /\ clients' = clients + 1 /\ backlog' = backlog + 1 /\ clients < MaxClients
      /\ pool' = pool /\ idle' = idle /\ acceptor' = acceptor /\ refused' = refused
      /\ loopIndex' = loopIndex /\ connSet' = connSet /\ status' = status /\ loopOf' = loopOf
      /\ wheel' = wheel /\ queue' = queue /\ lpc' = lpc /\ quit' = quit /\ server' = server
      /\ spc' = spc /\ copied' = copied /\ visited' = visited /\ stops' = stops
      /\ openAtStop' = openAtStop /\ broken' = broken
  BY Zenon DEF ClientConnects, conf, conns, loops, stopping
<1>a. /\ backlog \in Nat /\ refused \in Nat /\ backlog + refused \in 0..clients
      /\ clients \in 0..MaxClients
  BY Zenon DEF Well, Sound, Plain, TypeOK
<1>b. backlog' \in Nat /\ backlog' + refused' \in 0..clients' /\ clients' \in 0..MaxClients
  BY <1>0, <1>a, ServerConstants
<1>1. TypeOK'
  BY <1>0, <1>b, Zenon DEF Well, TypeOK
<1>2. Plain'
  BY <1>0, <1>b, Zenon DEF Well, Sound, Plain
<1>3. Numbered'
  <2>1. clients' - (backlog' + refused') = clients - (backlog + refused)
    BY <1>0, <1>a, ServerConstants
  <2> QED
    BY <1>0, <2>1, Zenon DEF Well, Sound, Numbered
<1>4. StopOrder'
  BY <1>0, Zenon DEF Well, Sound, StopOrder
<1>5. Wheels' /\ Means' /\ StartFirst' /\ Once(queue') /\ ConnSet'
  BY <1>0, WheelsKept, MeansKept, Zenon DEF Well, Sound, StartFirst, ConnSet, Open
<1> QED
  BY <1>0, <1>1, <1>2, <1>3, <1>4, <1>5, Zenon DEF Well, ServerInv, BrokenOK, SoundUntilBroken, Sound

LEMMA LoopTurns ==
  ASSUME Well, NEW l \in Loop, PollEnds(l) \/ FuncsEnd(l)
  PROVE  ServerInv'
<1>0. /\ clients' = clients /\ backlog' = backlog /\ refused' = refused
      /\ pool' = pool /\ idle' = idle /\ acceptor' = acceptor
      /\ loopIndex' = loopIndex /\ connSet' = connSet /\ status' = status /\ loopOf' = loopOf
      /\ wheel' = wheel /\ queue' = queue /\ quit' = quit /\ server' = server
      /\ spc' = spc /\ copied' = copied /\ visited' = visited /\ stops' = stops
      /\ openAtStop' = openAtStop /\ broken' = broken
  BY Zenon DEF PollEnds, FuncsEnd, conf, accept, conns, stopping
<1>1. PICK to \in {"poll", "funcs", "test"} :
        /\ lpc' = [lpc EXCEPT ![l] = to] /\ lpc[l] \in {"poll", "funcs"}
        /\ to = "test" => l # Base
  BY Zenon DEF PollEnds, FuncsEnd
<1>2. lpc \in [Loop -> {"poll", "funcs", "test", "stop", "body", "ended"}]
  BY Zenon DEF Well, TypeOK
<1>3. lpc' \in [Loop -> {"poll", "funcs", "test", "stop", "body", "ended"}]
  BY <1>1, <1>2, Zenon
<1>4. TypeOK'
  BY <1>0, <1>3, Zenon DEF Well, TypeOK
<1>5. StopOrder'
  <2>1. /\ lpc[Base] \in {"stop", "body"} => lpc'[Base] = lpc[Base]
        /\ lpc[Base] \notin {"test", "ended"} => lpc'[Base] \notin {"test", "ended"}
        /\ \A m \in PoolLoop : lpc'[m] = "ended" => lpc[m] = "ended"
    BY <1>1, <1>2, Zenon DEF Loop
  <2> QED
    BY <1>0, <2>1, Zenon DEF Well, Sound, StopOrder
<1>6. Plain' /\ Numbered' /\ Wheels' /\ Means' /\ StartFirst' /\ Once(queue') /\ ConnSet'
  BY <1>0, NumberedKept, WheelsKept, MeansKept, Zenon DEF Well, Sound, Plain, StartFirst, ConnSet, Open
<1> QED
  BY <1>0, <1>4, <1>5, <1>6, Zenon DEF Well, ServerInv, BrokenOK, SoundUntilBroken, Sound

LEMMA TestQuitStep ==
  ASSUME Well, NEW l \in Loop, TestQuit(l)
  PROVE  ServerInv'
<1>0. /\ clients' = clients /\ backlog' = backlog /\ refused' = refused
      /\ pool' = pool /\ idle' = idle /\ acceptor' = acceptor
      /\ loopIndex' = loopIndex /\ connSet' = connSet /\ status' = status /\ loopOf' = loopOf
      /\ wheel' = wheel /\ quit' = quit /\ server' = server
      /\ spc' = spc /\ copied' = copied /\ visited' = visited /\ stops' = stops
      /\ openAtStop' = openAtStop /\ broken' = broken
  BY Zenon DEF TestQuit, conf, accept, conns, stopping
<1>1. PICK to \in {"poll", "ended"} :
        lpc' = [lpc EXCEPT ![l] = to] /\ lpc[l] = "test" /\ (to = "ended" => l \in quit)
  BY Zenon DEF TestQuit
<1>2. lpc \in [Loop -> {"poll", "funcs", "test", "stop", "body", "ended"}]
  BY Zenon DEF Well, TypeOK
<1>3. lpc' \in [Loop -> {"poll", "funcs", "test", "stop", "body", "ended"}]
  BY <1>1, <1>2, Zenon
<1>4. TypeOK'
  BY <1>0, <1>3, Zenon DEF Well, TypeOK
<1>5. l # Base
  BY <1>1, Zenon DEF Well, Sound, StopOrder
<1>6. StopOrder'
  <2>1. /\ lpc'[Base] = lpc[Base]
        /\ \A m \in PoolLoop : lpc'[m] = "ended" => lpc[m] = "ended" \/ m \in quit
    BY <1>1, <1>2, <1>5, Zenon DEF Loop
  <2> QED
    BY <1>0, <2>1, Zenon DEF Well, Sound, StopOrder
<1>7. queue \in Queues /\ Once(queue) /\ Base \in Loop
  BY Zenon DEF Well, Sound, Plain, Loop
<1>8. /\ queue' \in Queues /\ Once(queue') /\ queue'[Base] = queue[Base]
      /\ \A m \in Loop : \A o \in Ops : \A d \in Args : Has(queue', m, o, d) => Has(queue, m, o, d)
      /\ \A o \in Ops : \A d \in Args : Has(queue, Base, o, d) => Has(queue', Base, o, d)
  <2>1. queue' = queue \/ queue' = Emptied(queue, l)
    BY Zenon DEF TestQuit, Emptied
  <2> QED
    BY <1>5, <1>7, <2>1, EmptiedHas
<1>9. \A c \in Conn : Has(queue', Base, "closed", c) <=> Has(queue, Base, "closed", c)
  BY <1>7, <1>8, Zenon DEF Ops, Args
<1>10. \A m \in Loop : Has(queue', m, "wheel", None) => Has(queue, m, "wheel", None)
  BY <1>8, Zenon DEF Ops, Args
<1>11. Plain' /\ Numbered' /\ Wheels' /\ Means'
  BY <1>0, <1>8, <1>10, NumberedKept, WheelsKept, MeansKept, Zenon DEF Well, Sound, Plain
<1>12. StartFirst' /\ ConnSet'
  BY <1>0, <1>8, <1>9, Zenon DEF Well, Sound, StartFirst, ConnSet, Open
<1> QED
  BY <1>0, <1>4, <1>6, <1>8, <1>11, <1>12, Zenon DEF Well, ServerInv, BrokenOK, SoundUntilBroken, Sound

LEMMA StopPoolStep ==
  ASSUME Well, StopPool
  PROVE  ServerInv'
<1>0. /\ clients' = clients /\ backlog' = backlog /\ refused' = refused
      /\ pool' = pool /\ idle' = idle /\ acceptor' = acceptor
      /\ loopIndex' = loopIndex /\ connSet' = connSet /\ status' = status /\ loopOf' = loopOf
      /\ wheel' = wheel /\ queue' = queue /\ lpc' = lpc /\ server' = server
      /\ copied' = copied /\ visited' = visited /\ stops' = stops
      /\ openAtStop' = openAtStop /\ broken' = broken
  BY Zenon DEF StopPool, conf, accept, conns
<1>1. /\ spc = "pool" /\ spc' \in {"pool", "wheel"} /\ quit \subseteq quit'
      /\ quit' = quit \/ pool = "own"
  BY Zenon DEF StopPool
<1>2. TypeOK'
  BY <1>0, <1>1, Zenon DEF Well, TypeOK
<1>3. StopOrder'
  BY <1>0, <1>1, Zenon DEF Well, Sound, StopOrder
<1>4. Means'
  BY <1>0, <1>1, ZenonT(30) DEF Well, Sound, Means, MeansAt
<1>5. Plain' /\ Numbered' /\ Wheels' /\ StartFirst' /\ Once(queue') /\ ConnSet'
  BY <1>0, NumberedKept, WheelsKept, Zenon DEF Well, Sound, Plain, StartFirst, ConnSet, Open
<1> QED
  BY <1>0, <1>2, <1>3, <1>4, <1>5, Zenon DEF Well, ServerInv, BrokenOK, SoundUntilBroken, Sound

-----------------------------------------------------------------------------
(* stop() *)

LEMMA StopStepsIn ==
  ASSUME Well, NEW dtor \in BOOLEAN, Stop(dtor)
  PROVE  ServerInv'
<1>0. /\ clients' = clients /\ backlog' = backlog /\ refused' = refused
      /\ pool' = pool /\ idle' = idle /\ acceptor' = acceptor
      /\ loopIndex' = loopIndex /\ loopOf' = loopOf /\ wheel' = wheel /\ quit' = quit /\ lpc' = lpc
      /\ copied' = copied /\ visited' = {} /\ stops' = stops + 1
      /\ openAtStop' = openAtStop /\ spc = "idle" /\ spc' = "body"
      /\ server = "alive" /\ server' \in {"alive", "dying"}
  BY Zenon DEF Stop, conf, accept
<1>1. queue \in Queues /\ Once(queue) /\ lpc[Base] # "ended" /\ Base \in Loop
      /\ \A m \in Loop : ~Has(queue, m, "stop", None)
  BY <1>0, Zenon DEF Well, Sound, Plain, StopOrder, Means, MeansAt, Loop, Args
<1>2. /\ connSet' = connSet /\ status' = status /\ broken' = broken
      /\ queue' = Put(queue, Base, Fn("stop", None))
  BY <1>1, Zenon DEF Stop, Commit, QueueInLoop, State, Put, Fn
<1>3. /\ queue' \in Queues /\ Once(queue')
      /\ \A m \in Loop : \A o \in Ops : \A d \in Args :
           Has(queue', m, o, d) <=> Has(queue, m, o, d) \/ (m = Base /\ o = "stop" /\ d = None)
      /\ queue[Base] # <<>> => queue'[Base] # <<>> /\ Head(queue'[Base]) = Head(queue[Base])
  <2>1. PICK op \in Ops, n \in Args : op = "stop" /\ n = None
    BY Zenon DEF Ops, Args
  <2>2. queue' = Put(queue, Base, Fn(op, n)) /\ \A m \in Loop : ~Has(queue, m, op, n)
    BY <1>1, <1>2, <2>1, Zenon
  <2>3. /\ queue' \in Queues /\ Once(queue')
        /\ \A m \in Loop : \A o \in Ops : \A d \in Args :
             Has(queue', m, o, d) <=> Has(queue, m, o, d) \/ (m = Base /\ o = op /\ d = n)
        /\ queue[Base] # <<>> => queue'[Base] # <<>> /\ Head(queue'[Base]) = Head(queue[Base])
    BY <1>1, <2>2, PutHas
  <2> QED
    BY <2>1, <2>3, Zenon
<1>4. stops \in Nat /\ stops' \in Nat /\ stops' > 0 /\ stops' # 0 /\ (stops' <= 1 => stops = 0) /\ (stops = 0 => stops <= 1)
  <2>1. stops \in Nat /\ stops' = stops + 1
    BY <1>0, Zenon DEF Well, Sound, Plain
  <2> QED
    BY <2>1
<1>5. TypeOK'
  BY <1>0, <1>2, Zenon DEF Well, TypeOK
<1>6. Plain'
  BY <1>0, <1>3, <1>4, Zenon DEF Well, Sound, Plain
<1>7. StopOrder'
  BY <1>0, <1>4, Zenon DEF Well, Sound, StopOrder
<1>8. Wheels'
  <2>1. \A m \in Loop : Has(queue', m, "wheel", None) => Has(queue, m, "wheel", None)
    BY <1>3, Zenon DEF Ops, Args
  <2>2. stops = 0 => \A m \in Loop : wheel[m] # "null" /\ ~Has(queue, m, "wheel", None)
    BY <1>4, Zenon DEF Well, Sound, Wheels
  <2> QED
    BY <1>0, <1>4, <2>1, <2>2, Zenon DEF Well, Sound, Wheels
<1>9. Means'
  <2> SUFFICES ASSUME NEW l \in Loop, NEW c \in Args PROVE MeansAt(l, c)'
    BY Zenon DEF Means
  <2>1. \A o \in Ops \ {"stop"} :
          /\ Has(queue', l, o, c) => Has(queue, l, o, c)
          /\ Has(queue', Base, o, c) => Has(queue, Base, o, c)
    BY <1>1, <1>3, Zenon
  <2>2. Has(queue', l, "stop", c) => l = Base /\ c = None
    BY <1>0, <1>3, ZenonT(30) DEF Ops, Well, Sound, Means, MeansAt
  <2> QED
    BY <1>0, <1>2, <2>1, <2>2, Zenon DEF Well, Sound, Means, MeansAt, Ops
<1>10. StartFirst'
  BY <1>0, <1>3, Zenon DEF Well, Sound, StartFirst
<1>11. ConnSet'
  <2>1. \A c \in Conn : Has(queue', Base, "closed", c) <=> Has(queue, Base, "closed", c)
    BY <1>1, <1>3, Zenon DEF Ops, Args
  <2> QED
    BY <1>0, <1>2, <2>1, Zenon DEF Well, Sound, ConnSet, Open
<1>12. Numbered'
  BY <1>0, <1>2, NumberedKept, Zenon DEF Well, Sound
<1> QED
  BY <1>0, <1>2, <1>3, <1>5, <1>6, <1>7, <1>8, <1>9, <1>10, <1>11, <1>12, Zenon
     DEF Well, ServerInv, BrokenOK, SoundUntilBroken, Sound

(* The body of stop() copies the set. *)
LEMMA BodyBegins ==
  ASSUME Well, server # "dead", server' # "dead", acceptor' = "gone", pool' = pool,
         openAtStop' = (openAtStop \/ connSet # {}), copied' = connSet, connSet' = connSet,
         status' = status,
         \A c \in Conn : Has(queue', Base, "closed", c) <=> Has(queue, Base, "closed", c)
  PROVE  ConnSet'
<1>1. \A c \in Conn : c \in connSet <=> status[c] \in Up \/ Has(queue, Base, "closed", c)
  BY Zenon DEF Well, Sound, ConnSet, Open
<1>2. \A c \in Conn : Has(queue, Base, "closed", c) => status[c] = "Disconnected"
  BY Zenon DEF Well, Sound, Means, MeansAt, Loop, Args
<1>3. connSet \subseteq Conn
  BY Zenon DEF Well, TypeOK
<1>4. \A c \in connSet : status[c] # "none"
  BY <1>1, <1>2, <1>3, Zenon DEF Up
<1> QED
  BY <1>1, <1>3, <1>4, Zenon DEF ConnSet, Open, Up

LEMMA StopInLoopStep ==
  ASSUME Well, NEW dtor \in BOOLEAN, StopInLoop(dtor)
  PROVE  ServerInv'
<1>0. /\ clients' = clients /\ backlog' = backlog /\ refused' = refused
      /\ pool' = pool /\ idle' = idle /\ acceptor' = "gone" /\ acceptor # "made"
      /\ loopIndex' = loopIndex /\ loopOf' = loopOf /\ wheel' = wheel /\ quit' = quit
      /\ copied' = connSet /\ visited' = {} /\ stops' = stops + 1
      /\ openAtStop' = (openAtStop \/ connSet # {}) /\ spc = "idle"
      /\ connSet' = connSet /\ status' = status /\ broken' = broken /\ queue' = queue
      /\ server = "alive" /\ server' \in {"alive", "dying"}
  BY Zenon DEF StopInLoop, StopBody, CloseRest, ResetAcceptor, conf, conns
<1>1. /\ connSet = {} => spc' = "pool"
      /\ connSet # {} => spc' = "close"
      /\ lpc' = [lpc EXCEPT ![Base] = "stop"]
  BY Zenon DEF StopInLoop, StopBody, CloseRest
<1>2. lpc \in [Loop -> {"poll", "funcs", "test", "stop", "body", "ended"}]
  BY Zenon DEF Well, TypeOK
<1>3. /\ lpc' \in [Loop -> {"poll", "funcs", "test", "stop", "body", "ended"}]
      /\ lpc'[Base] = "stop" /\ \A m \in PoolLoop : lpc'[m] = lpc[m]
  BY <1>1, <1>2 DEF Loop, PoolLoop, Base
<1>4. stops \in Nat /\ stops' \in Nat /\ stops' > 0 /\ stops' # 0 /\ (stops' <= 1 => stops = 0) /\ (stops = 0 => stops <= 1)
  <2>1. stops \in Nat /\ stops' = stops + 1
    BY <1>0, Zenon DEF Well, Sound, Plain
  <2> QED
    BY <2>1
<1>5. TypeOK'
  BY <1>0, <1>1, <1>3, Zenon DEF Well, TypeOK
<1>6. Plain'
  BY <1>0, <1>4, Zenon DEF Well, Sound, Plain
<1>7. StopOrder'
  BY <1>0, <1>1, <1>3, <1>4, Zenon DEF Well, Sound, StopOrder
<1>8. Wheels'
  <2>1. stops = 0 => \A m \in Loop : wheel[m] # "null" /\ ~Has(queue, m, "wheel", None)
    BY <1>4, Zenon DEF Well, Sound, Wheels
  <2> QED
    BY <1>0, <1>4, <2>1, Zenon DEF Well, Sound, Wheels
<1>9. Means'
  BY <1>0, ZenonT(30) DEF Well, Sound, Means, MeansAt
<1>10. StartFirst'
  BY <1>0, Zenon DEF StartFirst
<1>11. ConnSet'
  BY <1>0, BodyBegins, Zenon
<1>12. Numbered'
  BY <1>0, NumberedKept, Zenon DEF Well, Sound
<1> QED
  BY <1>0, <1>5, <1>6, <1>7, <1>8, <1>9, <1>10, <1>11, <1>12, Zenon
     DEF Well, ServerInv, BrokenOK, SoundUntilBroken, Sound

LEMMA StopReturnStep ==
  ASSUME Well, StopReturn
  PROVE  ServerInv'
<1>0. /\ clients' = clients /\ backlog' = backlog /\ refused' = refused
      /\ pool' = pool /\ idle' = idle /\ acceptor' = acceptor
      /\ loopIndex' = loopIndex /\ loopOf' = loopOf /\ wheel' = wheel /\ quit' = quit
      /\ copied' = copied /\ visited' = visited /\ stops' = stops
      /\ openAtStop' = openAtStop /\ spc = "wheel" /\ spc' = "idle"
      /\ status' = status /\ broken' = broken /\ queue' = queue
      /\ \/ server = "dying" /\ server' = "dead" /\ connSet' = {}
         \/ server # "dying" /\ server' = server /\ connSet' = connSet
  BY Zenon DEF StopReturn, conf, accept
<1>1. PICK to \in {lpc[Base], "funcs"} : lpc' = [lpc EXCEPT ![Base] = to]
  BY Zenon DEF StopReturn
<1>2. lpc \in [Loop -> {"poll", "funcs", "test", "stop", "body", "ended"}] /\ Base \in Loop
  BY Zenon DEF Well, TypeOK, Loop
<1>3. /\ lpc' \in [Loop -> {"poll", "funcs", "test", "stop", "body", "ended"}]
      /\ lpc'[Base] \in {lpc[Base], "funcs"} /\ \A m \in PoolLoop : lpc'[m] = lpc[m]
  BY <1>1, <1>2 DEF Loop, PoolLoop, Base
<1>4. server # "dead" /\ acceptor = "gone"
  BY <1>0, Zenon DEF Well, Sound, StopOrder
<1>5. TypeOK'
  BY <1>0, <1>3, Zenon DEF Well, TypeOK
<1>6. Plain'
  BY <1>0, Zenon DEF Well, Sound, Plain
<1>7. StopOrder'
  BY <1>0, <1>3, <1>4, Zenon DEF Well, Sound, StopOrder
<1>8. Wheels' /\ Numbered'
  BY <1>0, WheelsKept, NumberedKept, Zenon DEF Well, Sound
<1>9. Means'
  BY <1>0, ZenonT(30) DEF Well, Sound, Means, MeansAt
<1>10. StartFirst' /\ ConnSet'
  BY <1>0, <1>4, Zenon DEF Well, Sound, StartFirst, ConnSet, Open
<1> QED
  BY <1>0, <1>5, <1>6, <1>7, <1>8, <1>9, <1>10, Zenon
     DEF Well, ServerInv, BrokenOK, SoundUntilBroken, Sound

LEMMA ResetWheelStep ==
  ASSUME Well, NEW l \in Loop, ResetWheel(l)
  PROVE  ServerInv'
<1>0. /\ clients' = clients /\ backlog' = backlog /\ refused' = refused
      /\ pool' = pool /\ idle' = idle /\ acceptor' = acceptor
      /\ loopIndex' = loopIndex /\ loopOf' = loopOf /\ quit' = quit /\ lpc' = lpc
      /\ server' = server /\ copied' = copied /\ stops' = stops /\ openAtStop' = openAtStop
      /\ visited' = visited \cup {l} /\ spc = "wheel"
      /\ l \notin visited /\ wheel[l] # "none"
  BY Zenon DEF ResetWheel, WheelsLeft, conf, accept
<1>1. /\ acceptor = "gone" /\ stops > 0 /\ idle /\ broken = ""
      /\ l = Base \/ pool # "none"
      /\ stops <= 1 => wheel[l] # "null"
      /\ queue \in Queues /\ Once(queue) /\ lpc[Base] # "ended" /\ Base \in Loop
      /\ \A m \in Loop : ~Has(queue, m, "wheel", None)
  BY <1>0, Zenon DEF Well, Sound, Plain, StopOrder, Means, MeansAt, Wheels, Loop, Args
<1>a. (~(stops <= 1) => stops > 1) /\ stops # 0
  <2>1. stops \in Nat /\ stops > 0
    BY <1>1, Zenon DEF Well, Sound, Plain
  <2> QED
    BY <2>1
<1>2. CASE wheel[l] = "null"
  <2>1. /\ connSet' = connSet /\ status' = status /\ queue' = queue /\ broken' = "wheel"
        /\ wheel' = wheel /\ spc' = spc
    BY <1>1, <1>2, Zenon DEF ResetWheel, Commit, Break, State
  <2>2. TypeOK'
    BY <1>0, <2>1, Zenon DEF Well, TypeOK
  <2> QED
    BY <1>0, <1>1, <1>2, <1>a, <2>1, <2>2, Zenon DEF ServerInv, BrokenOK, SoundUntilBroken
<1>3. CASE wheel[l] # "null" /\ lpc[l] = "stop"
  <2>1. /\ connSet' = connSet /\ status' = status /\ queue' = queue /\ broken' = broken
        /\ wheel' = [wheel EXCEPT ![l] = "null"] /\ spc' = spc
    BY <1>1, <1>3, Zenon DEF ResetWheel, Commit, Break, State
  <2>2. wheel \in [Loop -> {"none", "live", "null"}]
    BY Zenon DEF Well, TypeOK
  <2>3. /\ wheel' \in [Loop -> {"none", "live", "null"}]
        /\ \A m \in Loop : m # l => wheel'[m] = wheel[m]
    BY <2>1, <2>2, Zenon
  <2>4. TypeOK'
    BY <1>0, <2>1, <2>3, Zenon DEF Well, TypeOK
  <2>5. Wheels'
    BY <1>0, <1>1, <1>a, <2>1, <2>3, Zenon DEF Well, Sound, Wheels
  <2>6. Plain' /\ StopOrder' /\ Numbered' /\ Means' /\ StartFirst' /\ Once(queue') /\ ConnSet'
    BY <1>0, <1>1, <2>1, NumberedKept, MeansKept, Zenon DEF Well, Sound, Plain, StopOrder, StartFirst, ConnSet, Open
  <2> QED
    BY <1>0, <1>1, <2>1, <2>4, <2>5, <2>6, Zenon DEF Well, ServerInv, BrokenOK, SoundUntilBroken, Sound
<1>4. CASE wheel[l] # "null" /\ lpc[l] = "ended"
  <2>1. /\ connSet' = connSet /\ status' = status /\ queue' = queue /\ broken' = "loop"
        /\ wheel' = wheel /\ spc' = "wait"
    BY <1>1, <1>4, Zenon DEF ResetWheel, Commit, Break, State, QueueInLoop
  <2>2. TypeOK'
    BY <1>0, <2>1, Zenon DEF Well, TypeOK
  <2>3. pool = "own"
    BY <1>1, <1>4, Zenon DEF Well, Sound, StopOrder, Loop
  <2> QED
    BY <1>0, <1>1, <2>1, <2>2, <2>3, Zenon DEF ServerInv, BrokenOK, SoundUntilBroken
<1>5. CASE wheel[l] # "null" /\ lpc[l] \notin {"stop", "ended"}
  <2>1. /\ connSet' = connSet /\ status' = status /\ broken' = broken
        /\ queue' = Put(queue, l, Fn("wheel", None))
        /\ wheel' = wheel /\ spc' = "wait"
    BY <1>1, <1>5, Zenon DEF ResetWheel, Commit, State, QueueInLoop, Put, Fn
  <2>2. /\ queue' \in Queues /\ Once(queue')
        /\ \A m \in Loop : \A o \in Ops : \A d \in Args :
             Has(queue', m, o, d) <=> Has(queue, m, o, d) \/ (m = l /\ o = "wheel" /\ d = None)
    <3>1. PICK op \in Ops, n \in Args : op = "wheel" /\ n = None
      BY Zenon DEF Ops, Args
    <3>2. queue' = Put(queue, l, Fn(op, n)) /\ \A m \in Loop : ~Has(queue, m, op, n)
      BY <1>1, <2>1, <3>1, Zenon
    <3>3. /\ queue' \in Queues /\ Once(queue')
          /\ \A m \in Loop : \A o \in Ops : \A d \in Args :
               Has(queue', m, o, d) <=> Has(queue, m, o, d) \/ (m = l /\ o = op /\ d = n)
      <4>1. queue \in Queues /\ Once(queue)
        BY <1>1, Zenon
      <4> QED
        BY <3>2, <4>1, PutHas
    <3> QED
      BY <3>1, <3>3, Zenon
  <2>3. TypeOK'
    BY <1>0, <2>1, Zenon DEF Well, TypeOK
  <2>4. Plain' /\ Numbered' /\ StopOrder'
    BY <1>0, <1>1, <2>1, <2>2, NumberedKept, Zenon DEF Well, Sound, Plain, StopOrder
  <2>5. Wheels'
    <3>1. \A m \in Loop : Has(queue', m, "wheel", None) => m = l
      BY <1>1, <2>2, Zenon DEF Ops, Args
    <3> QED
      BY <1>0, <1>1, <1>a, <2>1, <3>1, Zenon DEF Well, Sound, Wheels
  <2>6. Means'
    <3> SUFFICES ASSUME NEW m \in Loop, NEW c \in Args PROVE MeansAt(m, c)'
      BY Zenon DEF Means
    <3>1. \A o \in Ops \ {"wheel"} :
            /\ Has(queue', m, o, c) => Has(queue, m, o, c)
            /\ Has(queue', Base, o, c) => Has(queue, Base, o, c)
      BY <1>1, <2>2, Zenon
    <3>2. Has(queue', m, "wheel", c) => c = None
      BY <1>0, <2>2, ZenonT(30) DEF Ops, Well, Sound, Means, MeansAt
    <3> QED
      BY <1>0, <1>1, <2>1, <3>1, <3>2, Zenon DEF Well, Sound, Means, MeansAt, Ops
  <2>7. ConnSet' /\ StartFirst'
    <3>1. \A c \in Conn : Has(queue', Base, "closed", c) <=> Has(queue, Base, "closed", c)
      BY <1>1, <2>2, Zenon DEF Ops, Args
    <3> QED
      BY <1>0, <1>1, <2>1, <3>1, Zenon DEF Well, Sound, ConnSet, Open, StartFirst
  <2> QED
    BY <1>0, <1>1, <2>1, <2>2, <2>3, <2>4, <2>5, <2>6, <2>7, Zenon
       DEF Well, ServerInv, BrokenOK, SoundUntilBroken, Sound
<1> QED
  BY <1>2, <1>3, <1>4, <1>5, Zenon

-----------------------------------------------------------------------------
(* Connections close. *)

(* handleClose in a loop of the pool, which took a function or none before. *)
LEMMA CloseInPool ==
  ASSUME Well, NEW c \in Conn, NEW q \in Queues, Once(q), server # "dead", loopOf[c] # Base,
         status[c] = "Connected", q[Base] = queue[Base],
         \A m \in Loop : \A o \in Ops : \A d \in Args : Has(q, m, o, d) => Has(queue, m, o, d),
         \A d \in Args : Has(queue, Base, "closed", d) => Has(q, Base, "closed", d),
         connSet' = connSet, status' = [status EXCEPT ![c] = "Disconnected"],
         queue' = Put(q, Base, Fn("closed", c)),
         pool' = pool, clients' = clients, backlog' = backlog, refused' = refused, loopOf' = loopOf,
         wheel' = wheel, idle' = idle, stops' = stops, visited' = visited, acceptor' = acceptor,
         spc' = spc, server' = server, openAtStop' = openAtStop, copied' = copied
  PROVE  /\ queue' \in Queues /\ Once(queue')
         /\ Numbered' /\ Wheels' /\ Means' /\ StartFirst' /\ ConnSet'
<1>1. /\ status \in [Conn -> {"none", "Connecting", "Connected", "Disconnected", "Destroyed"}]
      /\ Base \in Loop /\ c \in Args
  BY Zenon DEF Well, TypeOK, Loop, Args
<1>2. status'[c] = "Disconnected" /\ \A d \in Conn : d # c => status'[d] = status[d]
  BY <1>1, Zenon
<1>3. /\ queue' \in Queues /\ Once(queue')
      /\ \A m \in Loop : \A o \in Ops : \A d \in Args :
           Has(queue', m, o, d) <=> Has(q, m, o, d) \/ (m = Base /\ o = "closed" /\ d = c)
      /\ q[Base] # <<>> => queue'[Base] # <<>> /\ Head(queue'[Base]) = Head(q[Base])
  <2>1. PICK op \in Ops : op = "closed"
    BY Zenon DEF Ops
  <2>2. \A m \in Loop : ~Has(queue, m, "closed", c)
    BY <1>1, Zenon DEF Well, Sound, Means, MeansAt
  <2>3. queue' = Put(q, Base, Fn(op, c)) /\ \A m \in Loop : ~Has(q, m, op, c)
    BY <1>1, <2>1, <2>2, Zenon
  <2>4. /\ queue' \in Queues /\ Once(queue')
        /\ \A m \in Loop : \A o \in Ops : \A d \in Args :
             Has(queue', m, o, d) <=> Has(q, m, o, d) \/ (m = Base /\ o = op /\ d = c)
        /\ q[Base] # <<>> => queue'[Base] # <<>> /\ Head(queue'[Base]) = Head(q[Base])
    <3>1. Base \in Loop /\ c \in Args
      BY <1>1, Zenon
    <3> QED
      BY <2>3, <3>1, PutHas
  <2> QED
    BY <2>1, <2>4, Zenon
<1>4. Numbered'
  BY <1>2, NumberedKept, Zenon DEF Well, Sound
<1>5. Wheels'
  <2>1. \A m \in Loop : Has(queue', m, "wheel", None) => Has(queue, m, "wheel", None)
    BY <1>3, Zenon DEF Ops, Args
  <2> QED
    BY <2>1, WheelsKept, Zenon DEF Well, Sound
<1>6. Means'
  <2> SUFFICES ASSUME NEW l \in Loop, NEW e \in Args PROVE MeansAt(l, e)'
    BY Zenon DEF Means
  <2>1. \A o \in Ops \ {"closed"} : Has(queue', l, o, e) => Has(queue, l, o, e)
    BY <1>3, Zenon
  <2>2. /\ Has(queue', l, "closed", e) => Has(queue, l, "closed", e) \/ (l = Base /\ e = c)
        /\ Has(queue', Base, "closed", e) => Has(queue, Base, "closed", e) \/ e = c
    BY <1>1, <1>3, Zenon DEF Ops
  <2>3. MeansAt(l, e)
    BY Zenon DEF Well, Sound, Means
  <2> QED
    BY <1>2, <2>1, <2>2, <2>3, Zenon DEF MeansAt, Ops
<1>7. StartFirst'
  BY <1>3, Zenon DEF Well, Sound, StartFirst
<1>8. ConnSet'
  <2>1. \A d \in Conn : Has(queue', Base, "closed", d) <=> Has(queue, Base, "closed", d) \/ d = c
    BY <1>1, <1>3, Zenon DEF Ops, Args
  <2>2. pool # "none"
    BY Zenon DEF Well, Sound, Numbered
  <2>3. copied \subseteq Conn
    BY Zenon DEF Well, TypeOK
  <2> QED
    BY <1>2, <2>1, <2>2, <2>3, Zenon DEF Well, Sound, ConnSet, Open, Up
<1> QED
  BY <1>3, <1>4, <1>5, <1>6, <1>7, <1>8, Zenon

(* handleClose in the Base loop. *)
LEMMA CloseInBase ==
  ASSUME Well, NEW c \in Conn, server # "dead", loopOf[c] = Base, status[c] = "Connected",
         connSet' = connSet \ {c}, status' = [status EXCEPT ![c] = "Disconnected"],
         queue' = Put(queue, Base, Fn("destroy", c)),
         pool' = pool, clients' = clients, backlog' = backlog, refused' = refused, loopOf' = loopOf,
         wheel' = wheel, idle' = idle, stops' = stops, visited' = visited, acceptor' = acceptor,
         spc' = spc \/ spc = "close", server' = server, openAtStop' = openAtStop,
         copied' \in {copied, copied \ {c}}
  PROVE  /\ queue' \in Queues /\ Once(queue')
         /\ Numbered' /\ Wheels' /\ Means' /\ StartFirst' /\ ConnSet'
<1>1. /\ status \in [Conn -> {"none", "Connecting", "Connected", "Disconnected", "Destroyed"}]
      /\ Base \in Loop /\ c \in Args
  BY Zenon DEF Well, TypeOK, Loop, Args
<1>2. status'[c] = "Disconnected" /\ \A d \in Conn : d # c => status'[d] = status[d]
  BY <1>1, Zenon
<1>3. /\ queue' \in Queues /\ Once(queue')
      /\ \A m \in Loop : \A o \in Ops : \A d \in Args :
           Has(queue', m, o, d) <=> Has(queue, m, o, d) \/ (m = Base /\ o = "destroy" /\ d = c)
      /\ queue[Base] # <<>> => queue'[Base] # <<>> /\ Head(queue'[Base]) = Head(queue[Base])
  <2>1. PICK op \in Ops : op = "destroy"
    BY Zenon DEF Ops
  <2>2. queue \in Queues /\ Once(queue)
    BY Zenon DEF Well, Sound, Plain
  <2>3. queue' = Put(queue, Base, Fn(op, c)) /\ op \notin OnceOps
    BY <2>1, Zenon DEF OnceOps
  <2>4. /\ queue' \in Queues /\ Once(queue')
        /\ \A m \in Loop : \A o \in Ops : \A d \in Args :
             Has(queue', m, o, d) <=> Has(queue, m, o, d) \/ (m = Base /\ o = op /\ d = c)
        /\ queue[Base] # <<>> => queue'[Base] # <<>> /\ Head(queue'[Base]) = Head(queue[Base])
    BY <1>1, <2>2, <2>3, PutHas
  <2> QED
    BY <2>1, <2>4, Zenon
<1>4. Numbered'
  BY <1>2, NumberedKept, Zenon DEF Well, Sound
<1>5. Wheels'
  <2>1. \A m \in Loop : Has(queue', m, "wheel", None) => Has(queue, m, "wheel", None)
    BY <1>3, Zenon DEF Ops, Args
  <2> QED
    BY <2>1, WheelsKept, Zenon DEF Well, Sound
<1>6. Means'
  <2> SUFFICES ASSUME NEW l \in Loop, NEW e \in Args PROVE MeansAt(l, e)'
    BY Zenon DEF Means
  <2>1. \A o \in Ops \ {"destroy"} : /\ Has(queue', l, o, e) => Has(queue, l, o, e)
                                     /\ Has(queue', Base, o, e) => Has(queue, Base, o, e)
    BY <1>1, <1>3, Zenon
  <2>2. Has(queue', l, "destroy", e) => Has(queue, l, "destroy", e) \/ e = c
    BY <1>3, Zenon DEF Ops
  <2>3. MeansAt(l, e) /\ ~Has(queue, Base, "closed", c)
    BY <1>1, Zenon DEF Well, Sound, Means, MeansAt
  <2> QED
    BY <1>2, <2>1, <2>2, <2>3, Zenon DEF MeansAt, Ops
<1>7. StartFirst'
  BY <1>3, Zenon DEF Well, Sound, StartFirst
<1>8. ConnSet'
  <2>1. \A d \in Conn : Has(queue', Base, "closed", d) <=> Has(queue, Base, "closed", d)
    BY <1>1, <1>3, Zenon DEF Ops, Args
  <2>2. ~Has(queue, Base, "closed", c)
    BY <1>1, Zenon DEF Well, Sound, Means, MeansAt
  <2>3. copied \subseteq Conn
    BY Zenon DEF Well, TypeOK
  <2> QED
    BY <1>2, <2>1, <2>2, <2>3, Zenon DEF Well, Sound, ConnSet, Open, Up
<1> QED
  BY <1>3, <1>4, <1>5, <1>6, <1>7, <1>8, Zenon

(* What is open when the server is dead was left open by its stop(). *)
LEMMA LeftOpen ==
  ASSUME Well, NEW c \in Conn, server = "dead",
         status[c] \in Up \/ Has(queue, Base, "closed", c)
  PROVE  openAtStop /\ pool # "none"
<1>1. openAtStop
  BY Zenon DEF Well, Sound, Plain, StopOrder, ConnSet, Open
<1>2. copied = {} /\ acceptor = "gone"
  BY Zenon DEF Well, Sound, StopOrder
<1>3. CASE status[c] \in Up
  BY <1>1, <1>2, <1>3, Zenon DEF Well, Sound, ConnSet, Numbered, Up
<1>4. CASE Has(queue, Base, "closed", c)
  BY <1>1, <1>4, Zenon DEF Well, Sound, Means, MeansAt, Numbered, Loop, Args
<1> QED
  BY <1>1, <1>3, <1>4, Zenon

LEMMA PeerClosesStep ==
  ASSUME Well, NEW c \in Conn, PeerCloses(c)
  PROVE  ServerInv'
<1>0. /\ clients' = clients /\ backlog' = backlog /\ refused' = refused
      /\ pool' = pool /\ idle' = idle /\ acceptor' = acceptor
      /\ loopIndex' = loopIndex /\ loopOf' = loopOf /\ wheel' = wheel /\ quit' = quit /\ lpc' = lpc
      /\ server' = server /\ spc' = spc /\ copied' = copied /\ visited' = visited
      /\ stops' = stops /\ openAtStop' = openAtStop /\ status[c] = "Connected"
  BY Zenon DEF PeerCloses, conf, accept, stopping
<1>1. /\ broken = "" /\ lpc[Base] # "ended" /\ (server # "dead" => c \in connSet)
      /\ queue \in Queues /\ Once(queue) /\ connSet \subseteq Conn
      /\ status \in [Conn -> {"none", "Connecting", "Connected", "Disconnected", "Destroyed"}]
  BY <1>0, Zenon DEF Well, TypeOK, Sound, Plain, StopOrder, ConnSet, Open, Up
<1>2. status' = [status EXCEPT ![c] = "Disconnected"] /\ connSet' \in {connSet, connSet \ {c}}
  BY <1>1, Zenon DEF PeerCloses, Commit, HandleClose, ConnectionClosed, TouchServer, HandleCloseInLoop,
              QueueInLoop, Break, State
<1>3. TypeOK'
  <2>1. /\ connSet' \subseteq Conn
        /\ status' \in [Conn -> {"none", "Connecting", "Connected", "Disconnected", "Destroyed"}]
    BY <1>1, <1>2, Zenon
  <2> QED
    BY <1>0, <2>1, Zenon DEF Well, TypeOK
<1>4. CASE server = "dead"
  <2>1. broken' = "server"
    BY <1>1, <1>4, Zenon DEF PeerCloses, Commit, HandleClose, ConnectionClosed, TouchServer, HandleCloseInLoop,
              QueueInLoop, Break, State
  <2>2. openAtStop /\ pool # "none"
    BY <1>0, <1>4, LeftOpen, Zenon DEF Up
  <2> QED
    BY <1>0, <1>3, <1>4, <2>1, <2>2, ZenonT(30) DEF ServerInv, BrokenOK, SoundUntilBroken
<1>5. ASSUME server # "dead"
      PROVE  /\ queue' \in Queues /\ Once(queue') /\ broken' = broken
             /\ Numbered' /\ Wheels' /\ Means' /\ StartFirst' /\ ConnSet'
  <2>1. CASE loopOf[c] = Base
    <3>1. connSet' = connSet \ {c} /\ broken' = broken
      BY <1>1, <1>5, <2>1, ZenonT(30) DEF PeerCloses, Commit, HandleClose, ConnectionClosed, TouchServer,
              HandleCloseInLoop, QueueInLoop, Break, State
    <3>2. queue' = Put(queue, Base, Fn("destroy", c))
      BY <1>1, <1>5, <2>1, ZenonT(30) DEF PeerCloses, Commit, HandleClose, ConnectionClosed, TouchServer,
              HandleCloseInLoop, QueueInLoop, Break, State, Put, Fn
    <3> QED
      BY <1>0, <1>2, <1>5, <2>1, <3>1, <3>2, CloseInBase, Zenon
  <2>2. CASE loopOf[c] # Base
    <3>1. connSet' = connSet /\ broken' = broken
      BY <1>1, <1>5, <2>2, ZenonT(30) DEF PeerCloses, Commit, HandleClose, ConnectionClosed, TouchServer,
              HandleCloseInLoop, QueueInLoop, Break, State
    <3>2. queue' = Put(queue, Base, Fn("closed", c))
      BY <1>1, <1>5, <2>2, ZenonT(30) DEF PeerCloses, Commit, HandleClose, ConnectionClosed, TouchServer,
              HandleCloseInLoop, QueueInLoop, Break, State, Put, Fn
    <3> QED
      BY <1>0, <1>1, <1>2, <1>5, <2>2, <3>1, <3>2, CloseInPool, ZenonT(30)
  <2> QED
    BY <2>1, <2>2, Zenon
<1>6. CASE server # "dead"
  <2>1. Plain' /\ StopOrder' /\ broken' = broken
    BY <1>0, <1>5, <1>6, Zenon DEF Well, Sound, Plain, StopOrder
  <2> QED
    BY <1>0, <1>3, <1>5, <1>6, <2>1, Zenon DEF Well, ServerInv, BrokenOK, SoundUntilBroken, Sound
<1> QED
  BY <1>4, <1>6, Zenon

LEMMA CloseCopiedStep ==
  ASSUME Well, CloseCopied
  PROVE  ServerInv'
<1>0. /\ clients' = clients /\ backlog' = backlog /\ refused' = refused
      /\ pool' = pool /\ idle' = idle /\ acceptor' = acceptor
      /\ loopIndex' = loopIndex /\ loopOf' = loopOf /\ wheel' = wheel /\ quit' = quit
      /\ server' = server /\ visited' = visited
      /\ stops' = stops /\ openAtStop' = openAtStop /\ spc = "close"
  BY Zenon DEF CloseCopied, conf, accept
<1>1. /\ broken = "" /\ lpc[Base] \in {"stop", "body"} /\ server # "dead" /\ acceptor = "gone"
      /\ queue \in Queues /\ Once(queue) /\ connSet \subseteq Conn /\ copied \subseteq Conn
      /\ status \in [Conn -> {"none", "Connecting", "Connected", "Disconnected", "Destroyed"}]
      /\ lpc \in [Loop -> {"poll", "funcs", "test", "stop", "body", "ended"}]
      /\ loopOf \in [Conn -> Loop] /\ Base \in Loop /\ openAtStop
  BY <1>0, Zenon DEF Well, TypeOK, Sound, Plain, StopOrder, Loop
<1>2. PICK c \in copied : CloseRest(copied \ {c}, lpc[Base]) /\ Commit(ForceClose(State, c))
  BY Zenon DEF CloseCopied
<1>3. /\ copied' = copied \ {c} /\ c \in Conn
      /\ copied' = {} => spc' = "pool"
      /\ copied' # {} => spc' = "close" /\ lpc'[Base] = lpc[Base]
      /\ lpc'[Base] \in {"stop", "body", "funcs"} /\ \A m \in PoolLoop : lpc'[m] = lpc[m]
      /\ lpc' \in [Loop -> {"poll", "funcs", "test", "stop", "body", "ended"}]
  <2>1. PICK to \in {"stop", "body", "funcs"} :
          lpc' = [lpc EXCEPT ![Base] = to] /\ (copied \ {c} # {} => to = lpc[Base])
    BY <1>1, <1>2, Zenon DEF CloseRest
  <2>2. lpc'[Base] = to /\ \A m \in PoolLoop : lpc'[m] = lpc[m]
    BY <1>1, <2>1, BaseAlone, Zenon
  <2>3. lpc' \in [Loop -> {"poll", "funcs", "test", "stop", "body", "ended"}]
    BY <1>1, <2>1, Zenon
  <2> QED
    BY <1>1, <1>2, <2>1, <2>2, <2>3, Zenon DEF CloseRest
<1>4. StopOrder'
  BY <1>0, <1>1, <1>3, Zenon DEF Well, Sound, StopOrder
<1>5. ASSUME connSet' \subseteq Conn,
             status' \in [Conn -> {"none", "Connecting", "Connected", "Disconnected", "Destroyed"}]
      PROVE  TypeOK'
  BY <1>0, <1>3, <1>5, <1>1, Zenon DEF Well, TypeOK
<1>6. ASSUME queue' \in Queues, broken' = broken
      PROVE  Plain' /\ BrokenOK'
  BY <1>0, <1>1, <1>6, Zenon DEF Well, Sound, Plain, BrokenOK
<1>7. CASE loopOf[c] = Base /\ status[c] = "Connected"
  <2>1. c \in connSet
    BY <1>1, <1>3, <1>7, ZenonT(30) DEF Well, Sound, ConnSet, Open, Up
  <2>2. /\ connSet' = connSet \ {c} /\ broken' = broken
        /\ status' = [status EXCEPT ![c] = "Disconnected"]
    BY <1>1, <1>2, <1>7, <2>1, ZenonT(30) DEF Commit, ForceClose, ForceCloseInLoop, HandleClose, ConnectionClosed,
       TouchServer, HandleCloseInLoop, QueueInLoop, Break, State
  <2>3. queue' = Put(queue, Base, Fn("destroy", c))
    BY <1>1, <1>2, <1>7, <2>1, ZenonT(30) DEF Commit, ForceClose, ForceCloseInLoop, HandleClose, ConnectionClosed,
       TouchServer, HandleCloseInLoop, QueueInLoop, Break, State, Put, Fn
  <2>4. /\ queue' \in Queues /\ Once(queue')
        /\ Numbered' /\ Wheels' /\ Means' /\ StartFirst' /\ ConnSet'
    BY <1>0, <1>1, <1>3, <1>7, <2>2, <2>3, CloseInBase, Zenon
  <2>5. TypeOK'
    BY <1>1, <1>5, <2>2, Zenon
  <2> QED
    BY <1>4, <1>6, <2>2, <2>4, <2>5, Zenon DEF Well, ServerInv, SoundUntilBroken, Sound
<1>8. CASE loopOf[c] = Base /\ status[c] # "Connected"
  <2>1. connSet' = connSet /\ broken' = broken /\ status' = status /\ queue' = queue
    BY <1>2, <1>8, Zenon DEF Commit, ForceClose, ForceCloseInLoop, State
  <2>2. Means'
    BY <1>0, <2>1, ZenonT(30) DEF Well, Sound, Means, MeansAt
  <2>3. Numbered' /\ Wheels' /\ StartFirst' /\ ConnSet'
    BY <1>0, <1>3, <1>8, <2>1, NumberedKept, WheelsKept, Zenon DEF Well, Sound, StartFirst, ConnSet, Open
  <2>4. TypeOK'
    BY <1>1, <1>5, <2>1, Zenon
  <2> QED
    BY <1>1, <1>4, <1>6, <2>1, <2>2, <2>3, <2>4, Zenon DEF Well, ServerInv, SoundUntilBroken, Sound
<1>9. CASE loopOf[c] # Base /\ lpc[loopOf[c]] = "ended"
  <2>1. connSet' = connSet /\ broken' = "loop" /\ status' = status
    BY <1>1, <1>2, <1>9, Zenon DEF Commit, ForceClose, QueueInLoop, Break, State
  <2>2. pool = "own"
    <3>1. loopOf[c] \in PoolLoop /\ status[c] # "none"
      BY <1>1, <1>2, <1>9, Zenon DEF Loop, Well, Sound, ConnSet
    <3>2. pool # "none"
      BY <1>3, <1>9, <3>1, Zenon DEF Well, Sound, Numbered
    <3> QED
      BY <1>9, <3>1, <3>2, Zenon DEF Well, Sound, StopOrder
  <2>3. TypeOK'
    BY <1>1, <1>5, <2>1, Zenon
  <2> QED
    BY <1>0, <1>1, <2>1, <2>2, <2>3, Zenon DEF ServerInv, BrokenOK, SoundUntilBroken
<1>10. CASE loopOf[c] # Base /\ lpc[loopOf[c]] # "ended"
  <2>1. /\ connSet' = connSet /\ broken' = broken /\ status' = status
        /\ queue' = Put(queue, loopOf[c], Fn("forceClose", c))
    BY <1>1, <1>2, <1>10, Zenon DEF Commit, ForceClose, QueueInLoop, State, Put, Fn
  <2>2. /\ queue' \in Queues /\ Once(queue')
        /\ \A m \in Loop : \A o \in Ops : \A d \in Args :
             Has(queue', m, o, d) <=> Has(queue, m, o, d) \/ (m = loopOf[c] /\ o = "forceClose" /\ d = c)
        /\ queue[Base] # <<>> => queue'[Base] # <<>> /\ Head(queue'[Base]) = Head(queue[Base])
    <3>1. PICK op \in Ops, k \in Loop : op = "forceClose" /\ k = loopOf[c] /\ c \in Args
      BY <1>1, <1>3, Zenon DEF Ops, Args
    <3>2. queue' = Put(queue, k, Fn(op, c)) /\ op \notin OnceOps
      BY <2>1, <3>1, Zenon DEF OnceOps
    <3>3. queue \in Queues /\ Once(queue) /\ c \in Args
      BY <1>1, <3>1, Zenon
    <3>4. /\ queue' \in Queues /\ Once(queue')
          /\ \A m \in Loop : \A o \in Ops : \A d \in Args :
               Has(queue', m, o, d) <=> Has(queue, m, o, d) \/ (m = k /\ o = op /\ d = c)
          /\ queue[Base] # <<>> => queue'[Base] # <<>> /\ Head(queue'[Base]) = Head(queue[Base])
      BY <3>2, <3>3, PutHas
    <3> QED
      BY <3>1, <3>4, Zenon
  <2>3. Means'
    <3> SUFFICES ASSUME NEW l \in Loop, NEW e \in Args PROVE MeansAt(l, e)'
      BY Zenon DEF Means
    <3>1. \A o \in Ops \ {"forceClose"} : /\ Has(queue', l, o, e) => Has(queue, l, o, e)
                                          /\ Has(queue', Base, o, e) => Has(queue, Base, o, e)
      BY <1>1, <2>2, Zenon
    <3>2. Has(queue', l, "forceClose", e) => Has(queue, l, "forceClose", e) \/ (l = loopOf[c] /\ e = c)
      BY <2>2, Zenon DEF Ops
    <3>3. MeansAt(l, e) /\ status[c] # "none"
      BY <1>2, Zenon DEF Well, Sound, Means, ConnSet
    <3> QED
      BY <1>0, <1>3, <1>10, <2>1, <3>1, <3>2, <3>3, Zenon DEF MeansAt, Ops
  <2>4. Numbered' /\ Wheels' /\ StartFirst'
    <3>1. \A m \in Loop : Has(queue', m, "wheel", None) => Has(queue, m, "wheel", None)
      BY <2>2, Zenon DEF Ops, Args
    <3> QED
      BY <1>0, <2>1, <2>2, <3>1, NumberedKept, WheelsKept, Zenon DEF Well, Sound, StartFirst
  <2>5. ConnSet'
    <3>1. \A d \in Conn : Has(queue', Base, "closed", d) <=> Has(queue, Base, "closed", d)
      BY <1>1, <2>2, Zenon DEF Ops, Args
    <3>2. pool # "none"
      BY <1>2, <1>3, <1>10, Zenon DEF Well, Sound, ConnSet, Numbered
    <3> QED
      BY <1>0, <1>1, <1>3, <2>1, <3>1, <3>2, Zenon DEF Well, Sound, ConnSet, Open
  <2>6. TypeOK'
    BY <1>1, <1>5, <2>1, Zenon
  <2> QED
    BY <1>4, <1>6, <2>1, <2>2, <2>3, <2>4, <2>5, <2>6, ZenonT(30) DEF Well, ServerInv, SoundUntilBroken, Sound
<1> QED
  BY <1>7, <1>8, <1>9, <1>10, Zenon

-----------------------------------------------------------------------------
(* doRunInLoopFuncs *)

(* The function that is taken, and what is left in the queues. *)
LEMMA Running ==
  ASSUME Well, NEW l \in Loop, RunFunc(l)
  PROVE  \E op \in Ops, c \in Args, q \in Queues :
           /\ q = Take(queue, l) /\ Head(queue[l]).op = op /\ Head(queue[l]).conn = c
           /\ MeansAt(l, c) /\ Has(queue, l, op, c) /\ Once(q)
           /\ \A m \in Loop : \A o \in Ops : \A d \in Args : Has(q, m, o, d) => Has(queue, m, o, d)
           /\ \A m \in Loop : \A o \in Ops : \A d \in Args :
                Has(queue, m, o, d) => Has(q, m, o, d) \/ (m = l /\ o = op /\ d = c)
           /\ op \in OnceOps => \A m \in Loop : ~Has(q, m, op, c)
           /\ l # Base => q[Base] = queue[Base]
           /\ op # "start" /\ acceptor = "made" => q[Base] # <<>> /\ Head(q[Base]).op = "start"
<1>1. queue[l] # <<>>
  BY Zenon DEF RunFunc
<1>2. queue \in Queues /\ Once(queue)
  BY Zenon DEF Well, Sound, Plain
<1>3. PICK op \in Ops, c \in Args :
        /\ Head(queue[l]) = Fn(op, c) /\ Head(queue[l]).op = op /\ Head(queue[l]).conn = c
        /\ Has(queue, l, op, c)
        /\ Take(queue, l) \in Queues /\ Once(Take(queue, l))
        /\ \A m \in Loop : \A o \in Ops : \A d \in Args :
             Has(Take(queue, l), m, o, d) => Has(queue, m, o, d)
        /\ \A m \in Loop : \A o \in Ops : \A d \in Args :
             Has(queue, m, o, d) => Has(Take(queue, l), m, o, d) \/ (m = l /\ o = op /\ d = c)
        /\ op \in OnceOps => \A m \in Loop : ~Has(Take(queue, l), m, op, c)
        /\ l # Base => Take(queue, l)[Base] = queue[Base]
  BY <1>1, <1>2, TakeHas, Zenon
<1>4. PICK q \in Queues : q = Take(queue, l)
  BY <1>3, Zenon
<1>5. /\ Once(q)
      /\ \A m \in Loop : \A o \in Ops : \A d \in Args : Has(q, m, o, d) => Has(queue, m, o, d)
      /\ \A m \in Loop : \A o \in Ops : \A d \in Args :
           Has(queue, m, o, d) => Has(q, m, o, d) \/ (m = l /\ o = op /\ d = c)
      /\ op \in OnceOps => \A m \in Loop : ~Has(q, m, op, c)
      /\ l # Base => q[Base] = queue[Base]
  BY <1>3, <1>4, Zenon
<1>6. MeansAt(l, c)
  BY Zenon DEF Well, Sound, Means
<1>7. op # "start" /\ acceptor = "made" => q[Base] # <<>> /\ Head(q[Base]).op = "start"
  <2>1. acceptor = "made" => queue[Base] # <<>> /\ Head(queue[Base]).op = "start"
    BY Zenon DEF Well, Sound, StartFirst
  <2> QED
    BY <1>3, <1>5, <2>1, Zenon
<1> QED
  BY <1>3, <1>4, <1>5, <1>6, <1>7, SMTT(30)

(* What every function leaves alone. *)
LEMMA RunLeaves ==
  ASSUME NEW l, RunFunc(l)
  PROVE  /\ clients' = clients /\ backlog' = backlog /\ refused' = refused
         /\ pool' = pool /\ idle' = idle /\ loopIndex' = loopIndex /\ loopOf' = loopOf
         /\ quit' = quit /\ server' = server /\ visited' = visited /\ stops' = stops
         /\ lpc[l] = "funcs"
  BY Zenon DEF RunFunc, conf

LEMMA RunStart ==
  ASSUME Well, NEW l \in Loop, RunFunc(l), Head(queue[l]).op = "start"
  PROVE  ServerInv'
<1>0. /\ clients' = clients /\ backlog' = backlog /\ refused' = refused
      /\ pool' = pool /\ idle' = idle /\ loopIndex' = loopIndex /\ loopOf' = loopOf
      /\ quit' = quit /\ server' = server /\ visited' = visited /\ stops' = stops
  BY RunLeaves, Zenon
<1>1. /\ wheel' = [m \in Loop |-> IF idle /\ (m = Base \/ pool # "none") THEN "live" ELSE "none"]
      /\ acceptor' = "listening" /\ spc' = spc /\ copied' = copied /\ openAtStop' = openAtStop
      /\ lpc' = lpc /\ connSet' = connSet /\ status' = status /\ broken' = broken
  BY Zenon DEF RunFunc, Start, Listen, conns
<1>2. queue' = Take(queue, l)
  BY Zenon DEF RunFunc, State, Take
<1>3. PICK op \in Ops, c \in Args, q \in Queues :
        /\ q = Take(queue, l) /\ Head(queue[l]).op = op
        /\ MeansAt(l, c) /\ Has(queue, l, op, c) /\ Once(q)
        /\ \A m \in Loop : \A o \in Ops : \A d \in Args : Has(q, m, o, d) => Has(queue, m, o, d)
        /\ \A m \in Loop : \A o \in Ops : \A d \in Args :
             Has(queue, m, o, d) => Has(q, m, o, d) \/ (m = l /\ o = op /\ d = c)
        /\ op \in OnceOps => \A m \in Loop : ~Has(q, m, op, c)
  BY Running
<1>4. queue' = q /\ op = "start" /\ l = Base /\ c = None /\ acceptor = "made"
  BY <1>2, <1>3, Zenon DEF MeansAt
<1>5. /\ \A m \in Loop : ~Has(q, m, "start", None)
      /\ \A m \in Loop : \A o \in Ops \ {"start"} : \A d \in Args : Has(q, m, o, d) <=> Has(queue, m, o, d)
  BY <1>3, <1>4 DEF OnceOps
<1>6. \A m \in Loop : wheel'[m] = IF idle /\ (m = Base \/ pool # "none") THEN "live" ELSE "none"
  BY <1>1, Zenon
<1>7. wheel' \in [Loop -> {"none", "live", "null"}]
  BY <1>1, Zenon
<1>8. TypeOK'
  BY <1>0, <1>1, <1>7, Zenon DEF Well, TypeOK
<1>9. Plain' /\ Numbered' /\ StartFirst'
  BY <1>0, <1>1, <1>4, NumberedKept, Zenon DEF Well, Sound, Plain, StartFirst
<1>10. StopOrder'
  BY <1>0, <1>1, <1>4, Zenon DEF Well, Sound, StopOrder
<1>11. Wheels'
  <2>1. spc \in {"idle", "body"}
    BY <1>4, Zenon DEF Well, TypeOK, Sound, StopOrder
  <2>2. \A m \in Loop : ~Has(q, m, "wheel", None)
    BY <1>3, <2>1, Zenon DEF Well, Sound, Means, MeansAt, Ops, Args
  <2>3. stops = 0 => visited = {}
    BY Zenon DEF Well, Sound, Wheels
  <2> QED
    BY <1>0, <1>1, <1>4, <1>6, <2>2, <2>3, Zenon DEF Wheels
<1>12. Means'
  <2> SUFFICES ASSUME NEW m \in Loop, NEW e \in Args PROVE MeansAt(m, e)'
    BY Zenon DEF Means
  <2>1. \A o \in Ops \ {"start"} : /\ Has(queue', m, o, e) <=> Has(queue, m, o, e)
                                   /\ Has(queue', Base, o, e) <=> Has(queue, Base, o, e)
    BY <1>4, <1>5, Zenon
  <2>2. ~Has(queue', m, "start", e)
    <3>1. Has(queue', m, "start", e) => Has(queue, m, "start", e)
      BY <1>3, <1>4, Zenon DEF Ops
    <3>2. Has(queue, m, "start", e) => e = None
      BY Zenon DEF Well, Sound, Means, MeansAt
    <3> QED
      BY <1>4, <1>5, <3>1, <3>2, Zenon
  <2>3. MeansAt(m, e)
    BY Zenon DEF Well, Sound, Means
  <2> QED
    BY <1>0, <1>1, <2>1, <2>2, <2>3, Zenon DEF MeansAt, Ops
<1>13. ConnSet'
  <2>1. \A d \in Conn : Has(queue', Base, "closed", d) <=> Has(queue, Base, "closed", d)
    BY <1>4, <1>5, Zenon DEF Ops, Args
  <2> QED
    BY <1>0, <1>1, <2>1, Zenon DEF Well, Sound, ConnSet, Open
<1> QED
  BY <1>0, <1>1, <1>3, <1>4, <1>8, <1>9, <1>10, <1>11, <1>12, <1>13, ZenonT(30)
     DEF Well, ServerInv, BrokenOK, SoundUntilBroken, Sound

LEMMA RunStop ==
  ASSUME Well, NEW l \in Loop, RunFunc(l), Head(queue[l]).op = "stop"
  PROVE  ServerInv'
<1>0. /\ clients' = clients /\ backlog' = backlog /\ refused' = refused
      /\ pool' = pool /\ idle' = idle /\ loopIndex' = loopIndex /\ loopOf' = loopOf
      /\ quit' = quit /\ server' = server /\ visited' = visited /\ stops' = stops
  BY RunLeaves, Zenon
<1>1. /\ acceptor' = "gone" /\ openAtStop' = (openAtStop \/ connSet # {})
      /\ CloseRest(connSet, "body") /\ wheel' = wheel
  BY Zenon DEF RunFunc, StopBody, ResetAcceptor
<1>2. connSet' = connSet /\ status' = status /\ broken' = broken /\ queue' = Take(queue, l)
  BY Zenon DEF RunFunc, Commit, State, Take
<1>3. PICK op \in Ops, c \in Args, q \in Queues :
        /\ q = Take(queue, l) /\ Head(queue[l]).op = op
        /\ MeansAt(l, c) /\ Has(queue, l, op, c) /\ Once(q)
        /\ \A m \in Loop : \A o \in Ops : \A d \in Args : Has(q, m, o, d) => Has(queue, m, o, d)
        /\ \A m \in Loop : \A o \in Ops : \A d \in Args :
             Has(queue, m, o, d) => Has(q, m, o, d) \/ (m = l /\ o = op /\ d = c)
        /\ op \in OnceOps => \A m \in Loop : ~Has(q, m, op, c)
  BY Running, Zenon
<1>4. queue' = q /\ op = "stop" /\ l = Base /\ c = None /\ spc = "body"
  BY <1>2, <1>3, Zenon DEF MeansAt
<1>5. /\ \A m \in Loop : ~Has(q, m, "stop", None)
      /\ \A m \in Loop : \A o \in Ops \ {"stop"} : \A d \in Args : Has(q, m, o, d) <=> Has(queue, m, o, d)
  BY <1>3, <1>4 DEF OnceOps
<1>6. acceptor # "made" /\ server # "dead"
  <2>1. Head(queue[Base]).op # "start"
    BY <1>3, <1>4, Zenon
  <2> QED
    BY <1>4, <2>1, Zenon DEF Well, Sound, StartFirst, StopOrder
<1>7. /\ copied' = connSet
      /\ connSet = {} => spc' = "pool" /\ lpc'[Base] = "funcs"
      /\ connSet # {} => spc' = "close" /\ lpc'[Base] = "body"
      /\ \A m \in PoolLoop : lpc'[m] = lpc[m]
      /\ lpc' \in [Loop -> {"poll", "funcs", "test", "stop", "body", "ended"}]
  <2>1. lpc \in [Loop -> {"poll", "funcs", "test", "stop", "body", "ended"}]
    BY Zenon DEF Well, TypeOK
  <2>2. PICK to \in {"funcs", "body"} :
          lpc' = [lpc EXCEPT ![Base] = to] /\ (to = "funcs" <=> connSet = {})
    BY <1>1, Zenon DEF CloseRest
  <2>3. lpc'[Base] = to /\ \A m \in PoolLoop : lpc'[m] = lpc[m]
    BY <2>1, <2>2, BaseAlone, Zenon
  <2>4. lpc' \in [Loop -> {"poll", "funcs", "test", "stop", "body", "ended"}]
    BY <2>1, <2>2, Zenon
  <2> QED
    BY <1>1, <2>2, <2>3, <2>4, Zenon DEF CloseRest
<1>8. TypeOK'
  BY <1>0, <1>1, <1>2, <1>7, Zenon DEF Well, TypeOK
<1>9. Plain' /\ Numbered' /\ StartFirst'
  BY <1>0, <1>1, <1>2, <1>4, NumberedKept, Zenon DEF Well, Sound, Plain, StartFirst
<1>10. StopOrder'
  BY <1>0, <1>1, <1>4, <1>7, Zenon DEF Well, Sound, StopOrder
<1>11. Wheels'
  <2>1. \A m \in Loop : Has(queue', m, "wheel", None) => Has(queue, m, "wheel", None)
    BY <1>4, <1>5, Zenon DEF Ops, Args
  <2> QED
    BY <1>0, <1>1, <2>1, WheelsKept, Zenon DEF Well, Sound
<1>12. Means'
  <2> SUFFICES ASSUME NEW m \in Loop, NEW e \in Args PROVE MeansAt(m, e)'
    BY Zenon DEF Means
  <2>1. \A o \in Ops \ {"stop"} : /\ Has(queue', m, o, e) <=> Has(queue, m, o, e)
                                  /\ Has(queue', Base, o, e) <=> Has(queue, Base, o, e)
    BY <1>4, <1>5, Zenon
  <2>2. ~Has(queue', m, "stop", e)
    <3>1. Has(queue', m, "stop", e) => Has(queue, m, "stop", e)
      BY <1>3, <1>4, Zenon DEF Ops
    <3>2. Has(queue, m, "stop", e) => e = None
      BY Zenon DEF Well, Sound, Means, MeansAt
    <3> QED
      BY <1>4, <1>5, <3>1, <3>2, Zenon
  <2>3. MeansAt(m, e)
    BY Zenon DEF Well, Sound, Means
  <2> QED
    BY <1>0, <1>2, <1>4, <1>6, <2>1, <2>2, <2>3, SMTT(30) DEF MeansAt, Ops
<1>13. ConnSet'
  <2>1. \A d \in Conn : Has(queue', Base, "closed", d) <=> Has(queue, Base, "closed", d)
    BY <1>4, <1>5, Zenon DEF Ops, Args
  <2> QED
    BY <1>0, <1>1, <1>2, <1>6, <1>7, <2>1, BodyBegins, Zenon
<1> QED
  BY <1>0, <1>2, <1>3, <1>4, <1>8, <1>9, <1>10, <1>11, <1>12, <1>13, ZenonT(30)
     DEF Well, ServerInv, BrokenOK, SoundUntilBroken, Sound

LEMMA RunWheel ==
  ASSUME Well, NEW l \in Loop, RunFunc(l), Head(queue[l]).op = "wheel"
  PROVE  ServerInv'
<1>0. /\ clients' = clients /\ backlog' = backlog /\ refused' = refused
      /\ pool' = pool /\ idle' = idle /\ loopIndex' = loopIndex /\ loopOf' = loopOf
      /\ quit' = quit /\ server' = server /\ visited' = visited /\ stops' = stops
  BY RunLeaves, Zenon
<1>1. /\ wheel' = [wheel EXCEPT ![l] = "null"] /\ spc' = "wheel"
      /\ acceptor' = acceptor /\ copied' = copied /\ openAtStop' = openAtStop /\ lpc' = lpc
  BY Zenon DEF RunFunc
<1>2. connSet' = connSet /\ status' = status /\ broken' = broken /\ queue' = Take(queue, l)
  BY Zenon DEF RunFunc, Commit, State, Take
<1>3. PICK op \in Ops, c \in Args, q \in Queues :
        /\ q = Take(queue, l) /\ Head(queue[l]).op = op
        /\ MeansAt(l, c) /\ Has(queue, l, op, c) /\ Once(q)
        /\ \A m \in Loop : \A o \in Ops : \A d \in Args : Has(q, m, o, d) => Has(queue, m, o, d)
        /\ \A m \in Loop : \A o \in Ops : \A d \in Args :
             Has(queue, m, o, d) => Has(q, m, o, d) \/ (m = l /\ o = op /\ d = c)
        /\ op \in OnceOps => \A m \in Loop : ~Has(q, m, op, c)
        /\ op # "start" /\ acceptor = "made" => q[Base] # <<>> /\ Head(q[Base]).op = "start"
  BY Running
<1>4. queue' = q /\ op = "wheel" /\ c = None /\ spc = "wait" /\ Has(queue, l, "wheel", None)
  BY <1>2, <1>3, Zenon DEF MeansAt
<1>5. /\ \A m \in Loop : ~Has(q, m, "wheel", None)
      /\ \A m \in Loop : \A o \in Ops \ {"wheel"} : \A d \in Args : Has(q, m, o, d) <=> Has(queue, m, o, d)
  BY <1>3, <1>4, Zenon DEF OnceOps
<1>6. wheel \in [Loop -> {"none", "live", "null"}] /\ acceptor = "gone"
  BY <1>4, Zenon DEF Well, TypeOK, Sound, StopOrder
<1>7. /\ wheel' \in [Loop -> {"none", "live", "null"}]
      /\ wheel'[l] = "null" /\ \A m \in Loop : m # l => wheel'[m] = wheel[m]
  BY <1>1, <1>6, Zenon
<1>8. TypeOK'
  BY <1>0, <1>1, <1>2, <1>7, Zenon DEF Well, TypeOK
<1>9. Plain' /\ Numbered' /\ StartFirst'
  BY <1>0, <1>1, <1>2, <1>3, <1>4, NumberedKept, Zenon DEF Well, Sound, Plain, StartFirst
<1>10. StopOrder'
  BY <1>0, <1>1, <1>4, Zenon DEF Well, Sound, StopOrder
<1>11. Wheels'
  BY <1>0, <1>1, <1>4, <1>5, <1>6, <1>7, ZenonT(30) DEF Well, Sound, Wheels
<1>12. Means'
  <2> SUFFICES ASSUME NEW m \in Loop, NEW e \in Args PROVE MeansAt(m, e)'
    BY Zenon DEF Means
  <2>1. \A o \in Ops \ {"wheel"} : /\ Has(queue', m, o, e) <=> Has(queue, m, o, e)
                                   /\ Has(queue', Base, o, e) <=> Has(queue, Base, o, e)
    BY <1>4, <1>5, BaseAlone, Zenon
  <2>2. ~Has(queue', m, "wheel", e)
    <3>1. Has(queue', m, "wheel", e) => Has(queue, m, "wheel", e)
      BY <1>3, <1>4, Zenon DEF Ops
    <3>2. Has(queue, m, "wheel", e) => e = None
      BY Zenon DEF Well, Sound, Means, MeansAt
    <3> QED
      BY <1>4, <1>5, <3>1, <3>2, Zenon
  <2>3. MeansAt(m, e)
    BY Zenon DEF Well, Sound, Means
  <2> QED
    BY <1>0, <1>1, <1>2, <1>4, <2>1, <2>2, <2>3, SMTT(30) DEF MeansAt, Ops
<1>13. ConnSet'
  <2>1. \A d \in Conn : Has(queue', Base, "closed", d) <=> Has(queue, Base, "closed", d)
    BY <1>4, <1>5, BaseAlone, Zenon DEF Ops, Args
  <2> QED
    BY <1>0, <1>1, <1>2, <2>1, Zenon DEF Well, Sound, ConnSet, Open
<1> QED
  BY <1>0, <1>1, <1>2, <1>3, <1>4, <1>8, <1>9, <1>10, <1>11, <1>12, <1>13, ZenonT(30)
     DEF Well, ServerInv, BrokenOK, SoundUntilBroken, Sound

(* What the functions of a connection leave alone. *)
LEMMA ConnFuncLeaves ==
  ASSUME Well, NEW l, RunFunc(l),
         Head(queue[l]).op \in {"establish", "forceClose", "closed", "destroy"}
  PROVE  /\ wheel' = wheel /\ acceptor' = acceptor /\ spc' = spc /\ copied' = copied
         /\ openAtStop' = openAtStop /\ lpc' = lpc
         /\ StopOrder'
         /\ queue' \in Queues => Plain'
         /\ /\ connSet' \subseteq Conn
            /\ status' \in [Conn -> {"none", "Connecting", "Connected", "Disconnected", "Destroyed"}]
            => TypeOK'
         /\ broken' = broken => BrokenOK'
<1>0. /\ clients' = clients /\ backlog' = backlog /\ refused' = refused
      /\ pool' = pool /\ idle' = idle /\ loopIndex' = loopIndex /\ loopOf' = loopOf
      /\ quit' = quit /\ server' = server /\ visited' = visited /\ stops' = stops
  BY RunLeaves, Zenon
<1>1. /\ wheel' = wheel /\ acceptor' = acceptor /\ spc' = spc /\ copied' = copied
      /\ openAtStop' = openAtStop /\ lpc' = lpc
  BY Zenon DEF RunFunc
<1>2. StopOrder'
  BY <1>0, <1>1, Zenon DEF Well, Sound, StopOrder
<1>3. queue' \in Queues => Plain'
  BY <1>0, <1>1, Zenon DEF Well, Sound, Plain
<1>4. /\ connSet' \subseteq Conn
      /\ status' \in [Conn -> {"none", "Connecting", "Connected", "Disconnected", "Destroyed"}]
      => TypeOK'
  BY <1>0, <1>1, Zenon DEF Well, TypeOK
<1>5. broken' = broken => BrokenOK'
  BY Zenon DEF Well, BrokenOK
<1> QED
  BY <1>1, <1>2, <1>3, <1>4, <1>5, Zenon

LEMMA RunEstablish ==
  ASSUME Well, NEW l \in Loop, RunFunc(l), Head(queue[l]).op = "establish"
  PROVE  ServerInv'
<1>0. /\ clients' = clients /\ backlog' = backlog /\ refused' = refused
      /\ pool' = pool /\ idle' = idle /\ loopIndex' = loopIndex /\ loopOf' = loopOf
      /\ quit' = quit /\ server' = server /\ visited' = visited /\ stops' = stops
  BY RunLeaves, Zenon
<1>1. /\ wheel' = wheel /\ acceptor' = acceptor /\ spc' = spc /\ copied' = copied
      /\ openAtStop' = openAtStop /\ StopOrder' /\ (queue' \in Queues => Plain')
      /\ /\ connSet' \subseteq Conn
         /\ status' \in [Conn -> {"none", "Connecting", "Connected", "Disconnected", "Destroyed"}]
         => TypeOK'
      /\ broken' = broken => BrokenOK'
  BY ConnFuncLeaves, Zenon
<1>2. PICK op \in Ops, c \in Args, q \in Queues :
        /\ q = Take(queue, l) /\ Head(queue[l]).op = op /\ Head(queue[l]).conn = c
        /\ MeansAt(l, c) /\ Has(queue, l, op, c) /\ Once(q)
        /\ \A m \in Loop : \A o \in Ops : \A d \in Args : Has(q, m, o, d) => Has(queue, m, o, d)
        /\ \A m \in Loop : \A o \in Ops : \A d \in Args :
             Has(queue, m, o, d) => Has(q, m, o, d) \/ (m = l /\ o = op /\ d = c)
        /\ op \in OnceOps => \A m \in Loop : ~Has(q, m, op, c)
        /\ op # "start" /\ acceptor = "made" => q[Base] # <<>> /\ Head(q[Base]).op = "start"
  BY Running
<1>3. op = "establish" /\ c \in Conn /\ status[c] = "Connecting" /\ l # Base
  BY <1>2, Zenon DEF MeansAt
<1>4. /\ broken = "" /\ connSet \subseteq Conn
      /\ status \in [Conn -> {"none", "Connecting", "Connected", "Disconnected", "Destroyed"}]
  BY Zenon DEF Well, TypeOK
<1>5. connSet' = connSet /\ status' = [status EXCEPT ![c] = "Connected"]
  BY <1>2, <1>3, Zenon DEF RunFunc, Commit, Established, TouchServer, Break, State
<1>6. /\ status'[c] = "Connected" /\ \A d \in Conn : d # c => status'[d] = status[d]
      /\ status' \in [Conn -> {"none", "Connecting", "Connected", "Disconnected", "Destroyed"}]
  BY <1>3, <1>4, <1>5, Zenon
<1>7. TypeOK'
  BY <1>1, <1>4, <1>5, <1>6, ZenonT(30)
<1>8. CASE server = "dead"
  <2>1. broken' = "server"
    BY <1>2, <1>3, <1>4, <1>8, ZenonT(30) DEF RunFunc, Commit, Established, TouchServer, Break, State
  <2>2. openAtStop /\ pool # "none"
    BY <1>3, <1>8, LeftOpen, Zenon DEF Up
  <2> QED
    BY <1>0, <1>1, <1>7, <1>8, <2>1, <2>2, SMTT(30) DEF ServerInv, BrokenOK, SoundUntilBroken
<1>9. CASE server # "dead"
  <2>1. queue' = q /\ broken' = broken
    BY <1>2, <1>3, <1>4, <1>9, Zenon DEF RunFunc, Commit, Established, TouchServer, Break, State, Take
  <2>2. \A m \in Loop : \A o \in Ops \ {"establish"} : \A d \in Args :
          Has(queue', m, o, d) <=> Has(queue, m, o, d)
    BY <1>2, <1>3, <2>1, Zenon
  <2>3. \A m \in Loop : \A d \in Args : Has(queue', m, "establish", d) => Has(queue, m, "establish", d) /\ d # c
    BY <1>2, <1>3, <2>1 DEF OnceOps
  <2>4. Means'
    <3> SUFFICES ASSUME NEW m \in Loop, NEW e \in Args PROVE MeansAt(m, e)'
      BY Zenon DEF Means
    <3>1. \A o \in Ops \ {"establish"} : /\ Has(queue', m, o, e) <=> Has(queue, m, o, e)
                                         /\ Has(queue', Base, o, e) <=> Has(queue, Base, o, e)
      BY <2>2, BaseAlone, Zenon
    <3>2. MeansAt(m, e)
      BY Zenon DEF Well, Sound, Means
    <3> QED
      BY <1>0, <1>1, <1>3, <1>6, <2>3, <3>1, <3>2, Zenon DEF MeansAt, Ops
  <2>5. Numbered' /\ StartFirst'
    BY <1>0, <1>1, <1>2, <1>3, <1>6, <2>1, NumberedKept, Zenon DEF Well, Sound, StartFirst
  <2>6. Wheels'
    <3>1. \A m \in Loop : Has(queue', m, "wheel", None) => Has(queue, m, "wheel", None)
      BY <2>2, Zenon DEF Ops, Args
    <3> QED
      BY <1>0, <1>1, <3>1, WheelsKept, Zenon DEF Well, Sound
  <2>7. ConnSet'
    <3>1. \A d \in Conn : Has(queue', Base, "closed", d) <=> Has(queue, Base, "closed", d)
      BY <2>2, BaseAlone, Zenon DEF Ops, Args
    <3>2. pool # "none" /\ copied \subseteq Conn
      BY <1>3, Zenon DEF Well, TypeOK, Sound, Numbered
    <3> QED
      BY <1>0, <1>1, <1>3, <1>5, <1>6, <3>1, <3>2, Zenon DEF Well, Sound, ConnSet, Open, Up
  <2> QED
    BY <1>1, <1>2, <1>7, <2>1, <2>4, <2>5, <2>6, <2>7, SMTT(30) DEF ServerInv, SoundUntilBroken, Sound
<1> QED
  BY <1>8, <1>9, Zenon

LEMMA RunForceClose ==
  ASSUME Well, NEW l \in Loop, RunFunc(l), Head(queue[l]).op = "forceClose"
  PROVE  ServerInv'
<1>0. /\ clients' = clients /\ backlog' = backlog /\ refused' = refused
      /\ pool' = pool /\ idle' = idle /\ loopIndex' = loopIndex /\ loopOf' = loopOf
      /\ quit' = quit /\ server' = server /\ visited' = visited /\ stops' = stops
  BY RunLeaves, Zenon
<1>1. /\ wheel' = wheel /\ acceptor' = acceptor /\ spc' = spc /\ copied' = copied
      /\ openAtStop' = openAtStop /\ StopOrder' /\ (queue' \in Queues => Plain')
      /\ /\ connSet' \subseteq Conn
         /\ status' \in [Conn -> {"none", "Connecting", "Connected", "Disconnected", "Destroyed"}]
         => TypeOK'
      /\ broken' = broken => BrokenOK'
  BY ConnFuncLeaves, Zenon
<1>2. PICK op \in Ops, c \in Args, q \in Queues :
        /\ q = Take(queue, l) /\ Head(queue[l]).op = op /\ Head(queue[l]).conn = c
        /\ MeansAt(l, c) /\ Has(queue, l, op, c) /\ Once(q)
        /\ \A m \in Loop : \A o \in Ops : \A d \in Args : Has(q, m, o, d) => Has(queue, m, o, d)
        /\ \A m \in Loop : \A o \in Ops : \A d \in Args :
             Has(queue, m, o, d) => Has(q, m, o, d) \/ (m = l /\ o = op /\ d = c)
        /\ l # Base => q[Base] = queue[Base]
  BY Running, Zenon
<1>3. op = "forceClose" /\ c \in Conn /\ loopOf[c] # Base /\ l # Base
  BY <1>2, Zenon DEF MeansAt
<1>4. /\ broken = "" /\ connSet \subseteq Conn /\ lpc[Base] # "ended"
      /\ status \in [Conn -> {"none", "Connecting", "Connected", "Disconnected", "Destroyed"}]
  BY Zenon DEF Well, TypeOK, Sound, StopOrder
<1>5. \A d \in Args : Has(queue, Base, "closed", d) => Has(q, Base, "closed", d)
  BY <1>2, <1>3, BaseAlone, Zenon DEF Ops
<1>6. CASE status[c] # "Connected"
  <2>1. connSet' = connSet /\ status' = status /\ broken' = broken /\ queue' = q
    BY <1>2, <1>3, <1>6, Zenon DEF RunFunc, Commit, ForceCloseInLoop, State, Take
  <2>2. TypeOK'
    BY <1>1, <1>4, <2>1, Zenon
  <2>3. \A m \in Loop : Has(queue', m, "wheel", None) => Has(queue, m, "wheel", None)
    BY <1>2, <2>1, ZenonT(30) DEF Ops, Args
  <2>4. Numbered' /\ Wheels' /\ Means' /\ StartFirst'
    BY <1>0, <1>1, <1>2, <1>3, <2>1, <2>3, NumberedKept, WheelsKept, MeansKept, ZenonT(30) DEF Well, Sound, StartFirst
  <2>5. ConnSet'
    <3>1. \A d \in Conn : Has(queue', Base, "closed", d) <=> Has(queue, Base, "closed", d)
      BY <1>2, <1>5, <2>1, BaseAlone, Zenon DEF Ops, Args
    <3> QED
      BY <1>0, <1>1, <2>1, <3>1, Zenon DEF Well, Sound, ConnSet, Open
  <2> QED
    BY <1>1, <1>2, <2>1, <2>2, <2>4, <2>5, Zenon DEF ServerInv, SoundUntilBroken, Sound
<1>7. CASE status[c] = "Connected"
  <2>1. connSet' = connSet /\ status' = [status EXCEPT ![c] = "Disconnected"]
    BY <1>2, <1>3, <1>4, <1>7, Zenon DEF RunFunc, Commit, ForceCloseInLoop, HandleClose, ConnectionClosed,
       TouchServer, QueueInLoop, Break, State
  <2>2. TypeOK'
    <3>1. status' \in [Conn -> {"none", "Connecting", "Connected", "Disconnected", "Destroyed"}]
      BY <1>3, <1>4, <2>1, Zenon
    <3> QED
      BY <1>1, <1>4, <2>1, <3>1, Zenon
  <2>3. CASE server = "dead"
    <3>1. broken' = "server"
      BY <1>2, <1>3, <1>4, <1>7, <2>3, ZenonT(30) DEF RunFunc, Commit, ForceCloseInLoop, HandleClose,
         ConnectionClosed, TouchServer, QueueInLoop, Break, State
    <3>2. openAtStop /\ pool # "none"
      BY <1>3, <1>7, <2>3, LeftOpen, Zenon DEF Up
    <3> QED
      BY <1>0, <1>1, <2>2, <2>3, <3>1, <3>2, ZenonT(30) DEF ServerInv, BrokenOK, SoundUntilBroken
  <2>4. CASE server # "dead"
    <3>1. broken' = broken
      BY <1>2, <1>3, <1>4, <1>7, <2>4, ZenonT(30) DEF RunFunc, Commit, ForceCloseInLoop, HandleClose,
         ConnectionClosed, TouchServer, QueueInLoop, Break, State
    <3>2. queue' = Put(Take(queue, l), Base, Fn("closed", c))
      BY <1>2, <1>3, <1>4, <1>7, <2>4, ZenonT(30) DEF RunFunc, Commit, ForceCloseInLoop, HandleClose,
         ConnectionClosed, TouchServer, QueueInLoop, Break, State, Put, Fn, Take
    <3>3. queue' = Put(q, Base, Fn("closed", c))
      BY <1>2, <3>2, ZenonT(30)
    <3>4. /\ queue' \in Queues /\ Once(queue')
          /\ Numbered' /\ Wheels' /\ Means' /\ StartFirst' /\ ConnSet'
      BY <1>0, <1>1, <1>2, <1>3, <1>5, <1>7, <2>1, <2>4, <3>3, CloseInPool, ZenonT(30)
    <3> QED
      BY <1>1, <2>2, <3>1, <3>4, ZenonT(30) DEF ServerInv, SoundUntilBroken, Sound
  <2> QED
    BY <2>3, <2>4, ZenonT(30)
<1> QED
  BY <1>6, <1>7, Zenon

LEMMA RunClosed ==
  ASSUME Well, NEW l \in Loop, RunFunc(l), Head(queue[l]).op = "closed"
  PROVE  ServerInv'
<1>0. /\ clients' = clients /\ backlog' = backlog /\ refused' = refused
      /\ pool' = pool /\ idle' = idle /\ loopIndex' = loopIndex /\ loopOf' = loopOf
      /\ quit' = quit /\ server' = server /\ visited' = visited /\ stops' = stops
  BY RunLeaves, Zenon
<1>1. /\ wheel' = wheel /\ acceptor' = acceptor /\ spc' = spc /\ copied' = copied
      /\ openAtStop' = openAtStop /\ StopOrder' /\ (queue' \in Queues => Plain')
      /\ /\ connSet' \subseteq Conn
         /\ status' \in [Conn -> {"none", "Connecting", "Connected", "Disconnected", "Destroyed"}]
         => TypeOK'
      /\ broken' = broken => BrokenOK'
  BY ConnFuncLeaves, Zenon
<1>2. PICK op \in Ops, c \in Args, q \in Queues :
        /\ q = Take(queue, l) /\ Head(queue[l]).op = op /\ Head(queue[l]).conn = c
        /\ MeansAt(l, c) /\ Has(queue, l, op, c) /\ Once(q)
        /\ \A m \in Loop : \A o \in Ops : \A d \in Args : Has(q, m, o, d) => Has(queue, m, o, d)
        /\ \A m \in Loop : \A o \in Ops : \A d \in Args :
             Has(queue, m, o, d) => Has(q, m, o, d) \/ (m = l /\ o = op /\ d = c)
        /\ op \in OnceOps => \A m \in Loop : ~Has(q, m, op, c)
        /\ op # "start" /\ acceptor = "made" => q[Base] # <<>> /\ Head(q[Base]).op = "start"
  BY Running
<1>3. /\ op = "closed" /\ c \in Conn /\ loopOf[c] # Base /\ l = Base
      /\ status[c] = "Disconnected" /\ Has(queue, Base, "closed", c)
  BY <1>2, Zenon DEF MeansAt
<1>4. /\ broken = "" /\ connSet \subseteq Conn /\ copied \subseteq Conn
      /\ status \in [Conn -> {"none", "Connecting", "Connected", "Disconnected", "Destroyed"}]
      /\ loopOf[c] \in PoolLoop /\ loopOf[c] \in Loop
      /\ (server = "dead" => c \notin connSet) /\ (server # "dead" => c \in connSet)
  BY <1>3, Zenon DEF Well, TypeOK, Sound, ConnSet, Open, Loop
<1>5. status' = status
  BY <1>2, <1>3, ZenonT(30) DEF RunFunc, Commit, HandleCloseInLoop, TouchServer, QueueInLoop, Break, State
<1>6. connSet' \in {connSet, connSet \ {c}}
  BY <1>2, <1>3, Zenon DEF RunFunc, Commit, HandleCloseInLoop, TouchServer, QueueInLoop, Break, State
<1>7. TypeOK'
  BY <1>1, <1>4, <1>5, <1>6, Zenon
<1>8. CASE server = "dead"
  <2>1. broken' = "server"
    BY <1>2, <1>3, <1>4, <1>8, ZenonT(30) DEF RunFunc, Commit, HandleCloseInLoop, TouchServer, QueueInLoop, Break, State
  <2>2. openAtStop /\ pool # "none"
    BY <1>3, <1>8, LeftOpen, Zenon
  <2> QED
    BY <1>0, <1>1, <1>7, <1>8, <2>1, <2>2, ZenonT(30) DEF ServerInv, BrokenOK, SoundUntilBroken
<1>9. CASE server # "dead" /\ lpc[loopOf[c]] = "ended"
  <2>1. broken' = "loop"
    BY <1>2, <1>3, <1>4, <1>9, ZenonT(30) DEF RunFunc, Commit, HandleCloseInLoop, TouchServer, QueueInLoop, Break, State
  <2>2. pool # "none"
    BY <1>3, Zenon DEF Well, Sound, Numbered
  <2>3. pool = "own" /\ acceptor = "gone"
    BY <1>4, <1>9, <2>2, Zenon DEF Well, Sound, StopOrder
  <2>4. openAtStop
    BY <1>3, <2>3, ZenonT(30) DEF Well, Sound, ConnSet, Open
  <2> QED
    BY <1>0, <1>1, <1>7, <2>1, <2>3, <2>4, SMTT(30) DEF ServerInv, BrokenOK, SoundUntilBroken
<1>10. CASE server # "dead" /\ lpc[loopOf[c]] # "ended"
  <2>1. connSet' = connSet \ {c} /\ broken' = broken
    BY <1>2, <1>3, <1>4, <1>10, ZenonT(30) DEF RunFunc, Commit, HandleCloseInLoop, TouchServer, QueueInLoop, Break, State
  <2>2. queue' = Put(q, loopOf[c], Fn("destroy", c))
    <3>1. queue' = Put(Take(queue, l), loopOf[c], Fn("destroy", c))
      BY <1>2, <1>3, <1>4, <1>10, ZenonT(30) DEF RunFunc, Commit, HandleCloseInLoop, TouchServer, QueueInLoop, Break,
         State, Put, Fn, Take
    <3> QED
      BY <1>2, <3>1, ZenonT(30)
  <2>3. /\ queue' \in Queues /\ Once(queue')
        /\ \A m \in Loop : \A o \in Ops : \A d \in Args :
             Has(queue', m, o, d) <=> Has(q, m, o, d) \/ (m = loopOf[c] /\ o = "destroy" /\ d = c)
        /\ q[Base] # <<>> => queue'[Base] # <<>> /\ Head(queue'[Base]) = Head(q[Base])
    <3>1. PICK o1 \in Ops, k \in Loop : o1 = "destroy" /\ k = loopOf[c]
      BY <1>4, Zenon DEF Ops
    <3>2. queue' = Put(q, k, Fn(o1, c)) /\ o1 \notin OnceOps
      BY <2>2, <3>1, Zenon DEF OnceOps
    <3>3. Once(q)
      BY <1>2, ZenonT(30)
    <3>4. /\ queue' \in Queues /\ Once(queue')
          /\ \A m \in Loop : \A o \in Ops : \A d \in Args :
               Has(queue', m, o, d) <=> Has(q, m, o, d) \/ (m = k /\ o = o1 /\ d = c)
          /\ q[Base] # <<>> => queue'[Base] # <<>> /\ Head(queue'[Base]) = Head(q[Base])
      BY <3>2, <3>3, PutHas, SMTT(30)
    <3> QED
      BY <3>1, <3>4, Zenon
  <2>4. \A m \in Loop : \A o \in Ops \ {"destroy", "closed"} : \A d \in Args :
          Has(queue', m, o, d) => Has(queue, m, o, d)
    BY <1>2, <2>3, Zenon
  <2>5. \A m \in Loop : \A d \in Args : Has(queue', m, "closed", d) <=> Has(queue, m, "closed", d) /\ d # c
    <3>1. \A m \in Loop : \A d \in Args : Has(queue', m, "closed", d) <=> Has(q, m, "closed", d)
      BY <2>3, Zenon DEF Ops
    <3>2. \A m \in Loop : ~Has(q, m, "closed", c)
      BY <1>2, <1>3 DEF OnceOps
    <3>3. \A m \in Loop : \A d \in Args : d # c => (Has(q, m, "closed", d) <=> Has(queue, m, "closed", d))
      BY <1>2, <1>3, ZenonT(30)
    <3> QED
      BY <3>1, <3>2, <3>3, Zenon
  <2>6. \A m \in Loop : \A d \in Args : Has(queue', m, "destroy", d) => Has(queue, m, "destroy", d) \/ d = c
    BY <1>2, <2>3, Zenon DEF Ops
  <2>7. Means'
    <3> SUFFICES ASSUME NEW m \in Loop, NEW e \in Args PROVE MeansAt(m, e)'
      BY Zenon DEF Means
    <3>1. MeansAt(m, e) /\ Base \in Loop
      BY BaseAlone, Zenon DEF Well, Sound, Means
    <3>2. \A o \in Ops \ {"destroy", "closed"} : Has(queue', m, o, e) => Has(queue, m, o, e)
      BY <2>4, Zenon
    <3>3. /\ Has(queue', m, "closed", e) => Has(queue, m, "closed", e)
          /\ Has(queue', Base, "closed", e) => Has(queue, Base, "closed", e) /\ e # c
          /\ Has(queue', m, "destroy", e) => Has(queue, m, "destroy", e) \/ e = c
      BY <2>5, <2>6, <3>1, Zenon
    <3> QED
      BY <1>0, <1>1, <1>3, <1>5, <3>1, <3>2, <3>3, ZenonT(30) DEF MeansAt, Ops
  <2>8. Numbered' /\ StartFirst'
    BY <1>0, <1>1, <1>2, <1>3, <1>5, <2>3, NumberedKept, ZenonT(30) DEF Well, Sound, StartFirst
  <2>9. Wheels'
    <3>1. \A m \in Loop : Has(queue', m, "wheel", None) => Has(queue, m, "wheel", None)
      BY <2>4, Zenon DEF Ops, Args
    <3> QED
      BY <1>0, <1>1, <3>1, WheelsKept, Zenon DEF Well, Sound
  <2>10. ConnSet'
    <3>1. \A d \in Conn : Has(queue', Base, "closed", d) <=> Has(queue, Base, "closed", d) /\ d # c
      BY <2>5, BaseAlone, ZenonT(30) DEF Args
    <3> QED
      BY <1>0, <1>1, <1>3, <1>4, <1>5, <1>10, <2>1, <3>1, ZenonT(30) DEF Well, Sound, ConnSet, Open, Up
  <2> QED
    BY <1>1, <1>7, <2>1, <2>3, <2>7, <2>8, <2>9, <2>10, SMTT(30) DEF ServerInv, SoundUntilBroken, Sound
<1> QED
  BY <1>8, <1>9, <1>10, Zenon

LEMMA RunDestroy ==
  ASSUME Well, NEW l \in Loop, RunFunc(l), Head(queue[l]).op = "destroy"
  PROVE  ServerInv'
<1>0. /\ clients' = clients /\ backlog' = backlog /\ refused' = refused
      /\ pool' = pool /\ idle' = idle /\ loopIndex' = loopIndex /\ loopOf' = loopOf
      /\ quit' = quit /\ server' = server /\ visited' = visited /\ stops' = stops
  BY RunLeaves, Zenon
<1>1. /\ wheel' = wheel /\ acceptor' = acceptor /\ spc' = spc /\ copied' = copied
      /\ openAtStop' = openAtStop /\ StopOrder' /\ (queue' \in Queues => Plain')
      /\ /\ connSet' \subseteq Conn
         /\ status' \in [Conn -> {"none", "Connecting", "Connected", "Disconnected", "Destroyed"}]
         => TypeOK'
      /\ broken' = broken => BrokenOK'
  BY ConnFuncLeaves, Zenon
<1>2. PICK op \in Ops, c \in Args, q \in Queues :
        /\ q = Take(queue, l) /\ Head(queue[l]).op = op /\ Head(queue[l]).conn = c
        /\ MeansAt(l, c) /\ Has(queue, l, op, c) /\ Once(q)
        /\ \A m \in Loop : \A o \in Ops : \A d \in Args : Has(q, m, o, d) => Has(queue, m, o, d)
        /\ \A m \in Loop : \A o \in Ops : \A d \in Args :
             Has(queue, m, o, d) => Has(q, m, o, d) \/ (m = l /\ o = op /\ d = c)
        /\ op # "start" /\ acceptor = "made" => q[Base] # <<>> /\ Head(q[Base]).op = "start"
  BY Running
<1>3. /\ op = "destroy" /\ c \in Conn /\ status[c] \in {"Disconnected", "Destroyed"}
      /\ ~Has(queue, Base, "closed", c)
  BY <1>2, Zenon DEF MeansAt
<1>4. /\ connSet \subseteq Conn /\ copied \subseteq Conn
      /\ status \in [Conn -> {"none", "Connecting", "Connected", "Disconnected", "Destroyed"}]
  BY Zenon DEF Well, TypeOK
<1>5. /\ connSet' = connSet /\ status' = [status EXCEPT ![c] = "Destroyed"] /\ broken' = broken
      /\ queue' = q
  BY <1>2, <1>3, Zenon DEF RunFunc, Commit, ConnectDestroyed, State, Take
<1>6. /\ status'[c] = "Destroyed" /\ \A d \in Conn : d # c => status'[d] = status[d]
      /\ status' \in [Conn -> {"none", "Connecting", "Connected", "Disconnected", "Destroyed"}]
  BY <1>3, <1>4, <1>5, Zenon
<1>7. TypeOK'
  BY <1>1, <1>4, <1>5, <1>6, ZenonT(30)
<1>8. Means'
  <2> SUFFICES ASSUME NEW m \in Loop, NEW e \in Args PROVE MeansAt(m, e)'
    BY Zenon DEF Means
  <2>1. MeansAt(m, e)
    BY Zenon DEF Well, Sound, Means
  <2>2. \A o \in Ops : /\ Has(queue', m, o, e) => Has(queue, m, o, e)
                       /\ Has(queue', Base, o, e) => Has(queue, Base, o, e)
    BY <1>2, <1>5, BaseAlone, ZenonT(30)
  <2> QED
    BY <1>0, <1>1, <1>3, <1>6, <2>1, <2>2, Zenon DEF MeansAt, Ops
<1>9. Numbered' /\ StartFirst'
  BY <1>0, <1>1, <1>2, <1>3, <1>5, <1>6, NumberedKept, Zenon DEF Well, Sound, StartFirst
<1>10. Wheels'
  <2>1. \A m \in Loop : Has(queue', m, "wheel", None) => Has(queue, m, "wheel", None)
    BY <1>2, <1>5, Zenon DEF Ops, Args
  <2> QED
    BY <1>0, <1>1, <2>1, WheelsKept, Zenon DEF Well, Sound
<1>11. ConnSet'
  <2>1. \A d \in Conn : Has(queue', Base, "closed", d) <=> Has(queue, Base, "closed", d)
    BY <1>2, <1>3, <1>5, BaseAlone, Zenon DEF Ops, Args
  <2> QED
    BY <1>0, <1>1, <1>3, <1>4, <1>5, <1>6, <2>1, ZenonT(30) DEF Well, Sound, ConnSet, Open, Up
<1> QED
  BY <1>1, <1>2, <1>5, <1>7, <1>8, <1>9, <1>10, <1>11, SMTT(30) DEF ServerInv, SoundUntilBroken, Sound

LEMMA RunFuncStep ==
  ASSUME Well, NEW l \in Loop, RunFunc(l)
  PROVE  ServerInv'
<1>1. PICK op \in Ops : Head(queue[l]).op = op
  BY Running, Zenon
<1> QED
  BY <1>1, RunStart, RunStop, RunWheel, RunEstablish, RunForceClose, RunClosed, RunDestroy, SMTT(30) DEF Ops

-----------------------------------------------------------------------------
(* The acceptor *)

(* The next connection is the first that has no status. *)
LEMMA NextConn ==
  ASSUME Well, backlog > 0
  PROVE  \E n \in Nat :
           /\ n = clients - (backlog + refused) /\ n + 1 \in Conn /\ status[n + 1] = "none"
           /\ Cardinality({c \in Conn : status[c] # "none"}) = n
<1>1. backlog \in Nat /\ refused \in Nat /\ backlog + refused \in 0..clients /\ clients \in 0..MaxClients
  BY Zenon DEF Well, TypeOK, Sound, Plain
<1>2. PICK n \in Nat : n = clients - (backlog + refused) /\ n + 1 <= MaxClients
  BY <1>1, ServerConstants
<1>3. n + 1 \in Conn /\ \A c \in Conn : c <= n <=> c \in 1..n
  BY <1>2, ServerConstants DEF Conn
<1>4. 1..n \subseteq Conn /\ n + 1 \notin 1..n /\ ~(n + 1 <= n)
  BY <1>2, ServerConstants DEF Conn
<1>5. \A c \in Conn : status[c] # "none" <=> c <= n
  BY <1>2, Zenon DEF Well, Sound, Numbered
<1>6. {c \in Conn : status[c] # "none"} = 1..n
  BY <1>3, <1>4, <1>5, Zenon
<1>7. Cardinality(1..n) = n
  BY FS_Interval
<1>8. status[n + 1] = "none"
  BY <1>3, <1>4, <1>5, Zenon
<1> QED
  BY <1>2, <1>3, <1>6, <1>7, <1>8, Zenon

LEMMA HandleReadStep ==
  ASSUME Well, HandleRead
  PROVE  ServerInv'
<1>0. /\ clients' = clients /\ backlog' = backlog - 1 /\ backlog > 0 /\ acceptor = "listening"
      /\ pool' = pool /\ idle' = idle /\ acceptor' = acceptor /\ wheel' = wheel /\ quit' = quit
      /\ lpc' = lpc /\ server' = server /\ spc' = spc /\ copied' = copied /\ visited' = visited
      /\ stops' = stops /\ openAtStop' = openAtStop
  BY Zenon DEF HandleRead, conf, stopping
<1>1. StopOrder'
  BY <1>0, Zenon DEF Well, Sound, StopOrder
<1>2. backlog > 0 /\ backlog' = backlog - 1 /\ clients' = clients
  BY <1>0, Zenon
<1>3. /\ backlog \in Nat /\ refused \in Nat /\ backlog + refused \in 0..clients
      /\ clients \in 0..MaxClients
  BY Zenon DEF Well, TypeOK, Sound, Plain
<1>4. backlog' \in Nat
  BY <1>2, <1>3
<1>5. CASE refused' = refused + 1 /\ UNCHANGED <<loopIndex, conns, queue, broken>>
  <2>0. /\ refused' = refused + 1 /\ loopIndex' = loopIndex /\ connSet' = connSet /\ status' = status
        /\ loopOf' = loopOf /\ queue' = queue /\ broken' = broken
    BY <1>5, Zenon DEF conns
  <2>1. /\ backlog' + refused' \in 0..clients' /\ refused' \in Nat
        /\ clients' - (backlog' + refused') = clients - (backlog + refused)
    BY <1>2, <1>3, <2>0, ServerConstants
  <2>2. TypeOK'
    BY <1>0, <2>0, <2>1, Zenon DEF Well, TypeOK
  <2>3. Plain'
    BY <1>0, <1>4, <2>0, <2>1, Zenon DEF Well, Sound, Plain
  <2>4. Numbered'
    BY <1>0, <2>0, <2>1, Zenon DEF Well, Sound, Numbered
  <2>5. Wheels' /\ Means' /\ StartFirst' /\ Once(queue') /\ ConnSet'
    BY <1>0, <2>0, WheelsKept, MeansKept, Zenon DEF Well, Sound, StartFirst, ConnSet, Open
  <2> QED
    BY <1>0, <1>1, <2>0, <2>2, <2>3, <2>4, <2>5, ZenonT(30) DEF Well, ServerInv, BrokenOK, SoundUntilBroken, Sound
<1>6. CASE NewConnection(Cardinality({c \in Conn : status[c] # "none"}) + 1) /\ refused' = refused
  <2>1. PICK n \in Nat :
          /\ n = clients - (backlog + refused) /\ n + 1 \in Conn /\ status[n + 1] = "none"
          /\ Cardinality({c \in Conn : status[c] # "none"}) = n
    BY <1>2, NextConn, Zenon
  <2>2. PICK c \in Conn : c = n + 1
    BY <2>1, Zenon
  <2>3. NewConnection(c) /\ status[c] = "none" /\ refused' = refused
    BY <1>6, <2>1, <2>2, Zenon
  <2>4. /\ backlog' + refused' \in 0..clients'
        /\ \A d \in Conn : d <= clients' - (backlog' + refused') <=> d = c \/ d <= clients - (backlog + refused)
    <3>1. refused' = refused
      BY <2>3, Zenon
    <3> QED
      BY <1>2, <1>3, <2>1, <2>2, <3>1, ServerConstants, SMTT(30) DEF Conn
  <2>5. PICK l \in Loop : l = NextLoop /\ (l = Base <=> pool = "none")
    BY BaseAlone, Zenon DEF NextLoop, Well, TypeOK
  <2>6. /\ broken = "" /\ server # "dead" /\ quit = {} /\ (idle => wheel[l] = "live")
        /\ spc \in {"idle", "body"} /\ lpc[l] # "ended"
    BY <1>0, <2>5, BaseAlone, Zenon DEF Well, TypeOK, Sound, StopOrder, Wheels, Loop
  <2>7. /\ loopOf' = [loopOf EXCEPT ![c] = l]
        /\ loopIndex' = IF pool = "none" THEN loopIndex ELSE (loopIndex % PoolSize) + 1
    BY <2>3, <2>5, Zenon DEF NewConnection
  <2>8. /\ connSet' = connSet \cup {c} /\ broken' = broken
    BY <2>3, <2>5, <2>6, ZenonT(30) DEF NewConnection, Commit, Established, TouchServer, QueueInLoop, Break, State
  <2>9. /\ l = Base => status' = [status EXCEPT ![c] = "Connected"] /\ queue' = queue
        /\ l # Base => status' = [status EXCEPT ![c] = "Connecting"]
    BY <2>3, <2>5, <2>6, Zenon DEF NewConnection, Commit, Established, TouchServer, QueueInLoop, Break, State
  <2>10. l # Base => queue' = Put(queue, l, Fn("establish", c))
    BY <2>3, <2>5, <2>6, Zenon DEF NewConnection, Commit, Established, TouchServer, QueueInLoop, Break, State, Put, Fn
  <2>11. /\ status \in [Conn -> {"none", "Connecting", "Connected", "Disconnected", "Destroyed"}]
         /\ loopOf \in [Conn -> Loop] /\ connSet \subseteq Conn /\ queue \in Queues /\ Once(queue)
    BY Zenon DEF Well, TypeOK, Sound, Plain
  <2>12. /\ status' \in [Conn -> {"none", "Connecting", "Connected", "Disconnected", "Destroyed"}]
         /\ status'[c] \in Up /\ (status'[c] = "Connecting" <=> l # Base)
         /\ \A d \in Conn : d # c => status'[d] = status[d]
    BY <2>9, <2>11, Zenon DEF Up
  <2>13. /\ loopOf' \in [Conn -> Loop] /\ loopOf'[c] = l
         /\ \A d \in Conn : d # c => loopOf'[d] = loopOf[d]
    BY <2>7, <2>11, Zenon
  <2>14. loopIndex' \in PoolLoop
    <3>1. loopIndex \in PoolLoop
      BY Zenon DEF Well, TypeOK
    <3>2. (loopIndex % PoolSize) + 1 \in PoolLoop
      BY <3>1, ServerConstants DEF PoolLoop
    <3> QED
      BY <2>7, <3>1, <3>2, Zenon
  <2>15. TypeOK'
    BY <1>0, <2>4, <2>8, <2>11, <2>12, <2>13, <2>14, ZenonT(30) DEF Well, TypeOK
  <2>16. \A m \in Loop : \A o \in Ops : ~Has(queue, m, o, c) \/ o \in {"start", "stop", "wheel"}
    BY <2>3, ZenonT(30) DEF Well, Sound, Means, MeansAt, Args, Ops
  <2>17. /\ queue' \in Queues /\ Once(queue')
         /\ \A m \in Loop : \A o \in Ops : \A d \in Args :
              Has(queue', m, o, d) <=> Has(queue, m, o, d) \/ (l # Base /\ m = l /\ o = "establish" /\ d = c)
    <3>1. CASE l = Base
      BY <2>9, <2>11, <3>1, Zenon
    <3>2. CASE l # Base
      <4>1. PICK op \in Ops : op = "establish"
        BY Zenon DEF Ops
      <4>2. queue' = Put(queue, l, Fn(op, c)) /\ \A m \in Loop : ~Has(queue, m, op, c)
        BY <2>10, <2>16, <3>2, <4>1, Zenon
      <4>3. queue \in Queues /\ Once(queue) /\ c \in Args
        BY <2>11, ZenonT(30) DEF Args
      <4>4. /\ queue' \in Queues /\ Once(queue')
            /\ \A m \in Loop : \A o \in Ops : \A d \in Args :
                 Has(queue', m, o, d) <=> Has(queue, m, o, d) \/ (m = l /\ o = op /\ d = c)
        BY <4>2, <4>3, PutHas, SMTT(30)
      <4> QED
        BY <3>2, <4>1, <4>4, Zenon
    <3> QED
      BY <3>1, <3>2, Zenon
  <2>18. Plain'
    BY <1>0, <1>4, <2>3, <2>17, Zenon DEF Well, Sound, Plain
  <2>19. Numbered'
    <3> SUFFICES ASSUME NEW d \in Conn
                 PROVE  /\ status'[d] # "none" <=> d <= clients' - (backlog' + refused')
                        /\ status'[d] # "none" => (loopOf'[d] = Base <=> pool' = "none")
                        /\ status'[d] = "Connecting" => pool' # "none"
      BY Zenon DEF Numbered
    <3>1. /\ status[d] # "none" <=> d <= clients - (backlog + refused)
          /\ status[d] # "none" => (loopOf[d] = Base <=> pool = "none")
          /\ status[d] = "Connecting" => pool # "none"
      BY Zenon DEF Well, Sound, Numbered
    <3>2. d <= clients' - (backlog' + refused') <=> d = c \/ d <= clients - (backlog + refused)
      BY <2>4, Zenon
    <3> QED
      BY <1>0, <2>5, <2>12, <2>13, <3>1, <3>2, ZenonT(30) DEF Up
  <2>20. Wheels'
    <3>1. \A m \in Loop : Has(queue', m, "wheel", None) => Has(queue, m, "wheel", None)
      BY <2>17, ZenonT(30) DEF Ops, Args
    <3> QED
      BY <1>0, <3>1, WheelsKept, Zenon DEF Well, Sound
  <2>21. Means'
    <3> SUFFICES ASSUME NEW m \in Loop, NEW e \in Args PROVE MeansAt(m, e)'
      BY Zenon DEF Means
    <3>1. MeansAt(m, e)
      BY Zenon DEF Well, Sound, Means
    <3>2. \A o \in Ops \ {"establish"} : /\ Has(queue', m, o, e) => Has(queue, m, o, e)
                                         /\ Has(queue', Base, o, e) => Has(queue, Base, o, e)
      BY <2>17, BaseAlone, Zenon
    <3>3. Has(queue', m, "establish", e) => Has(queue, m, "establish", e) \/ (l # Base /\ m = l /\ e = c)
      BY <2>17, Zenon DEF Ops
    <3>4. e = c => \A o \in Ops : ~Has(queue, m, o, e) \/ o \in {"start", "stop", "wheel"}
      BY <2>16, Zenon
    <3> QED
      BY <1>0, <2>12, <2>13, <3>1, <3>2, <3>3, <3>4, SMTT(30) DEF MeansAt, Ops
  <2>22. StartFirst'
    BY <1>0, ZenonT(30) DEF StartFirst
  <2>23. ConnSet'
    <3>1. \A d \in Conn : Has(queue', Base, "closed", d) <=> Has(queue, Base, "closed", d)
      BY <2>17, BaseAlone, Zenon DEF Ops, Args
    <3>2. copied = {}
      BY <2>6, Zenon DEF Well, Sound, StopOrder
    <3> QED
      BY <1>0, <2>6, <2>8, <2>12, <3>1, <3>2, ZenonT(30) DEF Well, Sound, ConnSet, Open
  <2> QED
    BY <1>0, <1>1, <2>8, <2>15, <2>17, <2>18, <2>19, <2>20, <2>21, <2>22, <2>23, ZenonT(30)
       DEF Well, ServerInv, BrokenOK, SoundUntilBroken, Sound
<1> QED
  BY <1>5, <1>6, Zenon DEF HandleRead

-----------------------------------------------------------------------------
(* The whole server *)

LEMMA ServerInit == Init => ServerInv
<1> SUFFICES ASSUME Init PROVE ServerInv
  BY Zenon
<1>1. PICK q0 \in Seq(Func) : q0 = <<>>
  BY EmptySeq, Zenon
<1>2. Fn("start", None) \in Func
  BY Zenon DEF Fn, Func, Ops, Args
<1>3. PICK q1 \in Seq(Func) : q1 = <<Fn("start", None)>>
  <2>1. PICK f \in Func : f = Fn("start", None)
    BY <1>2, Zenon
  <2>2. <<f>> \in Seq(Func)
    OBVIOUS
  <2> QED
    BY <2>1, <2>2, Zenon
<1>4. queue = [l \in Loop |-> IF l = Base THEN q1 ELSE q0]
  BY <1>1, <1>3, Zenon DEF Init, Fn
<1>5. queue \in Queues /\ queue[Base] = q1 /\ \A l \in Loop : l # Base => queue[l] = q0
  BY <1>4, BaseAlone, Zenon DEF Queues
<1>6. Len(q0) = 0 /\ Len(q1) = 1 /\ q1[1] = Fn("start", None)
  BY <1>1, <1>3, Zenon
<1>7. /\ 1..Len(queue[Base]) = {1} /\ queue[Base][1] = Fn("start", None)
      /\ \A l \in Loop : l # Base => 1..Len(queue[l]) = {}
  BY <1>5, <1>6
<1>8. Once(queue)
  BY <1>7, SMTT(30) DEF Once
<1>9. \A l \in Loop : \A o \in Ops : \A c \in Args :
        Has(queue, l, o, c) => l = Base /\ o = "start" /\ c = None
  BY <1>7 DEF Has, In, Fn
<1>10. /\ pool \in {"none", "own", "shared"} /\ idle \in BOOLEAN /\ acceptor = "made"
       /\ loopIndex = 1 /\ connSet = {} /\ \A l \in Loop : wheel[l] = "none"
       /\ status = [c \in Conn |-> "none"] /\ loopOf = [c \in Conn |-> Base]
       /\ wheel = [l \in Loop |-> "none"] /\ quit = {} /\ server = "alive" /\ spc = "idle"
       /\ copied = {} /\ visited = {} /\ openAtStop = FALSE /\ broken = ""
       /\ lpc = [l \in Loop |-> IF pool = "none" /\ l # Base THEN "ended" ELSE "poll"]
  BY Zenon DEF Init
<1>11. backlog = 0 /\ clients = 0 /\ refused = 0 /\ stops = 0
  BY Zenon DEF Init
<1>12. /\ backlog + refused \in 0..clients /\ clients \in 0..MaxClients /\ 1 \in PoolLoop
       /\ backlog \in Nat /\ refused \in Nat /\ stops \in Nat /\ ~(stops > 0)
       /\ \A c \in Conn : ~(c <= clients - (backlog + refused))
  BY <1>11, ServerConstants DEF Conn, PoolLoop
<1>13. TypeOK
  BY <1>10, <1>12, BaseAlone, Zenon DEF TypeOK, Loop
<1>14. Plain
  BY <1>5, <1>10, <1>12, Zenon DEF Plain
<1>15. Numbered
  BY <1>10, <1>12, Zenon DEF Numbered
<1>16. StopOrder
  BY <1>10, BaseAlone, Zenon DEF StopOrder, Loop
<1>17. Wheels
  BY <1>9, <1>10, Zenon DEF Wheels, Ops, Args
<1>18. Means
  BY <1>9, <1>10, Zenon DEF Means, MeansAt, Ops
<1>19. StartFirst
  <2>1. queue[Base] # <<>> /\ Head(queue[Base]) = Fn("start", None)
    BY <1>1, <1>3, <1>5
  <2> QED
    BY <2>1 DEF StartFirst, Fn
<1>20. ConnSet
  BY <1>9, <1>10, BaseAlone, Zenon DEF ConnSet, Open, Up, Ops, Args
<1> QED
  BY <1>8, <1>10, <1>13, <1>14, <1>15, <1>16, <1>17, <1>18, <1>19, <1>20, ZenonT(30)
     DEF ServerInv, BrokenOK, SoundUntilBroken, Sound

LEMMA ServerStep == ServerInv /\ [Next]_vars => ServerInv'
<1>1. ASSUME ServerInv, Next PROVE ServerInv'
  <2>1. Well
    BY <1>1, Zenon DEF ServerInv, SoundUntilBroken, Well, Next
  <2>2. CASE ClientConnects
    BY <2>1, <2>2, ClientConnectsStep, Zenon
  <2>3. CASE HandleRead
    BY <2>1, <2>3, HandleReadStep, Zenon
  <2>4. CASE \E c \in Conn : PeerCloses(c)
    BY <2>1, <2>4, PeerClosesStep, Zenon
  <2>5. CASE \E l \in Loop : LoopStep(l)
    BY <2>1, <2>5, LoopTurns, TestQuitStep, RunFuncStep, Zenon DEF LoopStep
  <2>6. CASE \E dtor \in BOOLEAN : Stop(dtor) \/ StopInLoop(dtor)
    BY <2>1, <2>6, StopStepsIn, StopInLoopStep, Zenon
  <2>7. CASE StopStep
    BY <2>1, <2>7, CloseCopiedStep, StopPoolStep, StopReturnStep, ResetWheelStep, Zenon DEF StopStep
  <2> QED
    BY <1>1, <2>2, <2>3, <2>4, <2>5, <2>6, <2>7, ZenonT(30) DEF Next
<1>2. ASSUME ServerInv, UNCHANGED vars PROVE ServerInv'
  <2>1. /\ UNCHANGED <<pool, idle, acceptor, backlog, clients, refused, loopIndex, connSet>>
        /\ UNCHANGED <<status, loopOf, wheel, queue, lpc, quit, server, spc, copied, visited>>
        /\ UNCHANGED <<stops, openAtStop, broken>>
    BY <1>2, Zenon DEF vars, conf, accept, conns, loops, stopping
  <2>2. TypeOK' /\ BrokenOK'
    BY <1>2, <2>1, ZenonT(30) DEF ServerInv, TypeOK, BrokenOK
  <2>3. ASSUME Sound PROVE Sound'
    <3>1. /\ Plain /\ Numbered /\ StopOrder /\ Wheels
          /\ Means /\ StartFirst /\ Once(queue) /\ ConnSet
      BY <2>3, Zenon DEF Sound
    <3>2. Plain' /\ StartFirst'
      BY <2>1, <3>1, Zenon DEF Plain, StartFirst
    <3>3. Numbered'
      BY <2>1, <3>1, Zenon DEF Numbered
    <3>4. StopOrder'
      BY <2>1, <3>1, Zenon DEF StopOrder, Has
    <3>5. Wheels'
      BY <2>1, <3>1, Zenon DEF Wheels, Has
    <3>6. Means'
      BY <2>1, <3>1, ZenonT(30) DEF Means, MeansAt, Has
    <3>7. Once(queue)'
      BY <2>1, <3>1, Zenon
    <3>8. ConnSet'
      BY <2>1, <3>1, Zenon DEF ConnSet, Open, Has
    <3> QED
      BY <3>2, <3>3, <3>4, <3>5, <3>6, <3>7, <3>8, Zenon DEF Sound
  <2> QED
    BY <1>2, <2>1, <2>2, <2>3, Zenon DEF ServerInv, SoundUntilBroken
<1> QED
  BY <1>1, <1>2, Zenon

(* Whatever stop() and the destructor interleave with, for every number of
   clients and of pool loops: handleCloseInLoop's and newConnection's assertions
   hold (tcp_server.cc 151, 59), and no queued function meets a destroyed loop,
   no callback a destroyed server and no call of stop() a null wheel, except in
   the three cases that NothingDangles names. *)
THEOREM NothingOutlived == Spec => []NothingDangles
<1>1. Init => ServerInv
  BY ServerInit, Zenon
<1>2. ServerInv /\ [Next]_vars => ServerInv'
  BY ServerStep, Zenon
<1>3. ServerInv => NothingDangles
  BY Zenon DEF ServerInv, BrokenOK, NothingDangles
<1> QED
  BY <1>1, <1>2, <1>3, PTL DEF Spec
=============================================================================
