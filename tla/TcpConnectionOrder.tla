------------------------- MODULE TcpConnectionOrder -------------------------
(***************************************************************************)
(* What the operations of TcpConnection do to the order of the bytes:      *)
(* lemmas about the stream, the nodes of the write buffer list and the     *)
(* queued sends, for any number of threads, calls and bytes.               *)
(***************************************************************************)
EXTENDS TcpConnection, FiniteSetTheorems, SequenceTheorems, TLAPS

(* Bytes that write() takes and those it leaves. *)
LEMMA Cut ==
  ASSUME NEW B, NEW s \in Seq(B), NEW n \in 0..Len(s)
  PROVE  /\ SubSeq(s, 1, n) \in Seq(B) /\ Drop(s, n) \in Seq(B)
         /\ SubSeq(s, 1, n) \o Drop(s, n) = s
         /\ n < Len(s) => Drop(s, n) # <<>>
         /\ n = Len(s) => Drop(s, n) = <<>> /\ SubSeq(s, 1, n) = s
<1>0. Len(s) \in Nat /\ \A i \in 1..Len(s) : s[i] \in B
  BY LenProperties, ElementOfSeq, Zenon
<1>1. SubSeq(s, 1, n) \in Seq(B) /\ Drop(s, n) \in Seq(B)
  <2>1. n \in Int /\ 1 \in Int /\ \A i \in 1..n : s[i] \in B
    BY <1>0
  <2>2. n + 1 \in Int /\ Len(s) \in Int /\ \A i \in (n + 1)..Len(s) : s[i] \in B
    BY <1>0
  <2> QED
    BY <2>1, <2>2, SubSeqProperties, Zenon DEF Drop
<1>2. SubSeq(s, 1, n) \o Drop(s, n) = SubSeq(s, 1, Len(s))
  <2>1. 1 \in 1..(Len(s) + 1) /\ n \in (1 - 1)..Len(s) /\ Len(s) \in n..Len(s)
    BY <1>0
  <2> QED
    BY <2>1, ConcatAdjacentSubSeq, Zenon DEF Drop
<1>3. n < Len(s) => Drop(s, n) # <<>>
  <2>1. n + 1 \in Int /\ Len(s) \in Int /\ \A i \in (n + 1)..Len(s) : s[i] \in B
    BY <1>0
  <2>2. Len(Drop(s, n)) = IF n + 1 <= Len(s) THEN Len(s) - (n + 1) + 1 ELSE 0
    BY <2>1, SubSeqProperties DEF Drop
  <2>3. n < Len(s) => Len(Drop(s, n)) # 0
    BY <1>0, <2>2
  <2> QED
    BY <2>3, EmptySeq, Zenon
<1>4. n = Len(s) => Drop(s, n) = <<>>
  <2>1. n = Len(s) => Len(s) < n + 1
    BY <1>0
  <2> QED
    BY <1>0, <2>1, SubSeqEmpty DEF Drop
<1> QED
  BY <1>1, <1>2, <1>3, <1>4, SubSeqFull, Zenon

(* ... with a chunk in between. *)
LEMMA CutChunk ==
  ASSUME NEW B, NEW s \in Seq(B), NEW n \in 0..Len(s), NEW f \in n..Len(s)
  PROVE  /\ SubSeq(s, n + 1, f) \in Seq(B)
         /\ SubSeq(s, n + 1, f) \o Drop(s, f) = Drop(s, n)
<1>0. Len(s) \in Nat /\ \A i \in 1..Len(s) : s[i] \in B
  BY LenProperties, ElementOfSeq, Zenon
<1>1. n + 1 \in Int /\ f \in Int /\ \A i \in (n + 1)..f : s[i] \in B
  BY <1>0
<1>2. SubSeq(s, n + 1, f) \in Seq(B)
  BY <1>1, SubSeqProperties, Zenon
<1>3. PICK m \in Int : m = n + 1
  BY <1>1, Zenon
<1>4. m \in 1..(Len(s) + 1) /\ f \in (m - 1)..Len(s) /\ Len(s) \in f..Len(s)
  BY <1>0, <1>3
<1>5. SubSeq(s, m, f) \o SubSeq(s, f + 1, Len(s)) = SubSeq(s, m, Len(s))
  BY <1>4, ConcatAdjacentSubSeq, Zenon
<1> QED
  BY <1>2, <1>3, <1>5, Zenon DEF Drop
-----------------------------------------------------------------------------
(* The order of bytes. *)

(* Appending what may follow. *)
LEMMA FollowConcat ==
  ASSUME NEW prior, NEW B, NEW s \in Seq(B), NEW r \in Seq(B), NEW c
  PROVE  MayFollow(prior, s \o r, c) <=> MayFollow(prior, s, c) /\ MayFollow(prior, r, c)
<1>0. /\ Len(s) \in Nat /\ Len(r) \in Nat /\ Len(s \o r) = Len(s) + Len(r)
      /\ \A i \in 1..(Len(s) + Len(r)) : (s \o r)[i] = IF i <= Len(s) THEN s[i] ELSE r[i - Len(s)]
  BY ConcatProperties, LenProperties, Zenon
<1>1. ASSUME MayFollow(prior, s \o r, c), NEW i \in 1..Len(s)
      PROVE  c \notin prior[s[i][1]]
  <2>1. i \in 1..(Len(s) + Len(r)) /\ (s \o r)[i] = s[i]
    BY <1>0
  <2> QED
    BY <1>0, <1>1, <2>1, Zenon DEF MayFollow
<1>2. ASSUME MayFollow(prior, s \o r, c), NEW i \in 1..Len(r)
      PROVE  c \notin prior[r[i][1]]
  <2>1. i + Len(s) \in 1..(Len(s) + Len(r)) /\ (s \o r)[i + Len(s)] = r[i]
    BY <1>0
  <2> QED
    BY <1>0, <1>2, <2>1, Zenon DEF MayFollow
<1>3. ASSUME MayFollow(prior, s, c), MayFollow(prior, r, c), NEW i \in 1..Len(s \o r)
      PROVE  c \notin prior[(s \o r)[i][1]]
  <2>1. CASE i <= Len(s)
    <3>1. i \in 1..Len(s) /\ (s \o r)[i] = s[i]
      BY <1>0, <2>1
    <3> QED
      BY <1>3, <3>1, Zenon DEF MayFollow
  <2>2. CASE ~(i <= Len(s))
    <3>1. i - Len(s) \in 1..Len(r) /\ (s \o r)[i] = r[i - Len(s)]
      BY <1>0, <2>2
    <3> QED
      BY <1>3, <3>1, Zenon DEF MayFollow
  <2> QED
    BY <2>1, <2>2, Zenon
<1> QED
  BY <1>1, <1>2, <1>3, Zenon DEF MayFollow

LEMMA PrecedesConcat ==
  ASSUME NEW prior, NEW B, NEW s \in Seq(B), NEW r \in Seq(B), NEW u \in Seq(B)
  PROVE  /\ Precedes(prior, s \o r, u) <=> Precedes(prior, s, u) /\ Precedes(prior, r, u)
         /\ Precedes(prior, u, s) /\ Precedes(prior, u, r) => Precedes(prior, u, s \o r)
<1>1. Precedes(prior, s \o r, u) <=> Precedes(prior, s, u) /\ Precedes(prior, r, u)
  BY FollowConcat, Zenon DEF Precedes
<1>2. ASSUME Precedes(prior, u, s), Precedes(prior, u, r), NEW i \in 1..Len(s \o r)
      PROVE  MayFollow(prior, u, (s \o r)[i][1])
  <2>0. /\ Len(s) \in Nat /\ Len(r) \in Nat /\ Len(s \o r) = Len(s) + Len(r)
        /\ \A k \in 1..(Len(s) + Len(r)) : (s \o r)[k] = IF k <= Len(s) THEN s[k] ELSE r[k - Len(s)]
    BY ConcatProperties, LenProperties, Zenon
  <2>1. CASE i <= Len(s)
    <3>1. i \in 1..Len(s) /\ (s \o r)[i] = s[i]
      BY <2>0, <2>1
    <3> QED
      BY <1>2, <3>1, Zenon DEF Precedes
  <2>2. CASE ~(i <= Len(s))
    <3>1. i - Len(s) \in 1..Len(r) /\ (s \o r)[i] = r[i - Len(s)]
      BY <2>0, <2>2
    <3> QED
      BY <1>2, <3>1, Zenon DEF Precedes
  <2> QED
    BY <2>1, <2>2, Zenon
<1> QED
  BY <1>1, <1>2, Zenon DEF Precedes

(* A prefix of bytes in order is in order. *)
LEMMA PrefixInOrder ==
  ASSUME NEW prior, NEW B, NEW s \in Seq(B), NEW r \in Seq(B), InOrder(prior, s \o r)
  PROVE  InOrder(prior, s)
<1>0. /\ Len(s) \in Nat /\ Len(r) \in Nat /\ Len(s \o r) = Len(s) + Len(r)
      /\ \A i \in 1..(Len(s) + Len(r)) : (s \o r)[i] = IF i <= Len(s) THEN s[i] ELSE r[i - Len(s)]
  BY ConcatProperties, LenProperties, Zenon
<1>1. \A i \in 1..Len(s) : i \in 1..Len(s \o r) /\ (s \o r)[i] = s[i]
  BY <1>0
<1> QED
  BY <1>1 DEF InOrder

(* Whole calls may be put behind bytes that end with a call's. *)
LEMMA ConcatInOrder ==
  ASSUME NEW prior, NEW B, NEW s \in Seq(B), NEW r \in Seq(B),
         InOrder(prior, s), EndsCall(s), WholeCalls(prior, r), Precedes(prior, s, r)
  PROVE  /\ InOrder(prior, s \o r) /\ EndsCall(s \o r)
         /\ WholeCalls(prior, s) => WholeCalls(prior, s \o r)
<1>0. /\ Len(s) \in Nat /\ Len(r) \in Nat /\ Len(r) # 0 /\ Len(s \o r) = Len(s) + Len(r) /\ s \o r \in Seq(B)
      /\ \A i \in 1..(Len(s) + Len(r)) : (s \o r)[i] = IF i <= Len(s) THEN s[i] ELSE r[i - Len(s)]
  BY ConcatProperties, LenProperties, EmptySeq, Zenon DEF WholeCalls
<1>1. ASSUME NEW i \in 1..Len(s \o r), NEW j \in 1..Len(s \o r), i < j
      PROVE  /\ (s \o r)[j][1] \notin prior[(s \o r)[i][1]]
             /\ j = i + 1 =>
                  \/ (s \o r)[j] = <<(s \o r)[i][1], (s \o r)[i][2] + 1>>
                  \/ (s \o r)[i][2] = Size /\ (s \o r)[j][2] = 1
  <2>1. CASE j <= Len(s)
    <3>1. i \in 1..Len(s) /\ j \in 1..Len(s) /\ (s \o r)[i] = s[i] /\ (s \o r)[j] = s[j]
      BY <1>0, <1>1, <2>1
    <3> QED
      BY <1>1, <3>1, Zenon DEF InOrder
  <2>2. CASE ~(i <= Len(s))
    <3>1. /\ i - Len(s) \in 1..Len(r) /\ j - Len(s) \in 1..Len(r)
          /\ (s \o r)[i] = r[i - Len(s)] /\ (s \o r)[j] = r[j - Len(s)]
          /\ i - Len(s) < j - Len(s) /\ (j = i + 1 => j - Len(s) = (i - Len(s)) + 1)
      BY <1>0, <1>1, <2>2
    <3> QED
      BY <3>1, SMTT(30) DEF WholeCalls, InOrder
  <2>3. CASE i <= Len(s) /\ ~(j <= Len(s))
    <3>1. /\ i \in 1..Len(s) /\ j - Len(s) \in 1..Len(r)
          /\ (s \o r)[i] = s[i] /\ (s \o r)[j] = r[j - Len(s)]
          /\ j = i + 1 => i = Len(s) /\ j - Len(s) = 1
      BY <1>0, <1>1, <2>3
    <3>2. r[j - Len(s)][1] \notin prior[s[i][1]]
      BY <3>1, Zenon DEF Precedes, MayFollow
    <3>3. j = i + 1 => s[i][2] = Size /\ r[j - Len(s)][2] = 1
      <4>1. s # <<>>
        BY <1>0, <3>1, EmptySeq
      <4> QED
        BY <3>1, <4>1, Zenon DEF EndsCall, WholeCalls
    <3> QED
      BY <3>1, <3>2, <3>3, Zenon
  <2> QED
    BY <2>1, <2>2, <2>3, Zenon
<1>2. InOrder(prior, s \o r)
  BY <1>1, Zenon DEF InOrder
<1>3. (s \o r)[Len(s \o r)] = r[Len(r)]
  BY <1>0
<1>4. EndsCall(s \o r) /\ s \o r # <<>>
  <2>1. s \o r # <<>>
    BY <1>0, EmptySeq
  <2> QED
    BY <1>3, <2>1, Zenon DEF EndsCall, WholeCalls
<1>5. ASSUME s # <<>>
      PROVE  (s \o r)[1] = s[1]
  <2>1. Len(s) # 0
    BY <1>5, EmptySeq, Zenon
  <2> QED
    BY <1>0, <2>1
<1> QED
  BY <1>2, <1>4, <1>5, Zenon DEF WholeCalls

(* The bytes of a call. *)
LEMMA BytesWhole ==
  ASSUME NEW prior, NEW n \in Nat, NEW c \in 1..n
  PROVE  /\ Bytes(c) \in Seq((1..n) \X (1..Size)) /\ Bytes(c) # <<>> /\ Len(Bytes(c)) = Size
         /\ \A k \in 1..Size : Bytes(c)[k] = <<c, k>>
         /\ c \notin prior[c] => WholeCalls(prior, Bytes(c))
         /\ \A d : d \notin prior[c] => MayFollow(prior, Bytes(c), d)
         /\ \A s : MayFollow(prior, s, c) => Precedes(prior, s, Bytes(c))
<1>0. Size \in Nat /\ Size >= 1
  BY TcpConnectionAssumption
<1>1. Bytes(c) \in Seq((1..n) \X (1..Size)) /\ Len(Bytes(c)) = Size /\ \A k \in 1..Size : Bytes(c)[k] = <<c, k>>
  <2>1. Bytes(c) \in [1..Size -> (1..n) \X (1..Size)]
    BY Zenon DEF Bytes
  <2>2. Bytes(c) \in Seq((1..n) \X (1..Size))
    BY <1>0, <2>1, SeqDef
  <2>3. DOMAIN Bytes(c) = 1..Size /\ DOMAIN Bytes(c) = 1..Len(Bytes(c)) /\ Len(Bytes(c)) \in Nat
    BY <2>2, LenProperties, Zenon DEF Bytes
  <2>4. Len(Bytes(c)) = Size
    BY <1>0, <2>3
  <2> QED
    BY <2>2, <2>4, Zenon DEF Bytes
<1>2. Bytes(c) # <<>>
  BY <1>0, <1>1, EmptySeq
<1>3. \A k \in 1..Size : Bytes(c)[k][1] = c /\ Bytes(c)[k][2] = k
  BY <1>1
<1>4. ASSUME c \notin prior[c]
      PROVE  WholeCalls(prior, Bytes(c))
  <2>1. InOrder(prior, Bytes(c))
    BY <1>0, <1>1, <1>3, <1>4 DEF InOrder
  <2>2. Bytes(c)[1][2] = 1 /\ Bytes(c)[Size][2] = Size
    BY <1>0, <1>3
  <2> QED
    BY <1>1, <1>2, <2>1, <2>2, Zenon DEF WholeCalls, EndsCall
<1>5. \A d : d \notin prior[c] => MayFollow(prior, Bytes(c), d)
  BY <1>1, <1>3, Zenon DEF MayFollow
<1>6. \A s : MayFollow(prior, s, c) => Precedes(prior, s, Bytes(c))
  BY <1>1, <1>3, Zenon DEF Precedes
<1> QED
  BY <1>1, <1>2, <1>4, <1>5, <1>6, Zenon

(* A new call changes nothing about the earlier ones. *)
LEMMA PriorAgrees ==
  ASSUME NEW prior, NEW later, NEW n \in Nat, \A c \in 1..n : later[c] = prior[c],
         NEW s \in Seq((1..n) \X (1..Size))
  PROVE  /\ InOrder(prior, s) => InOrder(later, s)
         /\ WholeCalls(prior, s) => WholeCalls(later, s)
         /\ \A c : MayFollow(prior, s, c) => MayFollow(later, s, c)
         /\ \A r : Precedes(prior, s, r) => Precedes(later, s, r)
<1>1. \A i \in 1..Len(s) : s[i][1] \in 1..n
  BY ElementOfSeq
<1>2. \A i \in 1..Len(s) : later[s[i][1]] = prior[s[i][1]]
  BY <1>1, Zenon
<1>3. InOrder(prior, s) => InOrder(later, s)
  BY <1>2, Zenon DEF InOrder
<1>4. \A c : MayFollow(prior, s, c) => MayFollow(later, s, c)
  BY <1>2, Zenon DEF MayFollow
<1> QED
  BY <1>3, <1>4, Zenon DEF WholeCalls, Precedes
-----------------------------------------------------------------------------
(* What keeps the order: the cases that the steps of a connection are made of. *)

(* The bytes of the stream move on, and nothing overtakes them. *)
LEMMA FlowOrder ==
  ASSUME NEW prior, NEW str, NEW lst, NEW q, OrderOf(prior, str, lst, q), NEW new,
         Len(new) = Len(lst), \A k \in 2..Len(lst) : new[k] = lst[k]
  PROVE  OrderOf(prior, str, new, q)
  BY DEF OrderOf

(* The first node is finished and the second one joins the stream. *)
LEMMA NextNodeOrder ==
  ASSUME NEW prior, NEW B, NEW str \in Seq(B), NEW lst \in Seq(NodeOf(B)), Len(lst) > 1, NEW q,
         OrderOf(prior, str, lst, q)
  PROVE  OrderOf(prior, str \o lst[2].left, Tail(lst), q)
<1> DEFINE two == lst[2].left
<1>0. /\ Len(lst) \in Nat /\ lst # <<>> /\ Len(Tail(lst)) = Len(lst) - 1
      /\ \A k \in 1..(Len(lst) - 1) : Tail(lst)[k] = lst[k + 1]
      /\ 2 \in 2..Len(lst) /\ two \in Seq(B)
  <2>1. lst # <<>> /\ Len(lst) \in Nat
    BY LenProperties, EmptySeq
  <2>2. lst[2] \in NodeOf(B)
    BY <2>1, ElementOfSeq
  <2>3. two \in Seq(B)
    BY <2>2, Zenon DEF NodeOf
  <2>4. Len(Tail(lst)) = Len(lst) - 1 /\ \A k \in 1..Len(Tail(lst)) : Tail(lst)[k] = lst[k + 1]
    BY <2>1, HeadTailProperties, Zenon
  <2> QED
    BY <2>1, <2>3, <2>4
<1>1. \A k \in 1..Len(lst) : lst[k].left \in Seq(B)
  <2>1. \A k \in 1..Len(lst) : lst[k] \in NodeOf(B)
    BY ElementOfSeq, Zenon
  <2> QED
    BY <2>1, Zenon DEF NodeOf
<1>2. \A k \in 2..Len(Tail(lst)) : k + 1 \in 2..Len(lst) /\ Tail(lst)[k] = lst[k + 1] /\ 2 < k + 1
  BY <1>0
<1> HIDE DEF two
<1>3. InOrder(prior, str \o two) /\ EndsCall(str \o two)
  BY <1>0, ConcatInOrder, Zenon DEF OrderOf, two
<1>4. ASSUME NEW k \in 2..Len(Tail(lst))
      PROVE  WholeCalls(prior, Tail(lst)[k].left) /\ Precedes(prior, str \o two, Tail(lst)[k].left)
  <2>1. /\ WholeCalls(prior, lst[k + 1].left) /\ Precedes(prior, str, lst[k + 1].left)
        /\ Precedes(prior, two, lst[k + 1].left) /\ lst[k + 1].left \in Seq(B)
    BY <1>0, <1>1, <1>2 DEF OrderOf, two
  <2> QED
    BY <1>0, <1>2, <2>1, PrecedesConcat, Zenon
<1>5. ASSUME NEW j \in 2..Len(Tail(lst)), NEW k \in 2..Len(Tail(lst)), j < k
      PROVE  Precedes(prior, Tail(lst)[j].left, Tail(lst)[k].left)
  <2>1. j + 1 < k + 1
    BY <1>0, <1>5
  <2> QED
    BY <1>2, <2>1, Zenon DEF OrderOf
<1>6. ASSUME NEW i \in SendsOf(q)
      PROVE  /\ MayFollow(prior, str \o two, q[i].id)
             /\ \A k \in 2..Len(Tail(lst)) : MayFollow(prior, Tail(lst)[k].left, q[i].id)
  <2>1. MayFollow(prior, str, q[i].id) /\ MayFollow(prior, two, q[i].id)
    BY <1>0, Zenon DEF OrderOf, two
  <2>2. MayFollow(prior, str \o two, q[i].id)
    BY <1>0, <2>1, FollowConcat, Zenon
  <2> QED
    BY <1>2, <2>2, Zenon DEF OrderOf
<1> QED
  BY <1>3, <1>4, <1>5, <1>6, Zenon DEF OrderOf, two

(* Bytes s of calls that may follow everything join the stream, when no node
   waits behind it. *)
LEMMA JoinStreamOrder ==
  ASSUME NEW prior, NEW B, NEW str \in Seq(B), NEW s \in Seq(B), NEW lst, NEW q, NEW new,
         OrderOf(prior, str, lst, q), Len(new) \in {0, 1},
         WholeCalls(prior, s), Precedes(prior, str, s),
         \A i \in SendsOf(q) : MayFollow(prior, s, q[i].id)
  PROVE  OrderOf(prior, str \o s, new, q)
<1>1. InOrder(prior, str \o s) /\ EndsCall(str \o s)
  BY ConcatInOrder, Zenon DEF OrderOf
<1>2. 2..Len(new) = {}
  <2>1. 2..0 = {} /\ 2..1 = {}
    OBVIOUS
  <2> QED
    BY <2>1, Zenon
<1>3. \A i \in SendsOf(q) : MayFollow(prior, str \o s, q[i].id)
  BY FollowConcat, Zenon DEF OrderOf
<1> QED
  BY <1>1, <1>2, <1>3, Zenon DEF OrderOf

(* ... are put into a node behind the others, or into the last one. *)
LEMMA LastNodeOrder ==
  ASSUME NEW prior, NEW B, NEW str \in Seq(B), NEW s \in Seq(B), NEW lst \in Seq(NodeOf(B)), NEW q,
         NEW new, NEW n \in Nat, n >= 2, Len(new) = n,
         OrderOf(prior, str, lst, q),
         \A k \in 2..(n - 1) : k \in 2..Len(lst) /\ new[k] = lst[k],
         \/ new[n].left = s
         \/ n \in 2..Len(lst) /\ new[n].left = lst[n].left \o s,
         WholeCalls(prior, s), Precedes(prior, str, s),
         \A k \in 2..Len(lst) : Precedes(prior, lst[k].left, s),
         \A i \in SendsOf(q) : MayFollow(prior, s, q[i].id)
  PROVE  OrderOf(prior, str, new, q)
<1>1. \A k \in 1..Len(lst) : lst[k].left \in Seq(B)
  <2>1. \A k \in 1..Len(lst) : lst[k] \in NodeOf(B)
    BY ElementOfSeq, Zenon
  <2> QED
    BY <2>1, Zenon DEF NodeOf
<1>2. Len(lst) \in Nat
  BY LenProperties, Zenon
<1>3. /\ WholeCalls(prior, new[n].left) /\ Precedes(prior, str, new[n].left)
      /\ \A k \in 2..(n - 1) : Precedes(prior, new[k].left, new[n].left)
      /\ \A i \in SendsOf(q) : MayFollow(prior, new[n].left, q[i].id)
  <2>1. CASE new[n].left = s
    BY <2>1, Zenon
  <2>2. CASE n \in 2..Len(lst) /\ new[n].left = lst[n].left \o s
    <3>1. lst[n].left \in Seq(B) /\ WholeCalls(prior, lst[n].left) /\ Precedes(prior, str, lst[n].left)
      BY <1>1, <1>2, <2>2, SMTT(30) DEF OrderOf
    <3>2. WholeCalls(prior, lst[n].left \o s)
      BY <2>2, <3>1, ConcatInOrder DEF WholeCalls
    <3>3. Precedes(prior, str, lst[n].left \o s)
      BY <3>1, PrecedesConcat, Zenon
    <3>4. ASSUME NEW k \in 2..(n - 1)
          PROVE  Precedes(prior, new[k].left, lst[n].left \o s)
      <4>1. k \in 2..Len(lst) /\ k < n /\ lst[k].left \in Seq(B)
        BY <1>1, <1>2
      <4>2. Precedes(prior, lst[k].left, lst[n].left) /\ Precedes(prior, lst[k].left, s)
        BY <2>2, <4>1, Zenon DEF OrderOf
      <4> QED
        BY <3>1, <4>1, <4>2, PrecedesConcat, Zenon
    <3>5. \A i \in SendsOf(q) : MayFollow(prior, lst[n].left \o s, q[i].id)
      BY <2>2, <3>1, FollowConcat, Zenon DEF OrderOf
    <3> QED
      BY <2>2, <3>2, <3>3, <3>4, <3>5, Zenon
  <2> QED
    BY <2>1, <2>2, Zenon
<1>4. ASSUME NEW k \in 2..Len(new)
      PROVE  WholeCalls(prior, new[k].left) /\ Precedes(prior, str, new[k].left)
  <2>1. k = n \/ k \in 2..(n - 1)
    OBVIOUS
  <2> QED
    BY <1>3, <2>1, Zenon DEF OrderOf
<1>5. ASSUME NEW j \in 2..Len(new), NEW k \in 2..Len(new), j < k
      PROVE  Precedes(prior, new[j].left, new[k].left)
  <2>1. j \in 2..(n - 1) /\ (k = n \/ k \in 2..(n - 1))
    BY <1>5
  <2> QED
    BY <1>3, <1>5, <2>1, Zenon DEF OrderOf
<1>6. ASSUME NEW i \in SendsOf(q), NEW k \in 2..Len(new)
      PROVE  MayFollow(prior, new[k].left, q[i].id)
  <2>1. k = n \/ k \in 2..(n - 1)
    OBVIOUS
  <2> QED
    BY <1>3, <2>1, Zenon DEF OrderOf
<1> QED
  BY <1>4, <1>5, <1>6, Zenon DEF OrderOf

(* A function is queued: not a send, or one of a call nothing has to follow. *)
LEMMA QueueOrder ==
  ASSUME NEW prior, NEW n \in Nat, NEW str \in Seq((1..n) \X (1..Size)),
         NEW lst \in Seq(NodeOf((1..n) \X (1..Size))), NEW q \in Seq(Function), NEW fn \in Function,
         OrderOf(prior, str, lst, q), \A i \in SendsOf(q) : q[i].id \in 1..n,
         fn.op = "send" => \A c \in 1..n : fn.id \notin prior[c]
  PROVE  OrderOf(prior, str, lst, Append(q, fn))
<1>1. /\ Len(q) \in Nat /\ Len(Append(q, fn)) = Len(q) + 1 /\ Append(q, fn)[Len(q) + 1] = fn
      /\ \A i \in 1..Len(q) : Append(q, fn)[i] = q[i]
  BY AppendProperties, LenProperties
<1>2. ASSUME NEW i \in SendsOf(Append(q, fn))
      PROVE  \/ i \in SendsOf(q) /\ Append(q, fn)[i] = q[i] /\ i <= Len(q)
             \/ i = Len(q) + 1 /\ Append(q, fn)[i] = fn /\ fn.op = "send"
  BY <1>1 DEF SendsOf
<1>3. \A k \in 1..Len(lst) : lst[k].left \in Seq((1..n) \X (1..Size))
  <2>1. \A k \in 1..Len(lst) : lst[k] \in NodeOf((1..n) \X (1..Size))
    BY ElementOfSeq, Zenon
  <2> QED
    BY <2>1, Zenon DEF NodeOf
<1>4. ASSUME fn.op = "send", NEW s \in Seq((1..n) \X (1..Size))
      PROVE  MayFollow(prior, s, fn.id)
  <2>1. \A i \in 1..Len(s) : s[i][1] \in 1..n
    BY ElementOfSeq
  <2> QED
    BY <1>4, <2>1, Zenon DEF MayFollow
<1>5. ASSUME NEW i \in SendsOf(Append(q, fn))
      PROVE  /\ MayFollow(prior, str, Append(q, fn)[i].id)
             /\ \A k \in 2..Len(lst) : MayFollow(prior, lst[k].left, Append(q, fn)[i].id)
  <2>1. CASE i \in SendsOf(q) /\ Append(q, fn)[i] = q[i]
    BY <2>1, Zenon DEF OrderOf
  <2>2. CASE Append(q, fn)[i] = fn /\ fn.op = "send"
    <3>1. Len(lst) \in Nat /\ \A k \in 2..Len(lst) : k \in 1..Len(lst)
      BY LenProperties
    <3> QED
      BY <1>3, <1>4, <2>2, <3>1, Zenon
  <2> QED
    BY <1>2, <2>1, <2>2, Zenon
<1>6. ASSUME NEW i \in SendsOf(Append(q, fn)), NEW j \in SendsOf(Append(q, fn)), i < j
      PROVE  Append(q, fn)[j].id \notin prior[Append(q, fn)[i].id]
  <2>1. i \in SendsOf(q) /\ Append(q, fn)[i] = q[i]
    <3>1. j \in Nat /\ i \in Nat /\ j <= Len(q) + 1
      <4>1. i \in 1..Len(Append(q, fn)) /\ j \in 1..Len(Append(q, fn))
        BY Zenon DEF SendsOf
      <4> QED
        BY <1>1, <4>1
    <3>2. i # Len(q) + 1
      BY <1>1, <1>6, <3>1
    <3> QED
      BY <1>2, <3>2, Zenon
  <2>2. CASE j \in SendsOf(q) /\ Append(q, fn)[j] = q[j]
    BY <1>6, <2>1, <2>2, Zenon DEF OrderOf
  <2>3. CASE Append(q, fn)[j] = fn /\ fn.op = "send"
    BY <2>1, <2>3, Zenon
  <2> QED
    BY <1>2, <2>2, <2>3, Zenon
<1> QED
  BY <1>5, <1>6, Zenon DEF OrderOf

(* A function is taken from the queue. *)
LEMMA TakeOrder ==
  ASSUME NEW prior, NEW str, NEW lst, NEW q \in Seq(Function), q # <<>>, OrderOf(prior, str, lst, q)
  PROVE  /\ OrderOf(prior, str, lst, Tail(q))
         /\ \A i \in SendsOf(Tail(q)) : i + 1 \in SendsOf(q) /\ Tail(q)[i] = q[i + 1]
         /\ Head(q).op = "send" =>
              /\ MayFollow(prior, str, Head(q).id)
              /\ \A k \in 2..Len(lst) : MayFollow(prior, lst[k].left, Head(q).id)
              /\ \A i \in SendsOf(Tail(q)) : Tail(q)[i].id \notin prior[Head(q).id]
<1>1. /\ Len(q) \in Nat /\ Len(q) >= 1 /\ Len(Tail(q)) = Len(q) - 1 /\ Head(q) = q[1]
      /\ \A i \in 1..Len(Tail(q)) : Tail(q)[i] = q[i + 1]
  <2>1. Len(q) \in Nat \ {0} /\ Head(q) = q[1]
    BY EmptySeq
  <2> QED
    BY <2>1, HeadTailProperties
<1>2. ASSUME NEW i \in SendsOf(Tail(q))
      PROVE  i + 1 \in SendsOf(q) /\ Tail(q)[i] = q[i + 1] /\ i \in Nat /\ 1 < i + 1
  BY <1>1 DEF SendsOf
<1>3. Head(q).op = "send" => 1 \in SendsOf(q)
  BY <1>1 DEF SendsOf
<1>4. ASSUME NEW i \in SendsOf(Tail(q)), NEW j \in SendsOf(Tail(q)), i < j
      PROVE  Tail(q)[j].id \notin prior[Tail(q)[i].id]
  <2>1. i + 1 < j + 1
    BY <1>2, <1>4
  <2> QED
    BY <1>2, <2>1, Zenon DEF OrderOf
<1>5. OrderOf(prior, str, lst, Tail(q))
  BY <1>2, <1>4, Zenon DEF OrderOf
<1> QED
  BY <1>1, <1>2, <1>3, <1>5, Zenon DEF OrderOf

(* A call begins. *)
LEMMA CallOrder ==
  ASSUME NEW prior, NEW later, NEW n \in Nat, \A c \in 1..n : later[c] = prior[c],
         NEW str \in Seq((1..n) \X (1..Size)), NEW lst \in Seq(NodeOf((1..n) \X (1..Size))),
         NEW q, \A i \in SendsOf(q) : q[i].id \in 1..n,
         OrderOf(prior, str, lst, q)
  PROVE  OrderOf(later, str, lst, q)
<1>1. Len(lst) \in Nat /\ \A k \in 2..Len(lst) : lst[k].left \in Seq((1..n) \X (1..Size))
  <2>1. Len(lst) \in Nat /\ \A k \in 2..Len(lst) : lst[k] \in NodeOf((1..n) \X (1..Size))
    BY ElementOfSeq, LenProperties
  <2> QED
    BY <2>1, Zenon DEF NodeOf
<1>2. InOrder(later, str)
  BY PriorAgrees, Zenon DEF OrderOf
<1>3. ASSUME NEW k \in 2..Len(lst)
      PROVE  WholeCalls(later, lst[k].left) /\ Precedes(later, str, lst[k].left)
  <2>1. WholeCalls(prior, lst[k].left) /\ Precedes(prior, str, lst[k].left)
    BY Zenon DEF OrderOf
  <2> QED
    BY <1>1, <2>1, PriorAgrees, Zenon
<1>4. ASSUME NEW j \in 2..Len(lst), NEW k \in 2..Len(lst), j < k
      PROVE  Precedes(later, lst[j].left, lst[k].left)
  <2>1. Precedes(prior, lst[j].left, lst[k].left)
    BY <1>4, Zenon DEF OrderOf
  <2> QED
    BY <1>1, <2>1, PriorAgrees, ZenonT(30)
<1>5. ASSUME NEW i \in SendsOf(q)
      PROVE  /\ MayFollow(later, str, q[i].id)
             /\ \A k \in 2..Len(lst) : MayFollow(later, lst[k].left, q[i].id)
             /\ \A j \in SendsOf(q) : i < j => q[j].id \notin later[q[i].id]
  <2>1. /\ MayFollow(prior, str, q[i].id)
        /\ \A k \in 2..Len(lst) : MayFollow(prior, lst[k].left, q[i].id)
        /\ \A j \in SendsOf(q) : i < j => q[j].id \notin prior[q[i].id]
    BY Zenon DEF OrderOf
  <2>2. MayFollow(later, str, q[i].id)
    BY <2>1, PriorAgrees, Zenon
  <2>3. ASSUME NEW k \in 2..Len(lst)
        PROVE  MayFollow(later, lst[k].left, q[i].id)
    <3>1. MayFollow(prior, lst[k].left, q[i].id) /\ lst[k].left \in Seq((1..n) \X (1..Size))
      BY <1>1, <2>1, Zenon
    <3> QED
      BY <3>1, PriorAgrees, ZenonT(30)
  <2> QED
    BY <2>1, <2>2, <2>3, Zenon
<1>6. EndsCall(str)
  BY Zenon DEF OrderOf
<1> QED
  BY <1>2, <1>3, <1>4, <1>5, <1>6, Zenon DEF OrderOf
-----------------------------------------------------------------------------
(* What the writing operations do to the buffers. *)

(* A list that is not empty has a first node. *)
LEMMA FirstNode ==
  ASSUME NEW B, NEW lst \in Seq(NodeOf(B)), lst # <<>>
  PROVE  /\ Len(lst) \in Nat /\ Len(lst) # 0 /\ 1 \in 1..Len(lst)
         /\ lst[1] \in NodeOf(B) /\ lst[1].left \in Seq(B)
<1>1. Len(lst) \in Nat /\ Len(lst) # 0 /\ 1 \in 1..Len(lst)
  BY EmptySeq
<1>2. lst[1] \in NodeOf(B)
  BY <1>1, ElementOfSeq, Zenon
<1> QED
  BY <1>1, <1>2, Zenon DEF NodeOf

(* The first node gets other bytes, or the stream it is ends. *)
FrontLeft(lst, l) == [lst EXCEPT ![1].left = l]
FrontDone(lst) == [lst EXCEPT ![1].left = <<>>, ![1].open = FALSE]

LEMMA FrontLeftNodes ==
  ASSUME NEW B, NEW lst \in Seq(NodeOf(B)), lst # <<>>, NEW l \in Seq(B)
  PROVE  /\ FrontLeft(lst, l) \in Seq(NodeOf(B)) /\ Len(FrontLeft(lst, l)) = Len(lst)
         /\ \A k \in 2..Len(lst) : FrontLeft(lst, l)[k] = lst[k]
         /\ FrontLeft(lst, l)[1].left = l /\ FrontLeft(lst, l)[1].kind = lst[1].kind
         /\ FrontLeft(lst, l)[1].open = lst[1].open
<1>1. lst[1] \in NodeOf(B) /\ Len(lst) \in Nat /\ 1 \in 1..Len(lst)
  BY FirstNode, Zenon
<1>2. PICK e : e = [lst[1] EXCEPT !.left = l]
  BY Zenon
<1>3. e \in NodeOf(B) /\ e.left = l /\ e.kind = lst[1].kind /\ e.open = lst[1].open
  BY <1>1, <1>2, Zenon DEF NodeOf
<1>4. FrontLeft(lst, l) = [lst EXCEPT ![1] = e]
  BY <1>2, Zenon DEF FrontLeft
<1>5. /\ [lst EXCEPT ![1] = e] \in Seq(NodeOf(B)) /\ Len([lst EXCEPT ![1] = e]) = Len(lst)
      /\ \A j \in 1..Len(lst) : [lst EXCEPT ![1] = e][j] = IF j = 1 THEN e ELSE lst[j]
  BY <1>1, <1>3, ExceptSeq
<1>6. \A k \in 2..Len(lst) : k \in 1..Len(lst) /\ k # 1
  BY <1>1
<1> QED
  BY <1>1, <1>3, <1>4, <1>5, <1>6, Zenon

LEMMA FrontDoneNodes ==
  ASSUME NEW B, NEW lst \in Seq(NodeOf(B)), lst # <<>>
  PROVE  /\ FrontDone(lst) \in Seq(NodeOf(B)) /\ Len(FrontDone(lst)) = Len(lst)
         /\ \A k \in 2..Len(lst) : FrontDone(lst)[k] = lst[k]
         /\ FrontDone(lst)[1].left = <<>> /\ FrontDone(lst)[1].kind = lst[1].kind
         /\ ~FrontDone(lst)[1].open
<1>1. lst[1] \in NodeOf(B) /\ Len(lst) \in Nat /\ 1 \in 1..Len(lst) /\ 1 \in DOMAIN lst /\ <<>> \in Seq(B)
  BY FirstNode, LenProperties
<1>2. PICK e : e = [lst[1] EXCEPT !.left = <<>>, !.open = FALSE]
  BY Zenon
<1>3. e \in NodeOf(B) /\ e.left = <<>> /\ e.kind = lst[1].kind /\ e.open = FALSE
  BY <1>1, <1>2, Zenon DEF NodeOf
<1>4. FrontDone(lst) = [lst EXCEPT ![1] = e]
  BY <1>1, <1>2, Zenon DEF FrontDone
<1>5. /\ [lst EXCEPT ![1] = e] \in Seq(NodeOf(B)) /\ Len([lst EXCEPT ![1] = e]) = Len(lst)
      /\ \A j \in 1..Len(lst) : [lst EXCEPT ![1] = e][j] = IF j = 1 THEN e ELSE lst[j]
  BY <1>1, <1>3, ExceptSeq
<1>6. \A k \in 2..Len(lst) : k \in 1..Len(lst) /\ k # 1
  BY <1>1
<1> QED
  BY <1>1, <1>3, <1>4, <1>5, <1>6, Zenon
(* Bytes move from the first node of lst, by way of *m_fileBufferPtr, to the
   kernel, and none is lost or overtaken. *)
Flows(B, lst) ==
  /\ list' \in Seq(NodeOf(B)) /\ fileBuf' \in Seq(B) /\ wire' \in Seq(B)
  /\ Len(list') = Len(lst) /\ \A k \in 2..Len(lst) : list'[k] = lst[k]
  /\ NodesOf(list', fileBuf')
  /\ wire' \o (fileBuf' \o list'[1].left) = wire \o (fileBuf \o lst[1].left)
  /\ events' \in {events, events \cup {"write"}, events \ {"write"}}

(* The nodes behind the first do not matter to NodesOf. *)
LEMMA FlowNodes ==
  ASSUME NEW lst, NEW buf, NodesOf(lst, buf), NEW new, NEW nbuf,
         Len(new) = Len(lst), \A k \in 2..Len(lst) : new[k] = lst[k], Len(lst) \in Nat, new # <<>>,
         new[1].open => new[1].kind = "stream",
         new[1].kind = "stream" /\ new[1].left # <<>> => new[1].open,
         nbuf # <<>> => new[1].open
  PROVE  NodesOf(new, nbuf)
<1>1. \A k \in 1..Len(new) : k = 1 \/ k \in 2..Len(lst)
  OBVIOUS
<1>2. \A k \in 2..Len(lst) : k \in 1..Len(lst)
  OBVIOUS
<1> QED
  BY <1>1, <1>2, Zenon DEF NodesOf

(* Bytes are taken from l and put behind w. *)
LEMMA CutConcat ==
  ASSUME NEW B, NEW w \in Seq(B), NEW l \in Seq(B), NEW n \in 0..Len(l)
  PROVE  /\ w \o SubSeq(l, 1, n) \in Seq(B)
         /\ (w \o SubSeq(l, 1, n)) \o Drop(l, n) = w \o l
<1>1. PICK a \in Seq(B) : a = SubSeq(l, 1, n)
  BY Cut, Zenon
<1>2. PICK b \in Seq(B) : b = Drop(l, n)
  BY Cut, Zenon
<1>3. a \o b = l
  BY <1>1, <1>2, Cut, Zenon
<1>4. (w \o a) \o b = w \o (a \o b) /\ w \o a \in Seq(B)
  BY ConcatAssociative, ConcatProperties, SMTT(30)
<1> QED
  BY <1>1, <1>2, <1>3, <1>4, Zenon

(* write() of n bytes of the first node. *)
LEMMA TakeFlows ==
  ASSUME NEW B, NEW lst \in Seq(NodeOf(B)), lst # <<>>, NodesOf(lst, fileBuf),
         fileBuf \in Seq(B), wire \in Seq(B), ~lst[1].open, fileBuf' = fileBuf,
         NEW n \in 0..Len(lst[1].left), Accept(lst[1].left, n),
         list' = FrontLeft(lst, Drop(lst[1].left, n))
  PROVE  /\ list' \in Seq(NodeOf(B)) /\ fileBuf' \in Seq(B) /\ wire' \in Seq(B)
         /\ Len(list') = Len(lst) /\ \A k \in 2..Len(lst) : list'[k] = lst[k]
         /\ NodesOf(list', fileBuf')
         /\ wire' \o (fileBuf' \o list'[1].left) = wire \o (fileBuf \o lst[1].left)
<1> DEFINE l == lst[1].left
<1>0. l \in Seq(B) /\ Len(lst) \in Nat /\ Len(lst) # 0 /\ 1 \in 1..Len(lst)
  BY FirstNode, Zenon
<1>1. fileBuf = <<>>
  BY Zenon DEF NodesOf
<1>2. /\ SubSeq(l, 1, n) \in Seq(B) /\ Drop(l, n) \in Seq(B) /\ SubSeq(l, 1, n) \o Drop(l, n) = l
  BY <1>0, Cut, Zenon
<1>3. /\ list' \in Seq(NodeOf(B)) /\ Len(list') = Len(lst) /\ \A k \in 2..Len(lst) : list'[k] = lst[k]
      /\ list'[1].left = Drop(l, n) /\ list'[1].kind = lst[1].kind /\ list'[1].open = lst[1].open
  <2>1. PICK d \in Seq(B) : d = Drop(l, n)
    BY <1>2, Zenon
  <2>2. list' = FrontLeft(lst, d)
    BY <2>1, Zenon
  <2>3. /\ FrontLeft(lst, d) \in Seq(NodeOf(B)) /\ Len(FrontLeft(lst, d)) = Len(lst)
        /\ \A k \in 2..Len(lst) : FrontLeft(lst, d)[k] = lst[k]
        /\ FrontLeft(lst, d)[1].left = d /\ FrontLeft(lst, d)[1].kind = lst[1].kind
        /\ FrontLeft(lst, d)[1].open = lst[1].open
    BY FrontLeftNodes
  <2> QED
    BY <2>1, <2>2, <2>3, Zenon
<1>4. wire' = wire \o SubSeq(l, 1, n)
  BY Zenon DEF Accept
<1>5. wire' \in Seq(B) /\ wire' \o Drop(l, n) = wire \o l
  BY <1>0, <1>4, CutConcat, ZenonT(30)
<1>6. wire' \o (fileBuf' \o list'[1].left) = wire \o (fileBuf \o l)
  <2>1. <<>> \o Drop(l, n) = Drop(l, n) /\ <<>> \o l = l
    BY <1>0, <1>2, ConcatEmptySeq, Zenon
  <2> QED
    BY <1>1, <1>3, <1>5, <2>1, Zenon
<1>7. NodesOf(list', fileBuf')
  <2>1. list' # <<>>
    BY <1>0, <1>3, Zenon
  <2>2. lst[1].kind # "stream" \/ l = <<>>
    BY <1>0, Zenon DEF NodesOf
  <2>3. l = <<>> => Drop(l, n) = <<>>
    <3>1. l = <<>> => n = Len(l)
      OBVIOUS
    <3> QED
      BY <1>0, <3>1, Cut, Zenon
  <2> QED
    BY <1>0, <1>1, <1>3, <2>1, <2>2, <2>3, FlowNodes, Zenon
<1> QED
  BY <1>3, <1>5, <1>6, <1>7, Zenon

(* sendfile() of a file and write() of a message. *)
LEMMA FileFlows ==
  ASSUME NEW B, NEW lst \in Seq(NodeOf(B)), lst # <<>>, NodesOf(lst, fileBuf),
         fileBuf \in Seq(B), wire \in Seq(B), lst[1].kind # "stream", NEW ready \in BOOLEAN,
         \/ SendFile(lst, ready) /\ UNCHANGED <<fileBuf, bytesSent>>
         \/ WriteFront(lst)
  PROVE  Flows(B, lst)
<1>0. Len(lst) \in Nat /\ 1 \in 1..Len(lst) /\ ~lst[1].open /\ fileBuf' = fileBuf /\ lst[1].left \in Seq(B)
  <2>1. Len(lst) \in Nat /\ 1 \in 1..Len(lst) /\ lst[1].left \in Seq(B)
    BY FirstNode, Zenon
  <2> QED
    BY <2>1, Zenon DEF NodesOf, WriteFront
<1>1. events' \in {events, events \cup {"write"}, events \ {"write"}}
  BY Zenon DEF SendFile, WriteFront, EnableWriting
<1>2. CASE list' = lst /\ wire' = wire
  BY <1>0, <1>1, <1>2, Zenon DEF Flows
<1>3. ASSUME NEW n \in 0..Len(lst[1].left), Accept(lst[1].left, n),
             list' = [lst EXCEPT ![1].left = Drop(@, n)]
      PROVE  Flows(B, lst)
  <2>1. list' = FrontLeft(lst, Drop(lst[1].left, n))
    BY <1>3, Zenon DEF FrontLeft
  <2> QED
    BY <1>0, <1>1, <1>3, <2>1, TakeFlows, Zenon DEF Flows
<1>4. Len(lst[1].left) \in Nat /\ \A n \in Takes(Len(lst[1].left), TRUE) \cup Takes(Len(lst[1].left), ready) : n \in 0..Len(lst[1].left)
  BY <1>0, LenProperties DEF Takes
<1>5. CASE SendFile(lst, ready)
  BY <1>2, <1>3, <1>4, <1>5, Zenon DEF SendFile
<1>6. CASE WriteFront(lst)
  BY <1>2, <1>3, <1>4, <1>6, ZenonT(30) DEF WriteFront
<1> QED
  BY <1>5, <1>6, Zenon
(* write() of chunks of a stream. *)
LEMMA StreamFlows ==
  ASSUME NEW B, NEW lst \in Seq(NodeOf(B)), lst # <<>>, NodesOf(lst, fileBuf),
         fileBuf \in Seq(B), wire \in Seq(B), lst[1].kind = "stream", lst[1].open, NEW ready \in BOOLEAN,
         SendStream(lst, ready)
  PROVE  Flows(B, lst)
<1>0. Len(lst) \in Nat /\ Len(lst) # 0 /\ 1 \in 1..Len(lst) /\ lst[1].left \in Seq(B) /\ <<>> \in Seq(B)
  BY FirstNode, EmptySeq, Zenon
<1>1. events' \in {events, events \cup {"write"}, events \ {"write"}}
  BY Zenon DEF SendStream, EnableWriting
<1>2. PICK all \in Seq(B) : all = fileBuf \o lst[1].left
  BY <1>0, ConcatProperties, Zenon
<1>3. Len(all) \in Nat
  BY LenProperties, Zenon
<1>4. ASSUME NEW d \in Seq(B), list' = FrontLeft(lst, d), fileBuf' \in Seq(B), wire' \in Seq(B),
             wire' \o (fileBuf' \o d) = wire \o all
      PROVE  Flows(B, lst)
  <2>1. /\ list' \in Seq(NodeOf(B)) /\ Len(list') = Len(lst) /\ \A k \in 2..Len(lst) : list'[k] = lst[k]
        /\ list'[1].left = d /\ list'[1].kind = lst[1].kind /\ list'[1].open = lst[1].open
    <3>1. /\ FrontLeft(lst, d) \in Seq(NodeOf(B)) /\ Len(FrontLeft(lst, d)) = Len(lst)
          /\ \A k \in 2..Len(lst) : FrontLeft(lst, d)[k] = lst[k]
          /\ FrontLeft(lst, d)[1].left = d /\ FrontLeft(lst, d)[1].kind = lst[1].kind
          /\ FrontLeft(lst, d)[1].open = lst[1].open
      BY FrontLeftNodes, Zenon
    <3> QED
      BY <1>4, <3>1, Zenon
  <2>2. list' # <<>>
    BY <1>0, <2>1, Zenon
  <2>3. NodesOf(list', fileBuf')
    BY <1>0, <2>1, <2>2, FlowNodes, Zenon
  <2> QED
    BY <1>1, <1>2, <1>4, <2>1, <2>3, Zenon DEF Flows
<1>5. ASSUME NEW f \in 0..Len(all), fileBuf' = SubSeq(all, 1, f), list' = FrontLeft(lst, Drop(all, f)),
             wire' = wire
      PROVE  Flows(B, lst)
  <2>1. SubSeq(all, 1, f) \in Seq(B) /\ Drop(all, f) \in Seq(B) /\ SubSeq(all, 1, f) \o Drop(all, f) = all
    BY Cut, Zenon
  <2> QED
    BY <1>4, <1>5, <2>1, Zenon
<1>6. ASSUME NEW n \in 0..Len(all), NEW f \in n..Len(all), Accept(all, n),
             fileBuf' = SubSeq(all, n + 1, f), list' = FrontLeft(lst, Drop(all, f))
      PROVE  Flows(B, lst)
  <2>1. f \in 0..Len(all) /\ SubSeq(all, n + 1, f) \in Seq(B)
    BY <1>3, CutChunk
  <2>2. Drop(all, f) \in Seq(B)
    BY <2>1, Cut, Zenon
  <2>3. SubSeq(all, n + 1, f) \o Drop(all, f) = Drop(all, n)
    BY CutChunk, Zenon
  <2>4. wire' \in Seq(B) /\ wire' \o Drop(all, n) = wire \o all
    BY <1>6, CutConcat, ZenonT(30) DEF Accept
  <2> QED
    BY <1>4, <1>6, <2>1, <2>2, <2>3, <2>4, Zenon
<1>7. ASSUME Accept(all, Len(all)), fileBuf' = <<>>, list' = FrontDone(lst)
      PROVE  Flows(B, lst)
  <2>1. /\ list' \in Seq(NodeOf(B)) /\ Len(list') = Len(lst) /\ \A k \in 2..Len(lst) : list'[k] = lst[k]
        /\ list'[1].left = <<>> /\ ~list'[1].open
    BY <1>7, FrontDoneNodes
  <2>2. list' # <<>>
    BY <1>0, <2>1, Zenon
  <2>3. NodesOf(list', fileBuf')
    BY <1>0, <1>7, <2>1, <2>2, FlowNodes, Zenon
  <2>4. wire' = wire \o all /\ wire' \in Seq(B)
    <3>1. SubSeq(all, 1, Len(all)) = all
      BY SubSeqFull, Zenon
    <3> QED
      BY <1>7, <3>1, ConcatProperties, Zenon DEF Accept
  <2>5. wire' \o (<<>> \o <<>>) = wire \o all
    BY <1>0, <2>4, ConcatEmptySeq, Zenon
  <2> QED
    BY <1>0, <1>1, <1>2, <1>7, <2>1, <2>3, <2>4, <2>5, Zenon DEF Flows
<1>8. CASE \E f \in 0..Len(all) :
             fileBuf' = SubSeq(all, 1, f) /\ list' = FrontLeft(lst, Drop(all, f)) /\ wire' = wire
  BY <1>5, <1>8, Zenon
<1>9. CASE \E n \in 0..Len(all) : \E f \in n..Len(all) :
             Accept(all, n) /\ fileBuf' = SubSeq(all, n + 1, f) /\ list' = FrontLeft(lst, Drop(all, f))
  BY <1>6, <1>9, Zenon
<1>10. Len(fileBuf) \in Nat
  BY LenProperties, Zenon
<1>11. \A f \in (IF fileBuf = <<>> THEN 1 ELSE Len(fileBuf))..Len(all) : f \in 0..Len(all)
  BY <1>3, <1>10
<1>12. \A n \in Takes(Len(all), ready) : n \in 0..Len(all)
  BY <1>3 DEF Takes
<1>13. \A n \in 0..Len(all) : \A f \in 0..Len(all) : f > n => f \in n..Len(all)
  BY <1>3
<1> QED
  BY <1>2, <1>7, <1>8, <1>9, <1>11, <1>12, <1>13, Zenon DEF SendStream, FrontLeft, FrontDone
(* Whatever the first node is, writing it makes its bytes flow. *)
LEMMA FrontFlows ==
  ASSUME NEW B, NEW lst \in Seq(NodeOf(B)), lst # <<>>, NodesOf(lst, fileBuf),
         fileBuf \in Seq(B), wire \in Seq(B), lst[1].kind = "stream" => lst[1].open,
         SendFront(lst) \/ (isFile(lst[1]) /\ SendFileInLoop(lst, FALSE))
  PROVE  Flows(B, lst)
<1>1. ASSUME NEW ready \in BOOLEAN, SendFileInLoop(lst, ready)
      PROVE  Flows(B, lst)
  <2>1. CASE lst[1].kind = "file" /\ SendFile(lst, ready) /\ UNCHANGED <<fileBuf, bytesSent>>
    BY <2>1, FileFlows, Zenon
  <2>2. CASE lst[1].kind = "stream" /\ SendStream(lst, ready)
    BY <2>2, StreamFlows, Zenon
  <2> QED
    BY <1>1, <2>1, <2>2, Zenon DEF SendFileInLoop
<1>2. ASSUME ~isFile(lst[1]), WriteFront(lst)
      PROVE  Flows(B, lst)
  <2>1. lst[1].kind # "stream"
    BY <1>2, Zenon DEF isFile
  <2> QED
    BY <1>2, <2>1, FileFlows, Zenon
<1> QED
  BY <1>1, <1>2, Zenon DEF SendFront

(* A node is put behind the others. *)
LEMMA AppendNode ==
  ASSUME NEW B, NEW lst \in Seq(NodeOf(B)), NEW buf, NodesOf(lst, buf), NEW nd \in NodeOf(B),
         nd.open => nd.kind = "stream", nd.kind = "stream" /\ nd.left # <<>> => nd.open
  PROVE  /\ Append(lst, nd) \in Seq(NodeOf(B)) /\ Append(lst, nd) # <<>>
         /\ Len(lst) \in Nat /\ Len(Append(lst, nd)) = Len(lst) + 1
         /\ \A k \in 1..Len(lst) : Append(lst, nd)[k] = lst[k]
         /\ Append(lst, nd)[Len(lst) + 1] = nd
         /\ NodesOf(Append(lst, nd), buf)
<1>1. /\ Append(lst, nd) \in Seq(NodeOf(B)) /\ Append(lst, nd) # <<>>
      /\ Len(lst) \in Nat /\ Len(Append(lst, nd)) = Len(lst) + 1
      /\ \A k \in 1..Len(lst) : Append(lst, nd)[k] = lst[k]
      /\ Append(lst, nd)[Len(lst) + 1] = nd
  BY AppendProperties, LenProperties
<1>2. \A k \in 1..(Len(lst) + 1) : k \in 1..Len(lst) \/ k = Len(lst) + 1
  BY <1>1
<1>3. lst # <<>> => 1 \in 1..Len(lst)
  BY FirstNode, Zenon
<1>4. ASSUME NEW k \in 1..Len(Append(lst, nd))
      PROVE  /\ Append(lst, nd)[k].open => Append(lst, nd)[k].kind = "stream"
             /\ Append(lst, nd)[k].kind = "stream" /\ Append(lst, nd)[k].left # <<>> => Append(lst, nd)[k].open
  <2>1. CASE k \in 1..Len(lst)
    BY <1>1, <2>1, Zenon DEF NodesOf
  <2>2. CASE k = Len(lst) + 1
    BY <1>1, <2>2, Zenon
  <2> QED
    BY <1>1, <1>2, <2>1, <2>2, Zenon
<1>5. buf # <<>> => Append(lst, nd)[1].open
  BY <1>1, <1>3, Zenon DEF NodesOf
<1> QED
  BY <1>1, <1>4, <1>5, Zenon DEF NodesOf

(* Bytes join the message that is the last node. *)
GrowLast(lst, s) == [lst EXCEPT ![Len(lst)].left = @ \o s]

LEMMA GrowLastNodes ==
  ASSUME NEW B, NEW lst \in Seq(NodeOf(B)), NEW buf, NodesOf(lst, buf), lst # <<>>, ~isFile(Last(lst)),
         NEW s \in Seq(B)
  PROVE  /\ GrowLast(lst, s) \in Seq(NodeOf(B)) /\ GrowLast(lst, s) # <<>>
         /\ Len(lst) \in Nat \ {0} /\ Len(GrowLast(lst, s)) = Len(lst)
         /\ \A k \in 1..(Len(lst) - 1) : GrowLast(lst, s)[k] = lst[k]
         /\ lst[Len(lst)].left \in Seq(B) /\ GrowLast(lst, s)[Len(lst)].left = lst[Len(lst)].left \o s
         /\ NodesOf(GrowLast(lst, s), buf)
<1>1. PICK n : n = Len(lst)
  BY Zenon
<1>2. n \in Nat \ {0} /\ n \in 1..Len(lst) /\ 1 \in 1..n
  BY <1>1, EmptySeq
<1>3. lst[n] \in NodeOf(B)
  BY <1>2, ElementOfSeq, Zenon
<1>4. lst[n].left \in Seq(B) /\ lst[n].kind \in {"msg", "file", "stream"} /\ lst[n].open \in BOOLEAN
  BY <1>3, Zenon DEF NodeOf
<1>5. lst[n].kind = "msg" /\ ~lst[n].open
  <2>1. lst[n].kind = "msg"
    BY <1>1, <1>4, Zenon DEF isFile, Last
  <2> QED
    BY <1>2, <2>1, Zenon DEF NodesOf
<1>6. PICK l \in Seq(B) : l = lst[n].left \o s
  BY <1>4, ConcatProperties, Zenon
<1>7. PICK e : e = [lst[n] EXCEPT !.left = l]
  BY Zenon
<1>8. e \in NodeOf(B) /\ e.left = l /\ e.kind = "msg" /\ ~e.open
  BY <1>3, <1>5, <1>7, Zenon DEF NodeOf
<1>9. GrowLast(lst, s) = [lst EXCEPT ![n] = e]
  BY <1>1, <1>6, <1>7, Zenon DEF GrowLast
<1>10. /\ [lst EXCEPT ![n] = e] \in Seq(NodeOf(B)) /\ Len([lst EXCEPT ![n] = e]) = Len(lst)
       /\ \A j \in 1..Len(lst) : [lst EXCEPT ![n] = e][j] = IF j = n THEN e ELSE lst[j]
  BY <1>2, <1>8, ExceptSeq
<1>11. PICK new : new = GrowLast(lst, s)
  BY Zenon
<1>12. /\ new \in Seq(NodeOf(B)) /\ Len(new) = n
       /\ \A j \in 1..n : new[j] = IF j = n THEN e ELSE lst[j]
  BY <1>1, <1>9, <1>10, <1>11, Zenon
<1>13. new # <<>>
  BY <1>2, <1>12, EmptySeq, Zenon
<1>14. /\ \A k \in 1..(n - 1) : new[k] = lst[k]
       /\ new[n] = e
  BY <1>2, <1>12
<1>15. NodesOf(new, buf)
  <2>1. ASSUME NEW k \in 1..Len(new)
        PROVE  /\ new[k].open => new[k].kind = "stream"
               /\ new[k].kind = "stream" /\ new[k].left # <<>> => new[k].open
    <3>1. CASE k = n
      BY <1>8, <1>14, <3>1, Zenon
    <3>2. CASE k # n
      <4>1. k \in 1..Len(lst) /\ new[k] = lst[k]
        BY <1>1, <1>12, <3>2, Zenon
      <4> QED
        BY <4>1, Zenon DEF NodesOf
    <3> QED
      BY <3>1, <3>2, Zenon
  <2>2. ASSUME buf # <<>>
        PROVE  new[1].open
    <3>1. lst[1].open
      BY <2>2, Zenon DEF NodesOf
    <3>2. n # 1
      BY <1>5, <3>1, Zenon
    <3>3. new[1] = lst[1]
      BY <1>2, <1>12, <3>2, Zenon
    <3> QED
      BY <3>1, <3>3, Zenon
  <2> QED
    BY <1>13, <2>1, <2>2, Zenon DEF NodesOf
<1> QED
  BY <1>1, <1>2, <1>4, <1>6, <1>8, <1>11, <1>12, <1>13, <1>14, <1>15, SMTT(30)
(* What a send in the loop does with its bytes s: they are dropped, join the
   stream, get a node of their own or join the last one. *)
JoinsStream(s) == Len(list') \in {0, 1} /\ Stream' = Stream \o s
JoinsNode(s, n) ==
  /\ n >= 2 /\ Len(list') = n /\ Stream' = Stream
  /\ \A k \in 2..(n - 1) : k \in 2..Len(list) /\ list'[k] = list[k]
  /\ \/ list'[n].left = s
     \/ n \in 2..Len(list) /\ list'[n].left = list[n].left \o s
BuffersIn(B) ==
  /\ list \in Seq(NodeOf(B)) /\ fileBuf \in Seq(B) /\ wire \in Seq(B)
  /\ NodesOf(list, fileBuf)
BuffersNext(B) ==
  /\ list' \in Seq(NodeOf(B)) /\ fileBuf' \in Seq(B) /\ wire' \in Seq(B)
  /\ NodesOf(list', fileBuf')
WatchEffect ==
  /\ events' \in {events, events \cup {"write"}, events \ {"write"}}
  /\ list' = <<>> => list = <<>> /\ events' = events
SendEffect(B, s) ==
  /\ BuffersNext(B) /\ WatchEffect
  /\ \/ list' = list /\ Stream' = Stream
     \/ JoinsStream(s)
     \/ \E n \in Nat : JoinsNode(s, n)

(* Concatenation of the byte sequences over B is associative. *)
Associative(B) == \A x, y, z \in Seq(B) : (x \o y) \o z = x \o (y \o z)

LEMMA ConcatAll ==
  ASSUME NEW B
  PROVE  Associative(B)
<1> SUFFICES ASSUME NEW x \in Seq(B), NEW y \in Seq(B), NEW z \in Seq(B)
             PROVE  (x \o y) \o z = x \o (y \o z)
  BY Zenon DEF Associative
<1> QED
  BY ConcatAssociative, SMTT(30)

(* Bytes s put behind the last of three parts are behind all of them. *)
Behind(w, f, l, s) == w \o (f \o (l \o s)) = (w \o (f \o l)) \o s

LEMMA ConcatBehind ==
  ASSUME NEW B, NEW w \in Seq(B), NEW f \in Seq(B), NEW l \in Seq(B), NEW s \in Seq(B)
  PROVE  Behind(w, f, l, s)
<1>0. \A x, y, z \in Seq(B) : (x \o y) \o z = x \o (y \o z)
  <2>1. Associative(B)
    BY ConcatAll, Zenon
  <2> QED
    BY <2>1, Zenon DEF Associative
<1>1. (f \o l) \o s = f \o (l \o s)
  BY <1>0, ZenonT(30)
<1>2. PICK m \in Seq(B) : m = f \o l
  BY ConcatProperties, Zenon
<1>3. (w \o m) \o s = w \o (m \o s)
  BY <1>0, ZenonT(30)
<1> QED
  BY <1>1, <1>2, <1>3, Zenon DEF Behind

(* The stream of an empty list. *)
LEMMA StreamOfNone ==
  ASSUME NEW B, BuffersIn(B)
  PROVE  /\ list = <<>> => Stream = wire /\ fileBuf = <<>>
         /\ Stream \in Seq(B)
<1>1. list = <<>> => fileBuf = <<>>
  BY Zenon DEF BuffersIn, NodesOf
<1>2. <<>> \in Seq(B) /\ wire \in Seq(B)
  BY EmptySeq, Zenon DEF BuffersIn
<1>3. wire \o (<<>> \o <<>>) = wire
  BY <1>2, ConcatEmptySeq, Zenon
<1>4. PICK l \in Seq(B) : l = IF list = <<>> THEN <<>> ELSE list[1].left
  BY <1>2, FirstNode, Zenon DEF BuffersIn
<1>5. wire \o (fileBuf \o l) \in Seq(B)
  BY ConcatProperties, Zenon DEF BuffersIn
<1> QED
  BY <1>1, <1>3, <1>4, <1>5, Zenon DEF Stream

(* A list with the same first node has the same stream. *)
LEMMA SameFront ==
  ASSUME list # <<>>, list' # <<>>, list'[1] = list[1], UNCHANGED <<wire, fileBuf>>
  PROVE  Stream' = Stream
  BY Zenon DEF Stream

LEMMA BufferEffect ==
  ASSUME NEW B, BuffersIn(B), NEW s \in Seq(B), Buffer(s), UNCHANGED <<wire, fileBuf>>
  PROVE  SendEffect(B, s)
<1>0. MsgNode(s) \in NodeOf(B) /\ MsgNode(s).left = s /\ ~MsgNode(s).open /\ MsgNode(s).kind = "msg"
  BY Zenon DEF MsgNode, NodeOf
<1>1. Len(list) \in Nat /\ fileBuf \in Seq(B) /\ wire \in Seq(B) /\ fileBuf' = fileBuf /\ wire' = wire
  BY LenProperties, Zenon DEF BuffersIn
<1>9. ASSUME list' # <<>>
      PROVE  WatchEffect
  BY <1>9, Zenon DEF Buffer, EnableWriting, WatchEffect
<1>2. ASSUME list' = Append(list, MsgNode(s))
      PROVE  SendEffect(B, s)
  <2>1. /\ list' \in Seq(NodeOf(B)) /\ list' # <<>>
        /\ Len(list') = Len(list) + 1
        /\ \A k \in 1..Len(list) : list'[k] = list[k]
        /\ list'[Len(list) + 1] = MsgNode(s)
        /\ NodesOf(list', fileBuf)
    BY <1>0, <1>2, AppendNode DEF BuffersIn
  <2>2. BuffersNext(B)
    BY <1>1, <2>1, Zenon DEF BuffersNext
  <2>3. CASE list = <<>>
    <3>1. Stream = wire /\ fileBuf = <<>>
      BY <2>3, StreamOfNone, Zenon
    <3>2. Len(list) = 0
      BY <2>3, Zenon
    <3>3. Len(list') = 1 /\ list'[1].left = s
      BY <1>0, <2>1, <3>2
    <3>4. Stream' = wire \o (<<>> \o s)
      BY <1>1, <2>1, <3>1, <3>3, Zenon DEF Stream
    <3>5. <<>> \o s = s
      BY ConcatEmptySeq, Zenon
    <3> QED
      BY <1>9, <2>1, <2>2, <3>1, <3>3, <3>4, <3>5, ZenonT(30) DEF SendEffect, JoinsStream
  <2>4. CASE list # <<>>
    <3>1. Len(list) # 0 /\ 1 \in 1..Len(list)
      BY <2>4, FirstNode, Zenon DEF BuffersIn
    <3>2. Stream' = Stream
      BY <1>1, <2>1, <2>4, <3>1, SameFront, Zenon
    <3>3. PICK n \in Nat : n = Len(list) + 1
      BY <1>1
    <3>4. n >= 2 /\ Len(list') = n /\ \A k \in 2..(n - 1) : k \in 2..Len(list) /\ list'[k] = list[k]
      BY <1>1, <2>1, <3>1, <3>3
    <3>5. list'[n].left = s
      BY <1>0, <2>1, <3>3, Zenon
    <3>6. JoinsNode(s, n)
      BY <3>2, <3>4, <3>5, Zenon DEF JoinsNode
    <3> QED
      BY <1>9, <2>1, <2>2, <3>6, Zenon DEF SendEffect
  <2> QED
    BY <2>3, <2>4, Zenon
<1>3. ASSUME list # <<>>, ~isFile(Last(list)), list' = GrowLast(list, s)
      PROVE  SendEffect(B, s)
  <2>1. /\ list' \in Seq(NodeOf(B)) /\ list' # <<>>
        /\ Len(list) \in Nat \ {0} /\ Len(list') = Len(list)
        /\ \A k \in 1..(Len(list) - 1) : list'[k] = list[k]
        /\ list[Len(list)].left \in Seq(B) /\ list'[Len(list)].left = list[Len(list)].left \o s
        /\ NodesOf(list', fileBuf)
    <3>1. list \in Seq(NodeOf(B)) /\ NodesOf(list, fileBuf)
      BY Zenon DEF BuffersIn
    <3> DEFINE new == GrowLast(list, s)
    <3> HIDE DEF new
    <3>2. /\ new \in Seq(NodeOf(B)) /\ new # <<>>
          /\ Len(list) \in Nat \ {0} /\ Len(new) = Len(list)
          /\ \A k \in 1..(Len(list) - 1) : new[k] = list[k]
          /\ list[Len(list)].left \in Seq(B) /\ new[Len(list)].left = list[Len(list)].left \o s
          /\ NodesOf(new, fileBuf)
      BY <1>3, <3>1, GrowLastNodes, Zenon DEF new
    <3>3. list' = new
      BY <1>3, Zenon DEF new
    <3> QED
      BY <3>2, <3>3, Zenon
  <2>2. BuffersNext(B)
    BY <1>1, <2>1, Zenon DEF BuffersNext
  <2>3. CASE Len(list) = 1
    <3>1. list'[1].left = list[1].left \o s /\ list[1].left \in Seq(B)
      BY <2>1, <2>3, Zenon
    <3>2. PICK l \in Seq(B) : l = list[1].left
      BY <3>1, Zenon
    <3>3. Stream = wire \o (fileBuf \o l) /\ Stream' = wire \o (fileBuf \o (l \o s))
      BY <1>1, <1>3, <2>1, <3>1, <3>2, Zenon DEF Stream
    <3>4. Behind(wire, fileBuf, l, s)
      BY <1>1, ConcatBehind, Zenon
    <3>5. Stream' = Stream \o s
      BY <3>3, <3>4, Zenon DEF Behind
    <3> QED
      BY <1>9, <2>1, <2>2, <2>3, <3>5, Zenon DEF SendEffect, JoinsStream
  <2>4. CASE Len(list) # 1
    <3>1. 1 \in 1..(Len(list) - 1) /\ Len(list) >= 2
      BY <2>1, <2>4
    <3>2. Stream' = Stream
      BY <1>1, <1>3, <2>1, <3>1, SameFront, Zenon
    <3>3. PICK n \in Nat : n = Len(list)
      BY <1>1, Zenon
    <3>4. n >= 2 /\ Len(list') = n /\ n \in 2..Len(list) /\ \A k \in 2..(n - 1) : k \in 2..Len(list) /\ list'[k] = list[k]
      BY <1>1, <2>1, <3>1, <3>3, SMTT(30)
    <3>5. list'[n].left = list[n].left \o s
      BY <2>1, <3>3, Zenon
    <3>6. JoinsNode(s, n)
      BY <3>2, <3>4, <3>5, Zenon DEF JoinsNode
    <3> QED
      BY <1>9, <2>1, <2>2, <3>6, Zenon DEF SendEffect
  <2> QED
    BY <2>3, <2>4, Zenon
<1> QED
  BY <1>2, <1>3, Zenon DEF Buffer, GrowLast
(* sendInLoop. *)
LEMMA SendInLoopEffect ==
  ASSUME NEW B, BuffersIn(B), NEW s \in Seq(B), SendInLoop(s)
  PROVE  SendEffect(B, s)
<1>0. Len(s) \in Nat /\ wire \in Seq(B) /\ fileBuf \in Seq(B) /\ <<>> \in Seq(B)
  BY LenProperties, EmptySeq, Zenon DEF BuffersIn
<1>1. CASE UNCHANGED <<out, events>>
  <2>1. UNCHANGED <<list, fileBuf, wire>>
    BY <1>1, Zenon DEF out
  <2>2. Stream' = Stream
    BY <2>1, Zenon DEF Stream
  <2> QED
    BY <1>1, <2>1, <2>2, Zenon DEF SendEffect, BuffersNext, BuffersIn, WatchEffect
<1>2. ASSUME list = <<>>, NEW n \in 0..Len(s), Accept(s, n), UNCHANGED fileBuf,
             IF n < Len(s) THEN Buffer(Drop(s, n)) ELSE UNCHANGED <<list, events>>
      PROVE  SendEffect(B, s)
  <2>1. Stream = wire /\ fileBuf = <<>>
    BY <1>2, StreamOfNone, Zenon
  <2>2. wire' \in Seq(B) /\ wire' \o Drop(s, n) = wire \o s
    BY <1>0, <1>2, CutConcat, Zenon DEF Accept
  <2>3. CASE n < Len(s)
    <3>1. PICK d \in Seq(B) : d = Drop(s, n)
      BY Cut, Zenon
    <3>2. list' = Append(list, MsgNode(d))
      BY <1>2, <2>3, <3>1, Zenon DEF Buffer
    <3>3. MsgNode(d) \in NodeOf(B) /\ MsgNode(d).left = d /\ ~MsgNode(d).open /\ MsgNode(d).kind = "msg"
      BY Zenon DEF MsgNode, NodeOf
    <3>4. /\ list' \in Seq(NodeOf(B)) /\ list' # <<>>
          /\ Len(list') = Len(list) + 1 /\ list'[Len(list) + 1] = MsgNode(d) /\ NodesOf(list', fileBuf)
      BY <3>2, <3>3, AppendNode, SMTT(30) DEF BuffersIn
    <3>5. Len(list) = 0
      BY <1>2, Zenon
    <3>6. Len(list') = 1 /\ list'[1].left = d
      BY <3>3, <3>4, <3>5
    <3>7. <<>> \o d = d
      BY ConcatEmptySeq, Zenon
    <3>8. Stream' = wire' \o (<<>> \o d)
      BY <1>2, <2>1, <3>4, <3>6, Zenon DEF Stream
    <3>9. Stream' = Stream \o s
      BY <2>1, <2>2, <3>1, <3>7, <3>8, Zenon
    <3>10. BuffersNext(B)
      BY <1>0, <1>2, <2>2, <3>4, Zenon DEF BuffersNext
    <3>11. WatchEffect
      BY <1>2, <2>3, <3>4, Zenon DEF Buffer, EnableWriting, WatchEffect
    <3> QED
      BY <3>6, <3>9, <3>10, <3>11, Zenon DEF SendEffect, JoinsStream
  <2>4. CASE ~(n < Len(s))
    <3>1. n = Len(s)
      BY <1>0, <2>4
    <3>2. list' = <<>>
      BY <1>2, <2>4, Zenon
    <3>3. Drop(s, n) = <<>>
      BY <3>1, Cut, Zenon
    <3>4. wire' = wire \o s
      BY <2>2, <3>3, ConcatEmptySeq, Zenon
    <3>5. Stream' = wire' \o (<<>> \o <<>>)
      BY <1>2, <2>1, <3>2, Zenon DEF Stream
    <3>6. wire' \o (<<>> \o <<>>) = wire'
      BY <1>0, <2>2, ConcatEmptySeq, Zenon
    <3>7. BuffersNext(B)
      BY <1>0, <1>2, <2>2, <3>2, Zenon DEF BuffersNext, BuffersIn
    <3>8. Len(list') = 0
      BY <3>2, Zenon
    <3>9. WatchEffect
      BY <1>2, <2>4, Zenon DEF WatchEffect
    <3> QED
      BY <2>1, <3>4, <3>5, <3>6, <3>7, <3>8, <3>9, ZenonT(30) DEF SendEffect, JoinsStream
  <2> QED
    BY <2>3, <2>4, Zenon
<1>3. Takes(Len(s), FALSE) = 0..Len(s)
  BY Zenon DEF Takes
<1>4. CASE Buffer(s) /\ UNCHANGED <<fileBuf, wire, bytesSent>>
  BY <1>4, BufferEffect, Zenon
<1> QED
  BY <1>1, <1>2, <1>3, <1>4, Zenon DEF SendInLoop

(* The function of sendFile and sendStream. *)
LEMMA PushFileEffect ==
  ASSUME NEW B, BuffersIn(B), NEW i, Bytes(i) \in Seq(B), Bytes(i) # <<>>,
         kind'[i] \in {"file", "stream"}, PushFile(i)
  PROVE  SendEffect(B, Bytes(i))
<1> DEFINE nd == FileNode(i)
<1>0. nd \in NodeOf(B) /\ nd.left = Bytes(i) /\ nd.kind = kind'[i] /\ (nd.open <=> nd.kind = "stream")
  BY Zenon DEF FileNode, NodeOf
<1>1. wire \in Seq(B) /\ fileBuf \in Seq(B) /\ <<>> \in Seq(B)
  BY EmptySeq, Zenon DEF BuffersIn
<1> HIDE DEF nd
<1>2. CASE list = <<>>
  <2>1. Stream = wire /\ fileBuf = <<>>
    BY <1>2, StreamOfNone, Zenon
  <2>2. SendFileInLoop(<<nd>>, FALSE)
    BY <1>2, Zenon DEF PushFile, nd
  <2>3. <<nd>> \in Seq(NodeOf(B)) /\ <<nd>> # <<>> /\ Len(<<nd>>) = 1 /\ <<nd>>[1] = nd
    BY <1>0
  <2>4. NodesOf(<<nd>>, fileBuf)
    BY <1>0, <2>1, <2>3 DEF NodesOf
  <2>5. PICK lst \in Seq(NodeOf(B)) : lst = <<nd>>
    BY <2>3, Zenon
  <2>6. lst # <<>> /\ Len(lst) = 1 /\ lst[1] = nd /\ NodesOf(lst, fileBuf) /\ isFile(lst[1]) /\ SendFileInLoop(lst, FALSE)
    BY <1>0, <2>2, <2>3, <2>4, <2>5, Zenon DEF isFile
  <2>7. Flows(B, lst)
    BY <1>0, <1>1, <2>6, FrontFlows, Zenon
  <2>8. Len(list') = 1 /\ BuffersNext(B) /\ wire' \o (fileBuf' \o list'[1].left) = wire \o (<<>> \o Bytes(i))
    BY <1>0, <2>1, <2>6, <2>7, Zenon DEF Flows, BuffersNext
  <2>9. list' # <<>>
    <3>1. Len(<<>>) = 0
      BY Zenon
    <3>2. Len(list') # 0
      BY <2>8
    <3> QED
      BY <3>1, <3>2, Zenon
  <2>10. Stream' = wire \o (<<>> \o Bytes(i))
    BY <2>8, <2>9, Zenon DEF Stream
  <2>11. <<>> \o Bytes(i) = Bytes(i)
    BY ConcatEmptySeq, Zenon
  <2>12. WatchEffect
    BY <2>7, <2>9, Zenon DEF WatchEffect, Flows
  <2> QED
    BY <2>1, <2>8, <2>10, <2>11, <2>12, Zenon DEF SendEffect, JoinsStream
<1>3. CASE list # <<>>
  <2>1. list' = Append(list, nd) /\ UNCHANGED <<fileBuf, wire>>
    BY <1>3, Zenon DEF PushFile, nd
  <2>2. /\ list' \in Seq(NodeOf(B)) /\ list' # <<>>
        /\ Len(list) \in Nat /\ Len(list') = Len(list) + 1
        /\ \A k \in 1..Len(list) : list'[k] = list[k]
        /\ list'[Len(list) + 1] = nd
        /\ NodesOf(list', fileBuf)
    BY <1>0, <2>1, AppendNode DEF BuffersIn
  <2>3. BuffersNext(B)
    BY <1>1, <2>1, <2>2, Zenon DEF BuffersNext
  <2>4. Len(list) # 0 /\ 1 \in 1..Len(list)
    BY <1>3, FirstNode, Zenon DEF BuffersIn
  <2>5. Stream' = Stream
    BY <1>3, <2>1, <2>2, <2>4, SameFront, Zenon
  <2>6. PICK n \in Nat : n = Len(list) + 1
    BY <2>2
  <2>7. n >= 2 /\ Len(list') = n /\ \A k \in 2..(n - 1) : k \in 2..Len(list) /\ list'[k] = list[k]
    BY <2>2, <2>4, <2>6
  <2>8. list'[n].left = Bytes(i)
    BY <1>0, <2>2, <2>6, Zenon
  <2>9. JoinsNode(Bytes(i), n)
    BY <2>5, <2>7, <2>8, Zenon DEF JoinsNode
  <2>10. WatchEffect
    BY <1>3, <2>2, Zenon DEF WatchEffect, PushFile
  <2> QED
    BY <2>3, <2>9, <2>10, Zenon DEF SendEffect
<1> QED
  BY <1>2, <1>3, Zenon

LEMMA SendNowEffect ==
  ASSUME NEW B, BuffersIn(B), NEW i, Bytes(i) \in Seq(B), Bytes(i) # <<>>,
         kind'[i] \in {"msg", "file", "stream"}, SendNow(i)
  PROVE  SendEffect(B, Bytes(i))
  BY SendInLoopEffect, PushFileEffect, Zenon DEF SendNow
-----------------------------------------------------------------------------
(* m_sendNum: counting the sends of a queue. *)

LEMMA SendsFinite ==
  ASSUME NEW q \in Seq(Function)
  PROVE  IsFiniteSet(SendsOf(q)) /\ Cardinality(SendsOf(q)) \in Nat
<1>1. Len(q) \in Nat
  BY LenProperties, Zenon
<1>2. IsFiniteSet(1..Len(q))
  BY <1>1, FS_Interval
<1>3. SendsOf(q) \subseteq 1..Len(q)
  BY Zenon DEF SendsOf
<1> QED
  BY <1>2, <1>3, FS_Subset, FS_CardinalityType, Zenon

(* A function is queued. *)
LEMMA SendsAppend ==
  ASSUME NEW q \in Seq(Function), NEW fn \in Function
  PROVE  Cardinality(SendsOf(Append(q, fn))) = Cardinality(SendsOf(q)) + (IF fn.op = "send" THEN 1 ELSE 0)
<1>1. /\ Len(q) \in Nat /\ Len(Append(q, fn)) = Len(q) + 1 /\ Append(q, fn)[Len(q) + 1] = fn
      /\ \A k \in 1..Len(q) : Append(q, fn)[k] = q[k]
  BY AppendProperties, LenProperties
<1>2. IsFiniteSet(SendsOf(q)) /\ Cardinality(SendsOf(q)) \in Nat
  BY SendsFinite, Zenon
<1>3. \A k \in 1..(Len(q) + 1) : k \in 1..Len(q) \/ k = Len(q) + 1
  BY <1>1
<1>4. CASE fn.op = "send"
  <2>1. SendsOf(Append(q, fn)) = SendsOf(q) \cup {Len(q) + 1}
    BY <1>1, <1>3, <1>4, SMTT(30) DEF SendsOf
  <2>2. Len(q) + 1 \notin SendsOf(q)
    BY <1>1 DEF SendsOf
  <2> QED
    BY <1>2, <1>4, <2>1, <2>2, FS_AddElement, Zenon
<1>5. CASE fn.op # "send"
  <2>1. SendsOf(Append(q, fn)) = SendsOf(q)
    BY <1>1, <1>3, <1>5 DEF SendsOf
  <2> QED
    BY <1>2, <1>5, <2>1, SMTT(30)
<1> QED
  BY <1>4, <1>5, Zenon

(* The next function is taken. *)
LEMMA SendsTail ==
  ASSUME NEW q \in Seq(Function), q # <<>>
  PROVE  /\ Cardinality(SendsOf(q)) = Cardinality(SendsOf(Tail(q))) + (IF Head(q).op = "send" THEN 1 ELSE 0)
         /\ Tail(q) \in Seq(Function) /\ Cardinality(SendsOf(Tail(q))) \in Nat
<1>1. /\ Len(q) \in Nat /\ Len(q) >= 1 /\ Len(Tail(q)) = Len(q) - 1 /\ Head(q) = q[1]
      /\ Tail(q) \in Seq(Function)
      /\ \A k \in 1..Len(Tail(q)) : Tail(q)[k] = q[k + 1]
  <2>1. Len(q) \in Nat \ {0} /\ Head(q) = q[1]
    BY EmptySeq
  <2> QED
    BY <2>1, HeadTailProperties
<1> DEFINE S == SendsOf(Tail(q))
           later == {k \in SendsOf(q) : k > 1}
           f == [k \in S |-> k + 1]
<1>2. IsFiniteSet(S) /\ Cardinality(S) \in Nat /\ IsFiniteSet(SendsOf(q)) /\ Cardinality(SendsOf(q)) \in Nat
  BY <1>1, SendsFinite, Zenon
<1>3. \A k \in S : k \in Nat /\ k >= 1 /\ k <= Len(q) - 1 /\ Tail(q)[k].op = "send" /\ Tail(q)[k] = q[k + 1]
  BY <1>1 DEF SendsOf
<1>4. \A k \in S : k + 1 \in later
  BY <1>1, <1>3 DEF SendsOf
<1>5. \A k \in later : k \in Nat /\ k - 1 \in S /\ k = (k - 1) + 1
  BY <1>1 DEF SendsOf
<1>6. f \in Bijection(S, later)
  <2> HIDE DEF S, later
  <2>1. f \in [S -> later]
    BY <1>4, Zenon
  <2>2. \A j, k \in S : f[j] = f[k] => j = k
    BY <1>3
  <2>3. \A k \in later : \E j \in S : f[j] = k
    BY <1>5, Zenon
  <2> QED
    BY <2>1, <2>2, <2>3, Zenon DEF Bijection, Injection, Surjection, IsInjective
<1>7. Cardinality(S) = Cardinality(later) /\ IsFiniteSet(later)
  <2> HIDE DEF S, later, f
  <2>1. ExistsBijection(S, later)
    BY <1>6, Zenon DEF ExistsBijection
  <2> QED
    BY <1>2, <2>1, FS_Bijection, Zenon
<1>8. CASE Head(q).op = "send"
  <2>1. SendsOf(q) = later \cup {1} /\ 1 \notin later
    BY <1>1, <1>8 DEF SendsOf
  <2>2. Cardinality(SendsOf(q)) = Cardinality(later) + 1
    <3> HIDE DEF later
    <3> QED
      BY <1>7, <2>1, FS_AddElement, Zenon
  <2> QED
    BY <1>1, <1>2, <1>7, <1>8, <2>2, Zenon
<1>9. CASE Head(q).op # "send"
  <2>1. SendsOf(q) = later
    BY <1>1, <1>9 DEF SendsOf
  <2>2. Cardinality(SendsOf(q)) = Cardinality(S)
    BY <1>7, <2>1, Zenon
  <2> HIDE DEF S
  <2>3. Cardinality(SendsOf(q)) = Cardinality(S) + 0
    BY <1>2, <2>2
  <2> QED
    BY <1>1, <1>2, <1>9, <2>3, Zenon DEF S
<1> QED
  BY <1>8, <1>9, Zenon

(* A thread counts its send, or queues it. *)
LEMMA CountedStep ==
  ASSUME NEW t \in Thread
  PROVE  /\ Cardinality(Counted) \in Nat
         /\ Cardinality(Counted') \in Nat
         /\ t \notin Counted /\ Counted' = Counted \cup {t} => Cardinality(Counted') = Cardinality(Counted) + 1
         /\ t \in Counted /\ Counted' = Counted \ {t} => Cardinality(Counted) = Cardinality(Counted') + 1
<1>1. \A S \in SUBSET Thread : IsFiniteSet(S) /\ Cardinality(S) \in Nat
  BY FS_Subset, FS_CardinalityType, TcpConnectionAssumption, Zenon
<1>2. Counted \in SUBSET Thread /\ Counted' \in SUBSET Thread
  BY Zenon DEF Counted
<1>3. \A S \in SUBSET Thread : t \notin S => Cardinality(S \cup {t}) = Cardinality(S) + 1
  BY <1>1, FS_AddElement, Zenon
<1>4. \A S \in SUBSET Thread : t \in S => Cardinality(S) = Cardinality(S \ {t}) + 1
  <2>1. \A S \in SUBSET Thread : t \in S => Cardinality(S \ {t}) = Cardinality(S) - 1
    BY <1>1, FS_RemoveElement, Zenon
  <2> QED
    BY <1>1, <2>1
<1> QED
  BY <1>1, <1>2, <1>3, <1>4, Zenon
-----------------------------------------------------------------------------
(* The steps of a connection keep the order. *)
Ordered == Buffers /\ CallsKnown /\ OrderKept

LEMMA OrderedTypes ==
  ASSUME Buffers, CallsKnown
  PROVE  /\ calls \in Nat /\ calls <= MaxSends /\ MaxSends \in Nat /\ BuffersIn(Byte) /\ Stream \in Seq(Byte)
         /\ queue \in Seq(Function) /\ \A i \in SendsOf(queue) : queue[i].id \in 1..calls
         /\ 1..calls \subseteq Call
<1>1. MaxSends \in Nat
  BY TcpConnectionAssumption, Zenon
<1>2. BuffersIn(Byte)
  BY Zenon DEF Buffers, BuffersIn
<1> QED
  BY <1>1, <1>2, StreamOfNone DEF Buffers, CallsKnown, Call

LEMMA StillStep ==
  ASSUME Ordered, UNCHANGED <<list, fileBuf, wire>>, UNCHANGED <<tcall, calls, kind, returned, before>>, queue' = queue
  PROVE  Ordered'
<1>1. UNCHANGED <<tcall, calls, kind, returned, before>>
  BY Zenon
<1>2. Byte' = Byte
  BY <1>1, Zenon DEF Byte
<1>3. Buffers'
  BY <1>1, <1>2, Zenon DEF Ordered, Buffers
<1>4. CallsKnown'
  BY <1>1, Zenon DEF Ordered, CallsKnown, Counted
<1>5. Stream' = Stream
  BY Zenon DEF Stream
<1>6. OrderKept'
  BY <1>1, <1>5, Zenon DEF Ordered, OrderKept
<1> QED
  BY <1>3, <1>4, <1>6, Zenon DEF Ordered

(* A queue that changes, with what is known of its sends. *)
LEMMA QueueKnown ==
  ASSUME NEW n, NEW q \in Seq(Function), \A i \in SendsOf(q) : q[i].id \in 1..n, NEW fn \in Function,
         fn.op = "send" => fn.id \in 1..n
  PROVE  Append(q, fn) \in Seq(Function) /\ \A i \in SendsOf(Append(q, fn)) : Append(q, fn)[i].id \in 1..n
<1>1. /\ Append(q, fn) \in Seq(Function) /\ Len(q) \in Nat
      /\ Len(Append(q, fn)) = Len(q) + 1 /\ Append(q, fn)[Len(q) + 1] = fn
      /\ \A i \in 1..Len(q) : Append(q, fn)[i] = q[i]
  BY AppendProperties, LenProperties
<1>2. \A k \in 1..(Len(q) + 1) : k \in 1..Len(q) \/ k = Len(q) + 1
  BY <1>1
<1>3. ASSUME NEW i \in SendsOf(Append(q, fn))
      PROVE  Append(q, fn)[i].id \in 1..n
  <2>1. i \in 1..(Len(q) + 1) /\ Append(q, fn)[i].op = "send"
    BY <1>1, Zenon DEF SendsOf
  <2>2. CASE i \in 1..Len(q)
    BY <1>1, <2>1, <2>2, Zenon DEF SendsOf
  <2>3. CASE i = Len(q) + 1
    BY <1>1, <2>1, <2>3, Zenon
  <2> QED
    BY <1>2, <2>1, <2>2, <2>3, Zenon
<1> QED
  BY <1>1, <1>3, Zenon

(* shutdown, forceClose or connectDestroyed is queued. *)
LEMMA QueueStep ==
  ASSUME Ordered, UNCHANGED <<list, fileBuf, wire>>, UNCHANGED <<tcall, calls, kind, returned, before>>,
         NEW fn \in Function, fn.op # "send", queue' = Append(queue, fn)
  PROVE  Ordered'
<1>0. Buffers /\ CallsKnown /\ OrderKept
  BY Zenon DEF Ordered
<1>1. Byte' = Byte
  BY Zenon DEF Byte
<1>2. Buffers'
  BY <1>0, <1>1, Zenon DEF Buffers
<1>3. /\ calls \in Nat /\ BuffersIn(Byte) /\ Stream \in Seq(Byte)
      /\ queue \in Seq(Function) /\ \A i \in SendsOf(queue) : queue[i].id \in 1..calls
  BY <1>0, OrderedTypes, Zenon
<1>4. queue' \in Seq(Function) /\ \A i \in SendsOf(queue') : queue'[i].id \in 1..calls
  BY <1>3, QueueKnown, Zenon
<1>5. CallsKnown'
  BY <1>0, <1>4, Zenon DEF CallsKnown, Counted, SendsOf
<1>6. OrderOf(before, Stream, list, Append(queue, fn))
  BY <1>0, <1>3, QueueOrder, Zenon DEF OrderKept, Byte, BuffersIn
<1>7. Stream' = Stream
  BY Zenon DEF Stream
<1>8. OrderKept'
  BY <1>6, <1>7, Zenon DEF OrderKept
<1> QED
  BY <1>2, <1>5, <1>8, Zenon DEF Ordered

(* A thread queues its send. *)
LEMMA SendQueueStep ==
  ASSUME Ordered, NEW t \in Thread, SendQueue(t)
  PROVE  Ordered'
<1>0. Buffers /\ CallsKnown /\ OrderKept
  BY Zenon DEF Ordered
<1>1. UNCHANGED <<list, fileBuf, wire, calls, kind, before>>
  BY Zenon DEF SendQueue, out
<1>2. Buffers'
  BY <1>0, <1>1, Zenon DEF Buffers, Byte
<1>3. /\ calls \in Nat /\ BuffersIn(Byte) /\ Stream \in Seq(Byte)
      /\ queue \in Seq(Function) /\ \A i \in SendsOf(queue) : queue[i].id \in 1..calls
      /\ 1..calls \subseteq Call
  BY <1>0, OrderedTypes, Zenon
<1>4. PICK c \in 1..calls : c = tcall[t] /\ c \notin returned
  BY <1>0, Zenon DEF CallsKnown, SendQueue, Counted
<1>5. PICK fn \in Function : fn.op = "send" /\ fn.id = c /\ queue' = Append(queue, fn)
  BY <1>3, <1>4, Zenon DEF SendQueue, Fn, Function
<1>6. queue' \in Seq(Function) /\ \A i \in SendsOf(queue') : queue'[i].id \in 1..calls
  BY <1>3, <1>5, QueueKnown, Zenon
<1>7. CallsKnown'
  <2>1. returned' = returned \cup {c} /\ returned' \subseteq 1..calls
    BY <1>0, <1>4, Zenon DEF SendQueue, CallsKnown
  <2>2. tcall' = [tcall EXCEPT ![t] = None] /\ tcall \in [Thread -> (1..calls) \cup {None}]
    BY <1>0, Zenon DEF SendQueue, CallsKnown
  <2>3. \A u \in Counted' : u \in Counted /\ u # t /\ tcall'[u] = tcall[u]
    BY <2>2, Zenon DEF Counted
  <2>4. t \in Counted
    BY Zenon DEF SendQueue, Counted
  <2>5. \A u \in Counted' : tcall'[u] \notin returned'
    <3>1. \A u \in Counted' : tcall[u] \notin returned /\ tcall[u] # tcall[t]
      BY <1>0, <2>3, <2>4, Zenon DEF CallsKnown
    <3> QED
      BY <1>4, <2>1, <2>3, <3>1, Zenon
  <2>6. \A u, v \in Counted' : tcall'[u] = tcall'[v] => u = v
    BY <1>0, <2>3, Zenon DEF CallsKnown
  <2>7. tcall' \in [Thread -> (1..calls) \cup {None}]
    BY <2>2, Zenon
  <2>8. before' \in [Call -> SUBSET returned'] /\ \A d \in Call : d \notin before'[d]
    BY <1>0, <1>1, <2>1, Zenon DEF CallsKnown
  <2>9. kind' \in [Call -> {"msg", "file", "stream"}]
    BY <1>0, <1>1, Zenon DEF CallsKnown
  <2> QED
    BY <1>1, <1>6, <2>1, <2>5, <2>6, <2>7, <2>8, <2>9, SMTT(30) DEF CallsKnown, SendsOf
<1>8. \A d \in 1..calls : c \notin before[d]
  BY <1>0, <1>3, <1>4, Zenon DEF CallsKnown
<1>9. OrderOf(before, Stream, list, Append(queue, fn))
  BY <1>0, <1>3, <1>5, <1>8, QueueOrder, Zenon DEF OrderKept, Byte, BuffersIn
<1>10. Stream' = Stream
  BY <1>1, Zenon DEF Stream
<1>11. OrderKept'
  BY <1>1, <1>5, <1>9, <1>10, Zenon DEF OrderKept
<1> QED
  BY <1>2, <1>7, <1>11, Zenon DEF Ordered

(* A function other than a send is taken from the queue. *)
LEMMA TakeStep ==
  ASSUME Ordered, UNCHANGED <<list, fileBuf, wire>>, UNCHANGED <<tcall, calls, kind, returned, before>>, queue # <<>>, queue' = Tail(queue)
  PROVE  Ordered'
<1>0. Buffers /\ CallsKnown /\ OrderKept
  BY Zenon DEF Ordered
<1>1. UNCHANGED <<tcall, calls, kind, returned, before>>
  BY Zenon
<1>2. Buffers'
  BY <1>0, <1>1, Zenon DEF Buffers, Byte
<1>3. /\ queue \in Seq(Function) /\ \A i \in SendsOf(queue) : queue[i].id \in 1..calls
  BY <1>0, OrderedTypes, Zenon
<1>4. /\ OrderOf(before, Stream, list, queue')
      /\ \A i \in SendsOf(queue') : i + 1 \in SendsOf(queue) /\ queue'[i] = queue[i + 1]
  BY <1>0, <1>3, TakeOrder, Zenon DEF OrderKept
<1>5. queue' \in Seq(Function)
  BY <1>3, HeadTailProperties, Zenon
<1>6. \A i \in SendsOf(queue') : queue'[i].id \in 1..calls
  BY <1>3, <1>4, Zenon
<1>7. CallsKnown'
  BY <1>0, <1>1, <1>5, <1>6, Zenon DEF CallsKnown, Counted, SendsOf
<1>8. Stream' = Stream
  BY Zenon DEF Stream
<1>9. OrderKept'
  BY <1>1, <1>4, <1>8, Zenon DEF OrderKept
<1> QED
  BY <1>2, <1>7, <1>9, Zenon DEF Ordered
(* Buffers of more bytes. *)
LEMMA MoreBytes ==
  ASSUME NEW A, NEW B, A \subseteq B, BuffersIn(A)
  PROVE  BuffersIn(B)
<1>1. \A s \in Seq(A) : s \in Seq(B)
  BY SeqMonotonic, Zenon
<1>2. NodeOf(A) \subseteq NodeOf(B)
  BY <1>1, Zenon DEF NodeOf
<1>3. \A s \in Seq(NodeOf(A)) : s \in Seq(NodeOf(B))
  BY <1>2, SeqMonotonic, Zenon
<1> QED
  BY <1>1, <1>3, Zenon DEF BuffersIn

(* A call begins. *)
LEMMA NewCallEffect ==
  ASSUME Ordered, NEW k \in Kinds, NewCall(k)
  PROVE  /\ calls' = calls + 1 /\ calls' \in Call /\ calls' \in 1..calls' /\ calls' \in 0..MaxSends
         /\ BuffersIn(Byte') /\ Stream \in Seq(Byte')
         /\ kind' \in [Call -> {"msg", "file", "stream"}]
         /\ before' \in [Call -> SUBSET returned] /\ before'[calls'] = returned
         /\ \A c \in Call : c \notin before'[c]
         /\ \A c \in 1..calls' : calls' \notin before'[c]
         /\ calls' \notin returned /\ returned \subseteq 1..calls'
         /\ \A i \in SendsOf(queue) : queue[i].id \in 1..calls'
         /\ OrderOf(before', Stream, list, queue)
<1>0. Buffers /\ CallsKnown /\ OrderKept
  BY Zenon DEF Ordered
<1>1. /\ calls \in Nat /\ MaxSends \in Nat /\ BuffersIn(Byte) /\ Stream \in Seq(Byte)
      /\ queue \in Seq(Function) /\ \A i \in SendsOf(queue) : queue[i].id \in 1..calls
      /\ 1..calls \subseteq Call
  BY <1>0, OrderedTypes, Zenon
<1>2. calls' = calls + 1 /\ calls' \in 1..MaxSends
  BY <1>1 DEF NewCall
<1>3. /\ calls' \in Call /\ calls' \in 1..calls' /\ calls' \in 0..MaxSends
      /\ 1..calls \subseteq 1..calls' /\ calls' \notin 1..calls /\ \A c \in 1..calls' : c = calls' \/ c \in 1..calls
  BY <1>1, <1>2 DEF Call
<1>4. Byte \subseteq Byte'
  BY <1>3, Zenon DEF Byte
<1>5. BuffersIn(Byte') /\ Stream \in Seq(Byte')
  <2>1. PICK B : B = Byte'
    BY Zenon
  <2>2. BuffersIn(B)
    BY <1>1, <1>4, <2>1, MoreBytes, Zenon
  <2>3. Stream \in Seq(B)
    BY <2>2, StreamOfNone, Zenon
  <2> QED
    BY <2>1, <2>2, <2>3, Zenon
<1>6. kind' \in [Call -> {"msg", "file", "stream"}]
  BY <1>0, <1>3, TcpConnectionAssumption, Zenon DEF CallsKnown, NewCall
<1>7. before' = [before EXCEPT ![calls'] = returned] /\ before \in [Call -> SUBSET returned] /\ returned \subseteq 1..calls
  BY <1>0, Zenon DEF CallsKnown, NewCall
<1>8. /\ before' \in [Call -> SUBSET returned] /\ before'[calls'] = returned
      /\ \A c \in Call : c # calls' => before'[c] = before[c]
  BY <1>3, <1>7, Zenon
<1>9. calls' \notin returned
  BY <1>3, <1>7, Zenon
<1>10. \A c \in Call : c \notin before'[c]
  BY <1>0, <1>8, <1>9, Zenon DEF CallsKnown
<1>11. \A c \in 1..calls' : calls' \notin before'[c]
  BY <1>1, <1>3, <1>8, <1>9, Zenon
<1>12. OrderOf(before', Stream, list, queue)
  <2>1. \A c \in 1..calls : before'[c] = before[c]
    BY <1>1, <1>3, <1>8, Zenon
  <2> QED
    BY <1>0, <1>1, <2>1, CallOrder, ZenonT(30) DEF OrderKept, Byte, BuffersIn
<1> QED
  BY <1>1, <1>2, <1>3, <1>5, <1>6, <1>7, <1>8, <1>9, <1>10, <1>11, <1>12, SMTT(30)

(* A thread counts its send. *)
LEMMA SendStep ==
  ASSUME Ordered, NEW t \in Thread, NEW k \in Kinds, Send(t, k)
  PROVE  Ordered'
<1>0. Buffers /\ CallsKnown /\ OrderKept
  BY Zenon DEF Ordered
<1>1. UNCHANGED <<list, fileBuf, wire, queue, returned>> /\ NewCall(k) /\ tcall' = [tcall EXCEPT ![t] = calls']
  BY Zenon DEF Send, out
<1>2. /\ calls' = calls + 1 /\ calls' \in Call /\ calls' \in 1..calls' /\ calls' \in 0..MaxSends
      /\ BuffersIn(Byte')
      /\ kind' \in [Call -> {"msg", "file", "stream"}]
      /\ before' \in [Call -> SUBSET returned]
      /\ \A c \in Call : c \notin before'[c]
      /\ calls' \notin returned /\ returned \subseteq 1..calls'
      /\ \A i \in SendsOf(queue) : queue[i].id \in 1..calls'
      /\ OrderOf(before', Stream, list, queue)
  BY <1>1, NewCallEffect, Zenon
<1>3. Buffers'
  BY <1>1, <1>2, Zenon DEF Buffers, BuffersIn
<1>4. Stream' = Stream
  BY <1>1, Zenon DEF Stream
<1>5. OrderKept'
  BY <1>1, <1>2, <1>4, Zenon DEF OrderKept
<1>6. calls \in Nat /\ tcall \in [Thread -> (1..calls) \cup {None}]
  BY <1>0, OrderedTypes, Zenon DEF CallsKnown
<1>7. \A c \in 1..calls : c \in 1..calls' /\ c # calls'
  BY <1>2, <1>6
<1>8. /\ tcall' \in [Thread -> (1..calls') \cup {None}] /\ tcall'[t] = calls'
      /\ \A u \in Thread : u # t => tcall'[u] = tcall[u]
  BY <1>1, <1>2, <1>6, <1>7, Zenon
<1>9. \A u \in Counted' : u = t \/ (u # t /\ u \in Counted /\ tcall'[u] = tcall[u] /\ tcall[u] # calls')
  BY <1>6, <1>7, <1>8, Zenon DEF Counted
<1>10. \A u \in Counted' : tcall'[u] \notin returned
  BY <1>0, <1>2, <1>8, <1>9, Zenon DEF CallsKnown
<1>11. \A u, v \in Counted' : tcall'[u] = tcall'[v] => u = v
  BY <1>0, <1>8, <1>9, Zenon DEF CallsKnown
<1>12. queue \in Seq(Function)
  BY <1>0, Zenon DEF CallsKnown
<1>13. CallsKnown'
  BY <1>1, <1>2, <1>8, <1>10, <1>11, <1>12, SMTT(30) DEF CallsKnown
<1> QED
  BY <1>3, <1>5, <1>13, Zenon DEF Ordered
=============================================================================
