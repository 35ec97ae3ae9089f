---------------------------- MODULE PollerProofs ----------------------------
(***************************************************************************)
(* Proofs about the pollers: whatever their owners do to the channels, the *)
(* kernel, or PollPoller's array, watches what the channels have enabled.  *)
(*                                                                         *)
(* Each operation of a poller is first shown to equal a plain change of    *)
(* the state (Changed), under what the code asserts; such a change is then *)
(* shown to lead from Pending, a channel's mask has changed and the poller *)
(* has yet to hear of it, to Agreed.  The owners, the callbacks, the fork  *)
(* and poll are put together from these.                                   *)
(***************************************************************************)
EXTENDS Poller, FiniteSetTheorems, SequenceTheorems, WellFoundedInduction, TLAPS

(* Tables of channels and of masks. *)
LEMMA Tables ==
  ASSUME NEW f
  PROVE  /\ f \in ChannelTables <=> DOMAIN f \in SUBSET Fds /\ f \in [DOMAIN f -> Chan]
         /\ f \in MaskTables <=> DOMAIN f \in SUBSET Fds /\ f \in MaskMaps(DOMAIN f)
<1>1. f \in ChannelTables <=> DOMAIN f \in SUBSET Fds /\ f \in [DOMAIN f -> Chan]
  BY Zenon DEF ChannelTables
<1>2. f \in MaskTables <=> DOMAIN f \in SUBSET Fds /\ f \in MaskMaps(DOMAIN f)
  BY Zenon DEF MaskTables, MaskMaps
<1> QED
  BY <1>1, <1>2, Zenon

(* The fields of a state, and of its channels. *)
LEMMA Fields ==
  ASSUME NEW s \in States
  PROVE  /\ s.kind \in PollerKinds /\ s.ch \in ChannelTables /\ s.channels \in SUBSET Fds
         /\ s.old \in MaskMaps(Fds) /\ s.kern \in MaskTables /\ s.pfds \in Seq(Pfd)
         /\ s.size \in Nat /\ s.ok \in BOOLEAN
BY Zenon DEF States

LEMMA ChannelFields ==
  ASSUME NEW s \in States, NEW c \in DOMAIN s.ch
  PROVE  /\ c \in Fds /\ s.ch[c] \in Chan /\ s.ch[c].events \in SUBSET Mask /\ s.ch[c].index \in Int
<1>1. DOMAIN s.ch \in SUBSET Fds /\ s.ch \in [DOMAIN s.ch -> Chan]
  BY Fields, Tables, Zenon
<1>2. c \in Fds /\ s.ch[c] \in Chan
  BY <1>1, Zenon
<1> QED
  BY <1>2, Zenon DEF Chan

(* A change of fields. *)
Changed(s, H, C, O, K, P) ==
  [s EXCEPT !.ch = H, !.channels = C, !.old = O, !.kern = K, !.pfds = P, !.ok = TRUE]

AreFds(C) == C \in SUBSET Fds

LEMMA ChangedFields ==
  ASSUME NEW s \in States, NEW H \in ChannelTables, NEW C, AreFds(C),
         NEW O \in MaskMaps(Fds), NEW K \in MaskTables, NEW P \in Seq(Pfd),
         NEW t, t = Changed(s, H, C, O, K, P)
  PROVE  /\ t \in States /\ t.kind = s.kind /\ t.ch = H /\ t.channels = C /\ t.old = O
         /\ t.kern = K /\ t.pfds = P /\ t.ok
<1>2. t \in States
  BY Zenon DEF Changed, States, AreFds
<1>3. t.kind = s.kind /\ t.ch = H /\ t.channels = C /\ t.old = O
  BY Zenon DEF Changed, States
<1>4. t.kern = K /\ t.pfds = P /\ t.ok
  BY Zenon DEF Changed, States
<1> QED
  BY <1>2, <1>3, <1>4, Zenon

(* An assertion that holds changes nothing. *)
LEMMA AssertedTrue ==
  ASSUME NEW s \in States, s.ok, NEW b, b
  PROVE  Asserted(s, b) = s
<1>1. (s.ok /\ b) = TRUE
  BY Fields, Zenon
<1>2. Asserted(s, b) = [s EXCEPT !.ok = TRUE]
  BY <1>1, Zenon DEF Asserted
<1>3. s.ok = TRUE
  BY Fields, Zenon
<1> QED
  BY <1>2, <1>3, Zenon DEF States

(* A new index. *)
Indexed(H, c, i) == [H EXCEPT ![c].index = i]

LEMMA NewIndex ==
  ASSUME NEW s \in States, NEW c \in DOMAIN s.ch, NEW i \in Int
  PROVE  /\ DOMAIN Indexed(s.ch, c, i) = DOMAIN s.ch /\ Indexed(s.ch, c, i) \in ChannelTables
         /\ Indexed(s.ch, c, i)[c].index = i /\ Indexed(s.ch, c, i)[c].events = s.ch[c].events
         /\ \A d \in DOMAIN s.ch \ {c} : Indexed(s.ch, c, i)[d] = s.ch[d]
<1>1. DOMAIN s.ch \in SUBSET Fds /\ s.ch \in [DOMAIN s.ch -> Chan] /\ s.ch[c] \in Chan
  BY Fields, Tables, ChannelFields, Zenon
<1>2. [s.ch[c] EXCEPT !.index = i] \in Chan /\ [s.ch[c] EXCEPT !.index = i].index = i
      /\ [s.ch[c] EXCEPT !.index = i].events = s.ch[c].events
  BY <1>1, Zenon DEF Chan
<1>3. DOMAIN Indexed(s.ch, c, i) = DOMAIN s.ch /\ Indexed(s.ch, c, i) \in [DOMAIN s.ch -> Chan]
  BY <1>1, <1>2, Zenon DEF Indexed
<1>4. /\ Indexed(s.ch, c, i)[c] = [s.ch[c] EXCEPT !.index = i]
      /\ \A d \in DOMAIN s.ch \ {c} : Indexed(s.ch, c, i)[d] = s.ch[d]
  BY <1>1, <1>2, Zenon DEF Indexed
<1> QED
  BY <1>1, <1>2, <1>3, <1>4, Tables, Zenon

(* EpollPoller::updateChannel: an unknown channel, or one without events, is added. *)
LEMMA EpollAdds ==
  ASSUME NEW s \in States, NEW c \in DOMAIN s.ch, s.ok, s.ch[c].index \in {kNew, kDeleted},
         s.ch[c].index = kNew <=> c \notin s.channels, c \notin DOMAIN s.kern
  PROVE  EpollUpdateChannel(s, c)
         = Changed(s, Indexed(s.ch, c, kAdded), s.channels \cup {c}, s.old,
                   With(s.kern, c, s.ch[c].events), s.pfds)
<1> DEFINE b == (s.ch[c].index = kNew) = (c \notin s.channels)
           t == [s EXCEPT !.channels = @ \cup {c}]
           u == setIndex(t, c, kAdded)
<1>1. Asserted(s, b) = s
  BY AssertedTrue, Zenon
<1>2. EpollUpdateChannel(s, c) = EpollUpdate(u, "ADD", c)
  BY <1>1, Zenon DEF EpollUpdateChannel
<1>3. u = [s EXCEPT !.ch = Indexed(@, c, kAdded), !.channels = @ \cup {c}]
  BY Zenon DEF setIndex, Indexed, States
<1> HIDE DEF t, u
<1>4. u.kern = s.kern /\ u.ch[c].events = s.ch[c].events
  <2>1. u.kern = s.kern /\ u.ch = Indexed(s.ch, c, kAdded)
    BY <1>3, Zenon DEF States
  <2>2. kAdded \in Int
    BY DEF kAdded
  <2>3. Indexed(s.ch, c, kAdded)[c].events = s.ch[c].events
    BY <2>2, NewIndex
  <2> QED
    BY <2>1, <2>3, Zenon
<1>5. EpollUpdate(u, "ADD", c) = [u EXCEPT !.kern = With(s.kern, c, s.ch[c].events)]
  BY <1>4, Zenon DEF EpollUpdate
<1>6. s.ok = TRUE
  BY Fields, Zenon
<1> QED
  BY <1>2, <1>3, <1>5, <1>6, ZenonT(30) DEF Changed, States

(* ... a channel that watches nothing any more is taken out, *)
LEMMA EpollDeletes ==
  ASSUME NEW s \in States, NEW c \in DOMAIN s.ch, s.ok, s.ch[c].index = kAdded,
         c \in s.channels, s.ch[c].events = {}
  PROVE  EpollUpdateChannel(s, c)
         = Changed(s, Indexed(s.ch, c, kDeleted), s.channels, s.old,
                   Without(s.kern, c), s.pfds)
<1>1. Asserted(s, c \in s.channels /\ s.ch[c].index = kAdded) = s
  BY AssertedTrue, Zenon
<1>2. kAdded \notin {kNew, kDeleted}
  BY DEF kAdded, kNew, kDeleted
<1>3. EpollUpdateChannel(s, c) = setIndex(EpollUpdate(s, "DEL", c), c, kDeleted)
  BY <1>1, <1>2, Zenon DEF EpollUpdateChannel
<1>4. EpollUpdate(s, "DEL", c) = [s EXCEPT !.kern = Without(@, c)]
  BY Zenon DEF EpollUpdate
<1>5. s.ok = TRUE
  BY Fields, Zenon
<1> QED
  BY <1>3, <1>4, <1>5, ZenonT(30) DEF setIndex, Indexed, Changed, States

(* ... and any other is modified. *)
LEMMA EpollModifies ==
  ASSUME NEW s \in States, NEW c \in DOMAIN s.ch, s.ok, s.ch[c].index = kAdded,
         c \in s.channels, s.ch[c].events # {}, c \in DOMAIN s.kern
  PROVE  EpollUpdateChannel(s, c)
         = Changed(s, s.ch, s.channels, s.old, With(s.kern, c, s.ch[c].events), s.pfds)
<1>1. Asserted(s, c \in s.channels /\ s.ch[c].index = kAdded) = s
  BY AssertedTrue, Zenon
<1>2. kAdded \notin {kNew, kDeleted}
  BY DEF kAdded, kNew, kDeleted
<1>3. EpollUpdateChannel(s, c) = EpollUpdate(s, "MOD", c)
  BY <1>1, <1>2, Zenon DEF EpollUpdateChannel
<1>4. EpollUpdate(s, "MOD", c) = [s EXCEPT !.kern = With(@, c, s.ch[c].events)]
  BY Zenon DEF EpollUpdate
<1>5. s.ok = TRUE
  BY Fields, Zenon
<1> QED
  BY <1>3, <1>4, <1>5, Zenon DEF Changed, States

(* EpollPoller::removeChannel, and the end of the channel. *)
LEMMA EpollRemoves ==
  ASSUME NEW s \in States, NEW c \in DOMAIN s.ch, s.ok, s.ch[c].index \in {kAdded, kDeleted},
         c \in s.channels, s.ch[c].events = {}, s.kind = "epoll"
  PROVE  remove(s, c)
         = Changed(s, Without(s.ch, c), s.channels \ {c}, s.old,
                   IF s.ch[c].index = kAdded THEN Without(s.kern, c) ELSE s.kern, s.pfds)
<1> DEFINE t == [s EXCEPT !.channels = @ \ {c}]
           K == IF s.ch[c].index = kAdded THEN Without(s.kern, c) ELSE s.kern
           u == IF s.ch[c].index = kAdded THEN EpollUpdate(t, "DEL", c) ELSE t
           v == setIndex(u, c, kNew)
<1>1. Asserted(s, s.ch[c].events = {}) = s
  BY AssertedTrue, Zenon
<1>2. Asserted(s, c \in s.channels /\ s.ch[c].events = {} /\ s.ch[c].index \in {kAdded, kDeleted}) = s
  BY AssertedTrue, Zenon
<1>3. EpollRemoveChannel(s, c) = v
  BY <1>2, Zenon DEF EpollRemoveChannel
<1>4. u = [s EXCEPT !.channels = @ \ {c}, !.kern = K]
  <2>1. CASE s.ch[c].index = kAdded
    <3>1. t.kern = s.kern
      BY Zenon DEF States
    <3>2. u = [t EXCEPT !.kern = K]
      BY <2>1, <3>1, Zenon DEF EpollUpdate
    <3> QED
      BY <3>2, Zenon
  <2>2. CASE s.ch[c].index # kAdded
    <3>1. u = t /\ K = s.kern
      BY <2>2, Zenon
    <3> QED
      BY <3>1, Zenon DEF States
  <2> QED
    BY <2>1, <2>2, Zenon
<1>5. v = [s EXCEPT !.ch = Indexed(@, c, kNew), !.channels = @ \ {c}, !.kern = K]
  BY <1>4, Zenon DEF setIndex, Indexed, States
<1>6. remove(s, c) = [v EXCEPT !.ch = Without(@, c)]
  BY <1>1, <1>3, Zenon DEF remove
<1>7. Without(Indexed(s.ch, c, kNew), c) = Without(s.ch, c)
  BY Zenon DEF Without, Indexed
<1>8. v.ch = Indexed(s.ch, c, kNew)
  BY <1>5, Zenon DEF States
<1>9. remove(s, c) = [v EXCEPT !.ch = Without(s.ch, c)]
  BY <1>6, <1>7, <1>8, Zenon
<1>10. s.ok = TRUE
  BY Fields, Zenon
<1> HIDE DEF v, u, t
<1> QED
  BY <1>5, <1>9, <1>10, ZenonT(30) DEF Changed, States

(* KQueue::update brings the filters to the mask when it remembers what the kernel has. *)
LEMMA KqUpdates ==
  ASSUME NEW s \in States, NEW c \in DOMAIN s.ch,
         (IF c \in s.channels THEN s.old[c] ELSE {}) = IF c \in DOMAIN s.kern THEN s.kern[c] ELSE {}
  PROVE  KqUpdate(s, c) = [s EXCEPT !.channels = @ \cup {c}, !.old = [@ EXCEPT ![c] = s.ch[c].events],
                                    !.kern = With(@, c, s.ch[c].events)]
<1> DEFINE events == s.ch[c].events
           now == IF c \in DOMAIN s.kern THEN s.kern[c] ELSE {}
<1>1. KqUpdate(s, c) = [s EXCEPT !.channels = @ \cup {c}, !.old[c] = events,
                                 !.kern = With(@, c, (now \ (now \ events)) \cup (events \ now))]
  BY Zenon DEF KqUpdate
<1>2. (now \ (now \ events)) \cup (events \ now) = events
  <2> HIDE DEF now, events
  <2> QED
    BY Zenon
<1>3. KqUpdate(s, c) = [s EXCEPT !.channels = @ \cup {c}, !.old[c] = events, !.kern = With(@, c, events)]
  BY <1>1, <1>2, Zenon
<1> QED
  BY <1>3, Zenon

(* KQueue::updateChannel *)
LEMMA KqUpdatesChannel ==
  ASSUME NEW s \in States, NEW c \in DOMAIN s.ch, s.ok,
         IF s.ch[c].index = kNew THEN c \notin s.channels
         ELSE c \in s.channels /\ s.ch[c].index \in {kAdded, kDeleted},
         (IF c \in s.channels THEN s.old[c] ELSE {}) = IF c \in DOMAIN s.kern THEN s.kern[c] ELSE {}
  PROVE  \E i \in {kAdded, kDeleted} :
           KqUpdateChannel(s, c)
           = Changed(s, Indexed(s.ch, c, i), s.channels \cup {c}, [s.old EXCEPT ![c] = s.ch[c].events],
                     With(s.kern, c, s.ch[c].events), s.pfds)
<1> DEFINE b == CASE s.ch[c].index = kNew -> c \notin s.channels
                  [] OTHER -> c \in s.channels /\ s.ch[c].index \in {kAdded, kDeleted}
           i == IF s.ch[c].index = kAdded /\ s.ch[c].events = {} THEN kDeleted ELSE kAdded
           u == KqUpdate(s, c)
<1>1. Asserted(s, b) = s
  <2>1. b
    BY Zenon
  <2> HIDE DEF b
  <2> QED
    BY <2>1, AssertedTrue, Zenon
<1>2. KqUpdateChannel(s, c) = setIndex(u, c, i)
  BY <1>1, Zenon DEF KqUpdateChannel
<1>3. i \in {kAdded, kDeleted}
  BY Zenon
<1>4. u = [s EXCEPT !.channels = @ \cup {c}, !.old = [@ EXCEPT ![c] = s.ch[c].events],
                    !.kern = With(@, c, s.ch[c].events)]
  BY KqUpdates, Zenon
<1>5. s.ok = TRUE
  BY Fields, Zenon
<1> HIDE DEF i, u, b
<1>6. setIndex(u, c, i) = Changed(s, Indexed(s.ch, c, i), s.channels \cup {c}, [s.old EXCEPT ![c] = s.ch[c].events],
                                  With(s.kern, c, s.ch[c].events), s.pfds)
  BY <1>4, <1>5, Zenon DEF setIndex, Indexed, Changed, States
<1> QED
  BY <1>2, <1>3, <1>6, Zenon

(* KQueue::removeChannel, and the end of the channel. *)
LEMMA KqRemoves ==
  ASSUME NEW s \in States, NEW c \in DOMAIN s.ch, s.ok, s.ch[c].index \in {kAdded, kDeleted},
         c \in s.channels, s.ch[c].events = {}, s.kind = "kqueue",
         c \in DOMAIN s.kern, s.kern[c] = {}, s.old[c] = {}
  PROVE  remove(s, c)
         = Changed(s, Without(s.ch, c), s.channels \ {c}, s.old, Without(s.kern, c), s.pfds)
<1> DEFINE u == IF s.ch[c].index = kAdded THEN KqUpdate(s, c) ELSE s
           v == [u EXCEPT !.channels = @ \ {c}, !.kern = IF @[c] = {} THEN Without(@, c) ELSE @]
           w == setIndex(v, c, kNew)
<1>1. Asserted(s, s.ch[c].events = {}) = s
  BY AssertedTrue, Zenon
<1>2. Asserted(s, c \in s.channels /\ s.ch[c].events = {} /\ s.ch[c].index \in {kAdded, kDeleted}) = s
  BY AssertedTrue, Zenon
<1>3. KqRemoveChannel(s, c) = w
  BY <1>2, Zenon DEF KqRemoveChannel
<1>4. KqUpdate(s, c) = s
  <2>1. KqUpdate(s, c) = [s EXCEPT !.channels = @ \cup {c}, !.old = [@ EXCEPT ![c] = {}],
                                   !.kern = With(@, c, {})]
    <3>1. (IF c \in s.channels THEN s.old[c] ELSE {}) = IF c \in DOMAIN s.kern THEN s.kern[c] ELSE {}
      BY Zenon
    <3>2. KqUpdate(s, c) = [s EXCEPT !.channels = @ \cup {c}, !.old = [@ EXCEPT ![c] = s.ch[c].events],
                                     !.kern = With(@, c, s.ch[c].events)]
      BY <3>1, KqUpdates, Zenon
    <3> QED
      BY <3>2, Zenon
  <2>2. s.channels \cup {c} = s.channels
    BY Zenon
  <2>3. [s.old EXCEPT ![c] = {}] = s.old
    BY Fields, ChannelFields, Zenon DEF MaskMaps
  <2>4. With(s.kern, c, {}) = s.kern
    <3>1. s.kern \in [DOMAIN s.kern -> SUBSET Mask]
      BY Fields, Tables, Zenon DEF MaskMaps
    <3> QED
      BY <3>1, SMTT(30) DEF With
  <2>5. KqUpdate(s, c) = [s EXCEPT !.channels = s.channels, !.old = s.old, !.kern = s.kern]
    BY <2>1, <2>2, <2>3, <2>4, Zenon
  <2> QED
    BY <2>5, Zenon DEF States
<1>5. u = s
  BY <1>4, Zenon
<1>6. v = [s EXCEPT !.channels = @ \ {c}, !.kern = Without(@, c)]
  BY <1>5, Zenon
<1> HIDE DEF v, u
<1>7. w = [s EXCEPT !.ch = Indexed(@, c, kNew), !.channels = @ \ {c}, !.kern = Without(@, c)]
  BY <1>6, Zenon DEF setIndex, Indexed, States
<1>8. remove(s, c) = [w EXCEPT !.ch = Without(@, c)]
  BY <1>1, <1>3, Zenon DEF remove
<1> HIDE DEF w
<1>9. w.ch = Indexed(s.ch, c, kNew)
  BY <1>7, Zenon DEF States
<1>10. Without(Indexed(s.ch, c, kNew), c) = Without(s.ch, c)
  BY Zenon DEF Without, Indexed
<1>11. remove(s, c) = [w EXCEPT !.ch = Without(s.ch, c)]
  BY <1>8, <1>9, <1>10, Zenon
<1>12. s.ok = TRUE
  BY Fields, Zenon
<1> QED
  BY <1>7, <1>11, <1>12, Zenon DEF Changed, States

(* PollPoller::updateChannel: an unknown channel gets a new entry, *)
Entry(s, c) == [fd |-> c, off |-> s.ch[c].events = {}, events |-> s.ch[c].events]

LEMMA PollAdds ==
  ASSUME NEW s \in States, NEW c \in DOMAIN s.ch, s.ok, s.ch[c].index = kNew, c \notin s.channels,
         s.ch[c].events # {}
  PROVE  PollUpdateChannel(s, c)
         = Changed(s, Indexed(s.ch, c, Len(s.pfds)), s.channels \cup {c}, s.old, s.kern,
                   Append(s.pfds, Entry(s, c)))
<1> DEFINE fresh == [s EXCEPT !.pfds = Append(@, [fd |-> c, off |-> FALSE, events |-> s.ch[c].events]),
                              !.channels = @ \cup {c}]
<1>1. Asserted(s, c \notin s.channels) = s
  BY AssertedTrue, Zenon
<1>2. s.ch[c].index < 0
  BY DEF kNew
<1>3. PollUpdateChannel(s, c) = setIndex(fresh, c, Len(s.pfds))
  BY <1>1, <1>2, Zenon DEF PollUpdateChannel
<1>4. (s.ch[c].events = {}) = FALSE
  BY Zenon
<1>5. Entry(s, c) = [fd |-> c, off |-> FALSE, events |-> s.ch[c].events]
  BY <1>4, Zenon DEF Entry
<1>6. fresh = [s EXCEPT !.pfds = Append(@, Entry(s, c)), !.channels = @ \cup {c}]
  BY <1>5, Zenon
<1>7. s.ok = TRUE
  BY Fields, Zenon
<1> HIDE DEF fresh
<1> QED
  BY <1>3, <1>6, <1>7, Zenon DEF setIndex, Indexed, Changed, States

(* ... and a known one has its entry replaced. *)
LEMMA PollModifies ==
  ASSUME NEW s \in States, NEW c \in DOMAIN s.ch, s.ok, InArray(s, c), c \in s.channels
  PROVE  PollUpdateChannel(s, c)
         = Changed(s, s.ch, s.channels, s.old, s.kern,
                   [s.pfds EXCEPT ![s.ch[c].index + 1] = Entry(s, c)])
<1> DEFINE i == s.ch[c].index
<1>1. i \in Int /\ ~(i < 0) /\ i < Len(s.pfds) /\ s.pfds[i + 1].fd = c
  BY ChannelFields DEF InArray
<1>2. Asserted(s, c \in s.channels /\ i < Len(s.pfds) /\ s.pfds[i + 1].fd = c) = s
  BY <1>1, AssertedTrue, Zenon
<1>3. PollUpdateChannel(s, c) = [s EXCEPT !.pfds[i + 1] = [fd |-> c, off |-> s.ch[c].events = {}, events |-> s.ch[c].events]]
  BY <1>1, <1>2, Zenon DEF PollUpdateChannel
<1>4. PollUpdateChannel(s, c) = [s EXCEPT !.pfds = [s.pfds EXCEPT ![i + 1] = Entry(s, c)]]
  BY <1>3, Zenon DEF Entry
<1>5. s.ok = TRUE
  BY Fields, Zenon
<1> HIDE DEF i
<1>6. PollUpdateChannel(s, c) = Changed(s, s.ch, s.channels, s.old, s.kern, [s.pfds EXCEPT ![i + 1] = Entry(s, c)])
  BY <1>4, <1>5, Zenon DEF Changed, States
<1> QED
  BY <1>6, Zenon DEF i

(* PollPoller::removeChannel: the last entry takes the place of the one that goes. *)
LEMMA PollRemoves ==
  ASSUME NEW s \in States, NEW c \in DOMAIN s.ch, s.ok, InArray(s, c), c \in s.channels,
         s.ch[c].events = {}, s.kind = "poll",
         s.pfds[s.ch[c].index + 1].off, s.pfds[s.ch[c].index + 1].events = {},
         s.pfds[Len(s.pfds)].fd \in DOMAIN s.ch
  PROVE  remove(s, c)
         = IF s.ch[c].index = Len(s.pfds) - 1
           THEN Changed(s, Without(s.ch, c), s.channels \ {c}, s.old, s.kern, pop_back(s.pfds))
           ELSE Changed(s, Without(Indexed(s.ch, s.pfds[Len(s.pfds)].fd, s.ch[c].index), c), s.channels \ {c},
                        s.old, s.kern,
                        pop_back([s.pfds EXCEPT ![s.ch[c].index + 1] = s.pfds[Len(s.pfds)]]))
<1> DEFINE i == s.ch[c].index
           n == Len(s.pfds)
           d == s.pfds[n].fd
           fine == c \in s.channels /\ s.ch[c].events = {} /\ i >= 0 /\ i < n
                   /\ s.pfds[i + 1].fd = c /\ s.pfds[i + 1].off /\ s.pfds[i + 1].events = {}
           t == [s EXCEPT !.channels = @ \ {c}]
           P == pop_back([s.pfds EXCEPT ![i + 1] = s.pfds[n]])
           u == IF i = n - 1 THEN [t EXCEPT !.pfds = pop_back(@)]
                ELSE setIndex([t EXCEPT !.pfds = pop_back([@ EXCEPT ![i + 1] = s.pfds[n]])], d, i)
<1>1. Asserted(s, s.ch[c].events = {}) = s
  BY AssertedTrue, Zenon
<1>2. i >= 0 /\ i < n /\ s.pfds[i + 1].fd = c
  BY ChannelFields DEF InArray
<1>3. fine
  BY <1>2, Zenon
<1>4. PollRemoveChannel(s, c) = u
  BY <1>3, Zenon DEF PollRemoveChannel
<1>5. remove(s, c) = [u EXCEPT !.ch = Without(@, c)]
  BY <1>1, <1>4, Zenon DEF remove
<1>6. s.ok = TRUE
  BY Fields, Zenon
<1>7. CASE i = n - 1
  <2>1. u = [s EXCEPT !.channels = @ \ {c}, !.pfds = pop_back(s.pfds)]
    <3>1. u = [t EXCEPT !.pfds = pop_back(@)]
      BY <1>7, Zenon
    <3> QED
      BY <3>1, Zenon DEF States
  <2> HIDE DEF u
  <2>2. u.ch = s.ch
    BY <2>1, Zenon DEF States
  <2>3. remove(s, c) = [u EXCEPT !.ch = Without(s.ch, c)]
    BY <1>5, <2>2, Zenon
  <2>4. remove(s, c) = Changed(s, Without(s.ch, c), s.channels \ {c}, s.old, s.kern, pop_back(s.pfds))
    BY <1>6, <2>1, <2>3, Zenon DEF Changed, States
  <2> QED
    BY <1>7, <2>4, Zenon
<1>8. CASE i # n - 1
  <2>1. t.pfds = s.pfds
    BY Zenon DEF States
  <2>2. u = setIndex([t EXCEPT !.pfds = P], d, i)
    BY <1>8, <2>1, Zenon
  <2> HIDE DEF u, P, d, i, n
  <2>3. u = [s EXCEPT !.channels = @ \ {c}, !.pfds = P, !.ch = Indexed(s.ch, d, i)]
    BY <2>2, Zenon DEF setIndex, Indexed, States
  <2>4. u.ch = Indexed(s.ch, d, i)
    BY <2>3, Zenon DEF States
  <2>5. remove(s, c) = [u EXCEPT !.ch = Without(Indexed(s.ch, d, i), c)]
    BY <1>5, <2>4, Zenon
  <2>6. remove(s, c) = Changed(s, Without(Indexed(s.ch, d, i), c), s.channels \ {c}, s.old, s.kern, P)
    BY <1>6, <2>3, <2>5, Zenon DEF Changed, States
  <2> QED
    BY <1>8, <2>6, Zenon DEF i, n, d, P
<1> QED
  BY <1>7, <1>8, Zenon

-----------------------------------------------------------------------------
(* The invariant after a change. *)

LEMMA TableEntry ==
  ASSUME NEW s \in States, NEW c \in DOMAIN s.ch
  PROVE  /\ With(s.kern, c, s.ch[c].events) \in MaskTables
         /\ DOMAIN With(s.kern, c, s.ch[c].events) = DOMAIN s.kern \cup {c}
         /\ With(s.kern, c, s.ch[c].events)[c] = s.ch[c].events
         /\ \A d \in DOMAIN s.kern \ {c} : With(s.kern, c, s.ch[c].events)[d] = s.kern[d]
<1> DEFINE v == s.ch[c].events
           K == With(s.kern, c, v)
<1>1. c \in Fds /\ v \in SUBSET Mask /\ DOMAIN s.kern \in SUBSET Fds /\ s.kern \in [DOMAIN s.kern -> SUBSET Mask]
  BY Fields, ChannelFields, Tables, Zenon DEF MaskMaps
<1> HIDE DEF v
<1>2. DOMAIN K = DOMAIN s.kern \cup {c} /\ K[c] = v /\ \A d \in DOMAIN s.kern \ {c} : K[d] = s.kern[d]
  BY Zenon DEF With
<1>3. K \in [DOMAIN K -> SUBSET Mask] /\ DOMAIN K \in SUBSET Fds
  BY <1>1, Zenon DEF With
<1> HIDE DEF K
<1>4. K \in MaskTables
  BY <1>3, Tables, Zenon DEF MaskMaps
<1> QED
  BY <1>2, <1>4, Zenon DEF K, v

LEMMA NoTableEntry ==
  ASSUME NEW s \in States, NEW c
  PROVE  /\ Without(s.kern, c) \in MaskTables /\ DOMAIN Without(s.kern, c) = DOMAIN s.kern \ {c}
         /\ \A d \in DOMAIN s.kern \ {c} : Without(s.kern, c)[d] = s.kern[d]
<1> DEFINE K == Without(s.kern, c)
<1>1. DOMAIN s.kern \in SUBSET Fds /\ s.kern \in [DOMAIN s.kern -> SUBSET Mask]
  BY Fields, Tables, Zenon DEF MaskMaps
<1>2. DOMAIN K = DOMAIN s.kern \ {c} /\ \A d \in DOMAIN s.kern \ {c} : K[d] = s.kern[d]
  BY Zenon DEF Without
<1>3. K \in [DOMAIN K -> SUBSET Mask] /\ DOMAIN K \in SUBSET Fds
  BY <1>1, Zenon DEF Without
<1> HIDE DEF K
<1>4. K \in MaskTables
  BY <1>3, Tables, Zenon DEF MaskMaps
<1> QED
  BY <1>2, <1>4, Zenon DEF K

LEMMA EpollMeans ==
  ASSUME NEW s \in States, s.kind = "epoll"
  PROVE  /\ ArrayKept(s) <=> s.pfds = <<>>
         /\ \A c : Registered(s, c) <=> c \in s.channels /\ InEpoll(s, c)
         /\ \A c : MaskKept(s, c) <=> s.ch[c].events = IF c \in DOMAIN s.kern THEN s.kern[c] ELSE {}
<1>1. "epoll" # "poll" /\ "epoll" # "kqueue"
  BY Zenon
<1>2. s.pfds = <<>> => 1 .. Len(s.pfds) = {}
  OBVIOUS
<1>3. ArrayKept(s) <=> s.pfds = <<>>
  BY <1>1, <1>2, Zenon DEF ArrayKept
<1> QED
  BY <1>1, <1>3, Zenon DEF Registered, MaskKept

(* What an update of channel c leaves. *)
Updated(s, t, c) ==
  /\ t \in States /\ Agreed(t) /\ t.kind = s.kind /\ DOMAIN t.ch = DOMAIN s.ch
  /\ t.ch[c].events = s.ch[c].events /\ (s.kind = "kqueue" => c \in DOMAIN t.kern)

(* The kinds with a table in the kernel: the other channels are as they were. *)
LEMMA EpollOthers ==
  ASSUME NEW s \in States, NEW c, Pending(s, c), s.kind = "epoll",
         NEW t \in States, t.kind = s.kind, t.ok, t.pfds = s.pfds, t.channels = s.channels \cup {c},
         DOMAIN t.ch = DOMAIN s.ch, \A d \in DOMAIN s.ch \ {c} : t.ch[d] = s.ch[d],
         DOMAIN t.kern \ {c} = DOMAIN s.kern \ {c}, \A d \in DOMAIN s.kern \ {c} : t.kern[d] = s.kern[d],
         InEpoll(t, c), t.ch[c].events = IF c \in DOMAIN t.kern THEN t.kern[c] ELSE {}
  PROVE  Agreed(t)
<1>1. c \in DOMAIN s.ch /\ s.pfds = <<>>
  BY EpollMeans, Zenon DEF Pending
<1>2. \A d \in DOMAIN s.ch \ {c} : Registered(t, d) /\ MaskKept(t, d)
  <2> SUFFICES ASSUME NEW d \in DOMAIN s.ch \ {c} PROVE Registered(t, d) /\ MaskKept(t, d)
    BY Zenon
  <2>1. d \in s.channels /\ InEpoll(s, d) /\ s.ch[d].events = IF d \in DOMAIN s.kern THEN s.kern[d] ELSE {}
    BY EpollMeans, Zenon DEF Pending
  <2>2. d \in DOMAIN t.kern <=> d \in DOMAIN s.kern
    BY Zenon
  <2>3. InEpoll(t, d) /\ d \in t.channels
    BY <2>1, <2>2, Zenon DEF InEpoll
  <2>4. t.ch[d].events = IF d \in DOMAIN t.kern THEN t.kern[d] ELSE {}
    BY <2>1, <2>2, Zenon
  <2> QED
    BY <2>3, <2>4, EpollMeans, Zenon
<1>3. Registered(t, c) /\ MaskKept(t, c)
  BY EpollMeans, Zenon
<1>4. \A d \in Fds \ DOMAIN t.ch : Forgotten(t, d)
  BY <1>1, Zenon DEF Pending, Forgotten
<1>5. ArrayKept(t)
  BY <1>1, EpollMeans, Zenon
<1> QED
  BY <1>2, <1>3, <1>4, <1>5, Zenon DEF Agreed

LEMMA EpollUpdateAgrees ==
  ASSUME NEW s \in States, NEW c, Pending(s, c), s.kind = "epoll"
  PROVE  Updated(s, EpollUpdateChannel(s, c), c)
<1> DEFINE t == EpollUpdateChannel(s, c)
           K == With(s.kern, c, s.ch[c].events)
<1>1. /\ c \in DOMAIN s.ch /\ s.ok /\ c \in Fds /\ s.ch[c].events \in SUBSET Mask
      /\ s.ch[c].index = kNew => Forgotten(s, c) /\ s.ch[c].events # {}
      /\ s.ch[c].index # kNew => c \in s.channels /\ InEpoll(s, c)
  <2>1. kNew \notin {kAdded, kDeleted}
    BY DEF kNew, kAdded, kDeleted
  <2>2. c \in DOMAIN s.ch /\ c \in Fds /\ s.ch[c].events \in SUBSET Mask
    BY ChannelFields, Zenon DEF Pending
  <2> QED
    BY <2>1, <2>2, EpollMeans, Zenon DEF Pending, InEpoll
<1>2. /\ kAdded \in Int /\ kDeleted \in Int /\ kNew \in Int
      /\ kAdded # kNew /\ kAdded # kDeleted /\ kDeleted # kNew
  BY DEF kNew, kAdded, kDeleted
<1>3. /\ s.ch \in ChannelTables /\ AreFds(s.channels) /\ s.old \in MaskMaps(Fds)
      /\ s.kern \in MaskTables /\ s.pfds \in Seq(Pfd)
  BY Fields, Zenon DEF AreFds
<1>4. /\ K \in MaskTables /\ DOMAIN K = DOMAIN s.kern \cup {c}
      /\ K[c] = s.ch[c].events /\ \A d \in DOMAIN s.kern \ {c} : K[d] = s.kern[d]
  BY <1>1, TableEntry, Zenon
<1>5. AreFds(s.channels \cup {c})
  BY <1>1, <1>3, Zenon DEF AreFds
<1>7. CASE s.ch[c].index \in {kNew, kDeleted}
  <2>1. c \notin DOMAIN s.kern /\ (s.ch[c].index = kNew <=> c \notin s.channels)
    BY <1>1, <1>2, <1>7, Zenon DEF Forgotten, InEpoll
  <2>2. t = Changed(s, Indexed(s.ch, c, kAdded), s.channels \cup {c}, s.old, K, s.pfds)
    BY <1>1, <1>7, <2>1, EpollAdds, Zenon
  <2>3. /\ DOMAIN Indexed(s.ch, c, kAdded) = DOMAIN s.ch
        /\ Indexed(s.ch, c, kAdded) \in ChannelTables
        /\ Indexed(s.ch, c, kAdded)[c].index = kAdded /\ Indexed(s.ch, c, kAdded)[c].events = s.ch[c].events
        /\ \A d \in DOMAIN s.ch \ {c} : Indexed(s.ch, c, kAdded)[d] = s.ch[d]
    BY <1>1, <1>2, NewIndex
  <2> HIDE DEF t, K
  <2>4. /\ t \in States /\ t.kind = s.kind /\ t.ch = Indexed(s.ch, c, kAdded) /\ t.channels = s.channels \cup {c}
        /\ t.kern = K /\ t.pfds = s.pfds /\ t.ok
    <3>1. Indexed(s.ch, c, kAdded) \in ChannelTables /\ K \in MaskTables
      BY <1>4, <2>3, Zenon
    <3> DEFINE H == Indexed(s.ch, c, kAdded)
               C == s.channels \cup {c}
    <3>2. H \in ChannelTables /\ AreFds(C) /\ t = Changed(s, H, C, s.old, K, s.pfds)
      BY <1>5, <2>2, <3>1, Zenon
    <3> HIDE DEF H, C
    <3>3. /\ t \in States /\ t.kind = s.kind /\ t.ch = H /\ t.channels = C
          /\ t.kern = K /\ t.pfds = s.pfds /\ t.ok
      BY <1>3, <3>1, <3>2, ChangedFields
    <3> QED
      BY <3>3, Zenon DEF H, C
  <2>5. InEpoll(t, c) /\ t.ch[c].events = IF c \in DOMAIN t.kern THEN t.kern[c] ELSE {}
    BY <1>4, <2>3, <2>4, Zenon DEF InEpoll
  <2>6. Agreed(t)
    BY <1>4, <2>3, <2>4, <2>5, EpollOthers, ZenonT(30)
  <2> QED
    BY <2>3, <2>4, <2>6, Zenon DEF Updated, t
<1>8. CASE s.ch[c].index \notin {kNew, kDeleted} /\ s.ch[c].events = {}
  <2>1. s.ch[c].index = kAdded /\ c \in s.channels /\ s.channels = s.channels \cup {c}
    BY <1>1, <1>2, <1>8, Zenon DEF InEpoll
  <2>2. t = Changed(s, Indexed(s.ch, c, kDeleted), s.channels, s.old, Without(s.kern, c), s.pfds)
    BY <1>1, <1>8, <2>1, EpollDeletes, Zenon
  <2>3. /\ DOMAIN Indexed(s.ch, c, kDeleted) = DOMAIN s.ch
        /\ Indexed(s.ch, c, kDeleted) \in ChannelTables
        /\ Indexed(s.ch, c, kDeleted)[c].index = kDeleted /\ Indexed(s.ch, c, kDeleted)[c].events = s.ch[c].events
        /\ \A d \in DOMAIN s.ch \ {c} : Indexed(s.ch, c, kDeleted)[d] = s.ch[d]
    BY <1>1, <1>2, NewIndex
  <2>4. /\ Without(s.kern, c) \in MaskTables /\ DOMAIN Without(s.kern, c) = DOMAIN s.kern \ {c}
        /\ \A d \in DOMAIN s.kern \ {c} : Without(s.kern, c)[d] = s.kern[d]
    BY NoTableEntry, Zenon
  <2> HIDE DEF t, K
  <2>5. /\ t \in States /\ t.kind = s.kind /\ t.ch = Indexed(s.ch, c, kDeleted) /\ t.channels = s.channels
        /\ t.kern = Without(s.kern, c) /\ t.pfds = s.pfds /\ t.ok
    BY <1>3, <1>5, <2>2, <2>3, <2>4, ChangedFields
  <2>6. InEpoll(t, c) /\ t.ch[c].events = IF c \in DOMAIN t.kern THEN t.kern[c] ELSE {}
    BY <1>2, <1>8, <2>3, <2>4, <2>5, Zenon DEF InEpoll
  <2>7. DOMAIN t.kern \ {c} = DOMAIN s.kern \ {c} /\ \A d \in DOMAIN s.kern \ {c} : t.kern[d] = s.kern[d]
    BY <2>4, <2>5, Zenon
  <2>8. Agreed(t)
    BY <2>1, <2>3, <2>5, <2>6, <2>7, EpollOthers, ZenonT(30)
  <2> QED
    BY <2>3, <2>5, <2>8, Zenon DEF Updated, t
<1>9. CASE s.ch[c].index \notin {kNew, kDeleted} /\ s.ch[c].events # {}
  <2>1. s.ch[c].index = kAdded /\ c \in s.channels /\ s.channels = s.channels \cup {c} /\ c \in DOMAIN s.kern
    BY <1>1, <1>2, <1>9, Zenon DEF InEpoll
  <2>2. t = Changed(s, s.ch, s.channels, s.old, K, s.pfds)
    BY <1>1, <1>9, <2>1, EpollModifies, Zenon
  <2> HIDE DEF t, K
  <2>3. /\ t \in States /\ t.kind = s.kind /\ t.ch = s.ch /\ t.channels = s.channels
        /\ t.kern = K /\ t.pfds = s.pfds /\ t.ok
    BY <1>3, <1>4, <1>5, <2>2, ChangedFields
  <2>4. InEpoll(t, c) /\ t.ch[c].events = IF c \in DOMAIN t.kern THEN t.kern[c] ELSE {}
    BY <1>4, <2>1, <2>3, Zenon DEF InEpoll
  <2>5. Agreed(t)
    BY <1>4, <2>1, <2>3, <2>4, EpollOthers, Zenon
  <2> QED
    BY <2>3, <2>5, Zenon DEF Updated, t
<1> QED
  BY <1>7, <1>8, <1>9, Zenon

-----------------------------------------------------------------------------
LEMMA NoChannel ==
  ASSUME NEW H \in ChannelTables, NEW c
  PROVE  /\ Without(H, c) \in ChannelTables /\ DOMAIN Without(H, c) = DOMAIN H \ {c}
         /\ \A d \in DOMAIN H \ {c} : Without(H, c)[d] = H[d]
<1> DEFINE K == Without(H, c)
<1>1. DOMAIN H \in SUBSET Fds /\ H \in [DOMAIN H -> Chan]
  BY Tables, Zenon
<1>2. DOMAIN K = DOMAIN H \ {c} /\ \A d \in DOMAIN H \ {c} : K[d] = H[d]
  BY Zenon DEF Without
<1>3. K \in [DOMAIN K -> Chan] /\ DOMAIN K \in SUBSET Fds
  BY <1>1, Zenon DEF Without
<1> HIDE DEF K
<1>4. K \in ChannelTables
  BY <1>3, Tables, Zenon
<1> QED
  BY <1>2, <1>4, Zenon DEF K

(* What the removal of channel c leaves. *)
Removed(s, t, c) ==
  t \in States /\ Agreed(t) /\ t.kind = s.kind /\ DOMAIN t.ch = DOMAIN s.ch \ {c}

LEMMA EpollRemoveAgrees ==
  ASSUME NEW s \in States, Agreed(s), NEW c \in DOMAIN s.ch, s.ch[c].events = {}, s.kind = "epoll"
  PROVE  Removed(s, remove(s, c), c)
<1> DEFINE t == remove(s, c)
           H == Without(s.ch, c)
           C == s.channels \ {c}
           K == IF s.ch[c].index = kAdded THEN Without(s.kern, c) ELSE s.kern
<1>1. s.ok /\ c \in s.channels /\ InEpoll(s, c) /\ s.pfds = <<>>
  BY EpollMeans, Zenon DEF Agreed
<1>2. t = Changed(s, H, C, s.old, K, s.pfds)
  BY <1>1, EpollRemoves, Zenon DEF InEpoll
<1>3. H \in ChannelTables /\ DOMAIN H = DOMAIN s.ch \ {c} /\ \A d \in DOMAIN s.ch \ {c} : H[d] = s.ch[d]
  BY Fields, NoChannel, Zenon
<1>4. K \in MaskTables /\ DOMAIN K = DOMAIN s.kern \ {c} /\ \A d \in DOMAIN s.kern \ {c} : K[d] = s.kern[d]
  <2>1. CASE s.ch[c].index = kAdded
    BY <2>1, NoTableEntry, Zenon
  <2>2. CASE s.ch[c].index # kAdded
    <3>1. K = s.kern /\ c \notin DOMAIN s.kern
      BY <1>1, <2>2, Zenon DEF InEpoll
    <3> QED
      BY <3>1, Fields, Zenon
  <2> QED
    BY <2>1, <2>2, Zenon
<1>5. AreFds(C) /\ s.old \in MaskMaps(Fds) /\ s.pfds \in Seq(Pfd)
  BY Fields, Zenon DEF AreFds
<1> HIDE DEF t, H, C, K
<1>6. t \in States /\ t.kind = s.kind /\ t.ch = H /\ t.channels = C /\ t.kern = K /\ t.pfds = s.pfds /\ t.ok
  <2>1. H \in ChannelTables /\ K \in MaskTables
    BY <1>3, <1>4, Zenon
  <2> QED
    BY <1>2, <1>5, <2>1, ChangedFields
<1>7. \A d \in DOMAIN t.ch : Registered(t, d) /\ MaskKept(t, d)
  <2> SUFFICES ASSUME NEW d \in DOMAIN t.ch PROVE Registered(t, d) /\ MaskKept(t, d)
    BY Zenon
  <2>1. d \in DOMAIN s.ch /\ d # c /\ t.ch[d] = s.ch[d]
    BY <1>3, <1>6, Zenon
  <2>2. d \in s.channels /\ InEpoll(s, d) /\ s.ch[d].events = IF d \in DOMAIN s.kern THEN s.kern[d] ELSE {}
    BY <2>1, EpollMeans, Zenon DEF Agreed
  <2>3. (d \in DOMAIN t.kern <=> d \in DOMAIN s.kern) /\ (d \in DOMAIN s.kern => t.kern[d] = s.kern[d])
    BY <1>4, <1>6, <2>1, Zenon
  <2>4. InEpoll(t, d) /\ d \in t.channels
    BY <1>6, <2>1, <2>2, <2>3, Zenon DEF InEpoll, C
  <2>5. t.ch[d].events = IF d \in DOMAIN t.kern THEN t.kern[d] ELSE {}
    BY <2>1, <2>2, <2>3, Zenon
  <2> QED
    BY <1>6, <2>4, <2>5, EpollMeans, Zenon
<1>8. \A d \in Fds \ DOMAIN t.ch : Forgotten(t, d)
  BY <1>3, <1>4, <1>6, Zenon DEF Agreed, Forgotten, C
<1>9. ArrayKept(t)
  BY <1>1, <1>6, EpollMeans, Zenon
<1> QED
  BY <1>3, <1>6, <1>7, <1>8, <1>9, Zenon DEF Removed, Agreed, t

LEMMA KqMeans ==
  ASSUME NEW s \in States, s.kind = "kqueue"
  PROVE  /\ ArrayKept(s) <=> s.pfds = <<>>
         /\ \A c : Registered(s, c) <=> c \in s.channels /\ InKqueue(s, c)
         /\ \A c : MaskKept(s, c) <=> s.ch[c].events = IF c \in DOMAIN s.kern THEN s.kern[c] ELSE {}
<1>1. "kqueue" # "poll" /\ "kqueue" # "epoll"
  BY Zenon
<1>2. s.pfds = <<>> => 1 .. Len(s.pfds) = {}
  OBVIOUS
<1>3. ArrayKept(s) <=> s.pfds = <<>>
  BY <1>1, <1>2, Zenon DEF ArrayKept
<1> QED
  BY <1>1, <1>3, Zenon DEF Registered, MaskKept

LEMMA KqUpdateAgrees ==
  ASSUME NEW s \in States, NEW c, Pending(s, c), s.kind = "kqueue"
  PROVE  Updated(s, KqUpdateChannel(s, c), c)
<1> DEFINE t == KqUpdateChannel(s, c)
           K == With(s.kern, c, s.ch[c].events)
           C == s.channels \cup {c}
           O == [s.old EXCEPT ![c] = s.ch[c].events]
<1>1. c \in DOMAIN s.ch /\ s.ok /\ s.pfds = <<>>
  BY KqMeans, Zenon DEF Pending
<1>2. c \in Fds /\ s.ch[c].events \in SUBSET Mask
  BY <1>1, ChannelFields, Zenon
<1>3. kNew \notin {kAdded, kDeleted} /\ kAdded \in Int /\ kDeleted \in Int
  BY DEF kNew, kAdded, kDeleted
<1>4. /\ IF s.ch[c].index = kNew THEN c \notin s.channels
         ELSE c \in s.channels /\ s.ch[c].index \in {kAdded, kDeleted}
      /\ (IF c \in s.channels THEN s.old[c] ELSE {}) = IF c \in DOMAIN s.kern THEN s.kern[c] ELSE {}
  <2>1. CASE Registered(s, c)
    <3>1. c \in s.channels /\ InKqueue(s, c)
      BY <2>1, KqMeans, Zenon
    <3> QED
      BY <1>3, <3>1, Zenon DEF InKqueue
  <2>2. CASE Forgotten(s, c) /\ s.ch[c].index = kNew
    BY <2>2, Zenon DEF Forgotten
  <2> QED
    BY <2>1, <2>2, Zenon DEF Pending
<1>5. PICK i \in {kAdded, kDeleted} : t = Changed(s, Indexed(s.ch, c, i), C, O, K, s.pfds)
  BY <1>1, <1>4, KqUpdatesChannel, Zenon
<1> DEFINE H == Indexed(s.ch, c, i)
<1>6. /\ H \in ChannelTables /\ DOMAIN H = DOMAIN s.ch /\ H[c].index = i /\ H[c].events = s.ch[c].events
      /\ \A d \in DOMAIN s.ch \ {c} : H[d] = s.ch[d]
  <2>1. i \in Int
    BY <1>3, Zenon
  <2> QED
    BY <1>1, <2>1, NewIndex
<1>7. /\ K \in MaskTables /\ DOMAIN K = DOMAIN s.kern \cup {c}
      /\ K[c] = s.ch[c].events /\ \A d \in DOMAIN s.kern \ {c} : K[d] = s.kern[d]
  BY <1>1, TableEntry, Zenon
<1>8. O \in MaskMaps(Fds) /\ O[c] = s.ch[c].events /\ \A d \in DOMAIN s.ch \ {c} : O[d] = s.old[d]
  BY <1>2, Fields DEF MaskMaps
<1>9. AreFds(C) /\ s.pfds \in Seq(Pfd)
  BY <1>2, Fields, Zenon DEF AreFds
<1> HIDE DEF t, K, C, O, H
<1>10. /\ t \in States /\ t.kind = s.kind /\ t.ch = H /\ t.channels = C /\ t.old = O /\ t.kern = K
       /\ t.pfds = s.pfds /\ t.ok
  <2>1. H \in ChannelTables /\ K \in MaskTables /\ O \in MaskMaps(Fds) /\ t = Changed(s, H, C, O, K, s.pfds)
    BY <1>5, <1>6, <1>7, <1>8, Zenon DEF H
  <2> QED
    BY <1>9, <2>1, ChangedFields
<1>11. Registered(t, c) /\ MaskKept(t, c)
  <2>1. c \in t.channels
    BY <1>10, Zenon DEF C
  <2>2. InKqueue(t, c) /\ t.ch[c].events = IF c \in DOMAIN t.kern THEN t.kern[c] ELSE {}
    BY <1>6, <1>7, <1>8, <1>10, Zenon DEF InKqueue
  <2> QED
    BY <1>10, <2>1, <2>2, KqMeans, Zenon
<1>12. \A d \in DOMAIN t.ch \ {c} : Registered(t, d) /\ MaskKept(t, d)
  <2> SUFFICES ASSUME NEW d \in DOMAIN t.ch \ {c} PROVE Registered(t, d) /\ MaskKept(t, d)
    BY Zenon
  <2>1. d \in DOMAIN s.ch /\ d # c /\ t.ch[d] = s.ch[d] /\ t.old[d] = s.old[d]
    BY <1>6, <1>8, <1>10, Zenon
  <2>2. d \in s.channels /\ InKqueue(s, d) /\ s.ch[d].events = IF d \in DOMAIN s.kern THEN s.kern[d] ELSE {}
    BY <2>1, KqMeans, Zenon DEF Pending
  <2>3. (d \in DOMAIN t.kern <=> d \in DOMAIN s.kern) /\ (d \in DOMAIN s.kern => t.kern[d] = s.kern[d])
    BY <1>7, <1>10, <2>1, Zenon
  <2>4. InKqueue(t, d) /\ d \in t.channels
    BY <1>10, <2>1, <2>2, <2>3, Zenon DEF InKqueue, C
  <2>5. t.ch[d].events = IF d \in DOMAIN t.kern THEN t.kern[d] ELSE {}
    BY <2>1, <2>2, <2>3, Zenon
  <2> QED
    BY <1>10, <2>4, <2>5, KqMeans, Zenon
<1>13. \A d \in Fds \ DOMAIN t.ch : Forgotten(t, d)
  BY <1>1, <1>6, <1>7, <1>10, ZenonT(30) DEF Pending, Forgotten, C
<1>14. ArrayKept(t)
  BY <1>1, <1>10, KqMeans, Zenon
<1>15. Agreed(t)
  BY <1>10, <1>11, <1>12, <1>13, <1>14, Zenon DEF Agreed
<1> QED
  BY <1>6, <1>7, <1>10, <1>15, Zenon DEF Updated, t

LEMMA KqRemoveAgrees ==
  ASSUME NEW s \in States, Agreed(s), NEW c \in DOMAIN s.ch, s.ch[c].events = {}, s.kind = "kqueue",
         c \in DOMAIN s.kern
  PROVE  Removed(s, remove(s, c), c)
<1> DEFINE t == remove(s, c)
           H == Without(s.ch, c)
           C == s.channels \ {c}
           K == Without(s.kern, c)
<1>1. s.ok /\ c \in s.channels /\ InKqueue(s, c) /\ s.pfds = <<>> /\ s.kern[c] = {}
  BY KqMeans, Zenon DEF Agreed
<1>2. t = Changed(s, H, C, s.old, K, s.pfds)
  BY <1>1, KqRemoves, Zenon DEF InKqueue
<1>3. H \in ChannelTables /\ DOMAIN H = DOMAIN s.ch \ {c} /\ \A d \in DOMAIN s.ch \ {c} : H[d] = s.ch[d]
  BY Fields, NoChannel, Zenon
<1>4. K \in MaskTables /\ DOMAIN K = DOMAIN s.kern \ {c} /\ \A d \in DOMAIN s.kern \ {c} : K[d] = s.kern[d]
  BY NoTableEntry, Zenon
<1>5. AreFds(C) /\ s.old \in MaskMaps(Fds) /\ s.pfds \in Seq(Pfd)
  BY Fields, Zenon DEF AreFds
<1> HIDE DEF t, H, C, K
<1>6. /\ t \in States /\ t.kind = s.kind /\ t.ch = H /\ t.channels = C /\ t.kern = K /\ t.pfds = s.pfds /\ t.ok
      /\ t.old = s.old
  <2>1. H \in ChannelTables /\ K \in MaskTables
    BY <1>3, <1>4, Zenon
  <2> QED
    BY <1>2, <1>5, <2>1, ChangedFields
<1>7. \A d \in DOMAIN t.ch : Registered(t, d) /\ MaskKept(t, d)
  <2> SUFFICES ASSUME NEW d \in DOMAIN t.ch PROVE Registered(t, d) /\ MaskKept(t, d)
    BY Zenon
  <2>1. d \in DOMAIN s.ch /\ d # c /\ t.ch[d] = s.ch[d]
    BY <1>3, <1>6, Zenon
  <2>2. d \in s.channels /\ InKqueue(s, d) /\ s.ch[d].events = IF d \in DOMAIN s.kern THEN s.kern[d] ELSE {}
    BY <2>1, KqMeans, Zenon DEF Agreed
  <2>3. (d \in DOMAIN t.kern <=> d \in DOMAIN s.kern) /\ (d \in DOMAIN s.kern => t.kern[d] = s.kern[d])
    BY <1>4, <1>6, <2>1, Zenon
  <2>4. InKqueue(t, d) /\ d \in t.channels
    BY <1>6, <2>1, <2>2, <2>3, Zenon DEF InKqueue, C
  <2>5. t.ch[d].events = IF d \in DOMAIN t.kern THEN t.kern[d] ELSE {}
    BY <2>1, <2>2, <2>3, Zenon
  <2> QED
    BY <1>6, <2>4, <2>5, KqMeans, Zenon
<1>8. \A d \in Fds \ DOMAIN t.ch : Forgotten(t, d)
  BY <1>3, <1>4, <1>6, Zenon DEF Agreed, Forgotten, C
<1>9. ArrayKept(t)
  BY <1>1, <1>6, KqMeans, Zenon
<1> QED
  BY <1>3, <1>6, <1>7, <1>8, <1>9, Zenon DEF Removed, Agreed, t

-----------------------------------------------------------------------------
(* KQueue::resetAfterFork puts the channels that watch into the new kqueue. *)
LEMMA ForkAgrees ==
  ASSUME NEW s \in States, Agreed(s), s.kind = "kqueue"
  PROVE  /\ resetAfterFork(s) \in States /\ Agreed(resetAfterFork(s))
         /\ resetAfterFork(s).kind = s.kind /\ resetAfterFork(s).ch = s.ch
<1> DEFINE t == resetAfterFork(s)
           K == [c \in {d \in s.channels : s.ch[d].events # {}} |-> s.ch[c].events]
           O == [c \in Fds |-> IF c \in s.channels THEN s.ch[c].events ELSE s.old[c]]
<1>1. s.ok = TRUE /\ s.pfds = <<>> /\ s.channels = DOMAIN s.ch
  <2>1. s.ok /\ s.ok \in BOOLEAN /\ s.pfds = <<>>
    BY Fields, KqMeans, Zenon DEF Agreed
  <2>2. s.channels \subseteq DOMAIN s.ch
    BY Fields, Zenon DEF Agreed, Forgotten
  <2>3. DOMAIN s.ch \subseteq s.channels
    BY KqMeans, Zenon DEF Agreed
  <2> QED
    BY <2>1, <2>2, <2>3, Zenon
<1>2. t = [s EXCEPT !.kern = K, !.old = O]
  BY Zenon DEF resetAfterFork
<1>3. /\ K \in MaskTables /\ DOMAIN K = {d \in DOMAIN s.ch : s.ch[d].events # {}}
      /\ \A d \in DOMAIN K : K[d] = s.ch[d].events
  <2>1. \A d \in DOMAIN s.ch : d \in Fds /\ s.ch[d].events \in SUBSET Mask
    BY ChannelFields, Zenon
  <2>2. DOMAIN K = {d \in DOMAIN s.ch : s.ch[d].events # {}} /\ \A d \in DOMAIN K : K[d] = s.ch[d].events
    BY <1>1, Zenon
  <2>3. DOMAIN K \in SUBSET Fds /\ K \in [DOMAIN K -> SUBSET Mask]
    BY <1>1, <2>1, Zenon
  <2> HIDE DEF K
  <2> QED
    BY <2>2, <2>3, Tables, Zenon DEF MaskMaps
<1>4. O \in MaskMaps(Fds) /\ \A d \in DOMAIN s.ch : O[d] = s.ch[d].events
  <2>1. \A d \in DOMAIN s.ch : d \in Fds /\ s.ch[d].events \in SUBSET Mask
    BY ChannelFields, Zenon
  <2>2. s.old \in [Fds -> SUBSET Mask]
    BY Fields, Zenon DEF MaskMaps
  <2>3. O \in [Fds -> SUBSET Mask]
    BY <1>1, <2>1, <2>2
  <2> QED
    BY <1>1, <2>1, <2>3, Zenon DEF MaskMaps
<1> HIDE DEF t, K, O
<1>5. t = Changed(s, s.ch, s.channels, O, K, s.pfds)
  BY <1>1, <1>2, Zenon DEF Changed, States
<1>6. /\ t \in States /\ t.kind = s.kind /\ t.ch = s.ch /\ t.channels = s.channels /\ t.old = O
      /\ t.kern = K /\ t.pfds = s.pfds /\ t.ok
  <2>1. /\ s.ch \in ChannelTables /\ AreFds(s.channels) /\ O \in MaskMaps(Fds) /\ K \in MaskTables
        /\ s.pfds \in Seq(Pfd)
    BY <1>3, <1>4, Fields, Zenon DEF AreFds
  <2> QED
    BY <1>5, <2>1, ChangedFields
<1>7. \A d \in DOMAIN t.ch : Registered(t, d) /\ MaskKept(t, d)
  <2> SUFFICES ASSUME NEW d \in DOMAIN t.ch PROVE Registered(t, d) /\ MaskKept(t, d)
    BY Zenon
  <2>1. d \in DOMAIN s.ch /\ d \in s.channels /\ InKqueue(s, d)
    BY <1>6, KqMeans, Zenon DEF Agreed
  <2>2. s.ch[d].events = IF d \in DOMAIN K THEN K[d] ELSE {}
    BY <1>3, <2>1, Zenon
  <2>3. InKqueue(t, d)
    BY <1>4, <1>6, <2>1, <2>2, Zenon DEF InKqueue
  <2> QED
    BY <1>6, <2>1, <2>2, <2>3, KqMeans, Zenon
<1>8. \A d \in Fds \ DOMAIN t.ch : Forgotten(t, d)
  BY <1>1, <1>3, <1>6, Zenon DEF Forgotten
<1>9. ArrayKept(t)
  BY <1>1, <1>6, KqMeans, Zenon
<1> QED
  BY <1>6, <1>7, <1>8, <1>9, Zenon DEF Agreed, t

-----------------------------------------------------------------------------
EntryKept(s, i) ==
  /\ s.pfds[i].fd \in DOMAIN s.ch /\ s.ch[s.pfds[i].fd].index = i - 1
  /\ s.pfds[i].off <=> s.pfds[i].events = {}

LEMMA PollMeans ==
  ASSUME NEW s \in States, s.kind = "poll"
  PROVE  /\ ArrayKept(s) <=> DOMAIN s.kern = {} /\ \A i \in 1 .. Len(s.pfds) : EntryKept(s, i)
         /\ \A c : Registered(s, c) <=> c \in s.channels /\ InArray(s, c)
         /\ \A c : MaskKept(s, c) <=> s.pfds[s.ch[c].index + 1].events = s.ch[c].events
<1>1. "kqueue" # "poll" /\ "poll" # "epoll"
  BY Zenon
<1>3. ArrayKept(s) <=> DOMAIN s.kern = {} /\ \A i \in 1 .. Len(s.pfds) : EntryKept(s, i)
  BY <1>1, Zenon DEF ArrayKept, EntryKept
<1> QED
  BY <1>1, <1>3, Zenon DEF Registered, MaskKept

(* Channel d has the entry at its place, with its mask. *)
HasEntry(s, d) == InArray(s, d) /\ s.pfds[s.ch[d].index + 1].events = s.ch[d].events

(* The invariant of PollPoller, in one piece. *)
LEMMA PollAgreed ==
  ASSUME NEW s \in States, s.kind = "poll"
  PROVE  Agreed(s) <=> /\ s.ok /\ DOMAIN s.kern = {}
                       /\ \A i \in 1 .. Len(s.pfds) : EntryKept(s, i)
                       /\ \A d \in DOMAIN s.ch : d \in s.channels /\ HasEntry(s, d)
                       /\ \A d \in Fds \ DOMAIN s.ch : d \notin s.channels
BY PollMeans, Zenon DEF Agreed, Forgotten, HasEntry

LEMMA EntryFields ==
  ASSUME NEW s \in States, NEW c \in DOMAIN s.ch
  PROVE  /\ Entry(s, c) \in Pfd /\ Entry(s, c).fd = c /\ Entry(s, c).events = s.ch[c].events
         /\ Entry(s, c).off <=> Entry(s, c).events = {}
<1>1. c \in Fds /\ s.ch[c].events \in SUBSET Mask /\ (s.ch[c].events = {}) \in BOOLEAN
  BY ChannelFields, Zenon
<1>2. /\ Entry(s, c).fd = c /\ Entry(s, c).events = s.ch[c].events
      /\ Entry(s, c).off = (s.ch[c].events = {})
  BY Zenon DEF Entry
<1>3. Entry(s, c) \in Pfd
  BY <1>1, Zenon DEF Entry, Pfd
<1> QED
  BY <1>2, <1>3, Zenon

(* A new entry at the end of the array. *)
LEMMA ArrayGrows ==
  ASSUME NEW s \in States, NEW t \in States, NEW c \in DOMAIN s.ch, s.ch[c].index = kNew,
         \A i \in 1 .. Len(s.pfds) : EntryKept(s, i), \A d \in DOMAIN s.ch \ {c} : HasEntry(s, d),
         t.ch = Indexed(s.ch, c, Len(s.pfds)), t.pfds = Append(s.pfds, Entry(s, c))
  PROVE  /\ \A i \in 1 .. Len(t.pfds) : EntryKept(t, i)
         /\ \A d \in DOMAIN t.ch : HasEntry(t, d)
<1> DEFINE n == Len(s.pfds)
<1>1. n \in Nat /\ Len(t.pfds) = n + 1 /\ t.pfds[n + 1] = Entry(s, c) /\ \A i \in 1 .. n : t.pfds[i] = s.pfds[i]
  BY Fields
<1>2. /\ DOMAIN t.ch = DOMAIN s.ch /\ t.ch[c].index = n /\ t.ch[c].events = s.ch[c].events
      /\ \A d \in DOMAIN s.ch \ {c} : t.ch[d] = s.ch[d]
  BY <1>1, NewIndex
<1>3. /\ Entry(s, c).fd = c /\ Entry(s, c).events = s.ch[c].events
      /\ Entry(s, c).off <=> Entry(s, c).events = {}
  BY EntryFields, Zenon
<1> HIDE DEF n
<1>4. ASSUME NEW i \in 1 .. Len(t.pfds) PROVE EntryKept(t, i)
  <2>1. CASE i = n + 1
    <3>1. t.pfds[i].fd \in DOMAIN t.ch /\ (t.pfds[i].off <=> t.pfds[i].events = {}) /\ t.ch[t.pfds[i].fd].index = n
      BY <1>1, <1>2, <1>3, <2>1, Zenon
    <3>2. n = i - 1
      BY <1>1, <2>1
    <3> QED
      BY <3>1, <3>2, Zenon DEF EntryKept
  <2>2. CASE i # n + 1
    <3>1. i \in 1 .. n
      BY <1>1, <2>2
    <3>2. EntryKept(s, i) /\ t.pfds[i] = s.pfds[i]
      BY <1>1, <3>1, Zenon DEF n
    <3>3. s.ch[s.pfds[i].fd].index # kNew
      BY <3>1, <3>2, <1>1 DEF EntryKept, kNew
    <3>4. s.pfds[i].fd # c
      BY <3>3, Zenon
    <3> QED
      BY <1>2, <3>2, <3>4, ZenonT(30) DEF EntryKept
  <2> QED
    BY <2>1, <2>2, Zenon
<1>5. ASSUME NEW d \in DOMAIN t.ch PROVE HasEntry(t, d)
  <2>1. CASE d = c
    <3>1. n \in 0 .. Len(t.pfds) - 1
      BY <1>1
    <3> QED
      BY <1>1, <1>2, <1>3, <2>1, <3>1, Zenon DEF HasEntry, InArray
  <2>2. CASE d # c
    <3>1. t.ch[d] = s.ch[d] /\ HasEntry(s, d)
      BY <1>2, <2>2, Zenon
    <3>2. s.ch[d].index \in 0 .. n - 1
      BY <3>1, Zenon DEF HasEntry, InArray, n
    <3>3. s.ch[d].index \in 0 .. Len(t.pfds) - 1 /\ s.ch[d].index + 1 \in 1 .. n
      BY <1>1, <3>2, SMTT(30)
    <3>4. t.pfds[s.ch[d].index + 1] = s.pfds[s.ch[d].index + 1]
      BY <1>1, <3>3, Zenon
    <3> QED
      BY <3>1, <3>3, <3>4, Zenon DEF HasEntry, InArray
  <2> QED
    BY <2>1, <2>2, Zenon
<1> QED
  BY <1>4, <1>5, Zenon

(* Another entry in its place. *)
LEMMA ArrayChanges ==
  ASSUME NEW s \in States, NEW t \in States, NEW c \in DOMAIN s.ch, InArray(s, c),
         \A i \in 1 .. Len(s.pfds) : EntryKept(s, i), \A d \in DOMAIN s.ch \ {c} : HasEntry(s, d),
         t.ch = s.ch, t.pfds = [s.pfds EXCEPT ![s.ch[c].index + 1] = Entry(s, c)]
  PROVE  /\ \A i \in 1 .. Len(t.pfds) : EntryKept(t, i)
         /\ \A d \in DOMAIN t.ch : HasEntry(t, d)
<1> DEFINE n == Len(s.pfds)
           k == s.ch[c].index
<1>1. n \in Nat /\ k \in 0 .. n - 1 /\ s.pfds[k + 1].fd = c /\ k + 1 \in 1 .. n
  BY Fields, ChannelFields DEF InArray
<1>2. Len(t.pfds) = n /\ t.pfds[k + 1] = Entry(s, c) /\ \A i \in 1 .. n : i # k + 1 => t.pfds[i] = s.pfds[i]
  <2> HIDE DEF k
  <2>1. t.pfds = [s.pfds EXCEPT ![k + 1] = Entry(s, c)]
    BY Zenon DEF k
  <2> QED
    BY <1>1, <2>1, Fields
<1>3. /\ Entry(s, c).fd = c /\ Entry(s, c).events = s.ch[c].events
      /\ Entry(s, c).off <=> Entry(s, c).events = {}
  BY EntryFields, Zenon
<1> HIDE DEF n, k
<1>4. ASSUME NEW i \in 1 .. Len(t.pfds) PROVE EntryKept(t, i)
  <2>1. CASE i = k + 1
    <3>1. t.pfds[i].fd \in DOMAIN t.ch /\ (t.pfds[i].off <=> t.pfds[i].events = {}) /\ t.ch[t.pfds[i].fd].index = k
      <4>1. t.pfds[i] = Entry(s, c)
        BY <1>2, <2>1, Zenon
      <4>2. t.pfds[i].fd = c /\ (t.pfds[i].off <=> t.pfds[i].events = {})
        BY <1>3, <4>1, Zenon
      <4> QED
        BY <4>2, Zenon DEF k
    <3>2. k = i - 1
      BY <1>1, <2>1
    <3> QED
      BY <3>1, <3>2, Zenon DEF EntryKept
  <2>2. CASE i # k + 1
    <3>1. EntryKept(s, i) /\ t.pfds[i] = s.pfds[i]
      BY <1>2, <2>2, Zenon DEF n
    <3> QED
      BY <3>1, Zenon DEF EntryKept
  <2> QED
    BY <2>1, <2>2, Zenon
<1>5. ASSUME NEW d \in DOMAIN t.ch PROVE HasEntry(t, d)
  <2>1. CASE d = c
    <3>1. k \in 0 .. Len(t.pfds) - 1
      BY <1>1, <1>2
    <3>2. t.ch[d].index = k /\ t.pfds[k + 1].fd = d /\ t.pfds[k + 1].events = t.ch[d].events
      BY <1>2, <1>3, <2>1, Zenon DEF k
    <3> QED
      BY <3>1, <3>2, Zenon DEF HasEntry, InArray
  <2>2. CASE d # c
    <3>1. HasEntry(s, d) /\ d \in DOMAIN s.ch
      BY <2>2, Zenon
    <3>2. s.ch[d].index \in 0 .. n - 1 /\ s.pfds[s.ch[d].index + 1].fd = d
      BY <3>1, Zenon DEF HasEntry, InArray, n
    <3>3. s.ch[d].index + 1 # k + 1
      BY <1>1, <2>2, <3>2, Zenon
    <3>4. s.ch[d].index + 1 \in 1 .. n
      BY <1>1, <3>2
    <3>5. t.pfds[s.ch[d].index + 1] = s.pfds[s.ch[d].index + 1]
      BY <1>2, <3>3, <3>4, Zenon
    <3> QED
      BY <1>2, <3>1, <3>5, Zenon DEF HasEntry, InArray, n
  <2> QED
    BY <2>1, <2>2, Zenon
<1> QED
  BY <1>4, <1>5, Zenon

-----------------------------------------------------------------------------
LEMMA PollUpdateAgrees ==
  ASSUME NEW s \in States, NEW c, Pending(s, c), s.kind = "poll"
  PROVE  Updated(s, PollUpdateChannel(s, c), c)
<1> DEFINE t == PollUpdateChannel(s, c)
<1>1. /\ c \in DOMAIN s.ch /\ s.ok /\ DOMAIN s.kern = {} /\ \A i \in 1 .. Len(s.pfds) : EntryKept(s, i)
      /\ \A d \in DOMAIN s.ch \ {c} : d \in s.channels /\ HasEntry(s, d)
      /\ \A d \in Fds \ DOMAIN s.ch : d \notin s.channels
  BY PollMeans, Zenon DEF Pending, Forgotten, HasEntry
<1>2. c \in Fds /\ Entry(s, c) \in Pfd
  BY <1>1, ChannelFields, EntryFields, Zenon
<1>3. /\ s.ch \in ChannelTables /\ AreFds(s.channels) /\ AreFds(s.channels \cup {c}) /\ s.old \in MaskMaps(Fds)
      /\ s.kern \in MaskTables /\ s.pfds \in Seq(Pfd)
  BY <1>2, Fields, Zenon DEF AreFds
<1>4. CASE Registered(s, c)
  <2>1. c \in s.channels /\ InArray(s, c)
    BY <1>4, PollMeans, Zenon
  <2> DEFINE P == [s.pfds EXCEPT ![s.ch[c].index + 1] = Entry(s, c)]
  <2>2. t = Changed(s, s.ch, s.channels, s.old, s.kern, P)
    BY <1>1, <2>1, PollModifies, Zenon
  <2>3. P \in Seq(Pfd)
    <3>1. s.ch[c].index + 1 \in 1 .. Len(s.pfds)
      BY <1>1, <1>3, <2>1, ChannelFields DEF InArray
    <3> QED
      BY <1>2, <1>3, <3>1
  <2> HIDE DEF t, P
  <2>4. /\ t \in States /\ t.kind = s.kind /\ t.ch = s.ch /\ t.channels = s.channels /\ t.kern = s.kern
        /\ t.pfds = P /\ t.ok
    BY <1>3, <2>2, <2>3, ChangedFields
  <2>5. (\A i \in 1 .. Len(t.pfds) : EntryKept(t, i)) /\ \A d \in DOMAIN t.ch : HasEntry(t, d)
    BY <1>1, <2>1, <2>4, ArrayChanges, Zenon DEF P
  <2>6. Agreed(t)
    BY <1>1, <2>1, <2>4, <2>5, PollAgreed, Zenon
  <2> QED
    BY <2>4, <2>6, Zenon DEF Updated, t
<1>5. CASE Forgotten(s, c) /\ s.ch[c].index = kNew /\ s.ch[c].events # {}
  <2> DEFINE P == Append(s.pfds, Entry(s, c))
             H == Indexed(s.ch, c, Len(s.pfds))
             C == s.channels \cup {c}
  <2>1. t = Changed(s, H, C, s.old, s.kern, P)
    <3>1. c \in DOMAIN s.ch /\ s.ok
      BY <1>1, Zenon
    <3>2. c \notin s.channels /\ s.ch[c].index = kNew /\ s.ch[c].events # {}
      BY <1>5, Zenon DEF Forgotten
    <3> QED
      BY <3>1, <3>2, PollAdds, Zenon
  <2>2. P \in Seq(Pfd) /\ Len(s.pfds) \in Int
    <3>1. Entry(s, c) \in Pfd /\ s.pfds \in Seq(Pfd)
      BY <1>2, <1>3, Zenon
    <3> QED
      BY <3>1
  <2>3. H \in ChannelTables /\ DOMAIN H = DOMAIN s.ch /\ H[c].events = s.ch[c].events
    <3>1. c \in DOMAIN s.ch /\ Len(s.pfds) \in Int
      BY <1>1, <2>2, Zenon
    <3> QED
      BY <3>1, NewIndex, ZenonT(30)
  <2>4. AreFds(C)
    BY <1>3, Zenon
  <2> HIDE DEF t, P, H, C
  <2>5. /\ t \in States /\ t.kind = s.kind /\ t.ch = H /\ t.channels = C /\ t.kern = s.kern
        /\ t.pfds = P /\ t.ok
    BY <1>3, <2>1, <2>2, <2>3, <2>4, ChangedFields
  <2>6. (\A i \in 1 .. Len(t.pfds) : EntryKept(t, i)) /\ \A d \in DOMAIN t.ch : HasEntry(t, d)
    BY <1>1, <1>5, <2>5, ArrayGrows, Zenon DEF P, H
  <2>7. Agreed(t)
    BY <1>1, <2>3, <2>5, <2>6, PollAgreed, Zenon DEF C
  <2> QED
    BY <2>3, <2>5, <2>7, Zenon DEF Updated, t
<1> QED
  BY <1>4, <1>5, Zenon DEF Pending

LEMMA PoppedBack ==
  ASSUME NEW S, NEW q \in Seq(S), Len(q) > 0
  PROVE  pop_back(q) \in Seq(S) /\ Len(pop_back(q)) = Len(q) - 1 /\ \A i \in 1 .. Len(q) - 1 : pop_back(q)[i] = q[i]
<1> DEFINE n == Len(q) - 1
<1>1. 1 \in Int /\ n \in Nat /\ n = Len(q) - 1 /\ \A i \in 1 .. n : q[i] \in S
  OBVIOUS
<1> HIDE DEF n
<1>2. /\ SubSeq(q, 1, n) \in Seq(S) /\ Len(SubSeq(q, 1, n)) = IF 1 <= n THEN n - 1 + 1 ELSE 0
      /\ \A i \in 1 .. n - 1 + 1 : SubSeq(q, 1, n)[i] = q[1 + i - 1]
  BY <1>1, SubSeqProperties
<1>3. Len(SubSeq(q, 1, n)) = n
  BY <1>1, <1>2
<1>4. \A i \in 1 .. n : SubSeq(q, 1, n)[i] = q[i]
  BY <1>1, <1>2
<1> QED
  BY <1>1, <1>2, <1>3, <1>4, Zenon DEF pop_back

(* The last entry goes. *)
LEMMA ArrayShrinks ==
  ASSUME NEW s \in States, NEW t \in States, NEW c \in DOMAIN s.ch, s.ch[c].index = Len(s.pfds) - 1,
         \A i \in 1 .. Len(s.pfds) : EntryKept(s, i), \A d \in DOMAIN s.ch : HasEntry(s, d),
         t.ch = Without(s.ch, c), t.pfds = pop_back(s.pfds)
  PROVE  /\ \A i \in 1 .. Len(t.pfds) : EntryKept(t, i)
         /\ \A d \in DOMAIN t.ch : HasEntry(t, d)
<1> DEFINE n == Len(s.pfds)
<1>1. n \in Nat /\ n > 0 /\ s.pfds \in Seq(Pfd) /\ s.pfds[n].fd = c
  <2>1. HasEntry(s, c)
    BY Zenon
  <2>2. n \in Nat /\ s.pfds \in Seq(Pfd)
    BY Fields
  <2>3. n - 1 \in 0 .. n - 1 /\ s.pfds[(n - 1) + 1].fd = c
    BY <2>1, Zenon DEF HasEntry, InArray
  <2> QED
    BY <2>2, <2>3
<1>2. Len(t.pfds) = n - 1 /\ \A i \in 1 .. n - 1 : t.pfds[i] = s.pfds[i]
  <2>1. s.pfds \in Seq(Pfd) /\ Len(s.pfds) > 0
    BY <1>1, Zenon
  <2>2. Len(pop_back(s.pfds)) = n - 1 /\ \A i \in 1 .. n - 1 : pop_back(s.pfds)[i] = s.pfds[i]
    BY <2>1, PoppedBack, Zenon
  <2> QED
    BY <2>2, Zenon
<1>3. DOMAIN t.ch = DOMAIN s.ch \ {c} /\ \A d \in DOMAIN s.ch \ {c} : t.ch[d] = s.ch[d]
  <2>1. s.ch \in ChannelTables
    BY Fields, Zenon
  <2>2. DOMAIN Without(s.ch, c) = DOMAIN s.ch \ {c} /\ \A d \in DOMAIN s.ch \ {c} : Without(s.ch, c)[d] = s.ch[d]
    BY <2>1, NoChannel, Zenon
  <2> QED
    BY <2>2, Zenon
<1> HIDE DEF n
<1>4. ASSUME NEW i \in 1 .. Len(t.pfds) PROVE EntryKept(t, i)
  <2>1. i \in 1 .. n - 1 /\ i \in 1 .. n /\ i - 1 # n - 1
    BY <1>1, <1>2
  <2>2. EntryKept(s, i) /\ t.pfds[i] = s.pfds[i]
    BY <1>2, <2>1, Zenon DEF n
  <2>3. s.pfds[i].fd # c
    BY <2>1, <2>2, Zenon DEF EntryKept, n
  <2> QED
    BY <1>3, <2>2, <2>3, ZenonT(30) DEF EntryKept
<1>5. ASSUME NEW d \in DOMAIN t.ch PROVE HasEntry(t, d)
  <2>1. d \in DOMAIN s.ch /\ d # c /\ HasEntry(s, d) /\ t.ch[d] = s.ch[d]
    BY <1>3, Zenon
  <2>2. s.ch[d].index \in 0 .. n - 1 /\ s.pfds[s.ch[d].index + 1].fd = d
    BY <2>1, Zenon DEF HasEntry, InArray, n
  <2>3. s.ch[d].index + 1 # n
    BY <1>1, <2>1, <2>2, Zenon
  <2>4. s.ch[d].index \in 0 .. Len(t.pfds) - 1 /\ s.ch[d].index + 1 \in 1 .. n - 1
    BY <1>1, <1>2, <2>2, <2>3, SMTT(30)
  <2>5. t.pfds[s.ch[d].index + 1] = s.pfds[s.ch[d].index + 1]
    BY <1>2, <2>4, Zenon
  <2> QED
    BY <2>1, <2>4, <2>5, Zenon DEF HasEntry, InArray
<1> QED
  BY <1>4, <1>5, Zenon

(* The last entry takes the place of another that goes. *)
LEMMA ArrayCompacts ==
  ASSUME NEW s \in States, NEW t \in States, NEW c \in DOMAIN s.ch, s.ch[c].index # Len(s.pfds) - 1,
         \A i \in 1 .. Len(s.pfds) : EntryKept(s, i), \A d \in DOMAIN s.ch : HasEntry(s, d),
         t.ch = Without(Indexed(s.ch, s.pfds[Len(s.pfds)].fd, s.ch[c].index), c),
         t.pfds = pop_back([s.pfds EXCEPT ![s.ch[c].index + 1] = s.pfds[Len(s.pfds)]])
  PROVE  /\ \A i \in 1 .. Len(t.pfds) : EntryKept(t, i)
         /\ \A d \in DOMAIN t.ch : HasEntry(t, d)
         /\ DOMAIN t.ch = DOMAIN s.ch \ {c}
<1> DEFINE n == Len(s.pfds)
           k == s.ch[c].index
           e == s.pfds[n].fd
           q == [s.pfds EXCEPT ![k + 1] = s.pfds[n]]
<1>1. n \in Nat /\ k \in 0 .. n - 1 /\ s.pfds[k + 1].fd = c /\ s.pfds \in Seq(Pfd)
  <2>1. HasEntry(s, c)
    BY Zenon
  <2> QED
    BY <2>1, Fields DEF HasEntry, InArray
<1>2. k \in 0 .. n - 2 /\ k \in Int /\ n \in 1 .. n /\ k + 1 \in 1 .. n - 1 /\ n > 0
  <2>1. k # n - 1
    BY Zenon
  <2> HIDE DEF k, n
  <2> QED
    BY <1>1, <2>1
<1>3. EntryKept(s, n) /\ e \in DOMAIN s.ch /\ s.ch[e].index = n - 1 /\ e # c
  <2>1. EntryKept(s, n)
    BY <1>2, Zenon
  <2>2. e \in DOMAIN s.ch /\ s.ch[e].index = n - 1
    BY <2>1, Zenon DEF EntryKept
  <2> QED
    BY <2>1, <2>2, Zenon
<1> HIDE DEF n, k, e
<1>4. Len(t.pfds) = n - 1 /\ t.pfds[k + 1] = s.pfds[n] /\ \A i \in 1 .. n - 1 : i # k + 1 => t.pfds[i] = s.pfds[i]
  <2>1. s.pfds[n] \in Pfd /\ n = Len(s.pfds)
    BY <1>1, <1>2, SMTT(30) DEF n
  <2>2. q \in Seq(Pfd) /\ Len(q) = n /\ q[k + 1] = s.pfds[n] /\ \A i \in 1 .. n : i # k + 1 => q[i] = s.pfds[i]
    BY <1>1, <1>2, <2>1
  <2>3. t.pfds = pop_back(q)
    BY Zenon DEF k, n
  <2> HIDE DEF q
  <2>4. Len(pop_back(q)) = n - 1 /\ \A i \in 1 .. n - 1 : pop_back(q)[i] = q[i]
    BY <1>2, <2>2, PoppedBack, Zenon
  <2>5. \A i \in 1 .. n - 1 : i \in 1 .. n
    BY <1>1
  <2> QED
    BY <1>2, <2>2, <2>3, <2>4, <2>5, Zenon
<1>5. /\ DOMAIN t.ch = DOMAIN s.ch \ {c} /\ t.ch[e].index = k /\ t.ch[e].events = s.ch[e].events
      /\ \A d \in DOMAIN s.ch \ {c, e} : t.ch[d] = s.ch[d]
  <2> DEFINE H == Indexed(s.ch, e, k)
  <2>1. /\ H \in ChannelTables /\ DOMAIN H = DOMAIN s.ch /\ H[e].index = k /\ H[e].events = s.ch[e].events
        /\ \A d \in DOMAIN s.ch \ {e} : H[d] = s.ch[d]
    BY <1>2, <1>3, NewIndex
  <2>2. t.ch = Without(H, c)
    BY Zenon DEF e, k, n
  <2> HIDE DEF H
  <2>3. DOMAIN t.ch = DOMAIN H \ {c} /\ \A d \in DOMAIN H \ {c} : t.ch[d] = H[d]
    <3>1. H \in ChannelTables
      BY <2>1, Zenon
    <3>2. DOMAIN Without(H, c) = DOMAIN H \ {c} /\ \A d \in DOMAIN H \ {c} : Without(H, c)[d] = H[d]
      BY <3>1, NoChannel, Zenon
    <3> QED
      BY <2>2, <3>2, Zenon
  <2> QED
    BY <1>3, <2>1, <2>3, Zenon
<1>6. ASSUME NEW i \in 1 .. Len(t.pfds) PROVE EntryKept(t, i)
  <2>1. i \in 1 .. n - 1 /\ i \in 1 .. n /\ i - 1 # n - 1
    BY <1>1, <1>4
  <2>2. CASE i = k + 1
    <3>1. t.pfds[i] = s.pfds[n] /\ k = i - 1
      BY <1>2, <1>4, <2>2
    <3>2. t.pfds[i].fd = e
      BY <3>1, Zenon DEF e
    <3>3. e \in DOMAIN t.ch /\ t.ch[e].index = i - 1
      BY <1>3, <1>5, <3>1, Zenon
    <3>4. t.pfds[i].off <=> t.pfds[i].events = {}
      BY <1>3, <3>1, Zenon DEF EntryKept
    <3> QED
      BY <3>2, <3>3, <3>4, Zenon DEF EntryKept
  <2>3. CASE i # k + 1
    <3>1. EntryKept(s, i) /\ t.pfds[i] = s.pfds[i]
      BY <1>4, <2>1, <2>3, Zenon DEF n
    <3>2. s.pfds[i].fd # e
      BY <1>3, <2>1, <3>1, Zenon DEF EntryKept
    <3>3. k # i - 1
      BY <1>2, <2>1, <2>3
    <3>4. s.pfds[i].fd # c
      BY <3>1, <3>3, Zenon DEF EntryKept, k
    <3> QED
      BY <1>5, <3>1, <3>2, <3>4, ZenonT(30) DEF EntryKept
  <2> QED
    BY <2>2, <2>3, Zenon
<1>7. ASSUME NEW d \in DOMAIN t.ch PROVE HasEntry(t, d)
  <2>1. d \in DOMAIN s.ch /\ d # c /\ HasEntry(s, d)
    BY <1>5, Zenon
  <2>2. CASE d = e
    <3>1. k \in 0 .. Len(t.pfds) - 1
      BY <1>2, <1>1, <1>4
    <3>2. t.pfds[k + 1].fd = e
      BY <1>4, Zenon DEF e
    <3>3. s.pfds[n].events = s.ch[e].events
      <4>1. HasEntry(s, e) /\ (n - 1) + 1 = n
        BY <1>1, <1>3
      <4> QED
        BY <1>3, <4>1, Zenon DEF HasEntry
    <3> QED
      BY <1>4, <1>5, <2>2, <3>1, <3>2, <3>3, Zenon DEF HasEntry, InArray
  <2>3. CASE d # e
    <3>1. t.ch[d] = s.ch[d]
      BY <1>5, <2>1, <2>3, Zenon
    <3>2. s.ch[d].index \in 0 .. n - 1 /\ s.pfds[s.ch[d].index + 1].fd = d
      BY <2>1, Zenon DEF HasEntry, InArray, n
    <3>3. s.ch[d].index + 1 # n /\ s.ch[d].index + 1 # k + 1
      BY <1>1, <2>1, <2>3, <3>2, Zenon DEF e
    <3>4. s.ch[d].index \in 0 .. Len(t.pfds) - 1 /\ s.ch[d].index + 1 \in 1 .. n - 1
      BY <1>1, <1>4, <3>2, <3>3
    <3>5. t.pfds[s.ch[d].index + 1] = s.pfds[s.ch[d].index + 1]
      BY <1>4, <3>3, <3>4, Zenon
    <3> QED
      BY <2>1, <3>1, <3>4, <3>5, Zenon DEF HasEntry, InArray
  <2> QED
    BY <2>2, <2>3, Zenon
<1> QED
  BY <1>5, <1>6, <1>7, ZenonT(30)

-----------------------------------------------------------------------------
LEMMA PollRemoveAgrees ==
  ASSUME NEW s \in States, Agreed(s), NEW c \in DOMAIN s.ch, s.ch[c].events = {}, s.kind = "poll"
  PROVE  Removed(s, remove(s, c), c)
<1> DEFINE t == remove(s, c)
           C == s.channels \ {c}
           n == Len(s.pfds)
           k == s.ch[c].index
<1>1. /\ s.ok /\ DOMAIN s.kern = {} /\ \A i \in 1 .. n : EntryKept(s, i)
      /\ \A d \in DOMAIN s.ch : d \in s.channels /\ HasEntry(s, d)
      /\ \A d \in Fds \ DOMAIN s.ch : d \notin s.channels
  BY PollAgreed, Zenon
<1>2. c \in s.channels /\ InArray(s, c) /\ s.pfds[k + 1].events = {}
  BY <1>1, Zenon DEF HasEntry
<1>3. n \in Nat /\ k \in 0 .. n - 1 /\ k + 1 \in 1 .. n /\ n \in 1 .. n /\ n > 0 /\ k \in Int
  <2>1. k \in 0 .. n - 1
    BY <1>2, Zenon DEF InArray
  <2>2. n \in Nat
    BY Fields
  <2> HIDE DEF k, n
  <2> QED
    BY <2>1, <2>2
<1>4. s.pfds[k + 1].off /\ s.pfds[n].fd \in DOMAIN s.ch
  BY <1>1, <1>2, <1>3, Zenon DEF EntryKept
<1>5. s.ch \in ChannelTables /\ s.old \in MaskMaps(Fds) /\ s.kern \in MaskTables /\ AreFds(C) /\ s.pfds \in Seq(Pfd)
  BY Fields, Zenon DEF AreFds
<1>6. CASE k = n - 1
  <2> DEFINE H == Without(s.ch, c)
             P == pop_back(s.pfds)
  <2>1. t = Changed(s, H, C, s.old, s.kern, P)
    BY <1>1, <1>2, <1>4, <1>6, PollRemoves, Zenon
  <2>2. H \in ChannelTables /\ DOMAIN H = DOMAIN s.ch \ {c}
    BY <1>5, NoChannel, Zenon
  <2>3. P \in Seq(Pfd)
    BY <1>3, <1>5, PoppedBack, Zenon
  <2> HIDE DEF t, C, H, P
  <2>4. t \in States /\ t.kind = s.kind /\ t.ch = H /\ t.channels = C /\ t.kern = s.kern /\ t.pfds = P /\ t.ok
    BY <1>5, <2>1, <2>2, <2>3, ChangedFields, SMTT(30)
  <2>5. (\A i \in 1 .. Len(t.pfds) : EntryKept(t, i)) /\ \A d \in DOMAIN t.ch : HasEntry(t, d)
    BY <1>1, <1>6, <2>4, ArrayShrinks, Zenon DEF H, P
  <2>6. Agreed(t)
    BY <1>1, <2>2, <2>4, <2>5, PollAgreed, Zenon DEF C
  <2> QED
    BY <2>2, <2>4, <2>6, Zenon DEF Removed, t
<1>7. CASE k # n - 1
  <2> DEFINE H == Without(Indexed(s.ch, s.pfds[n].fd, k), c)
             P == pop_back([s.pfds EXCEPT ![k + 1] = s.pfds[n]])
  <2>1. t = Changed(s, H, C, s.old, s.kern, P)
    BY <1>1, <1>2, <1>4, <1>7, PollRemoves, Zenon
  <2>2. H \in ChannelTables
    <3>1. Indexed(s.ch, s.pfds[n].fd, k) \in ChannelTables
      <4> HIDE DEF k
      <4> QED
        BY <1>3, <1>4, NewIndex
    <3> QED
      BY <3>1, NoChannel, Zenon
  <2>3. P \in Seq(Pfd)
    <3> DEFINE q == [s.pfds EXCEPT ![k + 1] = s.pfds[n]]
    <3>1. q \in Seq(Pfd) /\ Len(q) > 0
      <4> HIDE DEF k
      <4> QED
        BY <1>3, <1>5
    <3> HIDE DEF q
    <3>2. pop_back(q) \in Seq(Pfd)
      BY <3>1, PoppedBack, Zenon
    <3> QED
      BY <3>2, Zenon DEF q
  <2> HIDE DEF t, C, H, P
  <2>4. t \in States /\ t.kind = s.kind /\ t.ch = H /\ t.channels = C /\ t.kern = s.kern /\ t.pfds = P /\ t.ok
    BY <1>5, <2>1, <2>2, <2>3, ChangedFields, SMTT(30)
  <2>5. /\ (\A i \in 1 .. Len(t.pfds) : EntryKept(t, i)) /\ \A d \in DOMAIN t.ch : HasEntry(t, d)
        /\ DOMAIN t.ch = DOMAIN s.ch \ {c}
    BY <1>1, <1>7, <2>4, ArrayCompacts, Zenon DEF H, P
  <2>6. Agreed(t)
    BY <1>1, <2>4, <2>5, PollAgreed, Zenon DEF C
  <2> QED
    BY <2>4, <2>5, <2>6, Zenon DEF Removed, t
<1> QED
  BY <1>6, <1>7, Zenon

-----------------------------------------------------------------------------
(* Channel::update and Channel::remove, whichever poller there is. *)
LEMMA UpdateAgrees ==
  ASSUME NEW s \in States, NEW c, Pending(s, c)
  PROVE  Updated(s, update(s, c), c)
<1>1. s.kind = "epoll" => update(s, c) = EpollUpdateChannel(s, c)
  BY Zenon DEF update
<1>2. s.kind = "kqueue" => update(s, c) = KqUpdateChannel(s, c)
  BY Zenon DEF update
<1>3. s.kind = "poll" => update(s, c) = PollUpdateChannel(s, c)
  BY Zenon DEF update
<1>4. s.kind = "epoll" \/ s.kind = "kqueue" \/ s.kind = "poll"
  BY Fields, Zenon DEF PollerKinds
<1> QED
  BY <1>1, <1>2, <1>3, <1>4, EpollUpdateAgrees, KqUpdateAgrees, PollUpdateAgrees, Zenon

LEMMA RemoveAgrees ==
  ASSUME NEW s \in States, Agreed(s), NEW c \in DOMAIN s.ch, s.ch[c].events = {},
         s.kind = "kqueue" => c \in DOMAIN s.kern
  PROVE  Removed(s, remove(s, c), c)
<1>1. s.kind = "epoll" \/ s.kind = "kqueue" \/ s.kind = "poll"
  BY Fields, Zenon DEF PollerKinds
<1> QED
  BY <1>1, EpollRemoveAgrees, KqRemoveAgrees, PollRemoveAgrees, Zenon

(* What is registered depends on the index of a channel, what is watched on its mask. *)
LEMMA SameRegistered ==
  ASSUME NEW s, NEW t, NEW d, t.kind = s.kind, t.channels = s.channels, t.old = s.old, t.kern = s.kern,
         t.pfds = s.pfds, t.ch[d].index = s.ch[d].index
  PROVE  /\ Registered(s, d) => Registered(t, d)
         /\ MaskKept(s, d) /\ t.ch[d].events = s.ch[d].events => MaskKept(t, d)
<1>1. Registered(s, d) => Registered(t, d)
  BY Zenon DEF Registered, InEpoll, InKqueue, InArray
<1>2. MaskKept(s, d) /\ t.ch[d].events = s.ch[d].events => MaskKept(t, d)
  BY Zenon DEF MaskKept
<1> QED
  BY <1>1, <1>2, Zenon

LEMMA SameArray ==
  ASSUME NEW s, NEW t, t.kind = s.kind, t.kern = s.kern, t.pfds = s.pfds, ArrayKept(s),
         \A d \in DOMAIN s.ch : d \in DOMAIN t.ch /\ t.ch[d].index = s.ch[d].index
  PROVE  ArrayKept(t)
BY Zenon DEF ArrayKept

(* Another mask for channel c. *)
Masked(s, c, E) == [s EXCEPT !.ch[c].events = E]

LEMMA MaskedPending ==
  ASSUME NEW s \in States, Agreed(s), NEW c \in DOMAIN s.ch, NEW E \in SUBSET Mask
  PROVE  /\ Masked(s, c, E) \in States /\ Pending(Masked(s, c, E), c)
         /\ Masked(s, c, E).kind = s.kind /\ DOMAIN Masked(s, c, E).ch = DOMAIN s.ch
         /\ Masked(s, c, E).ch[c].events = E
<1> DEFINE t == Masked(s, c, E)
           H == [s.ch EXCEPT ![c].events = E]
<1>1. s.ok = TRUE
  BY Fields, Zenon DEF Agreed
<1>2. t = Changed(s, H, s.channels, s.old, s.kern, s.pfds)
  BY <1>1, Zenon DEF Masked, Changed, States
<1>3. /\ H \in ChannelTables /\ DOMAIN H = DOMAIN s.ch /\ H[c].events = E
      /\ \A d \in DOMAIN s.ch : H[d].index = s.ch[d].index /\ (d # c => H[d] = s.ch[d])
  <2>1. DOMAIN s.ch \in SUBSET Fds /\ s.ch \in [DOMAIN s.ch -> Chan] /\ s.ch[c] \in Chan
    BY Fields, Tables, ChannelFields, Zenon
  <2>2. [s.ch[c] EXCEPT !.events = E] \in Chan /\ [s.ch[c] EXCEPT !.events = E].events = E
        /\ [s.ch[c] EXCEPT !.events = E].index = s.ch[c].index
    BY <2>1, Zenon DEF Chan
  <2>3. /\ DOMAIN H = DOMAIN s.ch /\ H \in [DOMAIN s.ch -> Chan] /\ H[c] = [s.ch[c] EXCEPT !.events = E]
        /\ \A d \in DOMAIN s.ch : d # c => H[d] = s.ch[d]
    BY <2>1, <2>2, Zenon
  <2> HIDE DEF H
  <2>4. H \in ChannelTables
    BY <2>1, <2>3, Tables, Zenon
  <2> QED
    BY <2>2, <2>3, <2>4, Zenon
<1> HIDE DEF t, H
<1>4. /\ t \in States /\ t.kind = s.kind /\ t.ch = H /\ t.channels = s.channels /\ t.old = s.old
      /\ t.kern = s.kern /\ t.pfds = s.pfds /\ t.ok
  <2>1. /\ H \in ChannelTables /\ AreFds(s.channels) /\ s.old \in MaskMaps(Fds) /\ s.kern \in MaskTables
        /\ s.pfds \in Seq(Pfd)
    BY <1>3, Fields, Zenon DEF AreFds
  <2> QED
    BY <1>2, <2>1, ChangedFields
<1>5. ArrayKept(t)
  BY <1>3, <1>4, SameArray, Zenon DEF Agreed
<1>6. ASSUME NEW d \in DOMAIN s.ch PROVE Registered(t, d) /\ (d # c => MaskKept(t, d))
  <2>1. Registered(s, d) /\ MaskKept(s, d)
    BY Zenon DEF Agreed
  <2>2. t.ch[d].index = s.ch[d].index /\ (d # c => t.ch[d].events = s.ch[d].events)
    BY <1>3, <1>4, Zenon
  <2> QED
    BY <1>4, <2>1, <2>2, SameRegistered, Zenon
<1>7. \A d \in Fds \ DOMAIN t.ch : Forgotten(t, d)
  BY <1>3, <1>4, Zenon DEF Agreed, Forgotten
<1>8. Pending(t, c)
  BY <1>3, <1>4, <1>5, <1>6, <1>7, Zenon DEF Pending
<1> QED
  BY <1>3, <1>4, <1>8, Zenon DEF t

(* A new channel that wants to read. *)
LEMMA OpenPending ==
  ASSUME NEW s \in States, Agreed(s), NEW c \in Fds \ DOMAIN s.ch
  PROVE  LET t == [s EXCEPT !.ch = With(@, c, [NewChannel EXCEPT !.events = {"R"}])]
         IN  t \in States /\ Pending(t, c) /\ t.kind = s.kind /\ DOMAIN t.ch = DOMAIN s.ch \cup {c}
<1> DEFINE r == [NewChannel EXCEPT !.events = {"R"}]
           H == With(s.ch, c, r)
           t == [s EXCEPT !.ch = H]
<1>1. s.ok = TRUE
  BY Fields, Zenon DEF Agreed
<1>2. t = Changed(s, H, s.channels, s.old, s.kern, s.pfds)
  BY <1>1, Zenon DEF Changed, States
<1>3. r \in Chan /\ r.events # {} /\ r.index = kNew
  <2>1. kNew \in Int
    BY DEF kNew
  <2> QED
    BY <2>1, Zenon DEF NewChannel, Chan, Mask
<1> HIDE DEF r
<1>4. H \in ChannelTables /\ DOMAIN H = DOMAIN s.ch \cup {c} /\ H[c] = r /\ \A d \in DOMAIN s.ch : H[d] = s.ch[d]
  <2>1. DOMAIN s.ch \in SUBSET Fds /\ s.ch \in [DOMAIN s.ch -> Chan]
    BY Fields, Tables, Zenon
  <2>2. DOMAIN H = DOMAIN s.ch \cup {c} /\ H[c] = r /\ \A d \in DOMAIN s.ch : H[d] = s.ch[d]
    BY Zenon DEF With
  <2>3. H \in [DOMAIN H -> Chan] /\ DOMAIN H \in SUBSET Fds
    BY <1>3, <2>1, Zenon DEF With
  <2> HIDE DEF H
  <2> QED
    BY <2>2, <2>3, Tables, Zenon
<1> HIDE DEF t, H
<1>5. /\ t \in States /\ t.kind = s.kind /\ t.ch = H /\ t.channels = s.channels /\ t.old = s.old
      /\ t.kern = s.kern /\ t.pfds = s.pfds /\ t.ok
  <2>1. /\ H \in ChannelTables /\ AreFds(s.channels) /\ s.old \in MaskMaps(Fds) /\ s.kern \in MaskTables
        /\ s.pfds \in Seq(Pfd)
    BY <1>4, Fields, Zenon DEF AreFds
  <2> QED
    BY <1>2, <2>1, ChangedFields
<1>6. ArrayKept(t)
  BY <1>4, <1>5, SameArray, Zenon DEF Agreed
<1>7. ASSUME NEW d \in DOMAIN t.ch \ {c} PROVE Registered(t, d) /\ MaskKept(t, d)
  <2>1. d \in DOMAIN s.ch /\ t.ch[d] = s.ch[d]
    BY <1>4, <1>5, Zenon
  <2>2. Registered(s, d) /\ MaskKept(s, d)
    BY <2>1, Zenon DEF Agreed
  <2> QED
    BY <1>5, <2>1, <2>2, SameRegistered, Zenon
<1>8. \A d \in Fds \ DOMAIN t.ch : Forgotten(t, d)
  BY <1>4, <1>5, Zenon DEF Agreed, Forgotten
<1>9. Forgotten(t, c)
  BY <1>5, Zenon DEF Agreed, Forgotten
<1>10. Pending(t, c)
  BY <1>3, <1>4, <1>5, <1>6, <1>7, <1>8, <1>9, ZenonT(30) DEF Pending
<1> QED
  BY <1>4, <1>5, <1>10, Zenon DEF t, H, r

-----------------------------------------------------------------------------
(* What the owners leave: the invariant, and the channels they must keep. *)
Kept(s, t, keep) ==
  t \in States /\ Agreed(t) /\ t.kind = s.kind /\ \A d \in keep : d \in DOMAIN s.ch => d \in DOMAIN t.ch

LEMMA MaskAgrees ==
  ASSUME NEW s \in States, Agreed(s), NEW c \in DOMAIN s.ch, NEW E \in SUBSET Mask
  PROVE  LET t == update(Masked(s, c, E), c)
         IN  /\ t \in States /\ Agreed(t) /\ t.kind = s.kind /\ DOMAIN t.ch = DOMAIN s.ch
             /\ t.ch[c].events = E /\ (s.kind = "kqueue" => c \in DOMAIN t.kern)
<1> DEFINE u == Masked(s, c, E)
<1>1. u \in States /\ Pending(u, c) /\ u.kind = s.kind /\ DOMAIN u.ch = DOMAIN s.ch /\ u.ch[c].events = E
  BY MaskedPending, ZenonT(30)
<1> HIDE DEF u
<1>2. Updated(u, update(u, c), c)
  BY <1>1, UpdateAgrees, Zenon
<1> QED
  BY <1>1, <1>2, Zenon DEF Updated, u

LEMMA OwnerOpens ==
  ASSUME NEW s \in States, Agreed(s), NEW c \in Fds, NEW keep
  PROVE  Kept(s, Owner(s, c, "open", keep), keep)
<1>1. CASE c \in DOMAIN s.ch
  <2>1. Owner(s, c, "open", keep) = s
    BY <1>1, Zenon DEF Owner
  <2> QED
    BY <2>1, Zenon DEF Kept
<1>2. CASE c \notin DOMAIN s.ch
  <2> DEFINE u == [s EXCEPT !.ch = With(@, c, [NewChannel EXCEPT !.events = {"R"}])]
             v == [s EXCEPT !.ch = With(@, c, NewChannel)]
  <2>1. Owner(s, c, "open", keep) = enable(v, c, "R")
    BY <1>2, Zenon DEF Owner
  <2>2. [v EXCEPT !.ch[c].events = @ \cup {"R"}] = u
    <3>1. v.ch = With(s.ch, c, NewChannel)
      BY Zenon DEF States
    <3>2. [With(s.ch, c, NewChannel) EXCEPT ![c].events = @ \cup {"R"}] = With(s.ch, c, [NewChannel EXCEPT !.events = {"R"}])
      <4>1. With(s.ch, c, NewChannel)[c] = NewChannel /\ NewChannel.events \cup {"R"} = {"R"}
        BY Zenon DEF With, NewChannel
      <4>2. [With(s.ch, c, NewChannel) EXCEPT ![c] = [NewChannel EXCEPT !.events = {"R"}]]
            = With(s.ch, c, [NewChannel EXCEPT !.events = {"R"}])
        BY Zenon DEF With
      <4> QED
        BY <4>1, <4>2, Zenon
    <3>3. [v EXCEPT !.ch[c].events = @ \cup {"R"}] = [v EXCEPT !.ch = [With(s.ch, c, NewChannel) EXCEPT ![c].events = @ \cup {"R"}]]
      BY <3>1, Zenon
    <3>4. [v EXCEPT !.ch[c].events = @ \cup {"R"}] = [v EXCEPT !.ch = With(s.ch, c, [NewChannel EXCEPT !.events = {"R"}])]
      BY <3>2, <3>3, Zenon
    <3> QED
      BY <3>4, Zenon DEF States
  <2>3. Owner(s, c, "open", keep) = update(u, c)
    BY <2>1, <2>2, Zenon DEF enable
  <2>4. u \in States /\ Pending(u, c) /\ u.kind = s.kind /\ DOMAIN u.ch = DOMAIN s.ch \cup {c}
    BY <1>2, OpenPending, SMTT(30)
  <2> HIDE DEF u
  <2>5. Updated(u, update(u, c), c)
    BY <2>4, UpdateAgrees, Zenon
  <2> QED
    BY <2>3, <2>4, <2>5, Zenon DEF Updated, Kept
<1> QED
  BY <1>1, <1>2, Zenon

(* What an owner does to a channel keeps the invariant. *)
LEMMA OwnerAgrees ==
  ASSUME NEW s \in States, Agreed(s), NEW c \in Fds, NEW op \in Ops, NEW keep
  PROVE  Kept(s, Owner(s, c, op, keep), keep)
<1>1. CASE op = "open"
  BY <1>1, OwnerOpens, Zenon
<1>2. CASE op # "open" /\ (c \notin DOMAIN s.ch \/ op = "nothing")
  <2>1. Owner(s, c, op, keep) = s
    BY <1>2, Zenon DEF Owner
  <2> QED
    BY <2>1, Zenon DEF Kept
<1>3. CASE c \in DOMAIN s.ch /\ op \notin {"open", "nothing", "close"}
  <2> DEFINE E == CASE op = "enableReading" -> s.ch[c].events \cup {"R"}
                    [] op = "enableWriting" -> s.ch[c].events \cup {"W"}
                    [] op = "disableReading" -> s.ch[c].events \ {"R"}
                    [] op = "disableWriting" -> s.ch[c].events \ {"W"}
                    [] op = "disableAll" -> {}
  <2>1. op \in {"enableReading", "enableWriting", "disableReading", "disableWriting", "disableAll"}
    BY <1>3, Zenon DEF Ops
  <2>2. Owner(s, c, op, keep) = update(Masked(s, c, E), c)
    <3>1. CASE op = "enableReading"
      BY <1>3, <3>1, SMTT(30) DEF Owner, enable, Masked
    <3>2. CASE op = "enableWriting"
      BY <1>3, <3>2, SMTT(30) DEF Owner, enable, Masked
    <3>3. CASE op = "disableReading"
      BY <1>3, <3>3, SMTT(30) DEF Owner, disable, Masked
    <3>4. CASE op = "disableWriting"
      BY <1>3, <3>4 DEF Owner, disable, Masked
    <3>5. CASE op = "disableAll"
      BY <1>3, <3>5 DEF Owner, disableAll, Masked
    <3> QED
      BY <2>1, <3>1, <3>2, <3>3, <3>4, <3>5, ZenonT(30)
  <2>3. E \in SUBSET Mask
    <3>1. s.ch[c].events \in SUBSET Mask
      BY <1>3, ChannelFields, Zenon
    <3> QED
      BY <2>1, <3>1 DEF Mask
  <2> HIDE DEF E
  <2> DEFINE t == update(Masked(s, c, E), c)
  <2>4. t \in States /\ Agreed(t) /\ t.kind = s.kind /\ DOMAIN t.ch = DOMAIN s.ch
    BY <1>3, <2>3, MaskAgrees, ZenonT(30)
  <2>5. Owner(s, c, op, keep) = t
    BY <2>2, Zenon
  <2> HIDE DEF t
  <2> QED
    BY <2>4, <2>5, Zenon DEF Kept
<1>4. CASE c \in DOMAIN s.ch /\ op = "close"
  <2> DEFINE t == update(Masked(s, c, {}), c)
  <2>1. Owner(s, c, op, keep) = IF c \in keep THEN t ELSE remove(t, c)
    <3>1. disableAll(s, c) = t
      BY Zenon DEF disableAll, Masked
    <3>2. Owner(s, c, op, keep) = IF c \in keep THEN disableAll(s, c) ELSE remove(disableAll(s, c), c)
      BY <1>4, Zenon DEF Owner
    <3> QED
      BY <3>1, <3>2, Zenon
  <2>2. /\ t \in States /\ Agreed(t) /\ t.kind = s.kind /\ DOMAIN t.ch = DOMAIN s.ch
        /\ t.ch[c].events = {} /\ (s.kind = "kqueue" => c \in DOMAIN t.kern)
    <3>1. {} \in SUBSET Mask
      BY Zenon
    <3> QED
      BY <1>4, <3>1, MaskAgrees, Zenon
  <2> HIDE DEF t
  <2>3. Removed(t, remove(t, c), c)
    BY <1>4, <2>2, RemoveAgrees, Zenon
  <2> QED
    BY <2>1, <2>2, <2>3, Zenon DEF Removed, Kept
<1> QED
  BY <1>1, <1>2, <1>3, <1>4, Zenon DEF Ops

(* Channel::handleEventSafely makes up to two such changes, one after the other. *)
LEMMA HandlerAgrees ==
  ASSUME NEW s \in States, Agreed(s), NEW c \in Fds, NEW d \in Fds, NEW op \in Ops, NEW keep
  PROVE  Kept(s, handleEventSafely(s, c, d, op, keep), keep)
<1> DEFINE rev == s.ch[c].rev
           closed == IF "H" \in rev /\ "R" \notin rev THEN Owner(s, c, "disableAll", keep) ELSE s
           read == IF "R" \in rev THEN Owner(closed, d, op, keep) ELSE closed
           written == IF "W" \in rev THEN Owner(read, d, op, keep) ELSE read
<1>1. handleEventSafely(s, c, d, op, keep) = written
  BY Zenon DEF handleEventSafely
<1>2. "disableAll" \in Ops
  BY Zenon DEF Ops
<1>3. Kept(s, closed, keep)
  <2>1. Kept(s, Owner(s, c, "disableAll", keep), keep)
    BY <1>2, OwnerAgrees, Zenon
  <2>2. Kept(s, s, keep)
    BY Zenon DEF Kept
  <2> QED
    BY <2>1, <2>2, Zenon
<1> HIDE DEF closed
<1>4. closed \in States /\ Agreed(closed)
  BY <1>3, Zenon DEF Kept
<1>5. Kept(closed, read, keep)
  BY <1>4, OwnerAgrees, Zenon DEF Kept
<1> HIDE DEF read
<1>6. read \in States /\ Agreed(read)
  BY <1>5, Zenon DEF Kept
<1>7. Kept(read, written, keep)
  BY <1>6, OwnerAgrees, Zenon DEF Kept
<1> HIDE DEF written
<1> QED
  BY <1>1, <1>3, <1>5, <1>7, Zenon DEF Kept

-----------------------------------------------------------------------------
Reports == SUBSET {"R", "W", "H"}

LEMMA Pair ==
  ASSUME NEW A, NEW B, NEW a \in A, NEW b \in B
  PROVE  <<a, b>> \in A \X B
BY Zenon

LEMMA PairParts ==
  ASSUME NEW A, NEW B, NEW z, z \in A \X B
  PROVE  z[1] \in A /\ z[2] \in B
BY Zenon

LEMMA MaxIn ==
  ASSUME NEW n \in Nat, NEW S \in SUBSET (1 .. n), S # {}
  PROVE  Max(S) \in S
<1> DEFINE T == {n - i : i \in S}
           Less == {z \in Nat \X Nat : z[1] < z[2]}
<1>1. T \subseteq Nat /\ T # {}
  <2>1. \A i \in S : n - i \in Nat
    <3> TAKE i \in S
    <3>1. i \in 1 .. n
      BY Zenon
    <3> QED
      BY <3>1
  <2>2. PICK i : i \in S
    BY Zenon
  <2>3. n - i \in T
    BY <2>2, Zenon
  <2>4. T \subseteq Nat
    BY <2>1, Zenon
  <2> QED
    BY <2>3, <2>4, Zenon
<1>2. IsWellFoundedOn(Less, Nat)
  BY NatLessThanWellFounded, Zenon DEF OpToRel
<1>3. PICK m \in T : \A y \in T : <<y, m>> \notin Less
  BY <1>1, <1>2, WFMin, Zenon
<1>4. PICK i \in S : m = n - i
  BY <1>3, Zenon
<1>5. \A j \in S : i >= j
  <2> SUFFICES ASSUME NEW j \in S PROVE i >= j
    BY Zenon
  <2>1. n - j \in T
    BY Zenon
  <2>2. <<n - j, n - i>> \notin Less
    BY <1>3, <1>4, <2>1, Zenon
  <2>3. n - j \in Nat /\ n - i \in Nat
    BY <1>1, <1>3, <1>4, <2>1, Zenon
  <2>4. ~(n - j < n - i)
    BY <2>2, <2>3
  <2> QED
    BY <2>4
<1>6. \E z \in S : \A y \in S : z >= y
  BY <1>5, Zenon
<1> QED
  BY <1>6, Zenon DEF Max

(* A state whose channels kept their masks and indices. *)
LEMMA SameAgreed ==
  ASSUME NEW s \in States, Agreed(s), NEW t \in States, t.kind = s.kind, t.channels = s.channels, t.old = s.old,
         t.kern = s.kern, t.pfds = s.pfds, t.ok = s.ok, DOMAIN t.ch = DOMAIN s.ch,
         \A d \in DOMAIN s.ch : t.ch[d].index = s.ch[d].index /\ t.ch[d].events = s.ch[d].events
  PROVE  Agreed(t)
<1>1. s.ok /\ ArrayKept(s)
  BY Zenon DEF Agreed
<1>2. ArrayKept(t)
  BY <1>1, SameArray, Zenon
<1>3. \A d \in DOMAIN t.ch : Registered(t, d) /\ MaskKept(t, d)
  BY SameRegistered, Zenon DEF Agreed
<1>4. \A d \in Fds \ DOMAIN t.ch : Forgotten(t, d)
  BY Zenon DEF Agreed, Forgotten
<1> QED
  BY <1>1, <1>2, <1>3, <1>4, Zenon DEF Agreed

(* Batches are sequences of events. *)
Batch(s, evs) ==
  \E n \in Nat : /\ evs \in [1 .. n -> s.channels \X Reports]
                 /\ \A i \in 1 .. n : evs[i][1] \in s.channels

LEMMA FillAgrees ==
  ASSUME NEW s \in States, Agreed(s), NEW evs, Batch(s, evs)
  PROVE  /\ fillActiveChannels(s, evs) \in States /\ Agreed(fillActiveChannels(s, evs))
         /\ fillActiveChannels(s, evs).kind = s.kind /\ DOMAIN fillActiveChannels(s, evs).ch = DOMAIN s.ch
<1> DEFINE of(c) == {i \in DOMAIN evs : evs[i][1] = c}
           H == [c \in DOMAIN s.ch |-> IF of(c) = {} THEN s.ch[c]
                                       ELSE [s.ch[c] EXCEPT !.rev = evs[Max(of(c))][2]]]
           t == [s EXCEPT !.ch = H]
<1>1. PICK n \in Nat : /\ evs \in [1 .. n -> s.channels \X Reports]
                       /\ \A i \in 1 .. n : evs[i][1] \in s.channels
  BY Zenon DEF Batch
<1>2. fillActiveChannels(s, evs) = t
  <2>1. \A i \in DOMAIN evs : evs[i][1] \in s.channels
    BY <1>1, Zenon
  <2>2. Asserted(s, \A i \in DOMAIN evs : evs[i][1] \in s.channels) = s
    BY <2>1, AssertedTrue, Zenon DEF Agreed
  <2> QED
    BY <2>2, Zenon DEF fillActiveChannels
<1>3. \A c \in DOMAIN s.ch : /\ H[c] \in Chan /\ H[c].index = s.ch[c].index
                             /\ H[c].events = s.ch[c].events
  <2> SUFFICES ASSUME NEW c \in DOMAIN s.ch
               PROVE  H[c] \in Chan /\ H[c].index = s.ch[c].index /\ H[c].events = s.ch[c].events
    BY Zenon
  <2>1. s.ch[c] \in Chan
    BY ChannelFields, Zenon
  <2>2. CASE of(c) = {}
    <3>1. H[c] = s.ch[c]
      BY <2>2, Zenon
    <3> QED
      BY <2>1, <3>1, Zenon
  <2>3. CASE of(c) # {}
    <3> DEFINE m == Max(of(c))
    <3>1. m \in of(c)
      <4>1. of(c) \in SUBSET (1 .. n)
        BY <1>1, Zenon
      <4> HIDE DEF of
      <4> QED
        BY <2>3, <4>1, MaxIn, Zenon
    <3>2. m \in 1 .. n
      BY <1>1, <3>1, Zenon
    <3>3. H[c] = [s.ch[c] EXCEPT !.rev = evs[m][2]]
      BY <2>3, Zenon
    <3> HIDE DEF m, of, H
    <3>4. evs[m][2] \in Reports
      <4>1. evs[m] \in s.channels \X Reports
        BY <1>1, <3>2, Zenon
      <4> QED
        BY <4>1, PairParts, Zenon
    <3> QED
      BY <2>1, <3>3, <3>4 DEF Chan, Reports, Mask
  <2> QED
    BY <2>2, <2>3, Zenon
<1>4. DOMAIN H = DOMAIN s.ch
  BY Zenon
<1> HIDE DEF H
<1>5. H \in ChannelTables
  <2>1. DOMAIN s.ch \in SUBSET Fds
    BY Fields, Tables, Zenon
  <2>2. H \in [DOMAIN H -> Chan]
    <3>1. H = [c \in DOMAIN H |-> H[c]]
      BY Zenon DEF H
    <3> QED
      BY <1>3, <1>4, <3>1, Zenon
  <2> QED
    BY <1>4, <2>1, <2>2, Tables, Zenon
<1>6. /\ t \in States /\ t.kind = s.kind /\ t.channels = s.channels /\ t.old = s.old
      /\ t.kern = s.kern /\ t.pfds = s.pfds /\ t.ok = s.ok /\ t.ch = H
  BY <1>5, Zenon DEF States
<1> HIDE DEF t
<1>7. Agreed(t)
  BY <1>3, <1>4, <1>6, SameAgreed, Zenon
<1> QED
  BY <1>2, <1>4, <1>6, <1>7, Zenon

-----------------------------------------------------------------------------
LEMMA KernFields ==
  ASSUME NEW s \in States, NEW c \in DOMAIN s.kern
  PROVE  c \in Fds /\ s.kern[c] \in SUBSET Mask
<1>1. DOMAIN s.kern \in SUBSET Fds /\ s.kern \in [DOMAIN s.kern -> SUBSET Mask]
  BY Fields, Tables, Zenon DEF MaskMaps
<1> QED
  BY <1>1, Zenon

(* The kernel reports channels that exist and are in the poller's table. *)
LEMMA EventsAre ==
  ASSUME PollerInv
  PROVE  Events \subseteq x.channels \X Reports /\ x.channels = DOMAIN x.ch
<1> USE DEF Reports
<1>1. x \in States /\ Agreed(x) /\ ready \in [Fds -> Reports]
  BY Zenon DEF PollerInv
<1>2. x.channels = DOMAIN x.ch /\ DOMAIN x.kern \subseteq x.channels
  <2>1. DOMAIN x.ch \subseteq Fds /\ x.channels \subseteq Fds /\ DOMAIN x.kern \subseteq Fds
    BY <1>1, Fields, Tables, Zenon
  <2>2. \A c \in DOMAIN x.ch : c \in x.channels
    BY <1>1, Zenon DEF Agreed, Registered
  <2>3. \A c \in Fds \ DOMAIN x.ch : c \notin x.channels /\ c \notin DOMAIN x.kern
    BY <1>1, Zenon DEF Agreed, Forgotten
  <2> QED
    BY <2>1, <2>2, <2>3, Zenon
<1>3. \A c \in Fds : \A m : Revents(c, m) \in Reports
  BY <1>1, Zenon DEF Revents
<1>4. CASE x.kind = "epoll"
  <2>1. Events = {<<c, Revents(c, x.kern[c])>> : c \in {d \in DOMAIN x.kern : Revents(d, x.kern[d]) # {}}}
    BY <1>4, Zenon DEF Events
  <2>2. \A c \in DOMAIN x.kern : c \in x.channels /\ Revents(c, x.kern[c]) \in Reports
    BY <1>1, <1>2, <1>3, KernFields, Zenon
  <2> QED
    BY <1>2, <2>1, <2>2
<1>5. CASE x.kind = "poll"
  <2> DEFINE on == {i \in DOMAIN x.pfds : ~x.pfds[i].off /\ Revents(x.pfds[i].fd, x.pfds[i].events) # {}}
  <2>1. Events = {<<x.pfds[i].fd, Revents(x.pfds[i].fd, x.pfds[i].events)>> : i \in on}
    BY <1>5 DEF Events
  <2>2. DOMAIN x.pfds = 1 .. Len(x.pfds)
    BY <1>1, Fields
  <2>3. \A i \in 1 .. Len(x.pfds) : x.pfds[i].fd \in DOMAIN x.ch
    BY <1>1, Zenon DEF Agreed, ArrayKept
  <2>4. \A c \in DOMAIN x.ch : c \in Fds
    BY <1>1, ChannelFields, Zenon
  <2>5. \A i \in on : /\ x.pfds[i].fd \in x.channels
                      /\ Revents(x.pfds[i].fd, x.pfds[i].events) \in Reports
    BY <1>2, <1>3, <2>2, <2>3, <2>4, ZenonT(30)
  <2>6. \A z \in Events : z \in x.channels \X Reports
    <3> TAKE z \in Events
    <3>1. PICK i \in on : z = <<x.pfds[i].fd, Revents(x.pfds[i].fd, x.pfds[i].events)>>
      BY <2>1, Zenon
    <3> HIDE DEF on, Reports
    <3>2. <<x.pfds[i].fd, Revents(x.pfds[i].fd, x.pfds[i].events)>> \in x.channels \X Reports
      BY <2>5, Pair, Zenon
    <3> QED
      BY <3>1, <3>2, Zenon
  <2> QED
    BY <1>2, <2>6, Zenon
<1>6. CASE x.kind = "kqueue"
  <2> DEFINE f(c) == {e \in x.kern[c] : e \in ready[c] \/ (e = "R" /\ "H" \in ready[c])}
  <2>1. Events = UNION {{<<c, {e}>> : e \in f(c)} : c \in DOMAIN x.kern}
    BY <1>6, Zenon DEF Events
  <2>2. \A c \in DOMAIN x.kern : c \in x.channels /\ \A e \in f(c) : {e} \in Reports
    <3>1. \A c \in DOMAIN x.kern : x.kern[c] \in SUBSET Mask
      BY <1>1, KernFields, Zenon
    <3>2. \A c \in DOMAIN x.kern : \A e \in f(c) : e \in Mask
      BY <3>1, Zenon
    <3>3. \A e \in Mask : {e} \in Reports
      BY Zenon DEF Mask
    <3> QED
      BY <1>2, <3>2, <3>3, Zenon
  <2> HIDE DEF f
  <2>3. \A z \in Events : \E c \in DOMAIN x.kern : \E e \in f(c) : z = <<c, {e}>>
    BY <2>1, Zenon
  <2> HIDE DEF Reports
  <2>4. \A z \in Events : z \in x.channels \X Reports
    <3> TAKE z \in Events
    <3>1. PICK c \in DOMAIN x.kern : \E e \in f(c) : z = <<c, {e}>>
      BY <2>3, Zenon
    <3>2. PICK e \in f(c) : z = <<c, {e}>>
      BY <3>1, Zenon
    <3>3. c \in x.channels /\ {e} \in Reports
      BY <2>2, Zenon
    <3> QED
      BY <3>2, <3>3
  <2> QED
    BY <1>2, <2>4, Zenon
<1>7. x.kind \in PollerKinds
  BY <1>1, Fields, Zenon
<1> QED
  BY <1>4, <1>5, <1>6, <1>7, Zenon DEF PollerKinds

LEMMA EventsFinite ==
  ASSUME PollerInv
  PROVE  IsFiniteSet(Events)
<1>1. IsFiniteSet({"R", "W", "H"})
  <2>1. IsFiniteSet({"R"})
    BY FS_Singleton, Zenon
  <2>2. IsFiniteSet({"R"} \cup {"W"})
    BY <2>1, FS_AddElement, Zenon
  <2>3. IsFiniteSet(({"R"} \cup {"W"}) \cup {"H"})
    BY <2>2, FS_AddElement, Zenon
  <2>4. ({"R"} \cup {"W"}) \cup {"H"} = {"R", "W", "H"}
    BY Zenon
  <2> QED
    BY <2>3, <2>4, Zenon
<1>2. IsFiniteSet(Reports)
  BY <1>1, FS_SUBSET, Zenon DEF Reports
<1>3. x.channels \in SUBSET Fds
  BY Fields, Zenon DEF PollerInv
<1>4. IsFiniteSet(x.channels)
  BY <1>3, FS_Subset, PollerAssumption, Zenon
<1>5. IsFiniteSet(x.channels \X Reports)
  BY <1>2, <1>4, FS_Product, Zenon
<1>6. Events \in SUBSET (x.channels \X Reports)
  BY EventsAre, Zenon
<1> QED
  BY <1>5, <1>6, FS_Subset, Zenon

LEMMA Widens ==
  ASSUME NEW D, NEW A, NEW B, A \subseteq B, NEW f \in [D -> A]
  PROVE  f \in [D -> B]
BY Zenon

LEMMA BatchesAre ==
  ASSUME PollerInv, NEW n, NEW evs \in Batches(n)
  PROVE  /\ Batch(x, evs)
         /\ [i \in DOMAIN evs |-> evs[i][1]] \in Seq(Fds)
         /\ Range([i \in DOMAIN evs |-> evs[i][1]]) \subseteq DOMAIN x.ch
<1>1. PICK E \in SUBSET Events : evs \in Injection(1 .. Cardinality(E), E)
  BY Zenon DEF Batches, kSubset
<1> DEFINE k == Cardinality(E)
           a == [i \in DOMAIN evs |-> evs[i][1]]
<1>2. k \in Nat
  <2>1. IsFiniteSet(E)
    BY EventsFinite, FS_Subset, Zenon
  <2> QED
    BY <2>1, FS_CardinalityType, Zenon
<1>3. evs \in [1 .. k -> E]
  BY <1>1, Zenon DEF Injection
<1> HIDE DEF k
<1>4. DOMAIN x.ch \subseteq Fds /\ x.channels = DOMAIN x.ch /\ Events \subseteq x.channels \X Reports
  BY EventsAre, Fields, Tables, Zenon DEF PollerInv
<1>5. \A i \in 1 .. k : evs[i] \in x.channels \X Reports
  BY <1>3, <1>4, Zenon
<1>6. \A i \in 1 .. k : evs[i][1] \in x.channels
  <2> TAKE i \in 1 .. k
  <2>1. evs[i] \in x.channels \X Reports
    BY <1>5, Zenon
  <2> QED
    BY <2>1, Zenon
<1>7. evs \in [1 .. k -> x.channels \X Reports]
  <2>1. E \subseteq x.channels \X Reports
    BY <1>4, Zenon
  <2> QED
    BY <1>3, <2>1, Widens, Zenon
<1>8. DOMAIN evs = 1 .. k
  BY <1>3, Zenon
<1>9. a \in [1 .. k -> Fds]
  BY <1>4, <1>6, <1>8, Zenon
<1>10. a \in Seq(Fds)
  <2> HIDE DEF a
  <2> QED
    BY <1>2, <1>9
<1>11. Range(a) \subseteq DOMAIN x.ch
  BY <1>4, <1>6, <1>8, Zenon DEF Range
<1> QED
  BY <1>2, <1>6, <1>7, <1>10, <1>11, Zenon DEF Batch

-----------------------------------------------------------------------------
LEMMA TailOf ==
  ASSUME NEW S, NEW q \in Seq(S), q # <<>>
  PROVE  /\ Tail(q) \in Seq(S) /\ Head(q) \in Range(q) /\ Range(Tail(q)) \subseteq Range(q)
<1>1. Tail(q) \in Seq(S) /\ Head(q) = q[1] /\ 1 \in DOMAIN q
  OBVIOUS
<1>2. \A i \in DOMAIN Tail(q) : i + 1 \in DOMAIN q /\ Tail(q)[i] = q[i + 1]
  OBVIOUS
<1>3. Head(q) \in Range(q)
  BY <1>1, Zenon DEF Range
<1>4. Range(Tail(q)) \subseteq Range(q)
  <2> DEFINE r == Tail(q)
  <2>1. \A i \in DOMAIN r : \E j \in DOMAIN q : r[i] = q[j]
    BY <1>2, Zenon
  <2> HIDE DEF r
  <2>2. Range(r) \subseteq Range(q)
    BY <2>1, Zenon DEF Range
  <2> QED
    BY <2>2, Zenon DEF r
<1> QED
  BY <1>1, <1>3, <1>4, Zenon

(* At the start there are no channels. *)
LEMMA PollerInitInv ==
  ASSUME PollerInit
  PROVE  PollerInv
<1>1. PICK k \in Kinds : x = State(k)
  BY Zenon DEF PollerInit
<1>2. k \in PollerKinds
  BY PollerAssumption, Zenon DEF PollerKinds
<1> DEFINE H == [c \in {} |-> NewChannel]
           O == [c \in Fds |-> {}]
           K == [c \in {} |-> {}]
<1>3. DOMAIN H = {} /\ DOMAIN K = {} /\ H \in ChannelTables /\ K \in MaskTables /\ O \in MaskMaps(Fds)
  <2>1. DOMAIN H = {} /\ H \in [DOMAIN H -> Chan]
    BY Zenon
  <2>2. DOMAIN K = {} /\ K \in MaskMaps(DOMAIN K)
    BY Zenon DEF MaskMaps
  <2>3. O \in MaskMaps(Fds)
    BY Zenon DEF MaskMaps
  <2>4. {} \in SUBSET Fds
    BY Zenon
  <2> HIDE DEF H, O, K
  <2>5. H \in ChannelTables
    BY <2>1, <2>4, Tables, Zenon
  <2>6. K \in MaskTables
    BY <2>2, <2>4, Tables, Zenon
  <2> QED
    BY <2>1, <2>2, <2>3, <2>5, <2>6, Zenon
<1>4. x = [kind |-> k, ch |-> H, channels |-> {}, old |-> O, kern |-> K, pfds |-> <<>>,
           size |-> InitEvents, ok |-> TRUE]
  BY <1>1, Zenon DEF State
<1> HIDE DEF H, O, K
<1>5. /\ x \in States /\ x.ch = H /\ x.channels = {} /\ x.kern = K /\ x.pfds = <<>> /\ x.ok
  <2>1. <<>> \in Seq(Pfd) /\ {} \in SUBSET Fds /\ InitEvents \in Nat
    BY PollerAssumption
  <2> QED
    BY <1>2, <1>3, <1>4, <2>1, SMTT(30) DEF States
<1>6. ArrayKept(x)
  <2>1. 1 .. Len(x.pfds) = {}
    BY <1>5
  <2> QED
    BY <1>3, <1>5, <2>1, Zenon DEF ArrayKept
<1>7. Agreed(x)
  BY <1>3, <1>5, <1>6, Zenon DEF Agreed, Forgotten
<1>8. ready \in [Fds -> SUBSET {"R", "W", "H"}]
  BY Zenon DEF PollerInit
<1>9. active \in Seq(Fds) /\ Range(active) = {}
  BY DEF PollerInit, Range
<1> QED
  BY <1>5, <1>7, <1>8, <1>9, Zenon DEF PollerInv

(* poll stores what was reported, and may double the list. *)
LEMMA PollStep ==
  ASSUME PollerInv, poll
  PROVE  PollerInv'
<1> DEFINE t(evs) == fillActiveChannels(x, evs)
           n == IF x.kind = "poll" THEN Len(x.pfds) ELSE x.size
<1>1. PICK evs \in Batches(n) :
        /\ x' = t(evs) \/ x' = [t(evs) EXCEPT !.size = @ * 2]
        /\ active' = [i \in DOMAIN evs |-> evs[i][1]]
  BY Zenon DEF poll
<1> HIDE DEF n
<1>2. /\ Batch(x, evs) /\ active' \in Seq(Fds) /\ Range(active') \subseteq DOMAIN x.ch
  BY <1>1, BatchesAre, Zenon
<1> DEFINE u == t(evs)
<1>3. u \in States /\ Agreed(u) /\ DOMAIN u.ch = DOMAIN x.ch
  BY <1>2, FillAgrees, Zenon DEF PollerInv
<1> HIDE DEF t
<1>4. x' = u \/ x' = [u EXCEPT !.size = @ * 2]
  BY <1>1, Zenon
<1> HIDE DEF u
<1>5. x' \in States /\ Agreed(x') /\ DOMAIN x'.ch = DOMAIN u.ch
  <2>1. CASE x' = u
    BY <1>3, <2>1, Zenon
  <2>2. CASE x' = [u EXCEPT !.size = @ * 2]
    <3>1. u.size \in Nat
      BY <1>3, Fields, Zenon
    <3>2. u.size * 2 \in Nat
      BY <3>1
    <3> DEFINE v == [u EXCEPT !.size = @ * 2]
    <3>3. /\ v \in States /\ v.kind = u.kind /\ v.ch = u.ch /\ v.channels = u.channels /\ v.old = u.old
          /\ v.kern = u.kern /\ v.pfds = u.pfds /\ v.ok = u.ok
      BY <1>3, <3>2 DEF States
    <3> HIDE DEF v
    <3>4. Agreed(v)
      BY <1>3, <3>3, SameAgreed, Zenon
    <3> QED
      BY <2>2, <3>3, <3>4, Zenon DEF v
  <2> QED
    BY <1>4, <2>1, <2>2, Zenon
<1>6. (ready \in [Fds -> SUBSET {"R", "W", "H"}])'
  BY Zenon DEF PollerInv, poll
<1>7. Agreed(x)' /\ (Range(active) \subseteq DOMAIN x.ch)'
  BY <1>2, <1>3, <1>5, Zenon
<1> QED
  BY <1>2, <1>5, <1>6, <1>7, Zenon DEF PollerInv

(* handleEvent: no callback removes a channel still to be handled. *)
LEMMA HandleStep ==
  ASSUME PollerInv, NEW c \in Fds, handleEvent(c)
  PROVE  PollerInv'
<1>1. x \in States /\ Agreed(x) /\ active \in Seq(Fds) /\ Range(active) \subseteq DOMAIN x.ch
  BY Zenon DEF PollerInv
<1>2. active # <<>> /\ c = Head(active) /\ active' = Tail(active) /\ ready' = ready
  BY Zenon DEF handleEvent
<1>3. /\ active' \in Seq(Fds) /\ c \in DOMAIN x.ch
      /\ Range(active') \subseteq Range(Tail(active)) /\ Range(active') \subseteq DOMAIN x.ch
  BY <1>1, <1>2, TailOf, Zenon
<1>4. x' \in States /\ Agreed(x') /\ \A d \in Range(Tail(active)) : d \in DOMAIN x.ch => d \in DOMAIN x'.ch
  <2>1. CASE x' = x
    BY <1>1, <2>1, Zenon
  <2>2. CASE \E op \in Ops \ {"open"}, d \in Fds :
               x' = handleEventSafely(x, c, d, op, Range(Tail(active)) \cup {c})
    <3>1. PICK op \in Ops \ {"open"}, d \in Fds :
               x' = handleEventSafely(x, c, d, op, Range(Tail(active)) \cup {c})
      BY <2>2, Zenon
    <3> DEFINE keep == Range(Tail(active)) \cup {c}
    <3>2. op \in Ops
      BY Zenon
    <3> HIDE DEF keep
    <3>3. Kept(x, handleEventSafely(x, c, d, op, keep), keep)
      BY <1>1, <3>2, HandlerAgrees, Zenon
    <3>4. x' = handleEventSafely(x, c, d, op, keep)
      BY <3>1, Zenon DEF keep
    <3>5. Kept(x, x', keep)
      BY <3>3, <3>4, Zenon
    <3> QED
      BY <3>5, Zenon DEF Kept, keep
  <2> QED
    BY <1>3, <2>1, <2>2, Zenon DEF handleEvent
<1>5. ready' \in [Fds -> SUBSET {"R", "W", "H"}]
  BY <1>2, Zenon DEF PollerInv
<1>6. Agreed(x)' /\ (Range(active) \subseteq DOMAIN x.ch)'
  BY <1>3, <1>4, Zenon
<1> QED
  BY <1>3, <1>4, <1>5, <1>6, Zenon DEF PollerInv

(* Functors change channels when no round is under way. *)
LEMMA FunctorStep ==
  ASSUME PollerInv, doRunInLoopFuncs
  PROVE  PollerInv'
<1>1. x \in States /\ Agreed(x) /\ active = <<>> /\ UNCHANGED <<ready, active>>
  BY Zenon DEF PollerInv, doRunInLoopFuncs
<1>2. x' \in States /\ Agreed(x')
  <2>1. CASE \E c \in Fds, op \in Ops : x' = Owner(x, c, op, {})
    BY <1>1, <2>1, OwnerAgrees, Zenon DEF Kept
  <2>2. CASE x.kind = "kqueue" /\ x' = resetAfterFork(x)
    BY <1>1, <2>2, ForkAgrees, Zenon
  <2> QED
    BY <2>1, <2>2, Zenon DEF doRunInLoopFuncs
<1>3. (ready \in [Fds -> SUBSET {"R", "W", "H"}] /\ active \in Seq(Fds))'
  BY <1>1, Zenon DEF PollerInv
<1>4. (Range(active) \subseteq DOMAIN x.ch)'
  BY <1>1 DEF Range
<1>5. Agreed(x)'
  BY <1>2, Zenon
<1> QED
  BY <1>2, <1>3, <1>4, <1>5, Zenon DEF PollerInv

LEMMA EnvironmentStep ==
  ASSUME PollerInv, Environment
  PROVE  PollerInv'
<1>1. UNCHANGED <<x, active>>
  BY Zenon DEF Environment
<1>2. PICK c \in Fds, r \in SUBSET {"R", "W", "H"} : ready' = [ready EXCEPT ![c] = r]
  BY Zenon DEF Environment
<1>3. ready' \in [Fds -> SUBSET {"R", "W", "H"}]
  BY <1>2, Zenon DEF PollerInv
<1>4. Agreed(x)'
  BY <1>1, Zenon DEF PollerInv
<1> QED
  BY <1>1, <1>3, <1>4, Zenon DEF PollerInv

-----------------------------------------------------------------------------
LEMMA PollWatches ==
  ASSUME NEW s \in States, Agreed(s), s.kind = "poll", NEW c \in DOMAIN s.ch
  PROVE  Watched(s, c) = s.ch[c].events /\ s.pfds[s.ch[c].index + 1].fd = c
<1> DEFINE k == s.ch[c].index + 1
           on == {i \in DOMAIN s.pfds : s.pfds[i].fd = c /\ ~s.pfds[i].off}
<1>1. Watched(s, c) = UNION {s.pfds[i].events : i \in on}
  BY Zenon DEF Watched
<1>2. s.ch[c].index \in 0 .. Len(s.pfds) - 1 /\ s.pfds[k].fd = c
  BY Zenon DEF Agreed, Registered, InArray
<1>3. DOMAIN s.pfds = 1 .. Len(s.pfds) /\ Len(s.pfds) \in Nat
  BY Fields
<1>4. k \in 1 .. Len(s.pfds)
  BY <1>2, <1>3
<1>5. \A i \in DOMAIN s.pfds : s.pfds[i].fd = c => i = k
  <2> TAKE i \in DOMAIN s.pfds
  <2>1. i \in 1 .. Len(s.pfds)
    BY <1>3, Zenon
  <2>2. s.pfds[i].fd = c => s.ch[c].index = i - 1
    BY <2>1, Zenon DEF Agreed, ArrayKept
  <2>3. s.ch[c].index \in Int
    BY ChannelFields, Zenon
  <2> QED
    BY <2>1, <2>2, <2>3
<1>6. s.pfds[k].events = s.ch[c].events
  BY Zenon DEF Agreed, MaskKept
<1>7. s.pfds[k].off <=> s.pfds[k].events = {}
  BY <1>4, Zenon DEF Agreed, ArrayKept
<1> HIDE DEF k
<1>8. UNION {s.pfds[i].events : i \in on} = s.pfds[k].events
  <2>1. CASE s.pfds[k].off
    <3>1. on = {}
      BY <1>5, <2>1, Zenon
    <3>2. UNION {s.pfds[i].events : i \in on} = {}
      BY <3>1, Zenon
    <3> QED
      BY <1>7, <2>1, <3>2, Zenon
  <2>2. CASE ~s.pfds[k].off
    <3>1. on = {k}
      BY <1>2, <1>3, <1>4, <1>5, <2>2, Zenon DEF k
    <3> HIDE DEF on
    <3> QED
      BY <3>1, Zenon
  <2> QED
    BY <2>1, <2>2, Zenon
<1> QED
  BY <1>1, <1>2, <1>6, <1>8, Zenon DEF k

(* The invariant says what is watched. *)
LEMMA InvWatches ==
  ASSUME PollerInv
  PROVE  KernelWatchesChannels
<1>1. x \in States /\ Agreed(x) /\ Range(active) \subseteq DOMAIN x.ch /\ x.ok
  BY Zenon DEF PollerInv, Agreed
<1>2. \A c \in DOMAIN x.ch : Watched(x, c) = x.ch[c].events
  <2> TAKE c \in DOMAIN x.ch
  <2>1. CASE x.kind = "poll"
    BY <1>1, <2>1, PollWatches, Zenon
  <2>2. CASE x.kind # "poll"
    <3>1. MaskKept(x, c)
      BY <1>1, Zenon DEF Agreed
    <3>2. x.ch[c].events = IF c \in DOMAIN x.kern THEN x.kern[c] ELSE {}
      BY <2>2, <3>1, Zenon DEF MaskKept
    <3>3. Watched(x, c) = IF c \in DOMAIN x.kern THEN x.kern[c] ELSE {}
      BY <2>2 DEF Watched
    <3> QED
      BY <3>2, <3>3, Zenon
  <2> QED
    BY <2>1, <2>2, Zenon
<1>3. \A c \in Fds \ DOMAIN x.ch : c \notin DOMAIN x.kern /\ c \notin x.channels
  BY <1>1, Zenon DEF Agreed, Forgotten
<1>4. \A c \in Fds \ DOMAIN x.ch : \A i \in DOMAIN x.pfds : x.pfds[i].fd # c
  <2>1. DOMAIN x.pfds = 1 .. Len(x.pfds)
    BY <1>1, Fields
  <2> QED
    BY <1>1, <2>1, Zenon DEF Agreed, ArrayKept
<1>5. x.kind = "poll" => \A c \in DOMAIN x.ch : x.pfds[x.ch[c].index + 1].fd = c
  BY <1>1, PollWatches, Zenon
<1> QED
  BY <1>1, <1>2, <1>3, <1>4, <1>5, ZenonT(30) DEF KernelWatchesChannels

(* Whatever the callbacks and functors do to the channels, with any number of *)
(* descriptors and whichever poller: no assertion of updateChannel and        *)
(* removeChannel fails, the kernel (or the array) watches for each channel    *)
(* what it has enabled and nothing for the others, no channel still to be     *)
(* handled is gone, and PollPoller's indices are the places in its array.     *)
THEOREM PollerFollowsChannels == PollerSpec => []KernelWatchesChannels
<1>1. PollerInit => PollerInv
  BY PollerInitInv, Zenon
<1>2. PollerInv /\ [PollerNext]_pollvars => PollerInv'
  <2> SUFFICES ASSUME PollerInv, [PollerNext]_pollvars PROVE PollerInv'
    BY Zenon
  <2>1. CASE poll
    BY <2>1, PollStep, Zenon
  <2>2. CASE \E c \in Fds : handleEvent(c)
    BY <2>2, HandleStep, ZenonT(30)
  <2>3. CASE doRunInLoopFuncs
    BY <2>3, FunctorStep, Zenon
  <2>4. CASE Environment
    BY <2>4, EnvironmentStep, Zenon
  <2>5. CASE UNCHANGED pollvars
    <3>1. x' = x /\ ready' = ready /\ active' = active
      BY <2>5, Zenon DEF pollvars
    <3>2. Agreed(x)'
      BY <3>1, Zenon DEF PollerInv
    <3> QED
      BY <3>1, <3>2, Zenon DEF PollerInv
  <2> QED
    BY <2>1, <2>2, <2>3, <2>4, <2>5, Zenon DEF PollerNext
<1>3. PollerInv => KernelWatchesChannels
  BY InvWatches, Zenon
<1> QED
  BY <1>1, <1>2, <1>3, PTL DEF PollerSpec
=============================================================================
