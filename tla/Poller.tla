------------------------------- MODULE Poller -------------------------------
(***************************************************************************)
(* Channels and the three pollers under the event loop: EpollPoller,       *)
(* PollPoller and KQueue (net/channel.{h,cc}, net/inner/poller).  A loop   *)
(* polls, hands the active channels to their callbacks one by one, and the *)
(* callbacks (and the functors between two rounds) change what is watched. *)
(* Event masks are sets of "R" (POLLIN | POLLPRI), "W" (POLLOUT) and, in   *)
(* what the kernel reports, "H" (POLLHUP).                                 *)
(*                                                                         *)
(* The channels' owners keep to what the library's own owners do: a        *)
(* channel's first call enables an event, a channel is removed after       *)
(* disableAll, once, and not while it is still to be handled in the round. *)
(***************************************************************************)
EXTENDS Integers, Sequences, FiniteSetsExt

CONSTANTS Fds,         \* descriptors; a channel is named by its descriptor
          Kinds,       \* pollers to check, of "epoll", "poll", "kqueue"
          InitEvents,  \* kInitEventListSize
          MaxList      \* bound: the event list is not grown past this

VARIABLES x,           \* channels, poller and kernel: the record State
          ready,       \* per descriptor: what the kernel would report
          active       \* channels still to handle in this round

pollvars == <<x, ready, active>>

ASSUME PollerAssumption ==
  /\ IsFiniteSet(Fds) /\ Kinds \subseteq {"epoll", "poll", "kqueue"}
  /\ InitEvents \in Nat /\ MaxList \in Nat

kNew == -1   kAdded == 1   kDeleted == 2

(* Channel::Channel *)
NewChannel == [events |-> {}, rev |-> {}, index |-> kNew]

(* channels: m_channels / channels_; old: KQueue's remembered masks;
   kern: what epoll or kqueue watches; pfds: PollPoller's array. *)
State(kind) ==
    [kind |-> kind, ch |-> [c \in {} |-> NewChannel], channels |-> {},
     old |-> [c \in Fds |-> {}], kern |-> [c \in {} |-> {}], pfds |-> <<>>,
     size |-> InitEvents, ok |-> TRUE]

Asserted(s, b) == [s EXCEPT !.ok = @ /\ b]          \* assert
setIndex(s, c, i) == [s EXCEPT !.ch[c].index = i]
Without(f, c) == [d \in DOMAIN f \ {c} |-> f[d]]
With(f, c, v) == [d \in DOMAIN f \cup {c} |-> IF d = c THEN v ELSE f[d]]

-----------------------------------------------------------------------------
(* EpollPoller. *)

(* update: epoll_ctl, whose errors are only logged. *)
EpollUpdate(s, op, c) ==
    CASE op = "ADD" /\ c \notin DOMAIN s.kern -> [s EXCEPT !.kern = With(@, c, s.ch[c].events)]
      [] op = "MOD" /\ c \in DOMAIN s.kern -> [s EXCEPT !.kern = With(@, c, s.ch[c].events)]
      [] op = "DEL" -> [s EXCEPT !.kern = Without(@, c)]
      [] OTHER -> s

EpollUpdateChannel(s, c) ==
    LET index == s.ch[c].index
        added == [Asserted(s, (index = kNew) = (c \notin s.channels)) EXCEPT !.channels = @ \cup {c}]
        known == Asserted(s, c \in s.channels /\ index = kAdded)
    IN  IF index \in {kNew, kDeleted} THEN EpollUpdate(setIndex(added, c, kAdded), "ADD", c)
        ELSE IF s.ch[c].events = {} THEN setIndex(EpollUpdate(known, "DEL", c), c, kDeleted)
        ELSE EpollUpdate(known, "MOD", c)

EpollRemoveChannel(s, c) ==
    LET index == s.ch[c].index
        t == [Asserted(s, c \in s.channels /\ s.ch[c].events = {} /\ index \in {kAdded, kDeleted})
                EXCEPT !.channels = @ \ {c}]
    IN  setIndex(IF index = kAdded THEN EpollUpdate(t, "DEL", c) ELSE t, c, kNew)

-----------------------------------------------------------------------------
(* KQueue. *)

(* update: EV_ADD and EV_DELETE for the filters that changed.
   Mutant: the difference is taken against no events at all. *)
KqUpdateForgets(s, c) ==
    [s EXCEPT !.channels = @ \cup {c}, !.old[c] = s.ch[c].events,
              !.kern = With(@, c, (IF c \in DOMAIN @ THEN @[c] ELSE {}) \cup s.ch[c].events)]

KqUpdate(s, c) ==
    LET events == s.ch[c].events
        oldEvents == IF c \in s.channels THEN s.old[c] ELSE {}
        now == IF c \in DOMAIN s.kern THEN s.kern[c] ELSE {}
    IN  [s EXCEPT !.channels = @ \cup {c}, !.old[c] = events,
                  !.kern = With(@, c, (now \ (oldEvents \ events)) \cup (events \ oldEvents))]

KqUpdateChannel(s, c) ==
    LET index == s.ch[c].index
        t == Asserted(s, CASE index = kNew -> c \notin s.channels
                        [] OTHER -> c \in s.channels /\ index \in {kAdded, kDeleted})
        u == KqUpdate(t, c)
    IN  setIndex(u, c, IF index = kAdded /\ s.ch[c].events = {} THEN kDeleted ELSE kAdded)

KqRemoveChannel(s, c) ==
    LET index == s.ch[c].index
        t == Asserted(s, c \in s.channels /\ s.ch[c].events = {} /\ index \in {kAdded, kDeleted})
        u == IF index = kAdded THEN KqUpdate(t, c) ELSE t
    IN  setIndex([u EXCEPT !.channels = @ \ {c},
                           !.kern = IF @[c] = {} THEN Without(@, c) ELSE @], c, kNew)

(* resetAfterFork: a new kqueue, and every channel that watches put into it. *)
resetAfterFork(s) ==
    [s EXCEPT !.kern = [c \in {d \in s.channels : s.ch[d].events # {}} |-> s.ch[c].events],
              !.old = [c \in Fds |-> IF c \in s.channels THEN s.ch[c].events ELSE @[c]]]

-----------------------------------------------------------------------------
(* PollPoller: entries [fd, off, events]; off stands for fd being -fd - 1.
   Indices are those of the code, from 0. *)

PollUpdateChannel(s, c) ==
    LET i == s.ch[c].index
        events == s.ch[c].events
        fresh == [Asserted(s, c \notin s.channels) EXCEPT
                    !.pfds = Append(@, [fd |-> c, off |-> FALSE, events |-> events]),
                    !.channels = @ \cup {c}]
        known == Asserted(s, c \in s.channels /\ i < Len(s.pfds) /\ s.pfds[i + 1].fd = c)
    IN  IF i < 0 THEN setIndex(fresh, c, Len(s.pfds))
        ELSE IF ~known.ok THEN known
        ELSE [known EXCEPT !.pfds[i + 1] = [fd |-> c, off |-> events = {}, events |-> events]]

pop_back(q) == SubSeq(q, 1, Len(q) - 1)

PollRemoveChannel(s, c) ==
    LET i == s.ch[c].index
        n == Len(s.pfds)
        fine == c \in s.channels /\ s.ch[c].events = {} /\ i >= 0 /\ i < n
                /\ s.pfds[i + 1].fd = c /\ s.pfds[i + 1].off /\ s.pfds[i + 1].events = {}
        t == [s EXCEPT !.channels = @ \ {c}]
    IN  IF ~fine THEN Asserted(s, FALSE)
        ELSE IF i = n - 1 THEN [t EXCEPT !.pfds = pop_back(@)]
        ELSE setIndex([t EXCEPT !.pfds = pop_back([@ EXCEPT ![i + 1] = s.pfds[n]])], s.pfds[n].fd, i)

-----------------------------------------------------------------------------
(* Channel: every change of the mask goes to the poller. *)

update(s, c) ==
    CASE s.kind = "epoll" -> EpollUpdateChannel(s, c)
      [] s.kind = "kqueue" -> KqUpdateChannel(s, c)
      [] s.kind = "poll" -> PollUpdateChannel(s, c)

enable(s, c, e) == update([s EXCEPT !.ch[c].events = @ \cup {e}], c)
disable(s, c, e) == update([s EXCEPT !.ch[c].events = @ \ {e}], c)
disableAll(s, c) == update([s EXCEPT !.ch[c].events = {}], c)

(* Channel::remove; the owner then destroys the channel and closes the
   descriptor. *)
remove(s, c) ==
    LET t == Asserted(s, s.ch[c].events = {})
        u == CASE s.kind = "epoll" -> EpollRemoveChannel(t, c)
               [] s.kind = "kqueue" -> KqRemoveChannel(t, c)
               [] s.kind = "poll" -> PollRemoveChannel(t, c)
    IN  [u EXCEPT !.ch = Without(@, c)]

(* What an owner may do to channel c; keep: channels not to be removed. *)
Owner(s, c, op, keep) ==
    CASE op = "open" -> IF c \in DOMAIN s.ch THEN s
                        ELSE enable([s EXCEPT !.ch = With(@, c, NewChannel)], c, "R")
      [] op # "open" /\ c \notin DOMAIN s.ch -> s
      [] OTHER ->
         CASE op = "nothing" -> s
           [] op = "enableReading" -> enable(s, c, "R")
           [] op = "enableWriting" -> enable(s, c, "W")
           [] op = "disableReading" -> disable(s, c, "R")
           [] op = "disableWriting" -> disable(s, c, "W")
           [] op = "disableAll" -> disableAll(s, c)
           [] op = "close" -> IF c \in keep THEN disableAll(s, c) ELSE remove(disableAll(s, c), c)

Ops == {"nothing", "open", "enableReading", "enableWriting", "disableReading",
        "disableWriting", "disableAll", "close"}

-----------------------------------------------------------------------------
(* The events the kernel has: <<channel, mask>>, one per descriptor for epoll
   and poll, one per filter for kqueue (which shows a hang-up as readable). *)
Revents(c, mask) == ready[c] \cap (mask \cup {"H"})

Events ==
    CASE x.kind = "epoll" ->
            {<<c, Revents(c, x.kern[c])>> : c \in {d \in DOMAIN x.kern : Revents(d, x.kern[d]) # {}}}
      [] x.kind = "poll" ->
            LET on == {i \in DOMAIN x.pfds : ~x.pfds[i].off /\ Revents(x.pfds[i].fd, x.pfds[i].events) # {}}
            IN  {<<x.pfds[i].fd, Revents(x.pfds[i].fd, x.pfds[i].events)>> : i \in on}
      [] x.kind = "kqueue" ->
            UNION {{<<c, {e}>> : e \in {e \in x.kern[c] : \/ e \in ready[c]
                                                          \/ e = "R" /\ "H" \in ready[c]}}
                       : c \in DOMAIN x.kern}

(* fillActiveChannels: the masks are stored in the channels; with kqueue a
   channel may come twice and keeps the mask that came last. *)
fillActiveChannels(s, evs) ==
    LET of(c) == {i \in DOMAIN evs : evs[i][1] = c}
    IN  [Asserted(s, \A i \in DOMAIN evs : evs[i][1] \in s.channels) EXCEPT
           !.ch = [c \in DOMAIN @ |-> IF of(c) = {} THEN @[c]
                                      ELSE [@[c] EXCEPT !.rev = evs[Max(of(c))][2]]]]

(* Kernels return as many events as there are and fit, in any order. *)
Batches(n) == UNION {Injection(1 .. Cardinality(E), E) : E \in kSubset(Min({Cardinality(Events), n}), Events)}

(* poll; the event list of epoll and kqueue is doubled when it was full.
   Mutant: it keeps its size. *)
pollNoResize ==
    /\ active = <<>> /\ Events # {}
    /\ \E evs \in Batches(x.size) :
          /\ x' = fillActiveChannels(x, evs)
          /\ active' = [i \in DOMAIN evs |-> evs[i][1]]
    /\ UNCHANGED ready

poll ==
    /\ active = <<>> /\ Events # {}
    /\ \E evs \in Batches(IF x.kind = "poll" THEN Len(x.pfds) ELSE x.size) :
          LET t == fillActiveChannels(x, evs)
          IN  /\ x' = IF x.kind # "poll" /\ Len(evs) = x.size /\ x.size * 2 <= MaxList
                      THEN [t EXCEPT !.size = @ * 2] ELSE t
              /\ active' = [i \in DOMAIN evs |-> evs[i][1]]
    /\ UNCHANGED ready

(* handleEventSafely: the callbacks the mask calls, in order.  The close
   callback disables the channel; the others do something to some channel. *)
handleEventSafely(s, c, d, op, keep) ==
    LET rev == s.ch[c].rev
        closed == IF "H" \in rev /\ "R" \notin rev THEN Owner(s, c, "disableAll", keep) ELSE s
        read == IF "R" \in rev THEN Owner(closed, d, op, keep) ELSE closed
    IN  IF "W" \in rev THEN Owner(read, d, op, keep) ELSE read

(* handleEvent of the next active channel, which no callback removes while it
   is handled, nor those that come after it. *)
handleEvent(c) ==
    /\ active # <<>> /\ Head(active) = c
    /\ active' = Tail(active)
    /\ IF c \notin DOMAIN x.ch THEN x' = Asserted(x, FALSE)
       ELSE IF x.ch[c].events = {} THEN x' = x
       ELSE \E op \in Ops \ {"open"}, d \in Fds :
               x' = handleEventSafely(x, c, d, op, Range(Tail(active)) \cup {c})
    /\ UNCHANGED ready

(* The functors between two rounds, and the fork of a daemon with kqueue. *)
doRunInLoopFuncs ==
    /\ active = <<>>
    /\ \/ \E c \in Fds, op \in Ops : x' = Owner(x, c, op, {})
       \/ x.kind = "kqueue" /\ x' = resetAfterFork(x)
    /\ UNCHANGED <<ready, active>>

(* The other end: data arrives and is used up, the peer hangs up. *)
Environment ==
    /\ \E c \in Fds, r \in {{}, {"R"}, {"W"}, {"R", "W"}, {"H", "W"}} : ready' = [ready EXCEPT ![c] = r]
    /\ UNCHANGED <<x, active>>

PollerInit ==
    /\ \E k \in Kinds : x = State(k)
    /\ ready = [c \in Fds |-> {}]
    /\ active = <<>>

PollerNext == poll \/ (\E c \in Fds : handleEvent(c)) \/ doRunInLoopFuncs \/ Environment

-----------------------------------------------------------------------------
(* What the poller watches for a descriptor. *)
Watched(s, c) ==
    CASE s.kind = "poll" ->
            UNION {s.pfds[i].events : i \in {i \in DOMAIN s.pfds : s.pfds[i].fd = c /\ ~s.pfds[i].off}}
      [] OTHER -> IF c \in DOMAIN s.kern THEN s.kern[c] ELSE {}

(* Whatever sequence of enable, disable and remove the callbacks and functors
   make, no assertion of the pollers fails, the kernel watches for every
   channel exactly the events the channel has enabled, nothing is watched or
   still to be handled for a channel that is gone, and PollPoller's indices
   are those of its array (updateChannel, removeChannel, update, disableAll
   called twice included). *)
KernelWatchesChannels ==
    /\ x.ok
    /\ \A c \in DOMAIN x.ch : Watched(x, c) = x.ch[c].events
    /\ \A c \in Fds \ DOMAIN x.ch : c \notin DOMAIN x.kern /\ c \notin x.channels
                                    /\ \A i \in DOMAIN x.pfds : x.pfds[i].fd # c
    /\ Range(active) \subseteq DOMAIN x.ch
    /\ x.kind = "poll" => \A c \in DOMAIN x.ch : x.pfds[x.ch[c].index + 1].fd = c

(* The loop's thread keeps going: it handles the next channel of the round,
   and polls when the round is over and the kernel has events.  Weak fairness
   of those two, spelled out: they are the steps that change active. *)
PollerFairness ==
    \/ []<>(active = <<>> /\ Events = {})
    \/ []<><<active' # active>>_active

PollerSpec == PollerInit /\ [][PollerNext]_pollvars /\ PollerFairness

(* The event list grows when it was full, so a channel that stays readable
   and keeps watching is read again and again, however many descriptors are
   ready with it.  With kqueue only while it does not also watch for writing:
   of two filters of one descriptor the channel keeps the last. *)
ReadyIsRead ==
    \A c \in Fds :
        <>[](/\ c \in DOMAIN x.ch /\ "R" \in x.ch[c].events /\ "R" \in ready[c]
             /\ x.kind = "kqueue" => "W" \notin x.ch[c].events)
        => []<><<active # <<>> /\ Head(active) = c /\ "R" \in x.ch[c].rev
                 /\ active' = Tail(active)>>_pollvars

-----------------------------------------------------------------------------
(* The inductive invariant behind KernelWatchesChannels. *)

Mask == {"R", "W"}
PollerKinds == {"epoll", "poll", "kqueue"}
Chan == [events : SUBSET Mask, rev : SUBSET {"R", "W", "H"}, index : Int]
Pfd == [fd : Fds, off : BOOLEAN, events : SUBSET Mask]
MaskMaps(D) == [D -> SUBSET Mask]
ChannelTables == UNION {[D -> Chan] : D \in SUBSET Fds}
MaskTables == UNION {MaskMaps(D) : D \in SUBSET Fds}
States ==
    [kind : PollerKinds, ch : ChannelTables, channels : SUBSET Fds, old : MaskMaps(Fds),
     kern : MaskTables, pfds : Seq(Pfd), size : Nat, ok : BOOLEAN]

(* An epoll set holds the channels whose index is kAdded. *)
InEpoll(s, c) ==
    /\ s.ch[c].index \in {kAdded, kDeleted}
    /\ s.ch[c].index = kAdded <=> c \in DOMAIN s.kern

(* A kqueue holds the filters that were remembered; one without filters may
   be in it or not. *)
InKqueue(s, c) ==
    /\ s.ch[c].index \in {kAdded, kDeleted}
    /\ s.old[c] = IF c \in DOMAIN s.kern THEN s.kern[c] ELSE {}

(* The index of a channel is its place in the array. *)
InArray(s, c) ==
    LET i == s.ch[c].index
    IN  i \in 0 .. Len(s.pfds) - 1 /\ s.pfds[i + 1].fd = c

Registered(s, c) ==
    /\ c \in s.channels
    /\ s.kind = "epoll" => InEpoll(s, c)
    /\ s.kind = "kqueue" => InKqueue(s, c)
    /\ s.kind = "poll" => InArray(s, c)

(* ... and it is watched for what it has enabled. *)
MaskKept(s, c) ==
    IF s.kind = "poll" THEN s.pfds[s.ch[c].index + 1].events = s.ch[c].events
    ELSE s.ch[c].events = IF c \in DOMAIN s.kern THEN s.kern[c] ELSE {}

Forgotten(s, c) == c \notin s.channels /\ c \notin DOMAIN s.kern

(* Every entry of the array is some channel's, which knows its place. *)
ArrayKept(s) ==
    /\ s.kind = "poll" => DOMAIN s.kern = {}
    /\ s.kind # "poll" => s.pfds = <<>>
    /\ \A i \in 1 .. Len(s.pfds) : LET p == s.pfds[i]
                                  IN  /\ p.fd \in DOMAIN s.ch /\ s.ch[p.fd].index = i - 1
                                      /\ p.off <=> p.events = {}

(* Between two calls of the owners. *)
Agreed(s) ==
    /\ s.ok /\ ArrayKept(s)
    /\ \A c \in DOMAIN s.ch : Registered(s, c) /\ MaskKept(s, c)
    /\ \A c \in Fds \ DOMAIN s.ch : Forgotten(s, c)

(* While channel c has changed its mask and the poller has yet to hear of it. *)
Pending(s, c) ==
    /\ s.ok /\ ArrayKept(s) /\ c \in DOMAIN s.ch
    /\ \A d \in DOMAIN s.ch \ {c} : Registered(s, d) /\ MaskKept(s, d)
    /\ \A d \in Fds \ DOMAIN s.ch : Forgotten(s, d)
    /\ \/ Registered(s, c)
       \/ Forgotten(s, c) /\ s.ch[c].index = kNew /\ s.ch[c].events # {}

PollerInv ==
    /\ x \in States /\ ready \in [Fds -> SUBSET {"R", "W", "H"}] /\ active \in Seq(Fds)
    /\ Agreed(x) /\ Range(active) \subseteq DOMAIN x.ch
=============================================================================
