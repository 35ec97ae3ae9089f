# netpoll-cpp in TLA+

netpoll-cpp (`src/netpoll/`) is a C++ TCP library built on reactors: one
`EventLoop` per thread, lock-free hand-over of functions between threads, timers,
non-blocking connections, a server and a client on top. This directory models
it in TLA+, checks the models with TLC on small instances, and proves the
results that everything else rests on with TLAPS for instances of any size.
Line numbers in the modules and below are those of the files under `src/netpoll/`, or under
`src/examples/` and `src/dependencies/` where a file there is named.

## 1. The system

| part | state | operations | hard behaviours |
|---|---|---|---|
| `util/lockfree_queue.h` MpscQueue | linked nodes, atomic head, consumer's tail | enqueue (any thread), dequeue (one), destructor | the list is broken between a producer's exchange and its store; addresses are reused |
| `net/eventloop.*` EventLoop | m_looping, m_quit, eventfd, m_funcs, m_funcOnQuit | loop, quit, queueInLoop, runInLoop, runOnQuit, destructor | lost wakeups, quit against wakeup, exceptions, destruction by another thread |
| `net/eventloop_thread.*` | the worker's loop, three promises, once flag | constructor, run, getLoop, wait, destructor | start, early quits and join interleave |
| `net/eventloop_threadpool.*` | threads, m_loopIndex | start, getNextLoop, destructor | destroyed while its loops are in use |
| `net/inner/timer_queue.*`, `timer.*` | heap, id set, timerfd | add, cancel, handleRead, reset | callbacks that add and cancel while a batch is run |
| `net/inner/tcp_connection_impl.*`, `channel.*` | status, events watched, send list, m_sendNum | send, sendFile, sendStream, shutdown, forceClose, read, write, close | order of sends of several threads, partial writes, several reasons to close at once |
| `net/inner/timing_wheel.*` | queues of buckets of entries | insertEntry, tick, destructor | entries that cascade from destructors |
| `net/inner/connector.*`, `net/tcp_client.*` | status, channel, socket, retry timer | connect, disconnect, stop, handleWrite, handleError, retry | stop from another thread against the handlers |
| `net/tcp_server.*`, `net/inner/acceptor.*` | acceptor, connection set, wheels, pool | start, newConnection, connectionClosed, stop, destructor | shutdown over several loops |
| `net/inner/poller*`, `channel.*` | index of each channel, kernel's table or poll array, event list | poll, updateChannel, removeChannel, enable/disable, handleEvent | descriptors that come back, channels closed from callbacks, a full event list |
| `dependencies/wepoll` (Windows epoll) | sockets in a tree, poll groups, update and deleted queues, reference lock | epoll_ctl, epoll_wait, epoll_close, epoll_post_signal | the lock is released while packets are fetched; cancelled and completed polls cross |
| `util/message_buffer.*` | vector, head, tail, initial capacity | push and read at both ends, readFd, retrieve, grow, shrink | every boundary between reserved, used and free bytes |
| `util/concurrent_task_queue.*`, `net/inner/resolver_impl.*` | task queue, condition variable, cache | runTask, syncTask, stop, resolve, syncResolve | stop without the mutex, answer before store |
| `wrap/eventloop_wrap.*`, `util/task_per_thread_queue.h` | registered loops, the pool | serve, serveAsDaemon, QuitAllEventLoop | quits that come while loops are starting |
| `net/inet_address.*` | an address | constructors, classification | ranges and masks at their ends |
| `examples/chat` | codec state, map of connections | send, parse, the three requests | streams cut anywhere, a map two loops use |
| `examples/http`, `examples/http/inner/filesystem.hpp` | parser state; a tree of files and links | requests, path algebra, copy, remove, create_directories | requests cut anywhere, links, a racing process |
| `socket`, `time_stamp`, encoding, `tcp_listener.h`, `tcp_dialer.h`, `signal_task` | values; the list of signal tasks | system calls, formats, forwarding | not modelled |

The parts interact in one direction. Every other thread reaches a loop through
MpscQueue and the eventfd; everything that belongs to a connection, a timer
queue, a connector or a server happens in its loop's thread, in functions the
loop takes from that queue or in handlers it calls from `poll()`. The modules
follow this: `EventLoop` uses MpscQueue as its specification `MpscFifo` describes
it, and the modules above use a loop that runs functions in order, as `EventLoop`
shows it does.

## 2. The modules

**MpscQueue** has one action per atomic operation: `EnqueueNew`, `EnqueueExchange`
(line 40), `EnqueueLink` (41), the steps of `dequeue` and of the destructor. `Node`
is a set of addresses and an address is handed out again once it is deleted, so
a stale pointer would alias a new node. **MpscFifo** is what the queue promises: an
item's place is claimed first and published later, and items are taken strictly
in claim order. MpscQueue implements MpscFifo (`ImplementsFifo`), with two history
variables, `claimed` and `stamp`, as the mapping.

**EventLoop** has the loop thread (`lpc`), any number of other threads (`tpc`), the
eventfd as a flag, and both function queues in the two-step form of MpscFifo.
A function is what calling it does to the loop: nothing, queueInLoop, quit or
throw. **EventLoopDestroy** adds `~EventLoop()` on another thread,
**EventLoopThread** the worker thread, its promises and the object's owner; both
extend EventLoop and reuse its actions.

**TimerQueue** has the heap, the id set, the timerfd and handleRead step by step,
because callbacks may add and cancel timers between two of a batch. One unit of
time is 100 microseconds, the least the timerfd is set to.

**TcpConnection** has one connection: a loop thread with its phases, other threads
that send, shut down and close, callbacks that call back into the connection,
the socket (how much a write takes is chosen freely) and the peer (data, FIN,
reset). A call sends `Size` numbered bytes, so that the wire shows their order.

**TimingWheel** has the wheel of one loop and the connections it kicks off. An entry
is the path of callbacks it still has to go through.

**Connector** has the state and operations of the connector, **TcpClient** extends it
with the client, its user's thread and callbacks. A failed assertion ends the
behaviour and is recorded in `aborted`.

**TcpServer** has the server, its acceptor, the loops of its pool, and stop() and the
destructor called from outside or inside the server's loop. stop() copies the set of
connections and closes the copies one by one (`copied`), while other loops run and peers
close. Connections are
abstracted to what TcpConnection shows of them: established once, closed once.
A use of a destroyed object ends the behaviour and is recorded in `broken`.

**Poller** has channels over EpollPoller, PollPoller and KQueue; `kind` says which one, and
one set of properties holds for the three. The state is the record `x` (channels with their
masks and indices, the poller's table, the kernel's table or the poll array). A
failed assertion clears `x.ok`; an EPOLL_CTL the kernel refuses changes nothing, since its error is only logged.

**Wepoll** has one epoll port with the threads in epoll_wait, a thread that calls epoll_ctl and
epoll_close, and the AFD driver, which completes polls at any time. What happens inside
the port's critical section is one step; the stretch between two of them is where other threads
get in. **WepollTree** has the red-black tree and the intrusive queue as pointers.

**Resolver** has the workers of ConcurrentTaskQueue (a worker that has found the queue empty but does
not wait yet is a state of its own), callers of syncTask and syncResolve, and the cache. **Wrap**
has serve() over a pool, reduced to what serve() sees of EventLoop and EventLoopThread.

The sequential parts are checked against what they stand for: **MessageBuffer** against a sequence of
bytes; **HttpServer** against the requests a client sent, for any cut of the stream into
segments; **Chat** (codec, server, clients) against the messages sent; **FsPath** against the meaning of
a path as a walk; **Filesystem** against a kernel that resolves paths (`Walk`, external);
**Inet** against the octets of the private prefixes.

**MC...** modules put several of these into one run: `part` chooses which of them moves,
or `scope` what the callers of one of them do. The parts of such a run do not interact.
The two processes that create directories are a symmetry set in `data`, which has invariants only.

The theorems are in **HandoffProofs** (the two components through which threads hand work to each other, MpscQueue and
Resolver), **EventLoopProofs** (EventLoop, EventLoopDestroy and EventLoopThread),
**TimerQueueProofs**, **PollerProofs**, **TcpClientProofs**, **TcpConnectionOrder** (what sending, writing and
buffering do to the order of bytes), **TcpConnectionProofs**, which uses it, and **TcpServerProofs**. An inductive invariant
stands at the end of its component's module, or for the server in TcpServerProofs.

Operators whose comment begins with "Mutant" are plausible mistakes in the
definition they precede; the definition replaced by its mutant makes TLC find
the property that guards it violated. They are no part of the specifications.

## 3. What TLC checks

Every bound is a constant of the module; its value is in the cfg. Deadlock is checked in
`pollers`; elsewhere the numbers of calls are bounded, and the programs modelled may stop.
Type invariants are checked as a conjunct of another invariant or are proved (MpscQueue, EventLoop).

* `mpsc_queue` (2 producers, 3 addresses, 4 enqueues): every dereference is of a live
  node; nothing is leaked; refinement of
  MpscFifo; every claimed item is taken. Three addresses for four enqueues force
  reuse; two producers suffice for an unfinished enqueue in front of a finished one.
* `event_loop`, in two scopes: 2 threads and functions that queue and quit; or one thread,
  callbacks that throw, two calls of loop() and `~EventLoop()` on another thread. poll() never blocks while
  a queued function or a quit is not about to be announced, a function that was
  queued runs, a quit ends the loop, the destructor returns, the loop neither polls nor drains
  afterwards, and quit functions are not skipped. The poll timeout of 10 s
  and other channels' events are not relied on: they would hide a lost wakeup.
* `threads`, three parts. EventLoopThread (2 threads and the owner): run() returns only when the loop
  runs, the pointer getLoop() gives is live, run() and the destructor return. Resolver (one worker,
  as the code has, 2 callers with 2 calls, an expiring cache): callbacks run once, a caller never
  gets an older address after a newer one, calls return, and stop() does unless
  a worker missed its notification (section 5). Wrap (3 loops,
  up to 3 dialers): dialers connect, QuitAllEventLoop touches no loop that is gone, and serve() returns when it
  was called with every loop running.
* `timers`, two parts. TimerQueue (2 timers, 4 units): the timerfd covers the heap, cancelled
  timers never run, one-shot timers run once and none runs early, every timer runs; callbacks may throw.
  Delays of 0 and 2 and an interval of 1 put timers before, at and after `now`.
  TimingWheel (3 queues of 3 buckets, every delay from 1 to 12, so that entries go straight to a bucket and cascade through one and two queues): how late and
  how early an entry expires; buckets are there, also in the destructor.
* `connection` (2 calls of 2 bytes), in two scopes: messages while either side closes; or messages, files and
  streams to a peer that stays. Closing is announced once, channels are removed without events,
  m_sendNum counts what it should, bytes of different calls neither mix nor overtake, handleWrite
  always finds work, a shutdown waits for the data and completes, data drains. Two
  calls are what the order of two sends needs; two bytes allow a partial write.
* `connection_file_stalls` (finds a violation): a file whose first sendfile() meets a
  full socket buffer is left in the list with nothing watching the socket.
* `idle_but_active` (finds a violation): connections are closed although they are
  active, because enableKickingOff never sets m_idleTimeout.
* `quit_all` (finds a violation): QuitAllEventLoop called while serve() is starting its loops
  does not quit the ones that enter loop() later.
* `client` (3 sockets, 2 + 1 connects, 2 stops): the assertions hold for a client that
  connects once, no socket is forgotten, only established connections are
  announced, and a client that is to reconnect does.
* `server` (3 clients, 2 descriptors, 2 pool loops, 2 stops): each combination of no
  pool, own pool and shared pool with and without an idle timeout. stop()
  returns, closes everything, and does not touch what is destroyed; the backlog drains
  when descriptors have run out. Three clients over two descriptors make accept()
  fail, two loops make the rotation and the sequential join matter.
* `pollers`, two parts. Wepoll (2 waiting threads, 2 sockets, groups of one socket so that both
  limits are met): no freed socket state is touched, interest that is registered is polled for, the
  groups stay sorted, what stays ready is reported, epoll_close returns. Poller (2 descriptors, an event
  list of one that may grow to four): the kernel's table follows the channels under every order of
  enabling, disabling, closing and reopening, a fork included for kqueue, and what stays ready is read.
* `data`, seven parts, each a state space of its own: 6 tree nodes and 3 queue nodes; buffers of capacity
  2 and 3 with a reserved area of 2; one or two requests with every cut; path strings up to 5 characters and
  arguments up to 3 over `/`, `.` and a letter; trees of depth 2 with two names, links and two processes that
  create directories; addresses on both sides of every limit; two chat clients, one of which may leave.
  A path of 5 characters can have a network name, a root and an element; HTTP clients wait for an
  answer before the next request (section 5).

Fairness. Threads are scheduled: weak fairness of each thread's steps once a call
has begun, also for the workers and callers of the task queue and for serve(); no call
is ever forced to begin. In `Wepoll` and `Poller` the threads that wait for events also
call epoll_wait and poll() again and again, as a loop does; there weak fairness is
spelled out as a condition on `pc` and `active`. Strong fairness is used three times,
each for what the kernel or the loop repeats: epoll is level-triggered and
reports a writable socket (`TcpConnection`, as long as the peer reads) and a
waiting client (`TcpServer`) in every iteration, and a loop gets to its queued
functions in every iteration (`TcpClient`). Time goes on (`TimerQueue`), and the
kernel finishes every connection attempt (`TcpClient`).

## 4. What is proved

A run checks a property on the instance its cfg names; the theorems below state it for every value of the
constants. They assume what the modules' ASSUMEs say, and TLC evaluates these on every run: bounds are
natural numbers, `Size`, the number of sockets and of pool loops are not zero, NULL and NoData are neither nodes
nor items, NoHost is no host, and the sets of threads that send (m_sendNum is a number) and of descriptors are
finite. Each proof has the
same shape: an inductive invariant that TLC was first asked about, one lemma per action, and PTL for the last step.

**MpscQueue**, for any producers, addresses and items.

* `ShapeInvariant`: `Spec => [](TypeOK /\ ListShape)`. MemorySafe alone is not inductive: that the next step dereferences
  live nodes depends on where every producer between exchange and store stands.
  ListShape therefore numbers the nodes by their place in the order of exchanges
  (`stamp`): nodes not yet exchanged are private; the queue holds the consecutive places
  from tail_ to head_; next_ leads from each place to the following one except
  where exactly one producer is about to store; payloads not yet taken are the items of
  their places.
* `MemorySafety`, `EmptyReports` (dequeue says "empty" only if the next place is not
  linked) and `NothingLeaks` follow from it.
* `QueueImplementsFifo`: every step is a step of MpscFifo or a stutter.

**EventLoop**, for any threads and functions.

* `LoopInvariant`: `Spec => [](TypeOK /\ LoopInv)`. NoLostWakeup only speaks of
  the moment poll() blocks; LoopInv extends it to the whole stretch in which the loop thread
  does not drain the queue (`Announced`), adds who owns an unlinked place (`Owned`) and
  what m_looping says of the loop thread's place (`LoopFlag`): queueInLoop in the loop thread
  skips the wakeup only because of that flag.
* `WakeupsSuffice` (no lost wakeup), `QuitIsAnnounced` (no lost quit) and
  `QuitFunctionsRun` (an action property) follow.
* `DestroyedLoopRests`: with `~EventLoop()` on another thread, loop() neither polls nor drains once the destructor
  has returned. The invariant relates the destructor's place to m_looping.
* `ThreadOwnsItsLoop`: EventLoopThread's run() returns only when the loop drains m_funcs, m_loop is null before
  the loop is gone, and the destructor's quit() finds a loop. The worker leaves loop() only when m_quit is set
  (`LeavesOnQuit`), and the function that fulfils the promise is the first of m_funcs (`RunComesFirst`). It is
  assumed that functions do not throw: an exception would leave the worker's function, and the program would end.

**TimerQueue**, for any threads, timers, delays and intervals.

* `TimerfdKeepsUp` (HeapIsArmed) and `TimersRunAsAsked` (the action property RunsAsAsked), also with callbacks that throw,
  add and cancel. The invariant says that a timer is in one place at a time: on its way in
  m_funcs, in the heap, or in the batch (`OnePlace`); that an id enters m_timerIdSet once and leaves it for good
  (`IdsComeOnce`); and that the timers of a batch are due and a one-shot timer that has run is neither in the
  heap nor further on in the batch (`RunsLeft`). Without the first, a timer might be run from the batch and again from the heap.

**TcpConnection**, for any threads, calls, sizes of calls and ways in which writes are cut.

* `SentInOrder`: what the kernel has accepted is in the order of the calls, and m_sendNum counts what the loop
  thread must not overtake. The bytes on the wire alone are not inductive. `OrderKept` says of everything still to
  be written that it may follow: the wire with the rest of the first node (`Stream`), the nodes behind it, which
  hold whole calls, and the sends queued in m_funcs. `CallsKnown` says which calls have returned before
  others began, `Buffers` when a stream's chunk is in `*m_fileBufferPtr`.
* `NeverIdlyWriting`: the assertion of handleWrite (194) holds.
* `ClosedOnceAndClean` and `ClosedAfterFlush` are about the two scopes of MCTcpConnection, which are what the
  properties distinguish: a connection that carries messages only, and one that carries files too. `LifeCycle` ties
  the status to the announcements and to the functions still queued; `ScopeKept` says that a connection with messages
  is watched for writing whenever it is up and has something to write.

**TcpClient and Connector**, for any number of sockets, connects and stops.

* `OnlyEstablishedAnnounced`: the events being handled belong to an attempt that has ended (`EventsBelong`).
* `NoSocketForgotten`: with one connect() one thing at a time is under way: a queued start, a retry timer, a channel, the
  end of handleWrite, or a connection (`OneAttempt`). The assertions, and who owns the socket, follow from which of these it is.

**TcpServer**, for any number of clients, descriptors, pool loops and calls of stop().

* `NothingOutlived`: `Spec => []NothingDangles`. `Sound`, the inductive invariant, holds until something is broken. It
  says what every queued function stands for (`Means`), that those that are queued for one event are queued
  once (`Once`), that m_connSet is exactly the connections that are up together with those whose close is still queued in the
  server's loop (`ConnSet`), in what order stop() takes the acceptor, the loops and the wheels (`StopOrder`,
  `Wheels`), and which connections have been accepted (`Numbered`). `Once` is what keeps handleCloseInLoop from erasing
  a connection twice when a peer closes it while stop() goes over its copy.

**Poller**, for any number of descriptors, each of the three pollers and any sequence of what the owners do.

* `PollerFollowsChannels`: `PollerSpec => []KernelWatchesChannels`. What the kernel watches says nothing of what the
  next updateChannel will do: that depends on the channel's index. `Agreed` therefore says for each poller what the index stands for:
  an epoll set holds exactly the channels at kAdded (`InEpoll`), a kqueue holds the filters that were remembered for it
  (`InKqueue`), and the index of a channel and the descriptor in its entry of the poll array name each other
  (`InArray`, `ArrayKept`), also after removeChannel has moved the last entry into the gap. Between a change of the mask and
  the call of the poller only `Pending` holds. The proof shows what each operation of a poller amounts to under
  its assertions, that it leads from Pending to Agreed, and puts the callbacks, functors, poll() and the fork together
  from these. The owners keep to the rules the head of the module states.

**Resolver**, for any number of callers, calls and names.

* `CallbackPerCall`: each call is answered by one callback, with any number of workers. A call is in one place (`OneTask`): a task in
  the queue, a task a worker has taken and not answered, or answered.
* `AddressesInOrder` (AnsweredOnceInOrder) assumes one worker, `OneThread`, which is what ResolverImpl gives its queue. Addresses are
  numbered by their lookups. `Latest` says that a name is looked up only while its entry has expired, that the address the worker
  found is the last one looked up, and that an entry that can be used is at least as new as what any caller has seen:
  with two workers an older address could be stored last.

Only model-checked:

* all liveness: fairness and ENABLED are out of this prover's reach;
* WepollTree, HttpServer, Filesystem and Chat, which use recursive operators, and the laws of `data` about
  MessageBuffer, FsPath and Inet, which compare functions over all inputs of a bounded size: for any
  size they would need induction over data;
* TimingWheel, whose buckets and cascades are recursive functions of the delay: how late an entry expires needs
  induction over them;
* Wepoll and Wrap. Nothing about their safety properties is out of reach in
  principle, but no invariant of theirs has been shown to be inductive yet;
* the three violations, which are counterexamples.

## 5. Where code and documentation part

Shown by a run: the three violations above, listed with their quotations in
`PROJECT.json`. Met while modelling; the properties except these cases in their
statements, or the module is limited as said:

* quit() before loop() has cleared m_quit is lost (`eventloop.cc:156`); `quit_all` shows where a user meets it.
* `~EventLoop()` stops waiting when m_looping is cleared, while quit functions may still run (107).
* EventLoopThread::run() waits forever if the loop is told to quit before its first
  iteration (`eventloop_thread.cc:54`).
* cancelTimer does nothing while the loop is not running (`eventloop.cc:288`); addTimer reads
  the timer's id after handing the timer over (`timer_queue.cc:199`); a timer callback that throws keeps reset() from running: the rest
  of its batch is lost and the timerfd is not set (82); the
  highest and lowest priorities do not change the order within a batch (264), and the
  run uses normal timers only.
* sendFile and sendStream look at no status: one that is late enables writing on a closed
  connection (`tcp_connection_impl.cc:694`); bytes sent with sendfile() are not counted
  (727); data written at once does not call the write-complete callback (369).
* an entry of the timing wheel that cascades may expire nearly a turn early
  (`timing_wheel.cc:108`).
* a second connect() after disconnect() or stop() breaks assertions (`connector.cc:63`,
  `tcp_client.cc:199`); a connect() refused at once is not reported (`connector.cc:89`); an error
  callback that connects again meets the old attempt's events (152).
* TcpServer::stop() destroys a pool of its own before its loops have run the queued
  forceClose, then uses pointers to its loops (`tcp_server.cc:134`, 139, 158); a server destroyed while
  loops of a shared pool close its connections is called back (65, 74); and a second stop(),
  such as the destructor's, with an idle timeout uses wheels that are null (139). `NothingOutlived` shows that these are all.
* ConcurrentTaskQueue::stop() sets m_stop and notifies without the mutex: a worker between its test
  and its wait misses it, and join() waits for ever (`concurrent_task_queue.cc:43`, 44); a callback of
  resolve() that resolves again locks the cache's mutex twice (`resolver_impl.cc:35`, 53).
* QuitAllEventLoop between loop() and the loop's first function makes EventLoopThread::run() wait for
  ever; allEventLoop() is shared by two serves without a lock; serveAsDaemon() copies
  its argument, and neither Listener nor Dialer can be copied (`eventloop_wrap.h:48`).
* MessageBuffer with a capacity below the reserved 8 bytes: retrieveAll leaves the indices behind the
  end (`message_buffer.cc:144`).
* The chat server erases from its map without the mutex (`chat_server.cc:95`); the chat client and the
  HTTP handler take one message per read, so one that came together with another waits;
  the runs send the next HTTP request after the answer to the last.
* `filesystem.hpp`: operator+=(char) drops a character after a separator (2737); extension() of ".."
  is "."; compare() of network names (3006); canonical() joins a link's target unresolved, so that a link to a link or
  through ".." may give the wrong node (3787); loops over EINTR look at an errno they
  have not cleared (3990, 5707).
* A failed lookup gives the resolver's caller `InetAddress{}`, whose isUnspecified() is false.

## 6. Not modelled

* The memory model: atomics are sequentially consistent here. MpscQueue, m_looping, m_quit and m_loop are
  accessed with acquire and release (tail_ in part relaxed), the other atomics with the default order. Reorderings
  that acquire and release permit between two atomics, such as m_looping and m_quit, are not explored.
* `socket.cc`: each function is one system call; what it returns is a choice of the module that calls it.
* `time_stamp`, `encode_util`, the formatting in `inet_address.cc`: conversions done by the C library or by tables of
  the system, without state.
* `any.h`, `string_view.h` and the other value wrappers; `tcp_listener.h`, `tcp_dialer.h`, `trait.h`: templates
  that forward. `signal_task`: a list of functions that a signal handler calls before it aborts; what
  such functions may do in a handler is outside this project.
* moveToCurrentThread and the fork helpers of EventLoop; the destructor of TimerQueue and its non-Linux twin of handleRead; the
  destructor of TcpClient; tie() of Channel.
* m_sendNumMutex: send is one step of TcpConnection, so that the mutex is never seen held. A high-water callback
  that sends from inside a locked overload waits for its own thread (`tcp_connection_impl.cc:438`).
* `wepoll.c`: failing allocations, loading of entry points, the error-code table.
* `filesystem.hpp`: Windows, UTF-8, permissions, times, space, hard links, the stream classes, a recursive copy into its own source. Most of what is left of this file
  is conversion between encodings and overloads that throw instead of returning an error code.
* JSON and base64 (the ejson library) and logging (elog), which are not part of the repository's own code.
* TcpServer's connections are abstracted by hand to what `ClosedOnceAndClean` shows of TcpConnection; that
  TcpConnection implements an abstract connection is not stated as a refinement.
