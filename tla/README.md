# MyNetLib: specifications, model checking and proofs

MyNetLib is a reactor network library in the style of muduo: one event loop per
thread, non-blocking handlers, timers, TCP connections and an asynchronous
logger. This directory holds TLA+ models of its parts, TLC configurations that
check them on small instances, and TLAPS proofs of the properties that matter
most. All line numbers refer to `src/src/*.cc`, `src/include/*.h`, `src/example/*.cc`
and `src/test/*.cc`.

## 1. The system

| part | state | operations | what can go wrong |
|---|---|---|---|
| EventLoop | `quit_`, `looping_`, `calling_pending_functors_`, `pending_functors_` (mutex), eventfd | `Loop`, `Quit`, `RunInLoop`, `QueueInLoop`, `Wakeup` | foreign threads append and wake while the loop swaps, runs, sleeps |
| Channel, EpollPoller | `events_`, `index_`; `channel_maps_`; the kernel's list | enable/disable, `UpdateChannel`, `RemoveChannel`, `Polling` | three records of one fact; descriptor reuse; raw pointers in the list being dispatched |
| TcpConnection | `state_`, `output_buffer_`, its channel | `Send`, `ShutDown`, four handlers, established/destroyed | partial writes, tests on one thread and acts on another, FIN against data |
| TimerManager | heap of timers | `AddTimer`, `RemoveTimer`, `CheckAndHandle`, `GetRecentTimeout` | callbacks change the heap under the pass; unsigned arithmetic on a moving clock |
| Buffer | vector, `read_index_`, `write_index_` | `Append`, `Retrive`, `ReadFd`, `WriteFd` | compaction, growth and the overflow area at their boundaries |
| AsyncLogging | current, next and queued buffers (mutex) | `Append`, `ThreadFunc`, `Stop` | hand-over and recycling of buffers while others fill |
| TcpServer, Acceptor, Socket | connection map, listening socket | accept, distribute, remove | lifetimes across loops, running out of descriptors |
| EventLoopThread, pool | `loop_` (mutex, condition) | `StartLoop`, destructor, `GetNextLoop` | `Quit` before `Loop()`, `loop_` read without the lock |
| PollPoller | pollfd array, `channel_maps_` | as EpollPoller | `index_` is an array position that moves; the map keeps removed channels |
| LogFile | counters, period, `last_flush_` | `Append`, `RollFile`, `Flush` | a wall clock that jumps; when data is flushed |
| Logger, LogStream | a fixed buffer per line; `g_logLevel`, `g_output`, `g_flush` | `LOG_...`, `operator<<`, `Finish`, destructor | pieces of unknown length at the end of the buffer; `abort` against the logging thread |
| example programs | a block per session, counters shared by the client's threads | echo, count, stop | a peer that stops reading; blocking sockets; the order in which sessions end |
| InetAddr, TimeStamp, CurrentThread, config | none shared | conversion | (not modelled) |

How they interact: handlers, timers and functors all run on the thread of the
loop they belong to. Other threads reach a loop only through `QueueInLoop` and
`RunInLoop` (a mutex and an eventfd), `Quit`, and, for a connection, through
`state_`. `TcpServer` lives on the main loop and connections on the loops of the
pool; each removal crosses from the connection's loop to the server's and back
as functors.

The list of hazards in `PROJECT.json` says at which line each risk bites and
which property would notice.

## 2. The modules

`FunctorQueue` is the abstract promise of an event loop: a queue, served first in
first out, each functor at most once. `EventLoop` is shown to implement it
(`ServesFunctorsInOrder`, mapping `queue` to the batch being run followed by
`pending_functors_`). `TcpConnection` builds on that promise, not on EventLoop's
details.

`EventLoop`: `pc` is the position of the loop thread, and each action is what
the thread does between two points where others can interfere. Two other-thread
steps make up `QueueInLoop`: the append under the mutex, then the eventfd write.
`QuietTasks` are functors that the loop thread queues where the code wakes no
one. Whether timers are due, which channels are ready and what callbacks call is
nondeterministic. The poll deadline may pass, but no fairness makes it pass, so
the liveness properties say that work is done without its help.

`EpollPoller`: channels are constructed on any free descriptor, updated, removed,
destroyed (after removal, as all owners do), and constructed again. `kchannel`
and `kevents` are the kernel's interest list; `epoll_ctl` fails as the kernel's
does, and a failed ADD or MOD ends the process. Removal happens in functors only,
as `tcp_server.cc:80` arranges. The removal of an acceptor's or a loop's own
channel happens in destructors, outside dispatch.

`PollPoller` is the class of the poll(2) build, without its callers: `index_` is a
position in `poll_list_`, `RemoveChannel` swaps the last entry into the gap and
leaves `channel_maps_` and the removed channel's `index_` as they were.

`Pollers` gives both pollers the same calls. It takes channels, loop phases and the
epoll side from `EpollPoller` and instantiates `PollPoller` on state of its own. Each
poller reports any of what it watches; epoll's list is dispatched first and poll's
after it; a failing `poll` ends the process (`poll_poller.cc:20-26`). The callers are
those the library has. A channel's owner removes it once (`OwnerRemoves`:
`~EventLoop`, `~Acceptor`, `~TcpServer`), and the server once for every `HandleClose`
of a connection (`closing` counts the removals under way). As `poll` reports hang-ups
on an empty mask, `HandleClose` runs again in every pass until the removal. On the
server's own loop the functors of a pass run before the next poll (`MayPoll`), a loop
of the pool (`pooled`) polls on while the server's loop is asked. A queued `SendInLoop`
may also update a removed channel (`LateEnableWrite`). `misuse` records a second removal
and an update of a removed channel, with what the code then does to another channel's
entry, or beyond the end of the list (`OutOfList`); a behaviour is followed up to that
step, since after it nothing holds.

`TcpConnection`: bytes have identities, `write` takes any prefix or fails. (Accepted
sockets are blocking unless the user calls `conn->SetNonblocking`; the short writes
this module is about are those of a non-blocking one. Blocking ones are in
`PingPong`.)
`Send` and `ShutDown` from another thread are split at every access to `state_`
and at the hand-over to the loop. The kernel's reports follow what the peer and
our own FIN make true. A `Buffer` sent from another thread leaves the address of a
temporary string in the functor (`tcp_connection.cc:66`): `SendInLoop` finds the bytes or
`Junk` (`Found`). A write to a broken stream fails and may also end the process
(`Breaks`, `sigpipe`), because nothing in `src/` ignores SIGPIPE. Assumed: the object
outlives the functors bound to its raw `this`, and a string or an array given to a
foreign `Send` stays valid; the code guarantees neither (see the hazards at
`tcp_connection.cc:44`).
`~TcpServer` may run while no removal is pending; what a `RemoveConnection` on a
destroyed server does is left open.

`TimerManager`: the heap is its set and its root, which is all the code reads;
among equal keys any may come next. The clock ticks at any moment. `ULongMod`
and `IntMod` stand for 2^64 and 2^32: the arithmetic of `GetRecentTimeout` and the
narrowing to `int` wrap as in the code. Usage assumptions: timers are used on the
loop thread, `repeated_times` is not negative and a callback does not remove its
own timer.

`Buffer`: the record of vector and indices, with operators for the methods. The
k-th byte put in is the number k, so order, loss and duplication are visible.

`AsyncLogging`: lines are numbered by the order in which they take the lock. A
buffer is its lines, `Capacity` the lines that fit. The two operations whose
behaviour is undefined lead to states of their own (`ubErase`, `ubNull`) where
the model stops.

`Logger` puts the threads that log in front of `AsyncLogging`. A line being built is
the number of bytes in its buffer; the pieces whose length nobody controls (the
dangling thread id of `logger.cc:75`, what `operator<<(char)` copies behind its
character, the text itself) have any length of `Lengths`. The destructor is three
steps, output, flush and abort, and the logging thread may run between them. The
level, and the output function once, may change.

`PingPong` composes the benchmark's server with its client, which uses muduo and
is modelled as the server meets it. Connections are counts of bytes at each place
where they can be. A read on a loop of the server begins a write that ends when the
kernel has taken everything, and until then that loop does nothing else. Closing goes
through the three steps on two loops that `TcpServer` has in detail. `handleTimeout`
stops the sessions one after the other (`Stop`) while their threads go on. A session in
`Hanging` may stop for good at any moment after it has connected.

`EventLoopThreadPool`: `opc` is the thread that owns the pool, inside `Start`,
`StartLoop` (with the semaphore of `Thread::Start`, the mutex and the condition) or
the destructor; `wpc[i]` is thread i, from its creation through `ThreadFunc` and
`Loop()` to its end. A `Quit` is its two writes, the flag and the eventfd. Only the
owner quits the loops.

`LogFile`: an `Append` reads the clock once or twice and the clock may tick in
between; it may also be set back between calls. After a failing `fwrite` the bytes it
did take are in the file and not in `written_bytes_` (`Taken`). Bytes in the stdio buffer are
counted in `unflushed`; that stdio may write them earlier is left out, since the
file's own decisions do not depend on it.

`TcpServer`: loop 0 is the user's, the others belong to the pool, whose number
`SetThreadNum` chooses. Each loop goes round `test`, `poll` (where accept and close
events are dispatched) and `functors`, and a loop that ends drops what it has
queued. A connection lives as long as the map or a functor refers to it, in a queue or
in the batch being run. `~TcpServer` is one action per connection, then the members in
the reverse order of their declaration (`tcp_server.h:64-80`): the map, the pool
(quit and join, thread by thread), the acceptor. Connections are not kept by user
code, and the main loop is not run again after the server is destroyed.

The `...Proofs` modules hold the theorems, each about the modules it extends:
`EventLoopProofs`, `PollersProofs` (which has those about `EpollPoller` too),
`TcpConnectionProofs` (with those about `Buffer`), `TcpServerProofs`,
`TimerManagerProofs`, `EventLoopThreadPoolProofs`, `LoggerProofs` (with `AsyncLogging`)
and `PingPongProofs`. The `MC...` modules
give a name to the instances and, where values cannot be written in a `.cfg`,
their constants. `TypeOK` documents the types of a module's variables (and is part
of the inductive invariants where there is a proof); the runs spend their properties
on the rest.

## 3. What is checked

| run | instance | shows |
|---|---|---|
| `event_loop` | 2 threads, 4 functors (1 quiet), 1 channel, eventfd full at 2 | `NoLostWakeup`, `ServesFunctorsInOrder`, `QueuedIsRun`, `QuitStopsLoop` |
| `pollers` | both pollers, 3 channels, 3 descriptors, array of 2, 2 removals under way, loop of the server or of the pool | `IndexMeaning`, `KernelMask`, `CtlNeverFails`, `NoDanglingDispatch`, `EventListBounded`, `IndexIsPosition`, `PollKeepsDisabled` |
| `tcp_connection` | 2 threads, one calling `ShutDown`, 2 messages of 2 bytes, one in a `Buffer` | `WireInOrder`, `WritingWhilePending`, `FinAfterData`, `NotifiedWhenDrained`, `DownIsFinal`, `ShutdownCompletes` |
| `timer_manager` | 2 timers, 0 or 1 repetitions, clock to 6, words of 32 and 8 values | `PassIsComplete`, `PopsWhatItRan`, `RepeatsAddUp`, `DeadlineExact` |
| `timer_deadline` | as above | *violated*: `PollEndsByNextTimer` |
| `logging` | 2 threads, levels 2 and 5, 1 line per buffer, 5 lines, limit 3; small buffer of 14, pieces of 1 or 3 | `LinesInOrder`, `RecycleIsSafe`, `LineFits`, `LinesAreWritten`, `StopReturns` |
| `async_null` | 1 thread, 1 line per buffer, 5 lines, limit 4 | *violated*: `BuffersComeBack` |
| `buffer` | prepend 2, initial 3, overflow 2, 10 bytes | `HoldsQueue`, `SizeBounded` |
| `thread_pool` | 3 threads, 5 loops handed out | `HandsOutInitializedLoops`, `NoUseAfterDestroy`, `StartReturns`, `JoinReturns` |
| `pingpong` | 2 sessions, one may hang; 0 to 2 threads; block of 2, room for 2 in and 1 out | `OneBlockCirculates`, `HangsItsLoopOnly`, `ClientQuits`, `TotalsAreFinal` |
| `log_file_flush` | days of 3 s, files of 3 bytes, a check every 2 lines | *violated*: `FlushesWhenDue` |
| `tcp_server` | 0 to 2 threads, 2 connections | `NoZombieChannel`, `DestroyedOnce`, `ServerOutlivesCallbacks`, `ClosedIsFreed` |

Why the bounds are enough. A lost wake-up needs one sleeper, one appender and one
more functor to queue from a functor; two threads and an eventfd that fills at
two also give a failed eventfd write. Three channels and three descriptors let an
entry in the middle of `poll_list_` be removed, its place be taken by the last, and
both objects and descriptors be used again; an array of two is filled and grows; two
removals under way are two of one channel, or one each of two. Messages of two bytes have a partial
write, and two of them can overtake each other. Timers of equal and of different
expiry, repeating and not, meet in a pass whose clock runs on; words of 8 and 32
values contain the wrap at -1, below, and beyond half the range. Ten bytes
in a buffer that starts with room for three compact, grow and overflow several
times. With one line per buffer every line hands a buffer over: five lines go past a
limit of three, and fill the three buffers that make the recycling go wrong while an
earlier one is written. A buffer of 14 bytes is filled exactly, over and under by
pieces of one and three. With a block of two and room for one on the way back a
blocking write stops half way; with 0 to 2 threads the hanging session shares the
loop of the other, has its own, or shares main's. Five loops out of three go round once and on. Two connections share
a loop when there is none or one besides the main one, and are apart with two; three
connections were checked as well (330,000 states) and add nothing.

Fairness. `EventLoop`: the loop thread is scheduled, callbacks return, and a
thread inside `QueueInLoop` or `Quit` finishes the call; nothing else.
`TcpConnection`: in addition every pass of the loop serves the queue and polls
(`EventLoop` shows this), so functors and reported events are strongly fair
against each other; the peer reads, so a watched socket becomes writable and
takes bytes, and after it closed, reading reaches the end of the stream; all this as
long as the process lives (`Alive`). `Logger`:
the logging thread is scheduled, and `wait_for` ends by itself after 5 s; threads that
log owe nothing.
`EventLoopThreadPool`: the owner and the threads are scheduled; the poll of a loop ends
when it is woken, and is not assumed to end otherwise. `TcpServer`: every loop keeps
going round, which `EventLoop`'s `QueuedIsRun` justifies for a loop with functors.
`PingPong`: a loop that is not blocked serves every ready descriptor and every functor
in each pass, so a session's server steps are strongly fair; the kernel moves bytes
while it has room, the client's threads run unless they hang, and a `handleTimeout` that
has begun reaches every session. Nothing makes the timeout come.

Deadlock is checked wherever the system must go on. A stopped logger, a buffer
that has seen its `MaxBytes`, a destroyed pool or server, a benchmark whose peer hangs
and a process that `LOG_FATAL` has ended do not go on, so there it is not.

### Where the code does not do what it says

Shown by a run each:

* `event_loop.cc:71` says the poll ends by the next timer. For a timer that expires
  between `CheckAndHandle` and `GetRecentTimeout` the unsigned difference wraps, and
  the loop waits 10 s or without limit.
* `async_logging.cc:63` asserts that the spare buffers came back. `:97` tests the wrong
  vector, and a null pointer is dereferenced after three buffers filled during one write.
* `log_file.cc:68` lists the flush interval as a reason to flush. The `else` at `:84`
  binds to the inner `if`, and the test is not made unless the day has changed.

Seen in the models, without a run of their own:

* `event_loop.h:39` says `QueueInLoop` wakes the loop. On the loop thread, from a timer
  callback or before `Loop()`, it does not (`event_loop.cc:108`); `EventLoop` has such
  functors as `QuietTasks`.
* `tcp_connection.cc:75` says nothing is sent after `Shutdown`. The guard (`GivesUp`) tests
  `kDisconnected`, and a queued `SendInLoop` still sends in `kDisconnecting`.
* `async_logging.cc:87` promises protection from overload; `:90` erases across two
  vectors (the state `ubErase`).
* `event_loop_thread_poll.cc:34` speaks of a server with a single thread running the
  base loop; `:35` (`RunsOnBase`) tests for one thread besides it.
* A `ShutDown` on another thread between `tcp_connection.cc:108` and `:109` may overwrite
  the `kDisconnected` of `HandleClose`. The connection may then be reported down twice
  and its channel registered again. `DownIsFinal` makes an exception for exactly this
  (`overwritten`).
* `test_eventloop_threadpool.cc:40-47` destroys a pool right after starting it. A `Quit`
  before `event_loop.cc:48` is forgotten, and the destructor may wait for ever.
  `JoinReturns` makes an exception for exactly this.
* With `PollPoller` a channel whose mask is empty stays in `poll_list_`
  (`PollKeepsDisabled`), and `poll` reports a hang-up on it all the same: a connection
  closed on a loop of the pool can be closed, and removed, once more before the main
  loop has removed it. The second removal goes by the stale `index_` and takes the
  entry of whatever channel is there now, which is then never polled again, or lies
  beyond the list. `Pollers` reaches this (`"removal" \in misuse`), and
  `IndexIsPosition` is about everything before. With `EpollPoller`, which the default
  build uses and `TcpServer` assumes, the channel is off the kernel's list.
* Also with `PollPoller`, an `EnableWrite` by a `SendInLoop` queued before
  `ConnectionDestroyed` and run after it writes into another channel's entry
  (`"update" \in misuse`).
* `ConnectionDestroyed` of a connection in `kDisconnecting` (`~TcpServer` after a
  `ShutDown`) reports nothing to the user, leaves `state_` and the mask as they are, and
  removes the channel. A `SendInLoop` queued before it passes the test of `kDisconnected`
  and, when the kernel does not take everything, registers the channel again.
  `OnlySendRegistersAgain` is about exactly this.
* Nothing in `src/` ignores SIGPIPE: `SendInLoop` after our FIN or the peer's reset
  handles `EPIPE` (`tcp_connection.cc:93`), but by default the write has ended the
  process (`sigpipe`).
* `Send(Buffer*)` on another thread queues `c_str()` of a temporary
  (`tcp_connection.cc:66`); what is sent is what the freed memory holds then (`Junk`).
* `PollPoller::Polling` logs a failed `poll`, also one that a signal interrupted, and goes
  on to `LOG_FATAL` (`poll_poller.cc:20-26`; `PollingFails`).
* `async_logging.h:37` says no flush function is needed with `AsyncLogging`, because its
  thread flushes after every write. A FATAL line is appended like any other,
  `g_flush` does not know of `AsyncLogging`, and `abort` may end the process before the
  thread has taken the line (`Output`, `Flush`, `Abort` with no `Backend` in between).
* `logger.cc:45` says the line number is written; `Finish` writes the number 22.
* From `LOG_WARN` up the macros do not test the level (`Enabled`), so neither
  `SetLogLevel(ERROR)` nor `USE_LOG_ERROR` silences a warning.
* The accepted socket is never made non-blocking (`socket.cc:25` sets the listening one):
  a peer that does not read stops every connection of its loop. `HangsItsLoopOnly`
  shows that it stops no other loop's; when it is main's loop, no one is accepted
  any more.
* `timer.h:41` has `mutex_` give exclusive access to `initial_id_`; `GenerateId` reads
  it for its result after the mutex is released. Nothing reads an id.

## 4. What is proved

Every safety invariant the passing runs check, the refinement of `FunctorQueue`, the
action property `TotalsAreFinal`, and the safety parts of three of the liveness properties, for all values
of the constants.

The `ASSUME`s the proofs rest on are in the modules and evaluated by every run. They say
that bounds and sizes are naturals (buffers, blocks and the eventfd hold at least 1),
that null values lie outside the sets they are added to, that there are finitely many
descriptors and sessions, that `QuietTasks` are functors and the wake-up channel is none of the
others. `TimerManager`'s `WidthAssumption` asks no more than that `int` is narrower than
`unsigned long` and that the default wait of 10 s is below half the range of an `int`.

Each proof shows that an inductive invariant holds at first, is kept by every step, and
implies the property. Each of these invariants was checked with TLC before it was proved.

**`EventLoopProofs`** (`TypeCorrect`, `NoWakeupIsLost`, `ImplementsQueue`).
`NoLostWakeup` is about the sleeping loop only; the inductive invariant says for every
position of the loop thread who still owes a wake-up for a functor in
`pending_functors_`: a counter above zero whose event the loop has not consumed, a thread
between append and write, or the loop itself because it is still before the swap. Every
step of `EventLoop` is a step of `FunctorQueue` or leaves it alone; the swap is a stutter
because the batch is empty when it runs.

**`PollersProofs`**. `PollerCorrect`: `EpollPoller` on its own, where a channel may be
updated again after its removal. `PollerInv` adds to the properties that map and kernel
entries belong to live channels on that descriptor, that live channels have different
descriptors, that a list being dispatched holds only registered or at least not removed
channels, and that no `epoll_ctl` has failed. Every step of `Pollers` is a step of
`EpollPoller`, leaves its variables alone, or is the failing `poll` (which only ends the
process), so `IndexIsTrue`, `KernelHasMask`, `NoCtlFails` and `DispatchIsSafe` carry over
to the specification the run checks. `ArrayIsBounded` (from `EventListIsBounded`): a full
array means as many registered descriptors. `PositionsAreTrue` and `PollersAgree` are
about the poll(2) side: `ListInv` says that every channel in use sits at its `index_` with
its descriptor and mask, and that the descriptor of every entry leads, through
`channel_maps_`, back to a channel in use at that entry. Only the second half makes the
swap in `RemoveChannel` right, which finds the channel to move through the map; it holds
although the map keeps removed channels, because a new channel on the descriptor
overwrites the entry before it is polled. That no channel is removed twice on the
server's own loop rests on two more parts: a pass dispatches different channels, all in
use (`PassInv`), and a connection that is being removed is in use, is to be removed once,
and has no event waiting, since the loop does not poll before the removal (`CloseInv`). Nothing is assumed about how
often a connection is closed, and the steps that use a removed channel are part of the
specification; the invariant says what holds until the first of them.

**`TcpConnectionProofs`** (`BytesInOrder`, `WritesWhilePending`, `FinIsLast`,
`DrainIsNotified`). The four properties are inductive only together (`ConnInv`): a
direct write keeps the order because the buffer is empty whenever `EPOLLOUT` is not
watched, and the FIN stays behind the data for the same reason. `ConnTypeCorrect` is the
type invariant on its own.

`DownIsKept` and `OnlySendRegistersAgain` give the safety part of `DownIsFinal`. `LifeInv` says
that `ConnectionEstablished` runs once, before anything else can happen to the connection,
that it watches `EPOLLIN` until it is down, and that a connection reported down is
`kDisconnected`, watches nothing and is not on epoll's list, unless a `ShutDown` of another
thread has overwritten `kDisconnected` (`overwritten`). `OnlySendRegistersAgain` is an
action property: a removed channel is registered again by a `SendInLoop` that runs in
`kDisconnecting` and by nothing else, and then the connection was not reported down or its
state was overwritten. Both happen; for a connection that was reported down and not
overwritten it says that the channel stays unregistered, by the test of `state_` at the
head of `SendInLoop`.

Also there, the theorems about `Buffer` (`BufferTypeCorrect`, `BufferIsQueue`,
`BufferStaysSmall`); they are why `output_buffer_` is a sequence in `TcpConnection`. Each
method (`Append` with compaction and growth, `Retrive`, `ReadFd` with the overflow area)
is shown to keep `Holds`: the readable cells are the bytes from `taken + 1` to `put`.

**`TcpServerProofs`** (`SrvTypeCorrect`, `NoChannelLeft`, `RemovedOnce`, `CallbacksEndFirst`,
`ClosedMovesOn`). `SrvInv` says
of every functor that waits in some loop, queued or in the batch, what it implies of its
connection (`PendingInv`), and of every connection that has left the map that
`ConnectionDestroyed` has run or waits on its loop (`MapInv`). What makes this inductive is
that the queues keep an order (`InOrder`): no functor waits twice, and a connection is
not established after its destruction. `ServerInv` ties the phases of `~TcpServer` to the
loops that still run. `ClosedMovesOn` is the safety part of `ClosedIsFreed`: until the main
loop returns, of every closed connection either `RemoveconnectionInLoop` waits on the main
loop or `ConnectionDestroyed` on its own. `HopInv` adds to `SrvInv` that a closed connection
that is still in the map has its removal waiting.

**`TimerManagerProofs`** (`TimerTypeCorrect`, `PassesComplete`, `PopsTheRunning`, `FiresRepeatedly`,
`DeadlineIsExact`). `TimerInv` adds to the properties that the root of the heap is first, that
intervals in the heap are positive, that the running timer is the root and expired (so that
nothing its callback adds takes its place), and that what a pass has re-armed lies behind
its clock (so that no timer runs twice in it). The deadline needs a lemma on the two
reductions modulo the word sizes.

**`EventLoopThreadPoolProofs`** (`PoolTypeCorrect`, `LoopsInitialized`,
`JoinedBeforeDestroyed`, `NoLostNotification`). `PoolInv`
says for each position of the owner how far each thread has come. A thread leaves its
loop only when told to quit, and the owner tells only the one it joins next; with the
uniqueness of remainders, the loops come strictly in turn. `NoLostNotification` is the
safety part of `StartReturns`: while the owner sleeps in `StartLoop`, the thread has not
published its loop yet and will notify when it does.

**`LoggerProofs`**. `LinesFit`: the length of a line under construction stays below the
size of its buffer through every `operator<<`, and the last piece is left out only at the
very end. `RecyclesSafely`: the spare buffer is given up only when a full one is queued, so
that a round that needs two buffers back has taken two. `LinesStayInOrder`: there are marks
at which the file, the buffers taken and not yet written, the queue and the current
buffer meet, and between its marks each buffer holds consecutive lines (`Ordered`). That
`FlattenSeq` of such buffers is the concatenation is shown for its recursive definition by
the least place where it could differ.

**`PingPongProofs`** (`PingPongCorrect`, `BlockCirculates`, `TotalsFinal`). `PingPongInv`
says that a loop that is in a write is in one of a connection of its own that is up
(`WriterIsUp`), that nothing is under way before `onConnection` has sent the block
(`QuietBefore`) or towards the client after `onDisconnect` (`QuietAfter`), and that
`numConnected_` is the number of sessions that are connected
(`CountsConnected`), which needs the set of sessions to be finite. With it the
`onDisconnect` that finds zero is the last once all had connected, and everything
that is added up was read before.

Only model-checked is liveness, which needs reasoning about fairness and `ENABLED` beyond
the prover used: `QueuedIsRun`, `QuitStopsLoop`, `DownIsFinal`, `ShutdownCompletes`,
`ClosedIsFreed`, `StartReturns`, `JoinReturns`, `LinesAreWritten`, `StopReturns`,
`HangsItsLoopOnly` and `ClientQuits`. The three violated properties have counterexamples, not proofs.

## 5. Plan

Done: the loop and its queue, both pollers side by side, connection, timers, buffer, the
logger from the macro to the file, the thread pool, the server, and the benchmark
with blocking writes; the proofs of section 4.

Worth doing next:

1. `TcpServer`'s loops as instances of `FunctorQueue`.

## 6. Not modelled

Addresses, time stamps, thread ids, configuration, socket options and the other
wrappers over system calls keep no state of their own. The wording of log lines is
left out; only the lengths of their pieces matter here. Ids of timers are not
modelled because nothing reads them. Data races on plain members (a `RunAfter` from a
foreign thread, the destructor's read of `loop_`) are excluded by the usage
assumptions named with each module. `Connect` and a client side do not exist beyond a
wrapper; `PingPong`'s client is muduo's, as far as the server can tell.
