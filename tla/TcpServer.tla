------------------------------ MODULE TcpServer -------------------------------
(***************************************************************************)
(* TcpServer and Acceptor (src/src/tcp_server.cc, src/src/acceptor.cc)     *)
(* with the loops of the thread pool: accepting connections, handing them  *)
(* to a loop, removing closed ones through the main loop, and ~TcpServer   *)
(* while the other loops still run.                                        *)
(*                                                                         *)
(* Loop 0 is the loop given by the user, whose thread also runs Start and  *)
(* ~TcpServer; loop i > 0 is the i-th thread's.  A loop tests quit_, polls  *)
(* and dispatches, then swaps its functors out and runs them; the batch    *)
(* keeps its functors, and with them the connections they hold, until it   *)
(* is done.  A connection is destroyed with the last shared_ptr to it.     *)
(*                                                                         *)
(* Of a connection only its life is kept: its data is TcpConnection.tla,   *)
(* the hand-over of a loop from its thread EventLoopThreadPool.tla.        *)
(***************************************************************************)
EXTENDS Integers, Sequences, SequencesExt

CONSTANTS
  MaxThreads,   \* bound: threads of the pool
  MaxConns      \* bound: connections accepted in all

ASSUME BoundsAssumption == MaxThreads \in Nat \ {0} /\ MaxConns \in Nat

Main  == 0
Loops == 0..MaxThreads
Conns == 1..MaxConns
Functors == [op : {"established", "remove", "destroyed"}, conn : Conns]

VARIABLES
  phase,                   \* of TcpServer: "open", then in its destructor, then gone
  aborted,                 \* LOG_FATAL has ended the process
  started_, num_threads_, next_, next_conn_id_,
  accept_index,            \* index_ of accept_channel_
  connection_maps,
  alive, quit_, at,        \* of each loop: it exists; Quit() was called; where it is
  functors, batch, done,   \* pending_functors_; those swapped out; how many have run
  loop_, state_, index_,   \* of each connection and its channel_
  up, down, removes        \* history: connection_callback_ calls, Channel::Remove calls

server == <<started_, num_threads_, next_, next_conn_id_, accept_index>>
loops  == <<alive, quit_, at>>
conn   == <<loop_, state_, index_, up, down, removes>>
vars   == <<phase, aborted, server, connection_maps, loops, functors, batch, done, conn>>

TypeOK ==
  /\ phase \in {"open", "closing", "joining", "gone"}
  /\ aborted \in BOOLEAN
  /\ started_ \in 0..2 /\ num_threads_ \in Loops /\ next_ \in 0..(MaxThreads - 1)
  /\ next_conn_id_ \in 1..(MaxConns + 1)
  /\ accept_index \in {"kNew", "kAdded"}
  /\ connection_maps \subseteq Conns
  /\ alive \in [Loops -> BOOLEAN] /\ quit_ \in [Loops -> BOOLEAN]
  /\ at \in [Loops -> {"test", "poll", "functors"}]
  /\ functors \in [Loops -> Seq(Functors)] /\ batch \in [Loops -> Seq(Functors)]
  /\ done \in [Loops -> Nat]
  /\ loop_ \in [Conns -> Loops]
  /\ state_ \in [Conns -> {"kConnecting", "kConnected", "kDisconnecting", "kDisconnected"}]
  /\ index_ \in [Conns -> {"kNew", "kAdded", "kDeleted"}]
  /\ up \in [Conns -> Nat] /\ down \in [Conns -> Nat] /\ removes \in [Conns -> Nat]

Init ==
  /\ phase = "open" /\ aborted = FALSE
  /\ started_ = 0 /\ num_threads_ = 0 /\ next_ = 0 /\ next_conn_id_ = 1
  /\ accept_index = "kNew"
  /\ connection_maps = {}
  /\ alive = [l \in Loops |-> l = Main] /\ quit_ = [l \in Loops |-> FALSE]
  /\ at = [l \in Loops |-> "test"]
  /\ functors = [l \in Loops |-> <<>>] /\ batch = [l \in Loops |-> <<>>]
  /\ done = [l \in Loops |-> 0]
  /\ loop_ = [c \in Conns |-> Main] /\ state_ = [c \in Conns |-> "kConnecting"]
  /\ index_ = [c \in Conns |-> "kNew"]
  /\ up = [c \in Conns |-> 0] /\ down = [c \in Conns |-> 0] /\ removes = [c \in Conns |-> 0]

(* The shared_ptrs to a connection: the map's and those bound in functors. *)
Referenced(c) ==
  \/ c \in connection_maps
  \/ \E l \in Loops : \E f \in ToSet(functors[l]) \cup ToSet(batch[l]) : f.conn = c
Accepted == 1..(next_conn_id_ - 1)
Freed(c) == c \in Accepted /\ ~Referenced(c)

(* Loop() runs on l's thread; it may be dispatching events. *)
InLoop(l) == ~aborted /\ alive[l] /\ (l = Main => phase = "open")
Dispatching(l) == InLoop(l) /\ at[l] = "poll"

Queue(l, op, c) == functors' = [functors EXCEPT ![l] = Append(@, [op |-> op, conn |-> c])]

-----------------------------------------------------------------------------
(* TcpConnection, on the thread of its loop *)

ConnectionEstablished(c) ==
  /\ state_' = [state_ EXCEPT ![c] = "kConnected"]
  /\ index_' = [index_ EXCEPT ![c] = "kAdded"]
  /\ up' = [up EXCEPT ![c] = @ + 1]
  /\ UNCHANGED <<loop_, down, removes>>

ConnectionDestroyed(c) ==
  /\ IF state_[c] = "kConnected"
     THEN /\ state_' = [state_ EXCEPT ![c] = "kDisconnected"]
          /\ down' = [down EXCEPT ![c] = @ + 1]
     ELSE UNCHANGED <<state_, down>>
  /\ index_' = [index_ EXCEPT ![c] = "kNew"]
  /\ removes' = [removes EXCEPT ![c] = @ + 1]
  /\ UNCHANGED <<loop_, up>>

ShutDown(c) ==
  /\ c \in Accepted /\ Dispatching(loop_[c]) /\ index_[c] = "kAdded" /\ state_[c] = "kConnected"
  /\ state_' = [state_ EXCEPT ![c] = "kDisconnecting"]
  /\ UNCHANGED <<phase, aborted, server, connection_maps, loops, functors, batch, done,
                 loop_, index_, up, down, removes>>

-----------------------------------------------------------------------------
(* Removing a connection *)

RemoveconnectionInLoop_Keeps(c) ==
  Queue(loop_[c], "destroyed", c) /\ UNCHANGED connection_maps
RemoveconnectionInLoop_Forgets(c) ==
  connection_maps' = connection_maps \ {c} /\ UNCHANGED functors
RemoveconnectionInLoop(c) ==
  /\ connection_maps' = connection_maps \ {c}
  /\ Queue(loop_[c], "destroyed", c)

(* RunInLoop on the main loop: at once on its own thread. *)
RemoveConnection_Lost(c) == UNCHANGED <<connection_maps, functors>>
RemoveConnection(c) ==
  IF loop_[c] = Main THEN RemoveconnectionInLoop(c)
  ELSE Queue(Main, "remove", c) /\ UNCHANGED connection_maps

HandleClose(c) ==
  /\ c \in Accepted /\ Dispatching(loop_[c]) /\ index_[c] = "kAdded"
  /\ state_' = [state_ EXCEPT ![c] = "kDisconnected"]
  /\ index_' = [index_ EXCEPT ![c] = "kDeleted"]
  /\ down' = [down EXCEPT ![c] = @ + 1]
  /\ RemoveConnection(c)
  /\ UNCHANGED <<phase, aborted, server, loops, batch, done, loop_, up, removes>>

-----------------------------------------------------------------------------
(* The server, on the main thread *)

SetThreadNum(n) ==
  /\ phase = "open" /\ started_ = 0
  /\ num_threads_' = n
  /\ UNCHANGED <<phase, aborted, started_, next_, next_conn_id_, accept_index,
                 connection_maps, loops, functors, batch, done, conn>>

Listen == accept_index' = "kAdded"

(* Only the first call starts the threads and listens. *)
Start ==
  /\ InLoop(Main) /\ at[Main] # "functors" /\ started_ < 2
  /\ started_' = started_ + 1
  /\ IF started_ = 0
     THEN alive' = [l \in Loops |-> l <= num_threads_] /\ Listen
     ELSE UNCHANGED <<alive, accept_index>>
  /\ UNCHANGED <<phase, aborted, num_threads_, next_, next_conn_id_, connection_maps,
                 quit_, at, functors, batch, done, conn>>

(* The pool's turn: the loop it hands out and the next position. *)
GetNextLoop == IF num_threads_ = 0 THEN Main ELSE next_ + 1
Following == IF next_ + 1 >= num_threads_ THEN 0 ELSE next_ + 1

NewConnection ==
  LET c == next_conn_id_
      io_loop == GetNextLoop
  IN /\ next_conn_id_' = c + 1
     /\ next_' = Following
     /\ connection_maps' = connection_maps \cup {c}
     /\ loop_' = [loop_ EXCEPT ![c] = io_loop]
     /\ IF io_loop = Main
        THEN /\ state_' = [state_ EXCEPT ![c] = "kConnected"]
             /\ index_' = [index_ EXCEPT ![c] = "kAdded"]
             /\ up' = [up EXCEPT ![c] = @ + 1]
             /\ UNCHANGED functors
        ELSE Queue(io_loop, "established", c) /\ UNCHANGED <<state_, index_, up>>
     /\ UNCHANGED <<down, removes>>

(* Socket::Accept ends the process when accept4 fails; HandleRead's own error *)
(* branch is not reached.                                                     *)
AcceptFails ==
  /\ aborted' = TRUE
  /\ UNCHANGED <<next_, next_conn_id_, connection_maps, functors, conn>>

HandleRead ==
  /\ Dispatching(Main) /\ accept_index = "kAdded"
  /\ \/ /\ next_conn_id_ \in Conns
        /\ NewConnection
        /\ UNCHANGED aborted
     \/ AcceptFails
  /\ UNCHANGED <<phase, started_, num_threads_, accept_index, loops, batch, done>>

-----------------------------------------------------------------------------
(* The loops *)

TestQuit(l) ==
  /\ InLoop(l) /\ at[l] = "test" /\ ~quit_[l]
  /\ at' = [at EXCEPT ![l] = "poll"]
  /\ UNCHANGED <<phase, aborted, server, connection_maps, alive, quit_, functors, batch,
                 done, conn>>

SwapFunctors(l) ==
  /\ Dispatching(l)
  /\ at' = [at EXCEPT ![l] = "functors"]
  /\ batch' = [batch EXCEPT ![l] = functors[l]]
  /\ functors' = [functors EXCEPT ![l] = <<>>]
  /\ UNCHANGED <<phase, aborted, server, connection_maps, alive, quit_, done, conn>>

RunFunctor(l) ==
  /\ ~aborted /\ done[l] < Len(batch[l])
  /\ done' = [done EXCEPT ![l] = @ + 1]
  /\ LET f == batch[l][done[l] + 1]
     IN \/ /\ f.op = "established" /\ ConnectionEstablished(f.conn)
           /\ UNCHANGED <<connection_maps, functors>>
        \/ /\ f.op = "remove" /\ RemoveconnectionInLoop(f.conn) /\ UNCHANGED conn
        \/ /\ f.op = "destroyed" /\ ConnectionDestroyed(f.conn)
           /\ UNCHANGED <<connection_maps, functors>>
  /\ UNCHANGED <<phase, aborted, server, loops, batch>>

FunctorsDone(l) ==
  /\ ~aborted /\ at[l] = "functors" /\ done[l] = Len(batch[l])
  /\ at' = [at EXCEPT ![l] = "test"]
  /\ batch' = [batch EXCEPT ![l] = <<>>] /\ done' = [done EXCEPT ![l] = 0]
  /\ UNCHANGED <<phase, aborted, server, connection_maps, alive, quit_, functors, conn>>

(* Loop() of a thread sees quit_, and the loop is destroyed with what it has queued. *)
LoopEnds(l) ==
  /\ InLoop(l) /\ at[l] = "test" /\ quit_[l]
  /\ alive' = [alive EXCEPT ![l] = FALSE]
  /\ functors' = [functors EXCEPT ![l] = <<>>]
  /\ UNCHANGED <<phase, aborted, server, connection_maps, quit_, at, batch, done, conn>>

-----------------------------------------------------------------------------
(* ~TcpServer, after the main loop has returned *)

MainReturns ==
  /\ InLoop(Main) /\ at[Main] = "test"
  /\ phase' = "closing"
  /\ UNCHANGED <<aborted, server, connection_maps, loops, functors, batch, done, conn>>

(* The body, over the entries of the map: RunInLoop runs the functor here, or *)
(* queues it.                                                                 *)
InBody == phase = "closing"

DestroyConnection(c) ==
  /\ ~aborted /\ InBody /\ c \in connection_maps
  /\ connection_maps' = connection_maps \ {c}
  /\ IF loop_[c] = Main THEN ConnectionDestroyed(c) /\ UNCHANGED functors
     ELSE Queue(loop_[c], "destroyed", c) /\ UNCHANGED conn
  /\ UNCHANGED <<phase, aborted, server, loops, batch, done>>

(* The members go: connection_maps, then thread_pool_, which quits and joins each *)
(* thread in turn, then acceptor_.                                                *)
DestroyPool ==
  /\ ~aborted /\ phase = "closing" /\ (InBody => connection_maps = {})
  /\ phase' = "joining"
  /\ UNCHANGED <<aborted, server, connection_maps, loops, functors, batch, done, conn>>

Joined_Not(l) == quit_[l]
Joined(l) == ~alive[l]

QuitThread(l) ==
  /\ ~aborted /\ phase = "joining"
  /\ alive[l] /\ ~quit_[l] /\ \A k \in 1..(l - 1) : Joined(k)
  /\ quit_' = [quit_ EXCEPT ![l] = TRUE]
  /\ UNCHANGED <<phase, aborted, server, connection_maps, alive, at, functors, batch, done, conn>>

DestroyAcceptor ==
  /\ ~aborted /\ phase = "joining" /\ \A l \in Loops \ {Main} : Joined(l)
  /\ phase' = "gone"
  /\ accept_index' = "kNew"
  /\ UNCHANGED <<aborted, started_, num_threads_, next_, next_conn_id_, connection_maps,
                 loops, functors, batch, done, conn>>

Next ==
  \/ \E n \in Loops : SetThreadNum(n)
  \/ Start \/ HandleRead \/ MainReturns \/ DestroyPool \/ DestroyAcceptor
  \/ \E c \in Conns : ShutDown(c) \/ HandleClose(c) \/ DestroyConnection(c)
  \/ \E l \in Loops : TestQuit(l) \/ SwapFunctors(l) \/ RunFunctor(l) \/ FunctorsDone(l)
  \/ \E l \in Loops \ {Main} : LoopEnds(l) \/ QuitThread(l)

(* A loop keeps going round: a queued functor wakes its poll (EventLoop.tla, *)
(* QueuedIsRun), and a poll ends at its deadline in any case.                 *)
Fairness ==
  \A l \in Loops : WF_vars(TestQuit(l) \/ SwapFunctors(l) \/ RunFunctor(l) \/ FunctorsDone(l))

Spec == Init /\ [][Next]_vars /\ Fairness

-----------------------------------------------------------------------------
(* Properties *)

(* A connection is not destroyed while a running loop's poller still has its        *)
(* channel: whatever drops the last shared_ptr, tcp_server.cc:71-81 or :27-35,       *)
(* ConnectionDestroyed has run on the connection's own loop before.                 *)
NoZombieChannel ==
  \A c \in Accepted : Freed(c) /\ alive[loop_[c]] => index_[c] = "kNew"

(* However a close on another loop falls in with the main loop's return and         *)
(* ~TcpServer, a channel is removed once, and the user is told of a connection's     *)
(* end at most once and not without its beginning.                                  *)
DestroyedOnce ==
  \A c \in Accepted : removes[c] <= 1 /\ down[c] <= up[c] /\ up[c] <= 1

(* Nothing outlives what it points to.  ConnectionDestroyed is queued on loops that   *)
(* still exist: ~TcpServer's body is over before thread_pool_ goes.  And the close    *)
(* callback and the accept callback are bound to a plain TcpServer pointer            *)
(* (tcp_server.cc:24, :67): when the server is gone, no channel that could call       *)
(* either is left in the poller of a running loop.                                    *)
ServerOutlivesCallbacks ==
  /\ \A l \in Loops : ~alive[l] => functors[l] = <<>>
  /\ phase = "gone" =>
       /\ accept_index = "kNew"
       /\ \A c \in Accepted : alive[loop_[c]] => index_[c] # "kAdded"

(* A closed connection's object and descriptor are given back, over the hops from    *)
(* its loop to the main loop and back, unless the main loop stops in between.        *)
ClosedIsFreed ==
  \A c \in Conns : (index_[c] = "kDeleted") ~> (Freed(c) \/ phase # "open" \/ aborted)
=============================================================================
