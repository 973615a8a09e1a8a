------------------------------- MODULE PingPong -------------------------------
(***************************************************************************)
(* The pingpong benchmark: PingpongServer (src/example/pingpong_server.cc)  *)
(* on this library, and Client with its Sessions                            *)
(* (src/example/pingpong_client.cc) on muduo, each session sending a block  *)
(* that the two sides then echo back and forth until a timeout.  EchoServer *)
(* (src/example/echo_server.cc) answers a message in the same way.          *)
(*                                                                         *)
(* What the composition is for: Socket::Accept makes the listening socket   *)
(* non-blocking and not the accepted one, so the server's write blocks its  *)
(* whole loop until the peer has made room.  A connection is the counts of  *)
(* bytes at each of the places where they can be; that they keep their      *)
(* order is TcpConnection.tla's matter, and with a blocking write            *)
(* output_buffer_ stays empty.                                             *)
(*                                                                         *)
(* Loop 0 is main's, the others the pool's.  A close crosses from the        *)
(* connection's loop to main's and back, as in TcpServer.tla, before the     *)
(* descriptor is closed.  The client's handlers run on several threads and   *)
(* share the atomic numConnected_.                                         *)
(***************************************************************************)
EXTENDS Naturals, FiniteSets

CONSTANTS
  Sessions,
  Hanging,         \* sessions whose thread may stop for good
  MaxThreads,      \* bound: threads of the server's pool
  BlockSize,
  RoomIn, RoomOut  \* bytes the kernel holds on the way to the server, and back

ASSUME SessionsAssumption == IsFiniteSet(Sessions)
ASSUME HangingAssumption == Hanging \subseteq Sessions
ASSUME BlockAssumption == \A n \in {BlockSize, RoomIn, RoomOut} : n \in Nat \ {0}
ASSUME ThreadsAssumption == MaxThreads \in Nat

VARIABLES
  client,               \* what muduo's TcpClient is for each session
  fin,                  \* sessions that have shut down their side
  out, c2s, s2c,        \* bytes in the client's output buffer, and on the way
  hung,                 \* sessions whose thread has stopped
  numConnected_, stopped, quit, parity,    \* Client; parity of each messagesRead_
  to_stop,              \* sessions that handleTimeout has still to stop
  all_connected,        \* history: "all connected" was reached before the timeout
  num_threads_, next_,  \* server: the pool
  conn, loop_,          \* connections and their loops
  writing               \* the write each loop is in: session and bytes left

net  == <<out, c2s, s2c>>
cl   == <<client, fin, hung, numConnected_, stopped, to_stop, quit, parity, all_connected>>
srv  == <<num_threads_, next_, conn, loop_, writing>>
vars == <<net, cl, srv>>

Loops == 0..MaxThreads
NotWriting == [left |-> 0]

(* The client's main has built Client, whose constructor starts every session; the *)
(* server's has read its number of threads from the command line.                  *)
ClientInit ==
  /\ client = [s \in Sessions |-> "connecting"]
  /\ fin = {} /\ hung = {} /\ to_stop = {}
  /\ numConnected_ = 0 /\ stopped = FALSE /\ quit = FALSE /\ all_connected = FALSE
  /\ parity = [s \in Sessions |-> 0]

ServerInit ==
  /\ num_threads_ \in 0..MaxThreads /\ next_ = 0
  /\ conn = [s \in Sessions |-> "none"]
  /\ loop_ = [s \in Sessions |-> 0]
  /\ writing = [l \in Loops |-> NotWriting]

Init ==
  /\ ClientInit /\ ServerInit
  /\ out = [s \in Sessions |-> 0] /\ c2s = out /\ s2c = out

-----------------------------------------------------------------------------
(* The server *)

Free_OneThread(l) == \A k \in Loops : writing[k] = NotWriting
Free(l) == writing[l] = NotWriting

GetNextLoop == IF num_threads_ = 0 THEN 0 ELSE next_ + 1

(* Acceptor::HandleRead and NewConnection on main's loop, which hands the connection *)
(* to its own loop, or establishes it at once if that is main's.                      *)
Accept(s) ==
  /\ client[s] # "connecting" /\ conn[s] = "none"
  /\ Free(0)
  /\ conn' = [conn EXCEPT ![s] = IF GetNextLoop = 0 THEN "up" ELSE "queued"]
  /\ loop_' = [loop_ EXCEPT ![s] = GetNextLoop]
  /\ next_' = IF num_threads_ = 0 THEN 0 ELSE (next_ + 1) % num_threads_
  /\ UNCHANGED <<net, cl, num_threads_, writing>>

(* OnMessage: everything that was read is sent, in a write that does not return *)
(* before the kernel has taken it all.                                          *)
OnMessage_DropsRest(s, n) == [session |-> s, left |-> 1]
OnMessage(s, n) == [session |-> s, left |-> n]

HandleRead(s) ==
  /\ conn[s] = "up" /\ Free(loop_[s])
  /\ \E n \in 1..c2s[s] :
       /\ c2s' = [c2s EXCEPT ![s] = @ - n]
       /\ writing' = [writing EXCEPT ![loop_[s]] = OnMessage(s, n)]
  /\ UNCHANGED <<out, s2c, cl, num_threads_, next_, conn, loop_>>

(* The kernel takes what fits of a blocked write. *)
Write(l) ==
  /\ ~Free(l)
  /\ LET s == writing[l].session IN
     \E n \in 1..writing[l].left :
       /\ s2c[s] + n <= RoomOut
       /\ s2c' = [s2c EXCEPT ![s] = @ + n]
       /\ writing' = [writing EXCEPT ![l] = IF n = @.left THEN NotWriting
                                            ELSE [session |-> s, left |-> @.left - n]]
  /\ UNCHANGED <<out, c2s, cl, num_threads_, next_, conn, loop_>>

(* A step of s's connection on loop l: with it the connection is established, or     *)
(* closed in three, HandleClose, RemoveconnectionInLoop on main's loop and            *)
(* ConnectionDestroyed, after which the descriptor is closed.  OnConnection only sets *)
(* an option.                                                                         *)
Moves(s, from, l, to) ==
  /\ conn[s] = from /\ Free(l)
  /\ conn' = [conn EXCEPT ![s] = to]
  /\ UNCHANGED <<net, cl, num_threads_, next_, loop_, writing>>

ConnectionEstablished(s) == Moves(s, "queued", loop_[s], "up")
HandleClose_NoCallback(s) == s \in fin /\ c2s[s] = 0 /\ Moves(s, "up", loop_[s], "detached")
HandleClose(s) == s \in fin /\ c2s[s] = 0 /\ Moves(s, "up", loop_[s], "removing")
RemoveConnection(s) == Moves(s, "removing", 0, "destroying")
ConnectionDestroyed(s) == Moves(s, "destroying", loop_[s], "closed")

-----------------------------------------------------------------------------
(* The client *)

(* onConnection, up: send the block, count. *)
AllConnected(n) == n = Cardinality(Sessions)

Connected(s) ==
  /\ client[s] = "connecting"
  /\ client' = [client EXCEPT ![s] = "up"]
  /\ out' = [out EXCEPT ![s] = BlockSize]
  /\ numConnected_' = numConnected_ + 1
  /\ all_connected' = (all_connected \/ (AllConnected(numConnected_') /\ ~stopped))
  /\ UNCHANGED <<c2s, s2c, fin, hung, stopped, to_stop, quit, parity, srv>>

(* muduo's output buffer. *)
ClientWrite(s) ==
  /\ \E n \in 1..out[s] :
       /\ c2s[s] + n <= RoomIn
       /\ out' = [out EXCEPT ![s] = @ - n]
       /\ c2s' = [c2s EXCEPT ![s] = @ + n]
  /\ UNCHANGED <<s2c, cl, srv>>

(* onMessage: count and send back; muduo sends nothing once it is disconnecting. *)
ClientRead(s) ==
  /\ \E n \in 1..s2c[s] :
       /\ s2c' = [s2c EXCEPT ![s] = @ - n]
       /\ out' = [out EXCEPT ![s] = IF client[s] = "up" THEN @ + n ELSE @]
  /\ parity' = [parity EXCEPT ![s] = 1 - @]
  /\ UNCHANGED <<c2s, client, fin, hung, numConnected_, stopped, to_stop, quit, all_connected, srv>>

(* handleTimeout, on main's thread: disconnect() one session after the other while   *)
(* their threads go on; one that is still connecting then is not stopped.  muduo      *)
(* shuts down once what it has to send is sent.                                       *)
HandleTimeout ==
  /\ ~stopped /\ stopped' = TRUE
  /\ to_stop' = Sessions
  /\ UNCHANGED <<net, client, fin, hung, numConnected_, quit, parity, all_connected, srv>>

Stop(s) ==
  /\ s \in to_stop /\ to_stop' = to_stop \ {s}
  /\ client' = [client EXCEPT ![s] = IF @ = "up" THEN "stopping" ELSE @]
  /\ UNCHANGED <<net, fin, hung, numConnected_, stopped, quit, parity, all_connected, srv>>

ShutDown(s) ==
  /\ client[s] = "stopping" /\ out[s] = 0 /\ s \notin fin
  /\ fin' = fin \cup {s}
  /\ UNCHANGED <<net, client, hung, numConnected_, stopped, to_stop, quit, parity, all_connected, srv>>

(* End of file: onDisconnect; the last one prints the totals and quits. *)
IsLast_Early(n) == n <= 1
IsLast(n) == n = 0

Disconnected(s) ==
  /\ client[s] = "stopping" /\ conn[s] = "closed" /\ s2c[s] = 0
  /\ client' = [client EXCEPT ![s] = "down"]
  /\ numConnected_' = numConnected_ - 1
  /\ quit' = (quit \/ IsLast(numConnected_'))
  /\ UNCHANGED <<net, fin, hung, stopped, to_stop, parity, all_connected, srv>>

Hang(s) ==
  /\ s \in Hanging /\ client[s] = "up" /\ hung' = hung \cup {s}
  /\ UNCHANGED <<net, client, fin, numConnected_, stopped, to_stop, quit, parity, all_connected, srv>>

-----------------------------------------------------------------------------
ServerStep(s) ==
  \/ Accept(s) \/ ConnectionEstablished(s) \/ HandleRead(s)
  \/ HandleClose(s) \/ RemoveConnection(s) \/ ConnectionDestroyed(s)

ClientStep(s) ==
  /\ s \notin hung
  /\ Connected(s) \/ ClientWrite(s) \/ ClientRead(s) \/ ShutDown(s) \/ Disconnected(s)

Next ==
  \/ \E s \in Sessions : ServerStep(s) \/ ClientStep(s) \/ Stop(s) \/ Hang(s)
  \/ \E l \in Loops : Write(l)
  \/ HandleTimeout

(* A loop that is not blocked serves every descriptor it is told of, and the kernel *)
(* takes bytes while it has room; the client's threads run unless they hang.  No    *)
(* fairness makes the timeout come, but its loop over the sessions ends.            *)
Spec ==
  /\ Init /\ [][Next]_vars
  /\ \A s \in Sessions : SF_vars(ServerStep(s)) /\ WF_vars(ClientStep(s)) /\ WF_vars(Stop(s))
  /\ \A l \in Loops : WF_vars(Write(l))

-----------------------------------------------------------------------------
(* Properties *)

(* The bytes of s in the write its loop is in. *)
InServer(s) == IF ~Free(loop_[s]) /\ writing[loop_[s]].session = s THEN writing[loop_[s]].left ELSE 0

(* Until it is stopped, exactly one block circulates in every connection, however  *)
(* the reads, writes and blocked writes on both sides split it.                     *)
OneBlockCirculates ==
  \A s \in Sessions : client[s] = "up" => out[s] + c2s[s] + InServer(s) + s2c[s] = BlockSize

(* A peer that stops reading holds up the connections of its own loop only: every   *)
(* other session is answered again and again.  (Within the loop it holds up all,    *)
(* because the accepted sockets are blocking.)                                      *)
Undisturbed(s) == s \notin hung /\ \A h \in hung : loop_[h] # loop_[s] \/ conn[h] = "none"
HangsItsLoopOnly ==
  \A s \in Sessions, p \in {0, 1} :
    (client[s] = "up" /\ conn[s] = "up" /\ parity[s] = p)
      ~> (parity[s] # p \/ client[s] # "up" \/ ~Undisturbed(s))

(* When all sessions were connected at the timeout and none hangs, all are shut    *)
(* down, through the server's loops, and the client's main loop quits.              *)
ClientQuits == (stopped /\ all_connected) ~> (quit \/ hung # {})

(* The totals are printed when nothing more can be read: no session is answered     *)
(* after it.                                                                        *)
TotalsAreFinal == [][quit /\ all_connected => parity' = parity]_vars
=============================================================================
