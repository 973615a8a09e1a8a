---------------------------- MODULE TcpConnection ----------------------------
(***************************************************************************)
(* One TcpConnection (src/src/tcp_connection.cc) on its loop, from the      *)
(* functor that establishes it to its removal from the poller: Send and    *)
(* ShutDown from callbacks and from other threads, the four handlers, the   *)
(* peer, and the part of TcpServer that destroys it.                       *)
(*                                                                         *)
(* The loop serves the connection's functors first in first out, which is  *)
(* what FunctorQueue.tla says and EventLoopProofs.tla proves; between two  *)
(* functors it may dispatch an event of the channel.  The channel's index_  *)
(* moves as EpollPoller.tla's does.  The peer's data has no state here: a  *)
(* read yields some bytes, end of file or an error.  The object outlives   *)
(* the functors bound to it.  Of a string or an array handed to Send from  *)
(* another thread only the address is queued, and its owner keeps it until *)
(* it is sent; of a Buffer it is that of a temporary string, which nobody   *)
(* can keep: SendInLoop then finds its bytes or whatever took their place. *)
(***************************************************************************)
EXTENDS Integers, Sequences, FiniteSets

CONSTANTS
  Threads,          \* threads other than the loop's own that hold the connection
  ShutdownThreads,  \* those of them that may call ShutDown
  Messages,         \* messages, each given to Send at most once
  BufferMessages,   \* those of them that are handed over in a Buffer
  Junk,             \* what SendInLoop finds in memory that was freed
  MsgLen            \* bytes in each

ASSUME ShutdownAssumption == ShutdownThreads \subseteq Threads
ASSUME BufferAssumption == BufferMessages \subseteq Messages
ASSUME JunkAssumption == Junk \notin Messages
ASSUME MsgLenAssumption == MsgLen \in Nat \ {0}

Bytes(m) == [i \in 1..MsgLen |-> <<m, i>>]
Contents == Messages \cup {Junk}
Byte == Contents \X (1..MsgLen)

VARIABLES
  state_,
  events_, index_,     \* of channel_
  output_buffer_,
  functors,            \* of the loop, those about this connection
  todo,                \* handlers of the current event not yet called
  in_callback,         \* user code is running on the loop thread
  caller,              \* what each other thread is in the middle of
  unsent,              \* messages nobody has given to Send
  peer, wire, fin,     \* the peer; bytes the kernel took; our side is shut down
  removals,            \* RemoveConnection calls the server has not yet acted on
  in_map,              \* connection_maps still holds the connection
  accepted, notified,  \* history: bytes SendInLoop took; how many of them were
                       \* taken when write_complete_callback_ was last scheduled
  up, down,            \* history: connection_callback_ calls on and off
  overwritten,         \* history: a ShutDown set state_ after it was kDisconnected
  sigpipe              \* a write to a broken stream has ended the process

chan   == <<events_, index_>>
net    == <<wire, fin>>
env    == <<peer, sigpipe>>
server == <<removals, in_map>>
calls  == <<up, down, overwritten>>
sendvars == <<events_, index_, output_buffer_, wire, accepted, notified>>
vars == <<state_, chan, output_buffer_, functors, todo, in_callback, caller, unsent,
          env, net, server, accepted, notified, calls>>

States   == {"kConnecting", "kConnected", "kDisconnecting", "kDisconnected"}
Handlers == {"close", "error", "read", "write"}
Functors == [op : {"established", "shutdown", "writeComplete", "destroyed"}]
              \cup [op : {"send"}, msg : Messages]
Idle == [at |-> "idle"]
Callers == [at : {"idle", "shutChecked", "shutSet"}] \cup [at : {"sendChecked"}, msg : Messages]

TypeOK ==
  /\ state_ \in States
  /\ events_ \subseteq {"read", "write"}
  /\ index_ \in {"kNew", "kAdded", "kDeleted"}
  /\ output_buffer_ \in Seq(Byte)
  /\ functors \in Seq(Functors)
  /\ todo \subseteq Handlers
  /\ in_callback \in BOOLEAN
  /\ caller \in [Threads -> Callers]
  /\ unsent \subseteq Messages
  /\ peer \in {"open", "closed", "reset"}
  /\ wire \in Seq(Byte) /\ fin \in BOOLEAN
  /\ removals \in Nat /\ in_map \in BOOLEAN
  /\ accepted \in Seq(Byte) /\ notified \in Nat
  /\ up \in Nat /\ down \in Nat /\ overwritten \in BOOLEAN
  /\ sigpipe \in BOOLEAN

(* TcpServer::NewConnection has put the connection in its map and handed *)
(* ConnectionEstablished to the loop.                                     *)
Init ==
  /\ state_ = "kConnecting"
  /\ events_ = {} /\ index_ = "kNew"
  /\ output_buffer_ = <<>>
  /\ functors = << [op |-> "established"] >>
  /\ todo = {} /\ in_callback = FALSE
  /\ caller = [th \in Threads |-> Idle]
  /\ unsent = Messages
  /\ peer = "open" /\ wire = <<>> /\ fin = FALSE
  /\ removals = 0 /\ in_map = TRUE
  /\ accepted = <<>> /\ notified = 0
  /\ up = 0 /\ down = 0 /\ overwritten = FALSE
  /\ sigpipe = FALSE

LoopFree == todo = {} /\ ~in_callback

-----------------------------------------------------------------------------
(* Channel::Update on EpollPoller: a channel that is not registered is added, *)
(* whatever its mask; a registered one with an empty mask is deleted.         *)
SetEvents(mask) ==
  /\ events_' = mask
  /\ index_' = IF index_ # "kAdded" THEN "kAdded"
               ELSE IF mask = {} THEN "kDeleted" ELSE "kAdded"

IsWriting == "write" \in events_

-----------------------------------------------------------------------------
(* Sending *)

(* Append what is left to output_buffer_ and watch for EPOLLOUT. *)
BufferRest(rest) ==
  /\ output_buffer_' = output_buffer_ \o rest
  /\ IF rest # <<>> /\ ~IsWriting THEN SetEvents(events_ \cup {"write"}) ELSE UNCHANGED chan

(* ::write takes n bytes, or fails for now (n = 0), unless the stream is gone. *)
CanTake(n) == ~fin /\ (peer = "reset" => n = 0)
Broken     == fin \/ peer = "reset"

(* On a stream that is gone ::write returns EPIPE or ECONNRESET.  With EPIPE comes   *)
(* SIGPIPE, which ends a process that does not ignore it, and src/ never does.       *)
Breaks == Broken /\ sigpipe' \in BOOLEAN

(* The two tests SendInLoop starts with, lines 76 and 81. *)
GivesUp_Never == FALSE
GivesUp == state_ = "kDisconnected"

WritesDirectly_Always == TRUE
WritesDirectly == ~IsWriting /\ output_buffer_ = <<>>

SendInLoop(m) ==
  LET data == Bytes(m) IN
  \/ GivesUp /\ UNCHANGED <<sendvars, sigpipe>>
  \/ /\ ~GivesUp /\ WritesDirectly
     /\ \/ \E n \in 0..Len(data) :
             /\ CanTake(n)
             /\ wire' = wire \o SubSeq(data, 1, n)
             /\ BufferRest(SubSeq(data, n + 1, Len(data)))
             /\ accepted' = accepted \o data
             /\ notified' = IF n = Len(data) THEN Len(accepted') ELSE notified
             /\ UNCHANGED sigpipe
        \/ Breaks /\ UNCHANGED sendvars        \* faultError
  \/ /\ ~GivesUp /\ ~WritesDirectly
     /\ BufferRest(data)
     /\ accepted' = accepted \o data
     /\ UNCHANGED <<wire, notified, sigpipe>>

(* Send on the loop's own thread; write_complete_callback_, when it runs, runs *)
(* inside the call and is part of the same stretch of user code.               *)
Send_Self(m) ==
  /\ in_callback
  /\ m \in unsent /\ unsent' = unsent \ {m}
  /\ IF state_ = "kConnected" THEN SendInLoop(m) ELSE UNCHANGED <<sendvars, sigpipe>>
  /\ UNCHANGED <<state_, functors, todo, in_callback, caller, peer, fin, server, calls>>

(* Send on another thread: test state_, then queue SendInLoop. *)
Send_Check(th, m) ==
  /\ caller[th] = Idle
  /\ m \in unsent /\ unsent' = unsent \ {m}
  /\ caller' = [caller EXCEPT ![th] = IF state_ = "kConnected"
                                      THEN [at |-> "sendChecked", msg |-> m] ELSE Idle]
  /\ UNCHANGED <<state_, chan, output_buffer_, functors, todo, in_callback, env, net,
                 server, accepted, notified, calls>>

Send_Queue(th) ==
  /\ caller[th].at = "sendChecked"
  /\ functors' = Append(functors, [op |-> "send", msg |-> caller[th].msg])
  /\ caller' = [caller EXCEPT ![th] = Idle]
  /\ UNCHANGED <<state_, chan, output_buffer_, todo, in_callback, unsent, env, net,
                 server, accepted, notified, calls>>

-----------------------------------------------------------------------------
(* Shutting down *)

ShutdownInLoop_AtOnce == fin' = TRUE
ShutdownInLoop == fin' = (fin \/ ~IsWriting)

ShutDown_Self ==
  /\ in_callback /\ state_ = "kConnected"
  /\ state_' = "kDisconnecting"
  /\ ShutdownInLoop
  /\ UNCHANGED <<chan, output_buffer_, functors, todo, in_callback, caller, unsent, env,
                 wire, server, accepted, notified, calls>>

(* On another thread: test state_, set it, queue ShutdownInLoop. *)
ShutDown_Check(th) ==
  /\ th \in ShutdownThreads
  /\ caller[th] = Idle /\ state_ = "kConnected"
  /\ caller' = [caller EXCEPT ![th] = [at |-> "shutChecked"]]
  /\ UNCHANGED <<state_, chan, output_buffer_, functors, todo, in_callback, unsent, env,
                 net, server, accepted, notified, calls>>

ShutDown_Set(th) ==
  /\ caller[th].at = "shutChecked"
  /\ state_' = "kDisconnecting"
  /\ caller' = [caller EXCEPT ![th] = [at |-> "shutSet"]]
  /\ overwritten' = (overwritten \/ state_ = "kDisconnected")
  /\ UNCHANGED <<chan, output_buffer_, functors, todo, in_callback, unsent, env,
                 net, server, accepted, notified, up, down>>

ShutDown_Queue(th) ==
  /\ caller[th].at = "shutSet"
  /\ functors' = Append(functors, [op |-> "shutdown"])
  /\ caller' = [caller EXCEPT ![th] = Idle]
  /\ UNCHANGED <<state_, chan, output_buffer_, todo, in_callback, unsent, env, net,
                 server, accepted, notified, calls>>

-----------------------------------------------------------------------------
(* Functors of the loop *)

RunHead(op) ==
  /\ LoopFree
  /\ functors # <<>> /\ Head(functors).op = op
  /\ functors' = Tail(functors)

(* What is found at the address that was queued for m. *)
Found(m) == IF m \in BufferMessages THEN {m, Junk} ELSE {m}

RunSend ==
  /\ RunHead("send")
  /\ \E d \in Found(Head(functors).msg) : SendInLoop(d)
  /\ in_callback' = (notified' # notified)
  /\ UNCHANGED <<state_, todo, caller, unsent, peer, fin, server, calls>>

RunShutdown ==
  /\ RunHead("shutdown")
  /\ ShutdownInLoop
  /\ UNCHANGED <<state_, chan, output_buffer_, todo, in_callback, caller, unsent, env,
                 wire, server, accepted, notified, calls>>

RunWriteComplete ==
  /\ RunHead("writeComplete")
  /\ in_callback' = TRUE
  /\ UNCHANGED <<state_, chan, output_buffer_, todo, caller, unsent, env, net, server,
                 accepted, notified, calls>>

ConnectionEstablished ==
  /\ RunHead("established")
  /\ state_' = "kConnected"
  /\ SetEvents(events_ \cup {"read"})
  /\ up' = up + 1
  /\ in_callback' = TRUE
  /\ UNCHANGED <<output_buffer_, todo, caller, unsent, env, net, server, accepted,
                 notified, down, overwritten>>

(* In the kConnected branch DisableAll and then Remove: in the end the channel *)
(* is unregistered either way.                                                 *)
ConnectionDestroyed ==
  /\ RunHead("destroyed")
  /\ IF state_ = "kConnected"
     THEN state_' = "kDisconnected" /\ events_' = {} /\ down' = down + 1
     ELSE UNCHANGED <<state_, events_, down>>
  /\ index_' = "kNew"
  /\ UNCHANGED <<output_buffer_, todo, in_callback, caller, unsent, env, net, server,
                 accepted, notified, up, overwritten>>

(* Any other callback of the loop, a timer's or another connection's. *)
OtherCallback ==
  /\ LoopFree /\ state_ # "kConnecting"
  /\ in_callback' = TRUE
  /\ UNCHANGED <<state_, chan, output_buffer_, functors, todo, caller, unsent, env, net,
                 server, accepted, notified, calls>>

EndCallback ==
  /\ in_callback
  /\ in_callback' = FALSE
  /\ UNCHANGED <<state_, chan, output_buffer_, functors, todo, caller, unsent, env, net,
                 server, accepted, notified, calls>>

-----------------------------------------------------------------------------
(* Events.  The kernel reports EPOLLIN whenever there is data or an end of file  *)
(* and reading is asked for; EPOLLHUP, asked for or not, once both directions    *)
(* are shut; EPOLLERR after a reset.  Channel::HandleEventWithGuard then calls   *)
(* close (on HUP without IN), error, read and write, in this order.              *)

Dispatch ==
  /\ LoopFree /\ index_ = "kAdded"
  /\ \E in, out, err \in BOOLEAN :
       LET hup == peer = "reset" \/ (peer = "closed" /\ fin) IN
       /\ in => "read" \in events_
       /\ "read" \in events_ /\ peer # "open" => in
       /\ out => IsWriting
       /\ err => peer = "reset"
       /\ in \/ out \/ err \/ hup
       /\ todo' = {h \in Handlers : \/ h = "close" /\ hup /\ ~in
                                    \/ h = "error" /\ err
                                    \/ h = "read" /\ in
                                    \/ h = "write" /\ out}
  /\ UNCHANGED <<state_, chan, output_buffer_, functors, in_callback, caller, unsent, env,
                 net, server, accepted, notified, calls>>

(* h is the next handler HandleEventWithGuard calls. *)
Calls(h) ==
  /\ ~in_callback /\ h \in todo
  /\ CASE h = "close" -> TRUE
       [] h = "error" -> "close" \notin todo
       [] h = "read"  -> todo \cap {"close", "error"} = {}
       [] h = "write" -> todo = {"write"}
  /\ todo' = todo \ {h}

(* HandleClose: DisableAll, the user's callback, then RemoveConnection.  The     *)
(* callback cannot send or shut down any more, as state_ is not kConnected.      *)
HandleClose ==
  /\ state_' = "kDisconnected"
  /\ SetEvents({})
  /\ down' = down + 1
  /\ removals' = removals + 1

CloseEvent ==
  /\ Calls("close")
  /\ HandleClose
  /\ UNCHANGED <<output_buffer_, functors, in_callback, caller, unsent, env, net, in_map,
                 accepted, notified, up, overwritten>>

(* HandleError only logs. *)
HandleError ==
  /\ Calls("error")
  /\ UNCHANGED <<state_, chan, output_buffer_, functors, in_callback, caller, unsent, env,
                 net, server, accepted, notified, calls>>

HandleRead ==
  /\ Calls("read")
  /\ \/ /\ in_callback' = TRUE                    \* n > 0: message_callback_
        /\ UNCHANGED <<state_, chan, removals, down>>
     \/ /\ peer # "open"                          \* n = 0
        /\ HandleClose
        /\ UNCHANGED in_callback
     \/ UNCHANGED <<state_, chan, removals, down, in_callback>>   \* n < 0: HandleError
  /\ UNCHANGED <<output_buffer_, functors, caller, unsent, env, net, in_map, accepted,
                 notified, up, overwritten>>

(* output_buffer_ has drained. *)
Drained_NoDisable ==
  /\ functors' = Append(functors, [op |-> "writeComplete"])
  /\ notified' = Len(accepted)
  /\ IF state_ = "kDisconnecting" THEN fin' = TRUE ELSE UNCHANGED fin
  /\ UNCHANGED chan

Drained_NoShutdown ==
  /\ SetEvents(events_ \ {"write"})
  /\ functors' = Append(functors, [op |-> "writeComplete"])
  /\ notified' = Len(accepted)
  /\ UNCHANGED fin

Drained_NoCallback ==
  /\ SetEvents(events_ \ {"write"})
  /\ IF state_ = "kDisconnecting" THEN fin' = TRUE ELSE UNCHANGED fin
  /\ UNCHANGED <<functors, notified>>

Drained ==
  /\ SetEvents(events_ \ {"write"})
  /\ functors' = Append(functors, [op |-> "writeComplete"])
  /\ notified' = Len(accepted)
  /\ IF state_ = "kDisconnecting" THEN fin' = TRUE ELSE UNCHANGED fin

(* The second disjunct: the channel stopped writing since the event was reported, *)
(* or the write failed; either is logged.                                         *)
HandleWrite ==
  /\ Calls("write")
  /\ \/ /\ IsWriting
        /\ \E n \in 1..Len(output_buffer_) :
             LET rest == SubSeq(output_buffer_, n + 1, Len(output_buffer_)) IN
             /\ CanTake(n)
             /\ wire' = wire \o SubSeq(output_buffer_, 1, n)
             /\ output_buffer_' = rest
             /\ IF rest = <<>> THEN Drained ELSE UNCHANGED <<chan, functors, notified, fin>>
             /\ UNCHANGED sigpipe
     \/ /\ \/ (IsWriting => CanTake(0)) /\ UNCHANGED sigpipe
           \/ IsWriting /\ Breaks
        /\ UNCHANGED <<chan, output_buffer_, functors, net, notified>>
  /\ UNCHANGED <<state_, in_callback, caller, unsent, peer, server, accepted, calls>>

-----------------------------------------------------------------------------
(* The peer and the server *)

PeerCloses ==
  /\ peer = "open"
  /\ peer' \in {"closed", "reset"}
  /\ UNCHANGED <<state_, chan, output_buffer_, functors, todo, in_callback, caller, unsent,
                 net, server, accepted, notified, calls, sigpipe>>

(* RemoveconnectionInLoop on the server's loop. *)
ServerRemoves ==
  /\ removals > 0
  /\ removals' = removals - 1
  /\ in_map' = FALSE
  /\ functors' = Append(functors, [op |-> "destroyed"])
  /\ UNCHANGED <<state_, chan, output_buffer_, todo, in_callback, caller, unsent, env, net,
                 accepted, notified, calls>>

(* ~TcpServer, while no RemoveConnection of this connection is on its way.  A    *)
(* RemoveConnection called after it works on a dead server: whether ServerRemoves *)
(* then still happens is anyone's guess, and both are allowed.                    *)
ServerDestroyed ==
  /\ in_map /\ removals = 0
  /\ in_map' = FALSE
  /\ functors' = Append(functors, [op |-> "destroyed"])
  /\ UNCHANGED <<state_, chan, output_buffer_, todo, in_callback, caller, unsent, env, net,
                 removals, accepted, notified, calls>>

RunFunctor ==
  \/ RunSend \/ RunShutdown \/ RunWriteComplete
  \/ ConnectionEstablished \/ ConnectionDestroyed
RunHandler == CloseEvent \/ HandleError \/ HandleRead \/ HandleWrite

Step ==
  \/ RunFunctor \/ RunHandler \/ Dispatch \/ OtherCallback \/ EndCallback
  \/ \E m \in Messages : Send_Self(m) \/ \E th \in Threads : Send_Check(th, m)
  \/ \E th \in Threads :
       Send_Queue(th) \/ ShutDown_Check(th) \/ ShutDown_Set(th) \/ ShutDown_Queue(th)
  \/ ShutDown_Self
  \/ PeerCloses \/ ServerRemoves \/ ServerDestroyed

Ended == sigpipe /\ UNCHANGED vars

Next == (~sigpipe /\ Step) \/ Ended

(* Every pass of Loop() polls and serves the queue, so neither a reported event  *)
(* nor a functor waits for ever, and callbacks return; the server's loop and the *)
(* calling threads run.  About the peer: it keeps reading, so a watched socket   *)
(* becomes writable and takes bytes, and once it has closed, reading comes to    *)
(* the end of the stream.                                                        *)
DispatchOut   == Dispatch /\ "write" \in todo'
WriteProgress == HandleWrite /\ wire' # wire
ReadEof       == HandleRead /\ down' # down
Alive(A)      == ~sigpipe /\ A
Fairness ==
  /\ SF_vars(Alive(RunFunctor)) /\ SF_vars(Alive(Dispatch))
  /\ WF_vars(Alive(RunHandler)) /\ WF_vars(Alive(EndCallback)) /\ WF_vars(Alive(ServerRemoves))
  /\ \A th \in Threads :
       WF_vars(Alive(Send_Queue(th) \/ ShutDown_Set(th) \/ ShutDown_Queue(th)))
  /\ SF_vars(Alive(DispatchOut)) /\ SF_vars(Alive(WriteProgress)) /\ SF_vars(Alive(ReadEof))

Spec == Init /\ [][Next]_vars /\ Fairness

-----------------------------------------------------------------------------
(* Properties *)

(* What the peer is sent is what SendInLoop took, in that order: what the kernel *)
(* has followed by what is buffered is exactly what was taken.  A direct write   *)
(* never overtakes buffered bytes and no byte is lost, repeated or reordered,    *)
(* whichever of write(2)'s outcomes occur.                                       *)
WireInOrder == wire \o output_buffer_ = accepted

(* Until the connection closes, EPOLLOUT is watched exactly while there are bytes *)
(* to send: no stalled buffer, and no busy loop on a writable socket.             *)
WritingWhilePending == down = 0 => (IsWriting <=> output_buffer_ # <<>>)

(* ShutDown sends FIN only behind everything SendInLoop took before it. *)
FinAfterData == fin /\ down = 0 => output_buffer_ = <<>>

(* When everything has been handed to the kernel, write_complete_callback_ has   *)
(* been scheduled since the last byte was taken.                                  *)
NotifiedWhenDrained == output_buffer_ = <<>> => notified = Len(accepted)

(* A connection that went down stays down: it is reported once, removed from the  *)
(* poller and never registered again, not even by a SendInLoop still queued.  The *)
(* one way out is a ShutDown of another thread that tests state_ before the        *)
(* connection goes down and sets it after; and the process may end first.         *)
DownIsFinal ==
  (down > 0) ~> []((index_ = "kNew" /\ up = 1 /\ down = 1) \/ overwritten \/ sigpipe)

(* A connection being shut down ends: FIN is sent, the connection goes down, or   *)
(* it is taken from the poller, unless a write ends the process.                  *)
ShutdownCompletes ==
  (state_ = "kDisconnecting") ~> (fin \/ down > 0 \/ index_ = "kNew" \/ sigpipe)
=============================================================================
