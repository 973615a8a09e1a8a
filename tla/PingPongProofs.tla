--------------------------- MODULE PingPongProofs ---------------------------
(***************************************************************************)
(* Proofs about PingPong.tla, for any number of sessions and threads and    *)
(* any sizes of the block and of the kernel's buffers.                      *)
(*                                                                         *)
(* One block circulates because a loop's write belongs to a connection that *)
(* is up and stays on that loop (WriterIsUp), and because nothing is in     *)
(* flight before onConnection sends the block (QuietBefore).  The totals    *)
(* are final because numConnected_ counts the connections (CountsConnected) *)
(* and a session goes down only once the server has closed it and           *)
(* everything was read (QuietAfter).                                        *)
(***************************************************************************)
EXTENDS PingPong, FiniteSetTheorems, TLAPS

ClientStates == {"connecting", "up", "stopping", "down"}
Writes == {NotWriting} \cup [session : Sessions, left : Nat \ {0}]

ClientTypeOK ==
  /\ client \in [Sessions -> ClientStates]
  /\ fin \subseteq Sessions /\ hung \subseteq Hanging /\ to_stop \subseteq Sessions
  /\ numConnected_ \in Nat
  /\ stopped \in BOOLEAN /\ quit \in BOOLEAN /\ all_connected \in BOOLEAN
  /\ parity \in [Sessions -> {0, 1}]

NetTypeOK == out \in [Sessions -> Nat] /\ c2s \in [Sessions -> Nat] /\ s2c \in [Sessions -> Nat]

ServerTypeOK ==
  /\ num_threads_ \in 0..MaxThreads
  /\ next_ \in Nat /\ (num_threads_ # 0 => next_ < num_threads_)
  /\ conn \in [Sessions -> {"none", "queued", "up", "removing", "destroying", "closed"}]
  /\ loop_ \in [Sessions -> Loops]
  /\ writing \in [Loops -> Writes]

PingPongTypeOK == ClientTypeOK /\ NetTypeOK /\ ServerTypeOK

(* A loop is in the write of one of its own connections, and that one is up: it is *)
(* closed by the same loop, after the write.                                        *)
WriterIsUp ==
  \A l \in Loops : ~Free(l) =>
    loop_[writing[l].session] = l /\ conn[writing[l].session] = "up"

(* Before onConnection nothing was sent and the server has not accepted. *)
QuietBefore ==
  \A s \in Sessions : client[s] = "connecting" =>
    conn[s] = "none" /\ out[s] = 0 /\ c2s[s] = 0 /\ s2c[s] = 0

(* After onDisconnect the server is through with the session and all was read. *)
QuietAfter == \A s \in Sessions : client[s] = "down" => conn[s] = "closed" /\ s2c[s] = 0

IsConnected(c, s) == c[s] \in {"up", "stopping"}
ConnectedIn(c) == {s \in Sessions : IsConnected(c, s)}
CountsConnected == numConnected_ = Cardinality(ConnectedIn(client))

(* A session is stopped and leaves only after the timeout. *)
LeavesStopped ==
  /\ \A s \in Sessions : client[s] \in {"stopping", "down"} => stopped
  /\ to_stop # {} \/ quit => stopped

(* "all connected" is reached at most once, before the timeout, and then nobody is *)
(* left to connect; so the last one to leave leaves nobody.                         *)
AllWereConnected ==
  all_connected =>
    /\ \A s \in Sessions : client[s] # "connecting"
    /\ quit => \A s \in Sessions : client[s] = "down"

PingPongInv ==
  /\ PingPongTypeOK /\ WriterIsUp /\ QuietBefore /\ QuietAfter /\ OneBlockCirculates
  /\ CountsConnected /\ LeavesStopped /\ AllWereConnected

-----------------------------------------------------------------------------
(* What the proofs use of the loops' writes *)

LEMMA WriteType ==
  ASSUME PingPongTypeOK, NEW l \in Loops, ~Free(l)
  PROVE  writing[l].session \in Sessions /\ writing[l].left \in Nat \ {0}
  BY DEF PingPongTypeOK, ServerTypeOK, Free, Writes

LEMMA OnMessageType ==
  ASSUME NEW s \in Sessions, NEW n \in Nat \ {0}
  PROVE  /\ OnMessage(s, n) \in Writes /\ OnMessage(s, n) # NotWriting
         /\ OnMessage(s, n).session = s /\ OnMessage(s, n).left = n
  <1>1. OnMessage(s, n).left = n /\ NotWriting.left = 0
    BY DEF OnMessage, NotWriting
  <1>2. OnMessage(s, n) # NotWriting
    BY <1>1
  <1> QED BY <1>1, <1>2 DEF OnMessage, Writes

(* A session whose connection is not up has no bytes in a write. *)
LEMMA InServerType ==
  ASSUME PingPongTypeOK, WriterIsUp, NEW s \in Sessions
  PROVE  InServer(s) \in Nat /\ (conn[s] # "up" \/ Free(loop_[s]) => InServer(s) = 0)
  <1>1. loop_[s] \in Loops
    BY DEF PingPongTypeOK, ServerTypeOK
  <1> QED BY <1>1, WriteType DEF InServer, WriterIsUp

(* The bytes in the server are those of its writes. *)
LEMMA InServerKept ==
  ASSUME NEW s \in Sessions, loop_'[s] = loop_[s], writing'[loop_[s]] = writing[loop_[s]]
  PROVE  InServer(s)' = InServer(s)
  BY DEF InServer, Free

(* A step of the client that leaves the server alone leaves it its write. *)
LEMMA ServerKept ==
  ASSUME PingPongInv, UNCHANGED srv
  PROVE  /\ ServerTypeOK' /\ WriterIsUp'
         /\ \A s \in Sessions : InServer(s)' = InServer(s)
  BY DEF PingPongInv, PingPongTypeOK, ServerTypeOK, WriterIsUp, Free, InServer, srv, Writes, Loops

(* The part of the invariant that is about the client only. *)
LEMMA ClientKept ==
  ASSUME PingPongInv, UNCHANGED cl
  PROVE  /\ ClientTypeOK' /\ CountsConnected' /\ LeavesStopped' /\ AllWereConnected'
         /\ client' = client
  BY DEF PingPongInv, PingPongTypeOK, ClientTypeOK, CountsConnected, LeavesStopped,
         AllWereConnected, ConnectedIn, IsConnected, ClientStates, cl

-----------------------------------------------------------------------------
(* The server's steps *)

LEMMA NextLoopType ==
  ASSUME ServerTypeOK
  PROVE  GetNextLoop \in Loops
  BY ThreadsAssumption DEF ServerTypeOK, GetNextLoop, Loops

LEMMA AcceptKeeps ==
  ASSUME PingPongInv, NEW s \in Sessions, Accept(s)
  PROVE  PingPongInv'
  <1>c. ClientTypeOK' /\ CountsConnected' /\ LeavesStopped' /\ AllWereConnected' /\ client' = client
    BY ClientKept DEF Accept
  <1>n. UNCHANGED net /\ NetTypeOK'
    BY DEF Accept, PingPongInv, PingPongTypeOK, NetTypeOK, net
  <1>t. PingPongTypeOK
    BY DEF PingPongInv
  <1>1. ServerTypeOK'
    <2>1. (num_threads_ # 0) => (next_ + 1) % num_threads_ \in 0..(num_threads_ - 1)
      BY <1>t, ThreadsAssumption DEF PingPongTypeOK, ServerTypeOK
    <2>2. /\ num_threads_' \in 0..MaxThreads
          /\ next_' \in Nat /\ (num_threads_' # 0 => next_' < num_threads_')
      BY <1>t, <2>1, ThreadsAssumption DEF PingPongTypeOK, ServerTypeOK, Accept
    <2>3. loop_' \in [Sessions -> Loops]
      BY <1>t, NextLoopType DEF PingPongTypeOK, ServerTypeOK, Accept
    <2> QED BY <1>t, <2>2, <2>3 DEF PingPongTypeOK, ServerTypeOK, Accept, Writes, Loops
  <1>2. WriterIsUp'
    <2> SUFFICES ASSUME NEW l \in Loops, ~Free(l)'
                 PROVE  loop_'[writing[l].session] = l /\ conn'[writing[l].session] = "up"
      BY DEF WriterIsUp, Accept, Loops
    <2>1. ~Free(l)
      BY DEF Free, Accept
    <2>2. writing[l].session \in Sessions
      BY <1>t, <2>1, WriteType
    <2>3. loop_[writing[l].session] = l /\ conn[writing[l].session] = "up"
      BY <2>1 DEF PingPongInv, WriterIsUp
    <2>4. writing[l].session # s
      BY <2>3 DEF Accept
    <2> QED BY <1>t, <2>2, <2>3, <2>4 DEF Accept, PingPongTypeOK, ServerTypeOK
  <1>3. QuietBefore' /\ QuietAfter'
    BY <1>c, <1>n, <1>t
       DEF PingPongInv, QuietBefore, QuietAfter, Accept, PingPongTypeOK, ServerTypeOK, net
  <1>4. OneBlockCirculates'
    <2>1. WriterIsUp /\ PingPongTypeOK'
      BY <1>c, <1>n, <1>1 DEF PingPongInv, PingPongTypeOK
    <2>2. ASSUME NEW r \in Sessions
          PROVE  InServer(r)' = InServer(r)
      <3>1. CASE r # s
        BY <3>1, <1>t, InServerKept DEF Accept, PingPongTypeOK, ServerTypeOK
      <3>2. CASE r = s
        <4>1. conn[s] # "up" /\ InServer(s) = 0
          BY <1>t, <2>1, InServerType DEF Accept
        <4>2. InServer(s)' = 0
          <5>1. ASSUME writing[loop_'[s]] # NotWriting, writing[loop_'[s]].session = s
                PROVE  FALSE
            <6>1. loop_'[s] \in Loops
              BY <1>1 DEF ServerTypeOK
            <6> QED BY <5>1, <6>1, <2>1, <4>1 DEF WriterIsUp, Free
          <5> QED BY <5>1 DEF InServer, Accept, Free
        <4> QED BY <3>2, <4>1, <4>2
      <3> QED BY <3>1, <3>2
    <2> QED BY <1>c, <1>n, <2>2 DEF OneBlockCirculates, PingPongInv, net
  <1> QED BY <1>c, <1>n, <1>1, <1>2, <1>3, <1>4 DEF PingPongInv, PingPongTypeOK

(* A step of the connection on its loop or on main's, which is not in a write then.  *)
(* No connection moves away from "up" under its own write, nor back from "closed".   *)
LEMMA MovesKeeps ==
  ASSUME PingPongInv, NEW s \in Sessions, NEW from, NEW to, NEW l \in Loops,
         Moves(s, from, l, to),
         to \in {"up", "removing", "destroying", "closed"}, from \notin {"none", "closed"},
         from = "up" => l = loop_[s]
  PROVE  PingPongInv'
  <1>c. ClientTypeOK' /\ CountsConnected' /\ LeavesStopped' /\ AllWereConnected' /\ client' = client
    BY ClientKept DEF Moves
  <1>n. UNCHANGED net /\ NetTypeOK'
    BY DEF Moves, PingPongInv, PingPongTypeOK, NetTypeOK, net
  <1>t. PingPongTypeOK
    BY DEF PingPongInv
  <1>1. ServerTypeOK'
    BY <1>t DEF PingPongTypeOK, ServerTypeOK, Moves, Loops, Writes
  <1>2. WriterIsUp'
    <2> SUFFICES ASSUME NEW k \in Loops, ~Free(k)'
                 PROVE  loop_[writing[k].session] = k /\ conn'[writing[k].session] = "up"
      BY DEF WriterIsUp, Moves, Loops
    <2>1. ~Free(k)
      BY DEF Free, Moves
    <2>2. writing[k].session \in Sessions
      BY <1>t, <2>1, WriteType
    <2>3. loop_[writing[k].session] = k /\ conn[writing[k].session] = "up"
      BY <2>1 DEF PingPongInv, WriterIsUp
    <2>4. writing[k].session # s
      BY <2>1, <2>3 DEF Moves
    <2> QED BY <1>t, <2>2, <2>3, <2>4 DEF Moves, PingPongTypeOK, ServerTypeOK
  <1>3. QuietBefore' /\ QuietAfter'
    BY <1>c, <1>n, <1>t
       DEF PingPongInv, QuietBefore, QuietAfter, Moves, PingPongTypeOK, ServerTypeOK, net
  <1>4. \A r \in Sessions : InServer(r)' = InServer(r)
    BY DEF InServer, Free, Moves
  <1>5. OneBlockCirculates'
    BY <1>c, <1>n, <1>4 DEF OneBlockCirculates, PingPongInv, net
  <1> QED BY <1>c, <1>n, <1>1, <1>2, <1>3, <1>5 DEF PingPongInv, PingPongTypeOK

LEMMA HandleReadKeeps ==
  ASSUME PingPongInv, NEW s \in Sessions, HandleRead(s)
  PROVE  PingPongInv'
  <1>c. ClientTypeOK' /\ CountsConnected' /\ LeavesStopped' /\ AllWereConnected' /\ client' = client
    BY ClientKept DEF HandleRead
  <1>t. /\ PingPongTypeOK /\ WriterIsUp /\ loop_[s] \in Loops /\ c2s[s] \in Nat
        /\ conn[s] = "up" /\ Free(loop_[s])
    BY DEF PingPongInv, PingPongTypeOK, ServerTypeOK, NetTypeOK, HandleRead
  <1>p. PICK n \in 1..c2s[s] :
          /\ c2s' = [c2s EXCEPT ![s] = @ - n]
          /\ writing' = [writing EXCEPT ![loop_[s]] = OnMessage(s, n)]
    BY DEF HandleRead
  <1>m. /\ n \in Nat \ {0} /\ OnMessage(s, n) \in Writes /\ OnMessage(s, n) # NotWriting
        /\ OnMessage(s, n).session = s /\ OnMessage(s, n).left = n
    BY <1>t, OnMessageType
  <1>u. UNCHANGED <<out, s2c, num_threads_, next_, conn, loop_>>
    BY DEF HandleRead
  <1>w. /\ writing'[loop_[s]] = OnMessage(s, n)
        /\ \A k \in Loops : k # loop_[s] => writing'[k] = writing[k]
    BY <1>t, <1>p DEF PingPongTypeOK, ServerTypeOK
  <1>d. /\ c2s[s] - n \in Nat /\ c2s'[s] = c2s[s] - n
        /\ \A r \in Sessions : r # s => c2s'[r] = c2s[r]
    BY <1>t, <1>p DEF PingPongTypeOK, NetTypeOK
  <1>1. ServerTypeOK' /\ NetTypeOK'
    <2>1. writing' \in [Loops -> Writes]
      BY <1>t, <1>p, <1>m DEF PingPongTypeOK, ServerTypeOK
    <2>2. c2s' \in [Sessions -> Nat]
      BY <1>t, <1>p, <1>d DEF PingPongTypeOK, NetTypeOK
    <2> QED BY <1>t, <1>u, <2>1, <2>2 DEF PingPongTypeOK, ServerTypeOK, NetTypeOK, Loops, Writes
  <1>2. WriterIsUp'
    <2> SUFFICES ASSUME NEW k \in Loops, ~Free(k)'
                 PROVE  loop_[writing'[k].session] = k /\ conn[writing'[k].session] = "up"
      BY <1>u DEF WriterIsUp, Loops
    <2>1. CASE k = loop_[s]
      BY <2>1, <1>t, <1>m, <1>w
    <2>2. CASE k # loop_[s]
      BY <2>2, <1>t, <1>w DEF WriterIsUp, Free
    <2> QED BY <2>1, <2>2
  <1>3. QuietBefore' /\ QuietAfter'
    BY <1>c, <1>u, <1>t, <1>d DEF PingPongInv, QuietBefore, QuietAfter
  <1>4. OneBlockCirculates'
    <2> SUFFICES ASSUME NEW r \in Sessions, client[r] = "up"
                 PROVE  out[r] + c2s'[r] + InServer(r)' + s2c[r] = BlockSize
      BY <1>c, <1>u DEF OneBlockCirculates
    <2>0. /\ out[r] + c2s[r] + InServer(r) + s2c[r] = BlockSize
          /\ out[r] \in Nat /\ c2s[r] \in Nat /\ s2c[r] \in Nat /\ loop_[r] \in Loops
      BY <1>t DEF PingPongInv, OneBlockCirculates, PingPongTypeOK, NetTypeOK, ServerTypeOK
    <2>1. CASE r = s
      <3>1. InServer(s) = 0
        BY <1>t, InServerType
      <3>2. InServer(s)' = n
        BY <1>u, <1>w, <1>m DEF InServer, Free
      <3> QED BY ONLY <2>0, <2>1, <3>1, <3>2, <1>d, <1>m
    <2>2. CASE r # s
      <3>1. InServer(r)' = InServer(r)
        <4>1. CASE loop_[r] # loop_[s]
          BY <4>1, <2>0, <1>u, <1>w, InServerKept
        <4>2. CASE loop_[r] = loop_[s]
          <5>1. InServer(r) = 0
            BY <4>2, <1>t, InServerType
          <5>2. InServer(r)' = 0
            BY <2>2, <4>2, <1>u, <1>w, <1>m DEF InServer, Free
          <5> QED BY <5>1, <5>2
        <4> QED BY <4>1, <4>2
      <3> QED BY <2>0, <2>2, <3>1, <1>d
    <2> QED BY <2>1, <2>2
  <1> QED BY <1>c, <1>1, <1>2, <1>3, <1>4 DEF PingPongInv, PingPongTypeOK

(* What the kernel takes of a write leaves the server and is on the way back; the *)
(* other connections of the loop have no bytes in it.                              *)
LEMMA WriteKeeps ==
  ASSUME PingPongInv, NEW l \in Loops, Write(l)
  PROVE  PingPongInv'
  <1>c. ClientTypeOK' /\ CountsConnected' /\ LeavesStopped' /\ AllWereConnected' /\ client' = client
    BY ClientKept DEF Write
  <1>t. PingPongTypeOK /\ WriterIsUp /\ ~Free(l)
    BY DEF PingPongInv, Write
  <1>s. PICK s \in Sessions, w \in Nat \ {0} :
          /\ writing[l].session = s /\ writing[l].left = w
          /\ loop_[s] = l /\ conn[s] = "up"
    BY <1>t, WriteType DEF WriterIsUp
  <1>p. PICK n \in 1..w :
          /\ s2c' = [s2c EXCEPT ![s] = @ + n]
          /\ writing' = [writing EXCEPT ![l] = IF n = w THEN NotWriting
                                               ELSE [session |-> s, left |-> w - n]]
    BY <1>s DEF Write
  <1>u. UNCHANGED <<out, c2s, num_threads_, next_, conn, loop_>>
    BY DEF Write
  <1>m. /\ n \in Nat \ {0} /\ w - n \in Nat /\ (n # w => w - n \in Nat \ {0})
    BY <1>s
  <1>w. /\ \A k \in Loops : k # l => writing'[k] = writing[k]
        /\ writing'[l] \in Writes
        /\ n = w => writing'[l] = NotWriting
        /\ n # w => /\ writing'[l] # NotWriting
                    /\ writing'[l].session = s /\ writing'[l].left = w - n
    <2>1. /\ \A k \in Loops : k # l => writing'[k] = writing[k]
          /\ writing'[l] = IF n = w THEN NotWriting ELSE [session |-> s, left |-> w - n]
      BY <1>t, <1>p DEF PingPongTypeOK, ServerTypeOK
    <2>2. OnMessage(s, w - n) = [session |-> s, left |-> w - n]
      BY DEF OnMessage
    <2> QED BY <2>1, <2>2, <1>m, OnMessageType DEF Writes
  <1>d. /\ s2c'[s] = s2c[s] + n /\ s2c[s] \in Nat /\ s2c[s] + n \in Nat
        /\ \A r \in Sessions : r # s => s2c'[r] = s2c[r]
    BY <1>t, <1>s, <1>p, <1>m DEF PingPongTypeOK, NetTypeOK
  <1>1. ServerTypeOK' /\ NetTypeOK'
    <2>1. writing' \in [Loops -> Writes]
      BY <1>t, <1>p, <1>w DEF PingPongTypeOK, ServerTypeOK
    <2>2. s2c' \in [Sessions -> Nat]
      BY <1>t, <1>p, <1>d DEF PingPongTypeOK, NetTypeOK
    <2> QED BY <1>t, <1>u, <2>1, <2>2 DEF PingPongTypeOK, ServerTypeOK, NetTypeOK, Loops, Writes
  <1>2. WriterIsUp'
    <2> SUFFICES ASSUME NEW k \in Loops, ~Free(k)'
                 PROVE  loop_[writing'[k].session] = k /\ conn[writing'[k].session] = "up"
      BY <1>u DEF WriterIsUp, Loops
    <2>1. CASE k = l
      BY <2>1, <1>s, <1>w DEF Free
    <2>2. CASE k # l
      BY <2>2, <1>t, <1>w DEF WriterIsUp, Free
    <2> QED BY <2>1, <2>2
  <1>3. QuietBefore' /\ QuietAfter'
    BY <1>c, <1>u, <1>s, <1>d DEF PingPongInv, QuietBefore, QuietAfter
  <1>4. OneBlockCirculates'
    <2> SUFFICES ASSUME NEW r \in Sessions, client[r] = "up"
                 PROVE  out[r] + c2s[r] + InServer(r)' + s2c'[r] = BlockSize
      BY <1>c, <1>u DEF OneBlockCirculates
    <2>0. /\ out[r] + c2s[r] + InServer(r) + s2c[r] = BlockSize
          /\ out[r] \in Nat /\ c2s[r] \in Nat /\ s2c[r] \in Nat /\ loop_[r] \in Loops
      BY <1>t DEF PingPongInv, OneBlockCirculates, PingPongTypeOK, NetTypeOK, ServerTypeOK
    <2>1. CASE r = s
      <3>1. InServer(s) = w
        BY <1>t, <1>s DEF InServer
      <3>2. InServer(s)' = w - n
        <4>1. loop_'[s] = l
          BY <1>u, <1>s
        <4>2. CASE n = w
          <5>1. InServer(s)' = 0
            BY <4>1, <4>2, <1>w DEF InServer, Free
          <5> QED BY <5>1, <4>2, <1>m
        <4>3. CASE n # w
          BY <4>1, <4>3, <1>w DEF InServer, Free
        <4> QED BY <4>2, <4>3
      <3> QED BY ONLY <2>0, <2>1, <3>1, <3>2, <1>d, <1>m, <1>s
    <2>2. CASE r # s
      <3>1. InServer(r)' = InServer(r)
        <4>1. CASE loop_[r] # l
          BY <4>1, <2>0, <1>u, <1>w, InServerKept
        <4>2. CASE loop_[r] = l
          <5>1. InServer(r) = 0
            BY <2>2, <4>2, <1>s DEF InServer
          <5>2. InServer(r)' = 0
            BY <2>2, <4>2, <1>u, <1>w DEF InServer, Free
          <5> QED BY <5>1, <5>2
        <4> QED BY <4>1, <4>2
      <3> QED BY <2>0, <2>2, <3>1, <1>d
    <2> QED BY <2>1, <2>2
  <1> QED BY <1>c, <1>1, <1>2, <1>3, <1>4 DEF PingPongInv, PingPongTypeOK

-----------------------------------------------------------------------------
(* The client's steps *)

LEMMA ConnectedFinite ==
  ASSUME NEW c
  PROVE  /\ IsFiniteSet(ConnectedIn(c)) /\ ConnectedIn(c) \subseteq Sessions
         /\ Cardinality(ConnectedIn(c)) \in Nat /\ Cardinality(Sessions) \in Nat
         /\ Cardinality(ConnectedIn(c)) = 0 => ConnectedIn(c) = {}
         /\ Cardinality(ConnectedIn(c)) = Cardinality(Sessions) => ConnectedIn(c) = Sessions
  <1>1. ConnectedIn(c) \subseteq Sessions
    BY DEF ConnectedIn
  <1>2. IsFiniteSet(ConnectedIn(c))
    BY <1>1, SessionsAssumption, FS_Subset
  <1>3. Cardinality(ConnectedIn(c)) \in Nat /\ Cardinality(Sessions) \in Nat
    BY <1>2, SessionsAssumption, FS_CardinalityType
  <1>4. Cardinality(ConnectedIn(c)) = 0 => ConnectedIn(c) = {}
    BY <1>2, FS_EmptySet
  <1>5. Cardinality(ConnectedIn(c)) = Cardinality(Sessions) => ConnectedIn(c) = Sessions
    BY <1>1, <1>3, SessionsAssumption, FS_Subset
  <1> QED BY <1>1, <1>2, <1>3, <1>4, <1>5

(* A session that was not counted is. *)
LEMMA OneMore ==
  ASSUME NEW c \in [Sessions -> ClientStates], NEW s \in Sessions, c[s] = "connecting"
  PROVE  Cardinality(ConnectedIn([c EXCEPT ![s] = "up"])) = Cardinality(ConnectedIn(c)) + 1
  <1>1. s \notin ConnectedIn(c)
    BY DEF ConnectedIn, IsConnected
  <1>2. ConnectedIn([c EXCEPT ![s] = "up"]) = ConnectedIn(c) \cup {s}
    BY DEF ConnectedIn, IsConnected
  <1>3. Cardinality(ConnectedIn(c) \cup {s}) = Cardinality(ConnectedIn(c)) + 1
    <2>1. IsFiniteSet(ConnectedIn(c))
      BY ConnectedFinite
    <2> QED BY <1>1, <2>1, FS_AddElement
  <1> QED BY <1>2, <1>3

(* A session that was counted is not. *)
LEMMA OneLess ==
  ASSUME NEW c \in [Sessions -> ClientStates], NEW s \in Sessions, c[s] = "stopping"
  PROVE  /\ Cardinality(ConnectedIn([c EXCEPT ![s] = "down"])) = Cardinality(ConnectedIn(c)) - 1
         /\ Cardinality(ConnectedIn(c)) - 1 \in Nat
  <1>1. s \in ConnectedIn(c)
    BY DEF ConnectedIn, IsConnected
  <1>2. ConnectedIn([c EXCEPT ![s] = "down"]) = ConnectedIn(c) \ {s}
    BY DEF ConnectedIn, IsConnected
  <1>3. Cardinality(ConnectedIn(c) \ {s}) = Cardinality(ConnectedIn(c)) - 1
    <2>1. IsFiniteSet(ConnectedIn(c))
      BY ConnectedFinite
    <2> QED BY <1>1, <2>1, FS_RemoveElement
  <1>4. Cardinality(ConnectedIn(c)) \in Nat /\ Cardinality(ConnectedIn(c)) # 0
    BY <1>1, ConnectedFinite
  <1>5. Cardinality(ConnectedIn(c)) - 1 \in Nat
    BY ONLY <1>4
  <1> QED BY <1>2, <1>3, <1>5

LEMMA ConnectedKeeps ==
  ASSUME PingPongInv, NEW s \in Sessions, Connected(s)
  PROVE  PingPongInv'
  <1>t. PingPongTypeOK /\ WriterIsUp /\ QuietBefore /\ CountsConnected /\ BlockSize \in Nat
    BY BlockAssumption DEF PingPongInv
  <1>v. ServerTypeOK' /\ WriterIsUp' /\ \A r \in Sessions : InServer(r)' = InServer(r)
    BY ServerKept DEF Connected
  <1>c. /\ client' = [client EXCEPT ![s] = "up"] /\ client[s] = "connecting"
        /\ client'[s] = "up" /\ \A r \in Sessions : r # s => client'[r] = client[r]
    BY <1>t DEF Connected, PingPongTypeOK, ClientTypeOK
  <1>o. /\ out' = [out EXCEPT ![s] = BlockSize]
        /\ out'[s] = BlockSize /\ \A r \in Sessions : r # s => out'[r] = out[r]
    BY <1>t DEF Connected, PingPongTypeOK, NetTypeOK
  <1>u. UNCHANGED <<c2s, s2c, stopped, to_stop, quit, conn>>
    BY DEF Connected, srv
  <1>n. numConnected_' = numConnected_ + 1 /\ numConnected_ \in Nat
    BY <1>t DEF Connected, PingPongTypeOK, ClientTypeOK
  <1>1. ClientTypeOK' /\ NetTypeOK'
    <2>1. client' \in [Sessions -> ClientStates]
      BY <1>t, <1>c DEF PingPongTypeOK, ClientTypeOK, ClientStates
    <2>2. out' \in [Sessions -> Nat]
      BY <1>t, <1>o DEF PingPongTypeOK, NetTypeOK
    <2>3. numConnected_' \in Nat
      BY <1>n
    <2> QED BY <1>t, <2>1, <2>2, <2>3 DEF Connected, PingPongTypeOK, ClientTypeOK, NetTypeOK
  <1>2. QuietBefore' /\ QuietAfter'
    BY <1>c, <1>o, <1>u DEF PingPongInv, QuietBefore, QuietAfter
  <1>3. OneBlockCirculates'
    <2> SUFFICES ASSUME NEW r \in Sessions, client'[r] = "up"
                 PROVE  out'[r] + c2s[r] + InServer(r)' + s2c[r] = BlockSize
      BY <1>u DEF OneBlockCirculates
    <2>1. CASE r = s
      <3>1. c2s[s] = 0 /\ s2c[s] = 0 /\ InServer(s) = 0
        BY <1>t, <1>c, InServerType DEF QuietBefore
      <3> QED BY <2>1, <3>1, <1>t, <1>v, <1>o
    <2>2. CASE r # s
      BY <2>2, <1>c, <1>o, <1>v DEF PingPongInv, OneBlockCirculates
    <2> QED BY <2>1, <2>2
  <1>4. CountsConnected'
    <2>1. client \in [Sessions -> ClientStates]
      BY <1>t DEF PingPongTypeOK, ClientTypeOK
    <2>2. Cardinality(ConnectedIn(client')) = Cardinality(ConnectedIn(client)) + 1
      BY <2>1, <1>c, OneMore
    <2> QED BY <2>2, <1>n, <1>t DEF CountsConnected
  <1>5. LeavesStopped'
    BY <1>c, <1>u DEF PingPongInv, LeavesStopped
  <1>6. AllWereConnected'
    <2>1. CASE all_connected
      BY <2>1, <1>c DEF PingPongInv, AllWereConnected
    <2>2. CASE ~all_connected /\ all_connected'
      <3>1. numConnected_' = Cardinality(Sessions) /\ ~stopped
        BY <2>2 DEF Connected, AllConnected
      <3>2. ConnectedIn(client') = Sessions
        BY <3>1, <1>4, ConnectedFinite DEF CountsConnected
      <3>3. \A r \in Sessions : client'[r] # "connecting"
        BY <3>2 DEF ConnectedIn, IsConnected
      <3>4. ~quit'
        BY <3>1, <1>u DEF PingPongInv, LeavesStopped
      <3> QED BY <3>3, <3>4 DEF AllWereConnected
    <2>3. CASE ~all_connected'
      BY <2>3 DEF AllWereConnected
    <2> QED BY <2>1, <2>2, <2>3, <1>t, <1>1 DEF PingPongTypeOK, ClientTypeOK
  <1> QED BY <1>v, <1>1, <1>2, <1>3, <1>4, <1>5, <1>6 DEF PingPongInv, PingPongTypeOK

LEMMA ClientWriteKeeps ==
  ASSUME PingPongInv, NEW s \in Sessions, ClientWrite(s)
  PROVE  PingPongInv'
  <1>t. PingPongTypeOK /\ WriterIsUp /\ out[s] \in Nat /\ c2s[s] \in Nat
    BY DEF PingPongInv, PingPongTypeOK, NetTypeOK
  <1>c. ClientTypeOK' /\ CountsConnected' /\ LeavesStopped' /\ AllWereConnected' /\ client' = client
    BY ClientKept DEF ClientWrite
  <1>v. /\ ServerTypeOK' /\ WriterIsUp' /\ \A r \in Sessions : InServer(r)' = InServer(r)
        /\ UNCHANGED <<conn, s2c>>
    BY ServerKept DEF ClientWrite, srv
  <1>p. PICK n \in 1..out[s] : /\ out' = [out EXCEPT ![s] = @ - n]
                               /\ c2s' = [c2s EXCEPT ![s] = @ + n]
    BY DEF ClientWrite
  <1>m. n \in Nat \ {0} /\ out[s] - n \in Nat /\ c2s[s] + n \in Nat /\ out[s] # 0
    BY <1>t
  <1>d. /\ out'[s] = out[s] - n /\ c2s'[s] = c2s[s] + n
        /\ \A r \in Sessions : r # s => out'[r] = out[r] /\ c2s'[r] = c2s[r]
    BY <1>t, <1>p DEF PingPongTypeOK, NetTypeOK
  <1>1. NetTypeOK'
    BY <1>t, <1>v, <1>p, <1>m DEF PingPongTypeOK, NetTypeOK
  <1>2. QuietBefore' /\ QuietAfter'
    BY <1>c, <1>v, <1>m, <1>d DEF PingPongInv, QuietBefore, QuietAfter
  <1>3. OneBlockCirculates'
    <2> SUFFICES ASSUME NEW r \in Sessions, client[r] = "up"
                 PROVE  out'[r] + c2s'[r] + InServer(r) + s2c[r] = BlockSize
      BY <1>c, <1>v DEF OneBlockCirculates
    <2>0. /\ out[r] + c2s[r] + InServer(r) + s2c[r] = BlockSize
          /\ InServer(r) \in Nat /\ s2c[r] \in Nat
      BY <1>t, InServerType DEF PingPongInv, OneBlockCirculates, PingPongTypeOK, NetTypeOK
    <2>1. CASE r = s
      BY ONLY <2>0, <2>1, <1>t, <1>m, <1>d
    <2>2. CASE r # s
      BY <2>0, <2>2, <1>d
    <2> QED BY <2>1, <2>2
  <1> QED BY <1>c, <1>v, <1>1, <1>2, <1>3 DEF PingPongInv, PingPongTypeOK

LEMMA ClientReadKeeps ==
  ASSUME PingPongInv, NEW s \in Sessions, ClientRead(s)
  PROVE  PingPongInv'
  <1>t. PingPongTypeOK /\ WriterIsUp /\ out[s] \in Nat /\ s2c[s] \in Nat
    BY DEF PingPongInv, PingPongTypeOK, NetTypeOK
  <1>c. ClientTypeOK' /\ CountsConnected' /\ LeavesStopped' /\ AllWereConnected' /\ client' = client
    BY DEF ClientRead, PingPongInv, PingPongTypeOK, ClientTypeOK, CountsConnected, LeavesStopped,
           AllWereConnected, ConnectedIn, IsConnected, ClientStates
  <1>v. /\ ServerTypeOK' /\ WriterIsUp' /\ \A r \in Sessions : InServer(r)' = InServer(r)
        /\ UNCHANGED <<conn, c2s>>
    BY ServerKept DEF ClientRead, srv
  <1>p. PICK n \in 1..s2c[s] :
          /\ s2c' = [s2c EXCEPT ![s] = @ - n]
          /\ out' = [out EXCEPT ![s] = IF client[s] = "up" THEN @ + n ELSE @]
    BY DEF ClientRead
  <1>m. n \in Nat \ {0} /\ s2c[s] - n \in Nat /\ out[s] + n \in Nat /\ s2c[s] # 0
    BY <1>t
  <1>d. /\ s2c'[s] = s2c[s] - n /\ (client[s] = "up" => out'[s] = out[s] + n)
        /\ \A r \in Sessions : r # s => s2c'[r] = s2c[r] /\ out'[r] = out[r]
    BY <1>t, <1>p DEF PingPongTypeOK, NetTypeOK
  <1>1. NetTypeOK'
    BY <1>t, <1>v, <1>p, <1>m DEF PingPongTypeOK, NetTypeOK
  <1>2. QuietBefore' /\ QuietAfter'
    BY <1>c, <1>v, <1>m, <1>d DEF PingPongInv, QuietBefore, QuietAfter
  <1>3. OneBlockCirculates'
    <2> SUFFICES ASSUME NEW r \in Sessions, client[r] = "up"
                 PROVE  out'[r] + c2s[r] + InServer(r) + s2c'[r] = BlockSize
      BY <1>c, <1>v DEF OneBlockCirculates
    <2>0. /\ out[r] + c2s[r] + InServer(r) + s2c[r] = BlockSize
          /\ InServer(r) \in Nat /\ c2s[r] \in Nat
      BY <1>t, InServerType DEF PingPongInv, OneBlockCirculates, PingPongTypeOK, NetTypeOK
    <2>1. CASE r = s
      <3>1. out'[s] = out[s] + n
        BY <2>1, <1>d
      <3> QED BY ONLY <2>0, <2>1, <3>1, <1>t, <1>m, <1>d
    <2>2. CASE r # s
      BY <2>0, <2>2, <1>d
    <2> QED BY <2>1, <2>2
  <1> QED BY <1>c, <1>v, <1>1, <1>2, <1>3 DEF PingPongInv, PingPongTypeOK

LEMMA HandleTimeoutKeeps ==
  ASSUME PingPongInv, HandleTimeout
  PROVE  PingPongInv'
  <1>v. /\ ServerTypeOK' /\ WriterIsUp' /\ \A r \in Sessions : InServer(r)' = InServer(r)
        /\ UNCHANGED <<conn, out, c2s, s2c, client>> /\ stopped'
    BY ServerKept DEF HandleTimeout, srv, net
  <1>1. ClientTypeOK' /\ NetTypeOK'
    BY DEF PingPongInv, PingPongTypeOK, ClientTypeOK, NetTypeOK, ClientStates, HandleTimeout, net
  <1>2. QuietBefore' /\ QuietAfter' /\ OneBlockCirculates'
    BY <1>v DEF PingPongInv, QuietBefore, QuietAfter, OneBlockCirculates
  <1>3. CountsConnected' /\ LeavesStopped' /\ AllWereConnected'
    BY <1>v DEF PingPongInv, CountsConnected, LeavesStopped, AllWereConnected, ConnectedIn,
                IsConnected, HandleTimeout
  <1> QED BY <1>v, <1>1, <1>2, <1>3 DEF PingPongInv, PingPongTypeOK

(* A session that is stopped is still counted. *)
LEMMA StopKeeps ==
  ASSUME PingPongInv, NEW s \in Sessions, Stop(s)
  PROVE  PingPongInv'
  <1>t. /\ PingPongTypeOK /\ CountsConnected /\ client \in [Sessions -> ClientStates]
        /\ to_stop \subseteq Sessions /\ s \in to_stop /\ stopped
    BY DEF PingPongInv, PingPongTypeOK, ClientTypeOK, LeavesStopped, Stop
  <1>c. /\ client' \in [Sessions -> ClientStates]
        /\ client'[s] = IF client[s] = "up" THEN "stopping" ELSE client[s]
        /\ \A r \in Sessions : r # s => client'[r] = client[r]
    BY <1>t DEF Stop, ClientStates
  <1>v. /\ ServerTypeOK' /\ WriterIsUp' /\ \A r \in Sessions : InServer(r)' = InServer(r)
        /\ UNCHANGED <<conn, out, c2s, s2c, numConnected_, quit, all_connected, stopped>>
    BY ServerKept DEF Stop, srv, net
  <1>1. ClientTypeOK' /\ NetTypeOK'
    BY <1>t, <1>c DEF PingPongTypeOK, ClientTypeOK, NetTypeOK, Stop, net
  <1>2. QuietBefore' /\ QuietAfter' /\ OneBlockCirculates'
    BY <1>c, <1>v DEF PingPongInv, QuietBefore, QuietAfter, OneBlockCirculates
  <1>3. ConnectedIn(client') = ConnectedIn(client)
    BY <1>c DEF ConnectedIn, IsConnected
  <1>4. CountsConnected'
    BY <1>3, <1>v, <1>t DEF CountsConnected
  <1>5. LeavesStopped' /\ AllWereConnected'
    BY <1>t, <1>c, <1>v DEF PingPongInv, LeavesStopped, AllWereConnected
  <1> QED BY <1>v, <1>1, <1>2, <1>4, <1>5 DEF PingPongInv, PingPongTypeOK

(* ShutDown and Hang change only fin and hung. *)
LEMMA MarkKeeps ==
  ASSUME PingPongInv, fin' \subseteq Sessions, hung' \subseteq Hanging,
         UNCHANGED <<net, client, numConnected_, stopped, to_stop, quit, parity, all_connected, srv>>
  PROVE  PingPongInv'
  <1>v. ServerTypeOK' /\ WriterIsUp' /\ \A r \in Sessions : InServer(r)' = InServer(r)
    BY ServerKept
  <1>1. ClientTypeOK' /\ NetTypeOK' /\ CountsConnected' /\ LeavesStopped' /\ AllWereConnected'
    BY DEF PingPongInv, PingPongTypeOK, ClientTypeOK, NetTypeOK, CountsConnected, LeavesStopped,
           AllWereConnected, ConnectedIn, IsConnected, ClientStates, net
  <1>2. QuietBefore' /\ QuietAfter' /\ OneBlockCirculates'
    BY <1>v DEF PingPongInv, QuietBefore, QuietAfter, OneBlockCirculates, net, srv
  <1> QED BY <1>v, <1>1, <1>2 DEF PingPongInv, PingPongTypeOK

(* When the last one leaves and all were connected, all have left. *)
LEMMA DisconnectedKeeps ==
  ASSUME PingPongInv, NEW s \in Sessions, Disconnected(s)
  PROVE  PingPongInv'
  <1>t. PingPongTypeOK /\ CountsConnected /\ client \in [Sessions -> ClientStates]
    BY DEF PingPongInv, PingPongTypeOK, ClientTypeOK
  <1>v. /\ ServerTypeOK' /\ WriterIsUp' /\ \A r \in Sessions : InServer(r)' = InServer(r)
        /\ UNCHANGED <<conn, out, c2s, s2c, stopped, all_connected>>
    BY ServerKept DEF Disconnected, srv, net
  <1>c. /\ client' = [client EXCEPT ![s] = "down"] /\ client[s] = "stopping"
        /\ client'[s] = "down" /\ \A r \in Sessions : r # s => client'[r] = client[r]
    BY <1>t DEF Disconnected
  <1>k. /\ Cardinality(ConnectedIn(client')) = Cardinality(ConnectedIn(client)) - 1
        /\ Cardinality(ConnectedIn(client)) - 1 \in Nat
    BY <1>t, <1>c, OneLess
  <1>n. numConnected_' = Cardinality(ConnectedIn(client')) /\ numConnected_' \in Nat
    BY <1>k, <1>t DEF CountsConnected, Disconnected
  <1>s. stopped
    BY <1>c DEF PingPongInv, LeavesStopped
  <1>q. quit' = (quit \/ numConnected_' = 0)
    BY DEF Disconnected, IsLast
  <1>1. ClientTypeOK' /\ NetTypeOK'
    <2>1. client' \in [Sessions -> ClientStates]
      BY <1>t, <1>c DEF ClientStates
    <2>2. quit' \in BOOLEAN
      BY <1>q
    <2> QED BY <1>t, <1>n, <2>1, <2>2
            DEF PingPongTypeOK, ClientTypeOK, NetTypeOK, Disconnected, net
  <1>2. QuietBefore' /\ QuietAfter' /\ OneBlockCirculates'
    BY <1>c, <1>v DEF PingPongInv, QuietBefore, QuietAfter, OneBlockCirculates, Disconnected
  <1>3. CountsConnected'
    BY <1>n DEF CountsConnected
  <1>4. LeavesStopped'
    BY <1>c, <1>v, <1>s DEF PingPongInv, LeavesStopped
  <1>5. AllWereConnected'
    <2> SUFFICES ASSUME all_connected
                 PROVE  /\ \A r \in Sessions : client'[r] # "connecting"
                        /\ quit' => \A r \in Sessions : client'[r] = "down"
      BY <1>v DEF AllWereConnected
    <2>1. \A r \in Sessions : client'[r] # "connecting"
      BY <1>c DEF PingPongInv, AllWereConnected
    <2>2. CASE quit
      BY <2>1, <2>2, <1>c DEF PingPongInv, AllWereConnected
    <2>3. CASE numConnected_' = 0
      <3>1. ConnectedIn(client') = {}
        BY <2>3, <1>n, ConnectedFinite
      <3>2. \A r \in Sessions : client'[r] \notin {"up", "stopping"} /\ client'[r] \in ClientStates
        BY <3>1, <1>1 DEF ConnectedIn, IsConnected, ClientTypeOK
      <3> QED BY <2>1, <3>2 DEF ClientStates
    <2> QED BY <2>1, <2>2, <2>3, <1>q
  <1> QED BY <1>v, <1>1, <1>2, <1>3, <1>4, <1>5 DEF PingPongInv, PingPongTypeOK

-----------------------------------------------------------------------------
LEMMA PingPongInitially ==
  ASSUME Init
  PROVE  PingPongInv
  <1>1. ClientTypeOK
    BY DEF Init, ClientInit, ClientTypeOK, ClientStates
  <1>2. NetTypeOK
    BY DEF Init, NetTypeOK
  <1>3. ServerTypeOK
    BY ThreadsAssumption DEF Init, ServerInit, ServerTypeOK, Loops, Writes
  <1>4. WriterIsUp
    BY DEF Init, ServerInit, WriterIsUp, Free
  <1>5. QuietBefore /\ QuietAfter /\ OneBlockCirculates /\ LeavesStopped /\ AllWereConnected
    BY DEF Init, ClientInit, ServerInit, QuietBefore, QuietAfter, OneBlockCirculates, LeavesStopped,
           AllWereConnected
  <1>6. CountsConnected
    <2>1. ConnectedIn(client) = {}
      BY DEF Init, ClientInit, ConnectedIn, IsConnected
    <2> QED BY <2>1, FS_EmptySet DEF CountsConnected, Init, ClientInit
  <1> QED BY <1>1, <1>2, <1>3, <1>4, <1>5, <1>6 DEF PingPongInv, PingPongTypeOK

LEMMA PingPongStep ==
  ASSUME PingPongInv, [Next]_vars
  PROVE  PingPongInv'
  <1>t. PingPongTypeOK
    BY DEF PingPongInv
  <1>l. 0 \in Loops /\ \A s \in Sessions : loop_[s] \in Loops
    BY <1>t, ThreadsAssumption DEF PingPongTypeOK, ServerTypeOK, Loops
  <1>1. ASSUME NEW s \in Sessions, ServerStep(s)
        PROVE  PingPongInv'
    <2>1. CASE Accept(s)
      BY <2>1, AcceptKeeps
    <2>2. CASE ConnectionEstablished(s)
      BY <2>2, <1>l, MovesKeeps DEF ConnectionEstablished
    <2>3. CASE HandleRead(s)
      BY <2>3, HandleReadKeeps
    <2>4. CASE HandleClose(s)
      BY <2>4, <1>l, MovesKeeps DEF HandleClose
    <2>5. CASE RemoveConnection(s)
      BY <2>5, <1>l, MovesKeeps DEF RemoveConnection
    <2>6. CASE ConnectionDestroyed(s)
      BY <2>6, <1>l, MovesKeeps DEF ConnectionDestroyed
    <2> QED BY <1>1, <2>1, <2>2, <2>3, <2>4, <2>5, <2>6 DEF ServerStep
  <1>2. ASSUME NEW s \in Sessions, ClientStep(s)
        PROVE  PingPongInv'
    <2>1. CASE ShutDown(s)
      <3>1. fin' \subseteq Sessions /\ hung' \subseteq Hanging
        BY <2>1, <1>t DEF ShutDown, PingPongTypeOK, ClientTypeOK
      <3> QED BY <2>1, <3>1, MarkKeeps DEF ShutDown
    <2> QED BY <1>2, <2>1, ConnectedKeeps, ClientWriteKeeps, ClientReadKeeps, DisconnectedKeeps
            DEF ClientStep
  <1>3. ASSUME NEW s \in Sessions, Hang(s)
        PROVE  PingPongInv'
    <2>1. fin' \subseteq Sessions /\ hung' \subseteq Hanging
      BY <1>3, <1>t DEF Hang, PingPongTypeOK, ClientTypeOK
    <2> QED BY <1>3, <2>1, MarkKeeps DEF Hang
  <1>4. CASE UNCHANGED vars
    BY <1>4, <1>t, MarkKeeps DEF vars, cl, PingPongTypeOK, ClientTypeOK
  <1> QED BY <1>1, <1>2, <1>3, <1>4, WriteKeeps, HandleTimeoutKeeps, StopKeeps DEF Next

(* The inductive invariant holds in every state of a session of the pingpong client    *)
(* against the echoing server (pingpong_client.cc, pingpong_server.cc): where the block *)
(* is, and which counters the onConnect, onDisconnect and handleTimeout calls have moved.*)
THEOREM PingPongCorrect == Spec => []PingPongInv
  BY PingPongInitially, PingPongStep, PTL DEF Spec

(* PingPong.tla's OneBlockCirculates: until it is stopped, a session has exactly its *)
(* block in flight (the onMessage of pingpong_client.cc and pingpong_server.cc, each *)
(* of which sends back all it was given).                                            *)
THEOREM BlockCirculates == Spec => []OneBlockCirculates
  <1>1. PingPongInv => OneBlockCirculates
    BY DEF PingPongInv
  <1> QED BY <1>1, PingPongCorrect, PTL

(* PingPong.tla's TotalsAreFinal: once all sessions had connected, the onDisconnect   *)
(* that finds numConnected_ at zero prints totals that no onMessage changes any more. *)
THEOREM TotalsFinal == Spec => TotalsAreFinal
  <1>1. ASSUME PingPongInv, [Next]_vars
        PROVE  [quit /\ all_connected => parity' = parity]_vars
    <2> SUFFICES ASSUME quit, all_connected, Next
                 PROVE  parity' = parity
      BY <1>1
    <2>1. \A s \in Sessions : s2c[s] = 0
      BY <1>1 DEF PingPongInv, AllWereConnected, QuietAfter
    <2>2. ASSUME NEW s \in Sessions, ClientRead(s)
          PROVE  FALSE
      <3>1. \E n \in 1..s2c[s] : TRUE
        BY <2>2 DEF ClientRead
      <3> QED BY <2>1, <3>1
    <2>3. ASSUME NEW s \in Sessions, ServerStep(s)
          PROVE  parity' = parity
      BY <2>3 DEF ServerStep, Accept, ConnectionEstablished, HandleRead, HandleClose,
                  RemoveConnection, ConnectionDestroyed, Moves, cl
    <2>4. ASSUME NEW s \in Sessions, ClientStep(s)
          PROVE  parity' = parity
      BY <2>2, <2>4 DEF ClientStep, Connected, ClientWrite, ShutDown, Disconnected, cl
    <2> QED BY <2>3, <2>4 DEF Next, Hang, Stop, Write, HandleTimeout, cl
  <1> QED BY <1>1, PingPongCorrect, PTL DEF Spec, TotalsAreFinal
=============================================================================
