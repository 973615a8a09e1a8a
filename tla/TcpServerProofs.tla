-------------------------- MODULE TcpServerProofs ---------------------------
(***************************************************************************)
(* Proofs about TcpServer.tla, for any number of threads and connections:  *)
(* no channel is left in a running loop's poller when its connection goes,  *)
(* channels are removed once, and nothing outlives what it points to.       *)
(*                                                                         *)
(* The invariant, SrvInv, says of every functor that waits in some loop     *)
(* what it implies about its connection, and of every connection that has   *)
(* left the map that ConnectionDestroyed has run or waits on its loop.      *)
(***************************************************************************)
EXTENDS TcpServer, TLAPS

Ops == {"established", "remove", "destroyed"}

(* f waits in the queue q or in what is left of the batch b, of which d have run. *)
Waits(q, b, d, f) ==
  (\E i \in 1..Len(q) : q[i] = f) \/ (\E i \in (d + 1)..Len(b) : b[i] = f)

(* g may be queued behind f: it is not f again, and establishing a connection does *)
(* not come after destroying it.                                                   *)
MayFollow(f, g) ==
  f # g /\ ~(f.conn = g.conn /\ f.op = "destroyed" /\ g.op = "established")

InOrder(q, b, d) ==
  /\ \A i, j \in 1..Len(q) : i < j => MayFollow(q[i], q[j])
  /\ \A i, j \in (d + 1)..Len(b) : i < j => MayFollow(b[i], b[j])
  /\ \A i \in (d + 1)..Len(b) : \A j \in 1..Len(q) : MayFollow(b[i], q[j])

Functor(op, c) == [op |-> op, conn |-> c]
Pending(l, op, c) == Waits(functors[l], batch[l], done[l], Functor(op, c))

(* The loops' queues. *)
LoopInv(l) ==
  /\ InOrder(functors[l], batch[l], done[l])
  /\ done[l] <= Len(batch[l])
  /\ at[l] # "functors" => batch[l] = <<>> /\ done[l] = 0
  /\ ~alive[l] => functors[l] = <<>>

QueuesInv == \A l \in Loops : LoopInv(l)

(* The server, its pool and the phases of ~TcpServer. *)
ServerInv ==
  /\ alive[Main]
  /\ started_ = 0 => /\ next_conn_id_ = 1 /\ accept_index = "kNew"
                     /\ \A l \in Loops : alive[l] <=> l = Main
  /\ started_ # 0 /\ phase \in {"open", "closing"} => \A l \in Loops : alive[l] <=> l <= num_threads_
  /\ next_ = 0 \/ (next_ < num_threads_ /\ started_ # 0)
  /\ phase \in {"open", "closing"} => \A l \in Loops : ~quit_[l]
  /\ phase # "open" => at[Main] = "test"
  /\ phase \in {"joining", "gone"} => connection_maps = {}
  /\ phase = "gone" => accept_index = "kNew" /\ \A l \in Loops : alive[l] => l = Main

(* A connection's callbacks. *)
LifeInv ==
  \A c \in Conns :
    /\ up[c] \in {0, 1} /\ down[c] \in {0, 1} /\ removes[c] \in {0, 1}
    /\ down[c] = 1 => up[c] = 1
    /\ index_[c] = "kAdded" \/ state_[c] = "kConnected" => up[c] = 1 /\ down[c] = 0
    /\ removes[c] = 1 => index_[c] = "kNew"

(* A connection that has not been accepted. *)
FreshInv ==
  \A c \in Conns : c \notin Accepted =>
    /\ c \notin connection_maps /\ up[c] = 0 /\ down[c] = 0 /\ removes[c] = 0
    /\ \A l \in Loops : \A op \in Ops : ~Pending(l, op, c)

(* What a functor that waits says of its connection. *)
PendingInv ==
  \A c \in Conns : \A l \in Loops :
    /\ Pending(l, "established", c) =>
         l = loop_[c] /\ l # Main /\ up[c] = 0 /\ removes[c] = 0
           /\ (phase = "open" => c \in connection_maps)
    /\ Pending(l, "remove", c) =>
         l = Main /\ loop_[c] # Main /\ up[c] = 1 /\ index_[c] # "kAdded"
           /\ (phase = "open" => c \in connection_maps)
    /\ Pending(l, "destroyed", c) => l = loop_[c] /\ removes[c] = 0 /\ c \notin connection_maps

(* A connection in the map has not been destroyed; one that has left it has been, or *)
(* will be when its loop comes to it.                                                *)
MapInv ==
  \A c \in Accepted :
    /\ loop_[c] <= num_threads_
    /\ c \in connection_maps => removes[c] = 0
    /\ c \notin connection_maps =>
         /\ phase = "open" \/ loop_[c] = Main => index_[c] # "kAdded"
         /\ alive[loop_[c]] => removes[c] = 1 \/ Pending(loop_[c], "destroyed", c)

SrvInv == TypeOK /\ QueuesInv /\ ServerInv /\ LifeInv /\ FreshInv /\ PendingInv /\ MapInv

-----------------------------------------------------------------------------
(* One loop's queue q and batch b, d functors of which have run. *)

LEMMA LenType ==
  ASSUME NEW s \in Seq(Functors)
  PROVE  Len(s) \in Nat /\ \A i \in 1..Len(s) : s[i] \in Functors
  OBVIOUS

(* A functor is queued. *)
LEMMA QueueOne ==
  ASSUME NEW q \in Seq(Functors), NEW b \in Seq(Functors), NEW d \in Nat, InOrder(q, b, d),
         NEW f \in Functors, \A g \in Functors : Waits(q, b, d, g) => MayFollow(g, f)
  PROVE  /\ Append(q, f) \in Seq(Functors)
         /\ InOrder(Append(q, f), b, d)
         /\ \A g : Waits(Append(q, f), b, d, g) <=> Waits(q, b, d, g) \/ g = f
  <1> DEFINE a == Append(q, f)
             n == Len(q)
  <1>1. /\ a \in Seq(Functors) /\ Len(a) = n + 1 /\ n \in Nat /\ a[n + 1] = f
        /\ \A i \in 1..n : a[i] = q[i]
    OBVIOUS
  <1>2. /\ \A i \in 1..n : q[i] \in Functors /\ Waits(q, b, d, q[i])
        /\ \A i \in (d + 1)..Len(b) : b[i] \in Functors /\ Waits(q, b, d, b[i])
    <2>1. /\ \A i \in 1..n : q[i] \in Functors
          /\ \A i \in (d + 1)..Len(b) : b[i] \in Functors
      BY LenType
    <2> QED BY <2>1 DEF Waits
  <1>3. /\ \A i \in 1..n : MayFollow(q[i], f)
        /\ \A i \in (d + 1)..Len(b) : MayFollow(b[i], f)
    BY <1>2
  <1> HIDE DEF a, n
  <1>4. InOrder(a, b, d)
    <2>1. \A i, j \in 1..(n + 1) : i < j => MayFollow(a[i], a[j])
      <3> SUFFICES ASSUME NEW i \in 1..(n + 1), NEW j \in 1..(n + 1), i < j
                   PROVE  MayFollow(a[i], a[j])
        OBVIOUS
      <3>1. i \in 1..n /\ a[i] = q[i]
        BY <1>1
      <3>2. CASE j = n + 1
        BY <1>1, <1>3, <3>1, <3>2
      <3>3. CASE j \in 1..n
        BY <1>1, <3>1, <3>3 DEF InOrder, n
      <3> QED BY <1>1, <3>2, <3>3
    <2>2. \A i \in (d + 1)..Len(b) : \A j \in 1..(n + 1) : MayFollow(b[i], a[j])
      <3> SUFFICES ASSUME NEW i \in (d + 1)..Len(b), NEW j \in 1..(n + 1)
                   PROVE  MayFollow(b[i], a[j])
        OBVIOUS
      <3>2. CASE j = n + 1
        BY <1>1, <1>3, <3>2
      <3>3. CASE j \in 1..n
        BY <1>1, <3>3 DEF InOrder, n
      <3> QED BY <1>1, <3>2, <3>3
    <2> QED BY <1>1, <2>1, <2>2 DEF InOrder
  <1>5. ASSUME NEW g
        PROVE  (\E i \in 1..(n + 1) : a[i] = g) <=> (\E i \in 1..n : q[i] = g) \/ g = f
    <2>1. (n + 1) \in 1..(n + 1) /\ \A i \in 1..n : i \in 1..(n + 1)
      BY <1>1
    <2>2. \A i \in 1..(n + 1) : i \in 1..n \/ i = n + 1
      BY <1>1
    <2> QED BY <1>1, <2>1, <2>2
  <1>6. \A g : Waits(a, b, d, g) <=> Waits(q, b, d, g) \/ g = f
    BY <1>1, <1>5 DEF Waits, n
  <1> QED BY <1>1, <1>4, <1>6 DEF a

(* The next functor of the batch runs: it is the first that waits. *)
LEMMA RunOne ==
  ASSUME NEW q \in Seq(Functors), NEW b \in Seq(Functors), NEW d \in Nat, InOrder(q, b, d),
         d < Len(b)
  PROVE  /\ b[d + 1] \in Functors /\ Waits(q, b, d, b[d + 1])
         /\ InOrder(q, b, d + 1)
         /\ \A g : Waits(q, b, d + 1, g) <=> Waits(q, b, d, g) /\ g # b[d + 1]
         /\ \A g : Waits(q, b, d + 1, g) => MayFollow(b[d + 1], g)
  <1> DEFINE f == b[d + 1]
  <1>1. Len(b) \in Nat /\ d + 1 \in 1..Len(b) /\ d + 1 \in (d + 1)..Len(b) /\ f \in Functors
    BY LenType
  <1>2. \A i \in (d + 1 + 1)..Len(b) : i \in (d + 1)..Len(b) /\ d + 1 < i
    BY <1>1
  <1>3. \A i \in (d + 1)..Len(b) : i = d + 1 \/ i \in (d + 1 + 1)..Len(b)
    BY <1>1
  <1>4. InOrder(q, b, d + 1)
    BY <1>2 DEF InOrder
  <1>5. \A g : Waits(q, b, d + 1, g) => MayFollow(f, g)
    BY <1>1, <1>2 DEF InOrder, Waits
  <1>6. \A g : Waits(q, b, d + 1, g) => g # f
    BY <1>5 DEF MayFollow
  <1>7. \A g : Waits(q, b, d + 1, g) => Waits(q, b, d, g)
    BY <1>2 DEF Waits
  <1>8. \A g : Waits(q, b, d, g) /\ g # f => Waits(q, b, d + 1, g)
    BY <1>3 DEF Waits
  <1>9. Waits(q, b, d, f)
    BY <1>1 DEF Waits
  <1> QED BY <1>1, <1>4, <1>5, <1>6, <1>7, <1>8, <1>9

(* The queue becomes the batch; the batch is done; the queue is dropped. *)
LEMMA MoveAll ==
  ASSUME NEW q \in Seq(Functors), NEW b \in Seq(Functors), InOrder(q, b, Len(b))
  PROVE  /\ <<>> \in Seq(Functors)
         /\ InOrder(<<>>, q, 0) /\ \A g : Waits(<<>>, q, 0, g) <=> Waits(q, b, Len(b), g)
         /\ InOrder(q, <<>>, 0) /\ \A g : Waits(q, <<>>, 0, g) <=> Waits(q, b, Len(b), g)
         /\ InOrder(<<>>, <<>>, 0) /\ \A g : ~Waits(<<>>, <<>>, 0, g)
  <1>1. Len(b) \in Nat /\ Len(q) \in Nat /\ Len(<<>>) = 0
    OBVIOUS
  <1>2. /\ \A i \in (Len(b) + 1)..Len(b) : FALSE
        /\ \A i \in 1..0 : FALSE
        /\ 0 + 1 = 1
    BY <1>1
  <1>3. \A g : Waits(q, b, Len(b), g) <=> \E i \in 1..Len(q) : q[i] = g
    BY <1>2 DEF Waits
  <1>4. /\ \A g : Waits(<<>>, q, 0, g) <=> \E i \in 1..Len(q) : q[i] = g
        /\ \A g : Waits(q, <<>>, 0, g) <=> \E i \in 1..Len(q) : q[i] = g
        /\ \A g : ~Waits(<<>>, <<>>, 0, g)
    BY <1>1, <1>2 DEF Waits
  <1>5. InOrder(<<>>, q, 0) /\ InOrder(q, <<>>, 0) /\ InOrder(<<>>, <<>>, 0)
    BY <1>1, <1>2 DEF InOrder
  <1>6. <<>> \in Seq(Functors)
    OBVIOUS
  <1> QED BY <1>3, <1>4, <1>5, <1>6

-----------------------------------------------------------------------------
(* What the actions do to the queues of all loops. *)

QueueTypes ==
  /\ functors \in [Loops -> Seq(Functors)] /\ batch \in [Loops -> Seq(Functors)]
  /\ done \in [Loops -> Nat]

LEMMA FunctorType ==
  ASSUME NEW f \in Functors
  PROVE  f.op \in Ops /\ f.conn \in Conns /\ f = Functor(f.op, f.conn)
  BY DEF Functors, Ops, Functor

LEMMA FunctorEqual ==
  ASSUME NEW o, NEW c, NEW p, NEW d
  PROVE  /\ Functor(o, c).op = o /\ Functor(o, c).conn = c
         /\ Functor(o, c) = Functor(p, d) <=> o = p /\ c = d
  BY DEF Functor

LEMMA SameQueues ==
  ASSUME QueueTypes, UNCHANGED <<functors, batch, done>>
  PROVE  /\ QueueTypes'
         /\ \A l \in Loops, o \in Ops, c \in Conns : Pending(l, o, c)' <=> Pending(l, o, c)
  BY DEF QueueTypes, Pending, Waits

(* Queue(k, op, c), when that functor does not wait on k, nor the destruction of a *)
(* connection that is to be established.                                           *)
LEMMA QueueStep ==
  ASSUME QueueTypes, QueuesInv, NEW k \in Loops, NEW op \in Ops, NEW c \in Conns,
         Queue(k, op, c), UNCHANGED <<batch, done, alive, at>>, alive[k],
         ~Pending(k, op, c), op = "established" => ~Pending(k, "destroyed", c)
  PROVE  /\ QueueTypes' /\ QueuesInv'
         /\ \A l \in Loops, o \in Ops, d \in Conns :
              Pending(l, o, d)' <=> Pending(l, o, d) \/ (l = k /\ o = op /\ d = c)
  <1> DEFINE f == Functor(op, c)
  <1>1. functors' = [functors EXCEPT ![k] = Append(functors[k], f)]
    BY DEF Queue, Functor
  <1>2. f \in Functors
    BY DEF Functor, Functors, Ops
  <1>3. ASSUME NEW g \in Functors, Waits(functors[k], batch[k], done[k], g)
        PROVE  MayFollow(g, f)
    <2>1. g = Functor(g.op, g.conn) /\ g.op \in Ops /\ g.conn \in Conns
      BY FunctorType
    <2>2. Pending(k, g.op, g.conn)
      BY <1>3, <2>1 DEF Pending
    <2>3. g # f
      BY <1>3 DEF Pending
    <2>4. f.op = op /\ f.conn = c
      BY FunctorEqual
    <2> HIDE DEF f
    <2> QED BY <2>2, <2>3, <2>4 DEF MayFollow
  <1>4. /\ functors[k] \in Seq(Functors) /\ batch[k] \in Seq(Functors) /\ done[k] \in Nat
        /\ InOrder(functors[k], batch[k], done[k])
    BY DEF QueueTypes, QueuesInv, LoopInv
  <1> HIDE DEF f
  <1>5. /\ Append(functors[k], f) \in Seq(Functors)
        /\ InOrder(Append(functors[k], f), batch[k], done[k])
        /\ \A g : Waits(Append(functors[k], f), batch[k], done[k], g)
                    <=> Waits(functors[k], batch[k], done[k], g) \/ g = f
    BY <1>2, <1>3, <1>4, QueueOne
  <1>6. QueueTypes' /\ functors'[k] = Append(functors[k], f)
        /\ \A l \in Loops : l # k => functors'[l] = functors[l]
    BY <1>1, <1>5 DEF QueueTypes
  <1>7. QueuesInv'
    BY <1>5, <1>6 DEF QueuesInv, LoopInv
  <1>8. ASSUME NEW l \in Loops, NEW o \in Ops, NEW d \in Conns
        PROVE  Pending(l, o, d)' <=> Pending(l, o, d) \/ (l = k /\ o = op /\ d = c)
    <2>1. CASE l # k
      BY <1>6, <2>1 DEF Pending
    <2>2. CASE l = k
      <3>1. Functor(o, d) = f <=> o = op /\ d = c
        BY FunctorEqual DEF f
      <3> QED BY <1>5, <1>6, <2>2, <3>1 DEF Pending
    <2> QED BY <2>1, <2>2
  <1> QED BY <1>6, <1>7, <1>8

(* The next functor of l's batch runs, and may queue one on another loop k. *)
LEMMA RunStep ==
  ASSUME QueueTypes, QueuesInv, NEW l \in Loops, done[l] < Len(batch[l]),
         done' = [done EXCEPT ![l] = @ + 1], UNCHANGED <<batch, alive, at>>
  PROVE  LET f == batch[l][done[l] + 1] IN
         /\ f \in Functors /\ f.op \in Ops /\ f.conn \in Conns
         /\ Pending(l, f.op, f.conn) /\ at[l] = "functors"
         /\ f.op = "destroyed" => ~Pending(l, "established", f.conn)
         /\ UNCHANGED functors =>
              /\ QueueTypes' /\ QueuesInv'
              /\ \A k \in Loops, o \in Ops, d \in Conns :
                   Pending(k, o, d)' <=> Pending(k, o, d) /\ ~(k = l /\ o = f.op /\ d = f.conn)
         /\ \A k \in Loops : 
              /\ k # l /\ alive[k] /\ Queue(k, "destroyed", f.conn)
              /\ ~Pending(k, "destroyed", f.conn)
              => /\ QueueTypes' /\ QueuesInv'
                 /\ \A m \in Loops, o \in Ops, d \in Conns :
                      Pending(m, o, d)' <=>
                        \/ Pending(m, o, d) /\ ~(m = l /\ o = f.op /\ d = f.conn)
                        \/ m = k /\ o = "destroyed" /\ d = f.conn
  <1> DEFINE q == functors[l]
             b == batch[l]
             e == done[l]
             f == b[e + 1]
  <1>1. q \in Seq(Functors) /\ b \in Seq(Functors) /\ e \in Nat /\ InOrder(q, b, e) /\ e < Len(b)
    BY DEF QueueTypes, QueuesInv, LoopInv
  <1>2. /\ done' \in [Loops -> Nat] /\ done'[l] = e + 1 /\ e + 1 <= Len(b)
        /\ \A m \in Loops : m # l => done'[m] = done[m]
    BY <1>1, LenType DEF QueueTypes
  <1>3. at[l] = "functors"
    BY <1>1 DEF QueuesInv, LoopInv
  <1>4. /\ f \in Functors /\ Waits(q, b, e, f) /\ InOrder(q, b, e + 1)
        /\ \A g : Waits(q, b, e + 1, g) <=> Waits(q, b, e, g) /\ g # f
        /\ \A g : Waits(q, b, e + 1, g) => MayFollow(f, g)
    <2> HIDE DEF q, b, e
    <2> QED BY <1>1, RunOne
  <1>5. /\ f = Functor(f.op, f.conn) /\ f.op \in Ops /\ f.conn \in Conns
    BY <1>4, FunctorType
  <1> HIDE DEF f
  <1>6. Pending(l, f.op, f.conn)
    BY <1>4, <1>5 DEF Pending
  <1>7. \A o \in Ops, d \in Conns : Functor(o, d) = f <=> o = f.op /\ d = f.conn
    BY <1>5, FunctorEqual
  <1>8. f.op = "destroyed" => ~Pending(l, "established", f.conn)
    <2> SUFFICES ASSUME f.op = "destroyed", Pending(l, "established", f.conn)
                 PROVE  FALSE
      OBVIOUS
    <2> DEFINE g == Functor("established", f.conn)
    <2>1. g.op = "established" /\ g.conn = f.conn /\ g # f
      BY FunctorEqual
    <2>2. Waits(q, b, e, g)
      BY DEF Pending
    <2>3. MayFollow(f, g)
      BY <1>4, <2>1, <2>2
    <2> HIDE DEF g
    <2> QED BY <2>1, <2>3 DEF MayFollow
  <1>9. ASSUME UNCHANGED functors
        PROVE  /\ QueueTypes' /\ QueuesInv'
               /\ \A k \in Loops, o \in Ops, d \in Conns :
                    Pending(k, o, d)' <=> Pending(k, o, d) /\ ~(k = l /\ o = f.op /\ d = f.conn)
    <2>1. QueueTypes'
      BY <1>2, <1>9 DEF QueueTypes
    <2>2. QueuesInv'
      BY <1>1, <1>2, <1>3, <1>4, <1>9 DEF QueuesInv, LoopInv
    <2>3. \A o \in Ops, d \in Conns : Pending(l, o, d)' <=> Pending(l, o, d) /\ ~(o = f.op /\ d = f.conn)
      BY <1>2, <1>4, <1>7, <1>9 DEF Pending
    <2>4. \A k \in Loops, o \in Ops, d \in Conns : k # l => (Pending(k, o, d)' <=> Pending(k, o, d))
      BY <1>2, <1>9 DEF Pending
    <2> QED BY <2>1, <2>2, <2>3, <2>4
  <1>10. ASSUME NEW k \in Loops, k # l, alive[k], Queue(k, "destroyed", f.conn),
                ~Pending(k, "destroyed", f.conn)
         PROVE  /\ QueueTypes' /\ QueuesInv'
                /\ \A m \in Loops, o \in Ops, d \in Conns :
                     Pending(m, o, d)' <=>
                       \/ Pending(m, o, d) /\ ~(m = l /\ o = f.op /\ d = f.conn)
                       \/ m = k /\ o = "destroyed" /\ d = f.conn
    <2> DEFINE h == Functor("destroyed", f.conn)
               a == Append(functors[k], h)
    <2>1. functors' = [functors EXCEPT ![k] = a]
      BY <1>10 DEF Queue, Functor
    <2>2. h \in Functors /\ h.op = "destroyed"
      BY <1>5 DEF Functor, Functors
    <2>3. \A g \in Functors : Waits(functors[k], batch[k], done[k], g) => MayFollow(g, h)
      BY <1>10, <2>2 DEF Pending, MayFollow
    <2>4. /\ functors[k] \in Seq(Functors) /\ batch[k] \in Seq(Functors) /\ done[k] \in Nat
          /\ InOrder(functors[k], batch[k], done[k])
      BY DEF QueueTypes, QueuesInv, LoopInv
    <2>5. /\ a \in Seq(Functors) /\ InOrder(a, batch[k], done[k])
          /\ \A g : Waits(a, batch[k], done[k], g)
                      <=> Waits(functors[k], batch[k], done[k], g) \/ g = h
      <3> HIDE DEF h
      <3> QED BY <2>2, <2>3, <2>4, QueueOne
    <2> HIDE DEF a
    <2>6. QueueTypes' /\ functors'[k] = a /\ \A m \in Loops : m # k => functors'[m] = functors[m]
      BY <1>2, <2>1, <2>5 DEF QueueTypes
    <2>7. QueuesInv'
      BY <1>1, <1>2, <1>3, <1>4, <1>10, <2>5, <2>6 DEF QueuesInv, LoopInv
    <2>8. \A o \in Ops, d \in Conns : Functor(o, d) = h <=> o = "destroyed" /\ d = f.conn
      BY FunctorEqual
    <2> HIDE DEF h
    <2>9. \A o \in Ops, d \in Conns : Pending(l, o, d)' <=> Pending(l, o, d) /\ ~(o = f.op /\ d = f.conn)
      BY <1>2, <1>4, <1>7, <1>10, <2>6 DEF Pending
    <2>10. \A o \in Ops, d \in Conns :
             Pending(k, o, d)' <=> Pending(k, o, d) \/ (o = "destroyed" /\ d = f.conn)
      BY <1>2, <1>10, <2>5, <2>6, <2>8 DEF Pending
    <2>11. \A m \in Loops, o \in Ops, d \in Conns :
             m # l /\ m # k => (Pending(m, o, d)' <=> Pending(m, o, d))
      BY <1>2, <2>6 DEF Pending
    <2> QED BY <1>10, <2>6, <2>7, <2>9, <2>10, <2>11
  <1> QED BY <1>3, <1>4, <1>5, <1>6, <1>8, <1>9, <1>10 DEF f

(* A loop swaps its queue out, or is through with its batch: what waits stays the same. *)
LEMMA SwapStep ==
  ASSUME QueueTypes, QueuesInv, NEW l \in Loops, UNCHANGED alive,
         \/ /\ at[l] = "poll" /\ at' = [at EXCEPT ![l] = "functors"]
            /\ batch' = [batch EXCEPT ![l] = functors[l]]
            /\ functors' = [functors EXCEPT ![l] = <<>>] /\ done' = done
         \/ /\ done[l] = Len(batch[l]) /\ at' = [at EXCEPT ![l] = "test"]
            /\ batch' = [batch EXCEPT ![l] = <<>>] /\ done' = [done EXCEPT ![l] = 0]
            /\ functors' = functors,
         at \in [Loops -> {"test", "poll", "functors"}]
  PROVE  /\ QueueTypes' /\ QueuesInv'
         /\ \A k \in Loops, o \in Ops, c \in Conns : Pending(k, o, c)' <=> Pending(k, o, c)
  <1> DEFINE q == functors[l]
             b == batch[l]
  <1>1. q \in Seq(Functors) /\ b \in Seq(Functors) /\ done[l] = Len(b) /\ InOrder(q, b, Len(b))
        /\ (at[l] = "poll" => done[l] = 0)
    <2>1. at[l] = "poll" => b = <<>> /\ done[l] = 0
      BY DEF QueuesInv, LoopInv
    <2>2. done[l] = Len(b)
      BY <2>1
    <2> QED BY <2>1, <2>2 DEF QueueTypes, QueuesInv, LoopInv
  <1>2. /\ <<>> \in Seq(Functors)
        /\ InOrder(<<>>, q, 0) /\ \A g : Waits(<<>>, q, 0, g) <=> Waits(q, b, Len(b), g)
        /\ InOrder(q, <<>>, 0) /\ \A g : Waits(q, <<>>, 0, g) <=> Waits(q, b, Len(b), g)
    <2> HIDE DEF q, b
    <2> QED BY <1>1, MoveAll
  <1>3. /\ \A k \in Loops : k # l => /\ functors'[k] = functors[k] /\ batch'[k] = batch[k]
                                     /\ done'[k] = done[k] /\ at'[k] = at[k]
        /\ \/ functors'[l] = <<>> /\ batch'[l] = q /\ done'[l] = 0 /\ at'[l] = "functors"
           \/ functors'[l] = q /\ batch'[l] = <<>> /\ done'[l] = 0 /\ at'[l] = "test"
    BY <1>1 DEF QueueTypes
  <1>4. QueueTypes'
    <2>1. functors' \in [Loops -> Seq(Functors)]
      BY <1>2 DEF QueueTypes
    <2>2. batch' \in [Loops -> Seq(Functors)]
      BY <1>1, <1>2 DEF QueueTypes
    <2>3. done' \in [Loops -> Nat]
      BY DEF QueueTypes
    <2> QED BY <2>1, <2>2, <2>3 DEF QueueTypes
  <1>5. Len(q) \in Nat /\ Len(<<>>) = 0
    BY <1>1, LenType
  <1>6. QueuesInv'
    BY <1>2, <1>3, <1>5 DEF QueuesInv, LoopInv
  <1>7. ASSUME NEW k \in Loops, NEW o \in Ops, NEW c \in Conns
        PROVE  Pending(k, o, c)' <=> Pending(k, o, c)
    BY <1>1, <1>2, <1>3 DEF Pending
  <1> QED BY <1>4, <1>6, <1>7

-----------------------------------------------------------------------------
(* Facts about a state of SrvInv. *)
LEMMA SrvParts ==
  ASSUME SrvInv
  PROVE  /\ TypeOK /\ QueuesInv /\ ServerInv /\ LifeInv /\ FreshInv /\ PendingInv /\ MapInv
         /\ QueueTypes
  BY DEF SrvInv, TypeOK, QueueTypes

LEMMA Numbers ==
  ASSUME SrvInv
  PROVE  /\ Main \in Loops /\ MaxThreads \in Nat \ {0} /\ MaxConns \in Nat
         /\ num_threads_ \in Nat /\ next_conn_id_ \in Nat \ {0}
         /\ Accepted \subseteq Conns
         /\ \A c \in Accepted : loop_[c] \in Loops
  <1>1. MaxThreads \in Nat \ {0} /\ MaxConns \in Nat /\ Main \in Loops
    BY BoundsAssumption DEF Main, Loops
  <1>2. num_threads_ \in Nat /\ next_conn_id_ \in 1..(MaxConns + 1) /\ loop_ \in [Conns -> Loops]
    BY <1>1 DEF SrvInv, TypeOK, Loops
  <1> QED BY <1>1, <1>2 DEF Accepted, Conns

(* While the server is open or in the body of its destructor, the loops of accepted *)
(* connections exist.                                                               *)
LEMMA HomeAlive ==
  ASSUME SrvInv, phase \in {"open", "closing"}, NEW c \in Accepted
  PROVE  alive[loop_[c]] /\ started_ # 0
  BY SrvParts, Numbers DEF ServerInv, MapInv, Accepted

LEMMA SrvInitially == Init => SrvInv
  <1> SUFFICES ASSUME Init
               PROVE  SrvInv
    OBVIOUS
  <1>1. Main \in Loops /\ MaxThreads \in Nat \ {0} /\ MaxConns \in Nat /\ 0 \in 0..(MaxThreads - 1)
        /\ 1 \in 1..(MaxConns + 1)
    BY BoundsAssumption DEF Main, Loops
  <1>2. Accepted = {}
    BY DEF Init, Accepted
  <1>3. <<>> \in Seq(Functors) /\ InOrder(<<>>, <<>>, 0) /\ (\A g : ~Waits(<<>>, <<>>, 0, g)) /\ Len(<<>>) = 0
    <2>1. <<>> \in Seq(Functors) /\ Len(<<>>) = 0
      OBVIOUS
    <2>2. InOrder(<<>>, <<>>, Len(<<>>))
      BY <2>1 DEF InOrder
    <2> QED BY <2>1, <2>2, MoveAll
  <1>4. TypeOK
    <2>1. functors \in [Loops -> Seq(Functors)] /\ batch \in [Loops -> Seq(Functors)]
      BY <1>3, Zenon DEF Init
    <2>2. /\ started_ \in 0..2 /\ num_threads_ \in Loops /\ next_ \in 0..(MaxThreads - 1)
          /\ next_conn_id_ \in 1..(MaxConns + 1) /\ done \in [Loops -> Nat]
      BY <1>1 DEF Init, Main
    <2>3. /\ loop_ \in [Conns -> Loops]
          /\ up \in [Conns -> Nat] /\ down \in [Conns -> Nat] /\ removes \in [Conns -> Nat]
      BY <1>1 DEF Init
    <2>4. /\ alive \in [Loops -> BOOLEAN] /\ quit_ \in [Loops -> BOOLEAN]
          /\ at \in [Loops -> {"test", "poll", "functors"}]
      BY DEF Init
    <2>5. /\ state_ \in [Conns -> {"kConnecting", "kConnected", "kDisconnecting", "kDisconnected"}]
          /\ index_ \in [Conns -> {"kNew", "kAdded", "kDeleted"}]
      BY DEF Init
    <2> QED BY <2>1, <2>2, <2>3, <2>4, <2>5 DEF Init, TypeOK
  <1>5. QueuesInv
    BY <1>3 DEF Init, QueuesInv, LoopInv
  <1>6. \A l \in Loops, o \in Ops, c \in Conns : ~Pending(l, o, c)
    BY <1>3 DEF Init, Pending
  <1>7. ServerInv
    BY <1>1 DEF Init, ServerInv
  <1>8. LifeInv /\ FreshInv /\ PendingInv /\ MapInv
    BY <1>2, <1>6 DEF Init, LifeInv, FreshInv, PendingInv, MapInv, Ops
  <1> QED BY <1>4, <1>5, <1>7, <1>8 DEF SrvInv

(* Steps that leave the queues, the map and the connections' channels alone: the *)
(* server's and the loops' own.                                                  *)
LEMMA QuietStep ==
  ASSUME SrvInv, TypeOK', QueuesInv', ServerInv',
         UNCHANGED <<next_conn_id_, connection_maps, loop_, index_, up, down, removes>>,
         \A l \in Loops, o \in Ops, c \in Conns : Pending(l, o, c)' <=> Pending(l, o, c),
         phase' = "open" => phase = "open",
         \A c \in Conns : state_'[c] = "kConnected" => state_[c] = "kConnected",
         \A c \in Accepted : alive'[loop_[c]] => alive[loop_[c]],
         num_threads_' = num_threads_ \/ Accepted = {}
  PROVE  SrvInv'
  <1>1. LifeInv'
    BY SrvParts DEF LifeInv
  <1>2. Accepted' = Accepted
    BY DEF Accepted
  <1>3. FreshInv'
    BY <1>2, SrvParts DEF FreshInv
  <1>4. PendingInv'
    BY SrvParts DEF PendingInv, Ops
  <1>5. MapInv'
    BY <1>2, SrvParts, Numbers DEF MapInv, Ops
  <1> QED BY <1>1, <1>3, <1>4, <1>5 DEF SrvInv

LEMMA ServerStep ==
  ASSUME SrvInv,
         \/ \E n \in Loops : SetThreadNum(n)
         \/ Start \/ MainReturns \/ DestroyPool \/ DestroyAcceptor
         \/ \E l \in Loops \ {Main} : QuitThread(l)
         \/ \E l \in Loops : TestQuit(l)
         \/ \E c \in Conns : ShutDown(c)
         \/ HandleRead /\ AcceptFails
  PROVE  SrvInv'
  <1>0. TypeOK /\ QueuesInv /\ ServerInv /\ QueueTypes
    BY SrvParts
  <1>1. /\ UNCHANGED <<next_conn_id_, connection_maps, loop_, index_, up, down, removes,
                       functors, batch, done>>
        /\ phase' = "open" => phase = "open"
    BY DEF SetThreadNum, Start, MainReturns, DestroyPool, DestroyAcceptor, QuitThread, TestQuit,
           ShutDown, HandleRead, AcceptFails, server, conn
  <1>2. \A l \in Loops, o \in Ops, c \in Conns : Pending(l, o, c)' <=> Pending(l, o, c)
    BY <1>0, <1>1, SameQueues
  <1>3. \A c \in Conns : state_'[c] = "kConnected" => state_[c] = "kConnected"
    BY <1>0 DEF SetThreadNum, Start, MainReturns, DestroyPool, DestroyAcceptor, QuitThread, TestQuit,
           ShutDown, HandleRead, AcceptFails, conn, TypeOK
  <1>4. CASE \E n \in Loops : SetThreadNum(n)
    <2>1. PICK n \in Loops : SetThreadNum(n)
      BY <1>4
    <2>2. Accepted = {} /\ next_ = 0
      BY <1>0, <2>1 DEF SetThreadNum, ServerInv, Accepted
    <2>3. TypeOK'
      BY <1>0, <2>1 DEF SetThreadNum, TypeOK, loops, conn
    <2>4. ServerInv' /\ QueuesInv' /\ alive' = alive
      BY <1>0, <2>1, <2>2 DEF SetThreadNum, ServerInv, QueuesInv, LoopInv, loops
    <2> QED BY <1>1, <1>2, <1>3, <2>2, <2>3, <2>4, QuietStep
  <1>5. CASE Start
    <2>1. /\ started_' = started_ + 1 /\ started_' \in 0..2 /\ started_' # 0 /\ phase = "open"
          /\ UNCHANGED <<phase, aborted, num_threads_, next_, quit_, at, state_>>
          /\ \/ /\ started_ = 0 /\ alive' = [l \in Loops |-> l <= num_threads_]
                /\ accept_index' = "kAdded"
             \/ started_ # 0 /\ UNCHANGED <<alive, accept_index>>
      BY <1>0, <1>5 DEF Start, InLoop, Listen, TypeOK, conn, Main, Loops
    <2>2. Main <= num_threads_ /\ \A l \in Loops : alive[l] => alive'[l]
      <3>1. Main <= num_threads_
        BY Numbers DEF Main
      <3>2. CASE started_ = 0
        BY <1>0, <2>1, <3>1, <3>2 DEF ServerInv
      <3>3. CASE started_ # 0
        BY <2>1, <3>1, <3>3
      <3> QED BY <3>2, <3>3
    <2>3. TypeOK'
      <3>1. \A l \in Loops : (l <= num_threads_) \in BOOLEAN
        OBVIOUS
      <3>2. alive' \in [Loops -> BOOLEAN] /\ accept_index' \in {"kNew", "kAdded"}
        BY <1>0, <2>1, <3>1, Zenon DEF TypeOK
      <3> QED BY <1>0, <1>1, <2>1, <3>2 DEF TypeOK
    <2>4. ServerInv'
      BY <1>0, <1>1, <2>1, <2>2, Numbers DEF ServerInv
    <2>5. QueuesInv'
      BY <1>0, <1>1, <2>1, <2>2 DEF QueuesInv, LoopInv
    <2>6. \A c \in Accepted : alive[loop_[c]]
      BY <2>1, HomeAlive
    <2> QED BY <1>1, <1>2, <1>3, <2>1, <2>3, <2>4, <2>5, <2>6, QuietStep
  <1>6. CASE MainReturns \/ DestroyPool \/ DestroyAcceptor
    <2>1. /\ UNCHANGED <<aborted, started_, num_threads_, next_, alive, quit_, at, state_>>
          /\ \/ phase = "open" /\ phase' = "closing" /\ at[Main] = "test" /\ UNCHANGED accept_index
             \/ /\ phase = "closing" /\ phase' = "joining" /\ connection_maps = {}
                /\ UNCHANGED accept_index
             \/ /\ phase = "joining" /\ phase' = "gone" /\ accept_index' = "kNew"
                /\ \A l \in Loops \ {Main} : ~alive[l]
      BY <1>6 DEF MainReturns, DestroyPool, DestroyAcceptor, InLoop, InBody, Joined, server,
                  loops, conn
    <2>2. TypeOK'
      BY <1>0, <1>1, <2>1 DEF TypeOK
    <2>3. ServerInv' /\ QueuesInv'
      BY <1>0, <1>1, <2>1 DEF ServerInv, QueuesInv, LoopInv
    <2> QED BY <1>1, <1>2, <1>3, <2>1, <2>2, <2>3, QuietStep
  <1>7. CASE \E l \in Loops \ {Main} : QuitThread(l)
    <2>1. PICK l \in Loops \ {Main} : QuitThread(l)
      BY <1>7
    <2>2. /\ phase = "joining" /\ quit_' = [quit_ EXCEPT ![l] = TRUE]
          /\ UNCHANGED <<phase, aborted, started_, num_threads_, next_, accept_index, alive, at,
                         state_>>
      BY <2>1 DEF QuitThread, server, conn
    <2>3. TypeOK'
      BY <1>0, <1>1, <2>2 DEF TypeOK
    <2>4. ServerInv' /\ QueuesInv'
      BY <1>0, <1>1, <2>2 DEF ServerInv, QueuesInv, LoopInv
    <2> QED BY <1>1, <1>2, <1>3, <2>2, <2>3, <2>4, QuietStep
  <1>8. CASE \E l \in Loops : TestQuit(l)
    <2>1. PICK l \in Loops : TestQuit(l)
      BY <1>8
    <2>2. /\ at[l] = "test" /\ at' = [at EXCEPT ![l] = "poll"] /\ (l = Main => phase = "open")
          /\ UNCHANGED <<phase, aborted, started_, num_threads_, next_, accept_index, alive, quit_,
                         state_>>
      BY <2>1 DEF TestQuit, InLoop, server, conn
    <2>3. TypeOK'
      BY <1>0, <1>1, <2>2 DEF TypeOK
    <2>4. ServerInv' /\ QueuesInv'
      BY <1>0, <1>1, <2>2, Numbers DEF ServerInv, QueuesInv, LoopInv, TypeOK
    <2> QED BY <1>1, <1>2, <1>3, <2>2, <2>3, <2>4, QuietStep
  <1>9. CASE (\E c \in Conns : ShutDown(c)) \/ (HandleRead /\ AcceptFails)
    <2>1. UNCHANGED <<phase, started_, num_threads_, next_, accept_index, alive, quit_, at>>
      BY <1>9 DEF ShutDown, HandleRead, AcceptFails, server, loops
    <2>2. TypeOK'
      BY <1>0, <1>1, <1>9, <2>1 DEF ShutDown, HandleRead, AcceptFails, TypeOK, conn
    <2>3. ServerInv' /\ QueuesInv'
      BY <1>0, <1>1, <2>1 DEF ServerInv, QueuesInv, LoopInv
    <2> QED BY <1>1, <1>2, <1>3, <2>1, <2>2, <2>3, QuietStep
  <1> QED BY <1>4, <1>5, <1>6, <1>7, <1>8, <1>9

-----------------------------------------------------------------------------
(* Steps about one connection *)

(* A new connection: a loop of the pool is to establish it, or it is established at *)
(* once on the main loop.                                                           *)
LEMMA NewConnectionStep ==
  ASSUME SrvInv, HandleRead, NewConnection, next_conn_id_ \in Conns
  PROVE  SrvInv'
  <1> DEFINE c == next_conn_id_
             home == GetNextLoop
  <1>0. /\ TypeOK /\ QueuesInv /\ ServerInv /\ LifeInv /\ FreshInv /\ PendingInv /\ MapInv
        /\ QueueTypes
    BY SrvParts
  <1>1. /\ phase = "open" /\ accept_index = "kAdded" /\ started_ # 0
        /\ UNCHANGED <<phase, aborted, started_, num_threads_, accept_index, alive, quit_, at,
                       batch, done, down, removes>>
        /\ next_conn_id_' = c + 1 /\ next_' = Following
        /\ connection_maps' = connection_maps \cup {c}
        /\ loop_' = [loop_ EXCEPT ![c] = home]
        /\ aborted' \in BOOLEAN
    <2>1. phase = "open" /\ accept_index = "kAdded"
      BY DEF HandleRead, Dispatching, InLoop
    <2>2. started_ # 0
      BY <1>0, <2>1 DEF ServerInv
    <2>3. next_conn_id_' = c + 1
      BY DEF NewConnection
    <2>4. ~AcceptFails
      BY <2>3, Numbers DEF AcceptFails
    <2>5. aborted' = aborted
      BY <2>4 DEF HandleRead
    <2> QED BY <1>0, <2>1, <2>2, <2>3, <2>5 DEF HandleRead, NewConnection, loops, TypeOK
  <1>2. home \in Loops /\ home <= num_threads_ /\ alive[home]
    <2>1. num_threads_ \in 0..MaxThreads /\ next_ \in Nat /\ MaxThreads \in Nat
      BY <1>0, Numbers DEF TypeOK, Loops
    <2>2. home \in Loops /\ home <= num_threads_
      BY <1>0, <2>1 DEF GetNextLoop, Main, Loops, ServerInv
    <2> QED BY <1>0, <1>1, <2>2 DEF ServerInv
  <1>3. c \notin Accepted /\ Accepted' = Accepted \cup {c}
    BY <1>1, Numbers DEF Accepted
  <1>4. next_' \in 0..(MaxThreads - 1) /\ (next_' = 0 \/ next_' < num_threads_)
        /\ next_conn_id_' \in 1..(MaxConns + 1)
    BY <1>0, <1>1, Numbers, BoundsAssumption DEF Following, TypeOK, Loops, Conns
  <1>5. /\ c \notin connection_maps /\ up[c] = 0 /\ down[c] = 0 /\ removes[c] = 0
        /\ \A l \in Loops : \A op \in Ops : ~Pending(l, op, c)
    BY <1>0, <1>3 DEF FreshInv
  <1> HIDE DEF c, home
  <1>6. \A d \in Conns : d # c => loop_'[d] = loop_[d]
    BY <1>0, <1>1 DEF TypeOK
  <1>7. c \in Conns /\ loop_'[c] = home /\ loop_' \in [Conns -> Loops]
    BY <1>0, <1>1, <1>2 DEF TypeOK, c
  <1>8. CASE home = Main
    <2>1. /\ state_' = [state_ EXCEPT ![c] = "kConnected"]
          /\ index_' = [index_ EXCEPT ![c] = "kAdded"]
          /\ up' = [up EXCEPT ![c] = @ + 1]
          /\ functors' = functors
      BY <1>8 DEF NewConnection, c, home
    <2>2. /\ QueueTypes'
          /\ \A l \in Loops, o \in Ops, d \in Conns : Pending(l, o, d)' <=> Pending(l, o, d)
      BY <1>0, <1>1, <2>1, SameQueues
    <2>3. /\ up'[c] = 1 /\ state_'[c] = "kConnected" /\ index_'[c] = "kAdded"
          /\ \A d \in Conns : d # c => up'[d] = up[d] /\ state_'[d] = state_[d] /\ index_'[d] = index_[d]
      BY <1>0, <1>5, <1>7, <2>1 DEF TypeOK
    <2>4. TypeOK'
      <3>0. up \in [Conns -> Nat]
        BY <1>0 DEF TypeOK
      <3>1. up' \in [Conns -> Nat]
        BY <1>7, <2>1, <3>0
      <3>2. index_' \in [Conns -> {"kNew", "kAdded", "kDeleted"}]
        BY <1>0, <2>1 DEF TypeOK
      <3>3. state_' \in [Conns -> {"kConnecting", "kConnected", "kDisconnecting", "kDisconnected"}]
        BY <1>0, <2>1 DEF TypeOK
      <3>4. connection_maps' \subseteq Conns
        BY <1>0, <1>1, <1>7 DEF TypeOK
      <3> QED BY <1>0, <1>1, <1>4, <1>7, <2>2, <3>1, <3>2, <3>3, <3>4 DEF TypeOK, QueueTypes
    <2>5. QueuesInv' /\ ServerInv'
      BY <1>0, <1>1, <1>4, <2>1 DEF QueuesInv, LoopInv, ServerInv
    <2>6. LifeInv'
      BY <1>0, <1>1, <1>5, <2>3 DEF LifeInv
    <2>7. FreshInv'
      BY <1>0, <1>1, <1>3, <2>2, <2>3 DEF FreshInv
    <2>8. PendingInv'
      BY <1>0, <1>1, <1>5, <1>6, <2>2, <2>3 DEF PendingInv, Ops
    <2>9. MapInv'
      BY <1>0, <1>1, <1>2, <1>3, <1>5, <1>6, <1>7, <2>2, <2>3, Numbers DEF MapInv, Ops
    <2> QED BY <2>4, <2>5, <2>6, <2>7, <2>8, <2>9 DEF SrvInv
  <1>9. CASE home # Main
    <2>1. Queue(home, "established", c) /\ UNCHANGED <<state_, index_, up>>
      BY <1>9 DEF NewConnection, c, home
    <2>2. /\ QueueTypes' /\ QueuesInv'
          /\ \A l \in Loops, o \in Ops, d \in Conns :
               Pending(l, o, d)' <=> Pending(l, o, d) \/ (l = home /\ o = "established" /\ d = c)
      BY <1>0, <1>1, <1>2, <1>5, <1>7, <2>1, QueueStep DEF Ops
    <2>4. TypeOK'
      BY <1>0, <1>1, <1>4, <1>7, <2>1, <2>2 DEF TypeOK, QueueTypes
    <2>5. ServerInv'
      BY <1>0, <1>1, <1>4 DEF ServerInv
    <2>6. LifeInv'
      BY <1>0, <1>1, <2>1 DEF LifeInv
    <2>7. FreshInv'
      BY <1>0, <1>1, <1>3, <2>1, <2>2 DEF FreshInv
    <2>8. PendingInv'
      BY <1>0, <1>1, <1>5, <1>6, <1>7, <1>9, <2>1, <2>2 DEF PendingInv, Ops
    <2>9. MapInv'
      BY <1>0, <1>1, <1>2, <1>3, <1>5, <1>6, <1>7, <2>1, <2>2, Numbers DEF MapInv, Ops
    <2> QED BY <2>2, <2>4, <2>5, <2>6, <2>7, <2>8, <2>9 DEF SrvInv
  <1> QED BY <1>8, <1>9

(* A close reported by the connection's own loop. *)
LEMMA HandleCloseStep ==
  ASSUME SrvInv, NEW c \in Conns, HandleClose(c)
  PROVE  SrvInv'
  <1>0. /\ TypeOK /\ QueuesInv /\ ServerInv /\ LifeInv /\ FreshInv /\ PendingInv /\ MapInv
        /\ QueueTypes
    BY SrvParts
  <1>1. /\ c \in Accepted /\ index_[c] = "kAdded" /\ alive[loop_[c]]
        /\ (loop_[c] = Main => phase = "open")
        /\ state_' = [state_ EXCEPT ![c] = "kDisconnected"]
        /\ index_' = [index_ EXCEPT ![c] = "kDeleted"]
        /\ down' = [down EXCEPT ![c] = @ + 1]
        /\ UNCHANGED <<phase, aborted, started_, num_threads_, next_, next_conn_id_, accept_index,
                       alive, quit_, at, batch, done, loop_, up, removes>>
    BY DEF HandleClose, Dispatching, InLoop, server, loops
  <1>2. /\ loop_[c] \in Loops /\ up[c] = 1 /\ down[c] = 0 /\ removes[c] = 0
        /\ (phase = "open" => c \in connection_maps)
        /\ Accepted' = Accepted
    <2>1. loop_[c] \in Loops /\ Accepted' = Accepted
      BY <1>1, Numbers DEF Accepted
    <2> QED BY <1>0, <1>1, <2>1 DEF LifeInv, MapInv
  <1>3. /\ down'[c] = 1 /\ state_'[c] = "kDisconnected" /\ index_'[c] = "kDeleted"
        /\ \A d \in Conns : d # c => down'[d] = down[d] /\ state_'[d] = state_[d] /\ index_'[d] = index_[d]
    BY <1>0, <1>1, <1>2 DEF TypeOK
  <1>4. ServerInv' \/ ~(connection_maps' \subseteq connection_maps)
    BY <1>0, <1>1 DEF ServerInv
  <1>5. LifeInv'
    BY <1>0, <1>1, <1>2, <1>3 DEF LifeInv
  <1>6. /\ down' \in [Conns -> Nat] /\ index_' \in [Conns -> {"kNew", "kAdded", "kDeleted"}]
        /\ state_' \in [Conns -> {"kConnecting", "kConnected", "kDisconnecting", "kDisconnected"}]
    BY <1>0, <1>1 DEF TypeOK
  <1>7. CASE loop_[c] = Main
    <2>1. connection_maps' = connection_maps \ {c} /\ Queue(Main, "destroyed", c)
      BY <1>7 DEF HandleClose, RemoveConnection, RemoveconnectionInLoop
    <2>2. c \in connection_maps /\ ~Pending(Main, "destroyed", c) /\ phase = "open"
      BY <1>0, <1>1, <1>2, <1>7, Numbers DEF PendingInv
    <2>3. /\ QueueTypes' /\ QueuesInv'
          /\ \A l \in Loops, o \in Ops, d \in Conns :
               Pending(l, o, d)' <=> Pending(l, o, d) \/ (l = Main /\ o = "destroyed" /\ d = c)
      BY <1>0, <1>1, <1>2, <1>7, <2>1, <2>2, QueueStep DEF Ops
    <2>4. TypeOK'
      BY <1>0, <1>1, <1>6, <2>1, <2>3 DEF TypeOK, QueueTypes
    <2>5. FreshInv'
      BY <1>0, <1>1, <1>2, <1>3, <2>1, <2>3 DEF FreshInv
    <2>6. PendingInv'
      BY <1>0, <1>1, <1>2, <1>3, <1>7, <2>1, <2>3 DEF PendingInv, Ops
    <2>7. MapInv'
      BY <1>0, <1>1, <1>2, <1>3, <1>7, <2>1, <2>3, Numbers DEF MapInv, Ops
    <2> QED BY <1>4, <1>5, <2>1, <2>3, <2>4, <2>5, <2>6, <2>7 DEF SrvInv
  <1>8. CASE loop_[c] # Main
    <2>1. connection_maps' = connection_maps /\ Queue(Main, "remove", c)
      BY <1>8 DEF HandleClose, RemoveConnection
    <2>2. ~Pending(Main, "remove", c) /\ Main \in Loops /\ alive[Main]
      BY <1>0, <1>1, Numbers DEF PendingInv, ServerInv
    <2>3. /\ QueueTypes' /\ QueuesInv'
          /\ \A l \in Loops, o \in Ops, d \in Conns :
               Pending(l, o, d)' <=> Pending(l, o, d) \/ (l = Main /\ o = "remove" /\ d = c)
      BY <1>0, <1>1, <2>1, <2>2, QueueStep DEF Ops
    <2>4. TypeOK'
      BY <1>0, <1>1, <1>6, <2>1, <2>3 DEF TypeOK, QueueTypes
    <2>5. FreshInv'
      BY <1>0, <1>1, <1>2, <1>3, <2>1, <2>3 DEF FreshInv
    <2>6. PendingInv'
      BY <1>0, <1>1, <1>2, <1>3, <1>8, <2>1, <2>3 DEF PendingInv, Ops
    <2>7. MapInv'
      BY <1>0, <1>1, <1>2, <1>3, <1>8, <2>1, <2>3, Numbers DEF MapInv, Ops
    <2> QED BY <1>4, <1>5, <2>1, <2>3, <2>4, <2>5, <2>6, <2>7 DEF SrvInv
  <1> QED BY <1>7, <1>8

(* What ConnectionDestroyed leaves. *)
LEMMA DestroyedConn ==
  ASSUME SrvInv, NEW c \in Conns, ConnectionDestroyed(c), removes[c] = 0
  PROVE  /\ LifeInv' /\ index_'[c] = "kNew" /\ removes'[c] = 1
         /\ down' \in [Conns -> Nat] /\ index_' \in [Conns -> {"kNew", "kAdded", "kDeleted"}]
         /\ removes' \in [Conns -> Nat] /\ UNCHANGED <<loop_, up>>
         /\ state_' \in [Conns -> {"kConnecting", "kConnected", "kDisconnecting", "kDisconnected"}]
         /\ \A d \in Conns : d # c => /\ down'[d] = down[d] /\ index_'[d] = index_[d]
                                      /\ removes'[d] = removes[d] /\ state_'[d] = state_[d]
  <1>0. TypeOK /\ LifeInv
    BY SrvParts
  <1>1. /\ index_' = [index_ EXCEPT ![c] = "kNew"] /\ removes' = [removes EXCEPT ![c] = @ + 1]
        /\ UNCHANGED <<loop_, up>>
        /\ \/ /\ state_[c] = "kConnected" /\ state_' = [state_ EXCEPT ![c] = "kDisconnected"]
              /\ down' = [down EXCEPT ![c] = @ + 1]
           \/ state_[c] # "kConnected" /\ UNCHANGED <<state_, down>>
    BY DEF ConnectionDestroyed
  <1>2. /\ index_'[c] = "kNew" /\ removes'[c] = 1
        /\ down' \in [Conns -> Nat] /\ index_' \in [Conns -> {"kNew", "kAdded", "kDeleted"}]
        /\ removes' \in [Conns -> Nat]
    <2>1. index_'[c] = "kNew" /\ index_' \in [Conns -> {"kNew", "kAdded", "kDeleted"}]
      BY <1>0, <1>1 DEF TypeOK
    <2>2. removes'[c] = 1 /\ removes' \in [Conns -> Nat]
      BY <1>0, <1>1 DEF TypeOK
    <2>3. down' \in [Conns -> Nat]
      <3>1. down \in [Conns -> Nat]
        BY <1>0 DEF TypeOK
      <3> QED BY <1>1, <3>1
    <2> QED BY <2>1, <2>2, <2>3
  <1>3. state_' \in [Conns -> {"kConnecting", "kConnected", "kDisconnecting", "kDisconnected"}]
    BY <1>0, <1>1 DEF TypeOK
  <1>4. \A d \in Conns : d # c => /\ down'[d] = down[d] /\ index_'[d] = index_[d]
                                  /\ removes'[d] = removes[d] /\ state_'[d] = state_[d]
    BY <1>0, <1>1 DEF TypeOK
  <1>5. /\ down'[c] \in {0, 1} /\ (down'[c] = 1 => up[c] = 1) /\ state_'[c] # "kConnected"
    BY <1>0, <1>1 DEF TypeOK, LifeInv
  <1>6. LifeInv'
    BY <1>0, <1>1, <1>2, <1>4, <1>5 DEF LifeInv
  <1> QED BY <1>1, <1>2, <1>3, <1>4, <1>6

(* An entry of the map in ~TcpServer. *)
LEMMA DestroyConnectionStep ==
  ASSUME SrvInv, NEW c \in Conns, DestroyConnection(c)
  PROVE  SrvInv'
  <1>0. /\ TypeOK /\ QueuesInv /\ ServerInv /\ LifeInv /\ FreshInv /\ PendingInv /\ MapInv
        /\ QueueTypes
    BY SrvParts
  <1>1. /\ phase = "closing" /\ c \in connection_maps /\ connection_maps' = connection_maps \ {c}
        /\ UNCHANGED <<phase, aborted, started_, num_threads_, next_, next_conn_id_, accept_index,
                       alive, quit_, at, batch, done>>
    BY DEF DestroyConnection, InBody, server, loops
  <1>2. /\ c \in Accepted /\ loop_[c] \in Loops /\ alive[loop_[c]] /\ Accepted' = Accepted
        /\ removes[c] = 0 /\ \A l \in Loops : ~Pending(l, "destroyed", c)
    <2>1. c \in Accepted /\ Accepted' = Accepted
      BY <1>0, <1>1 DEF FreshInv, Accepted
    <2> QED BY <1>0, <1>1, <2>1, HomeAlive, Numbers DEF MapInv, PendingInv
  <1>3. ServerInv'
    BY <1>0, <1>1 DEF ServerInv
  <1>4. CASE loop_[c] = Main
    <2>1. ConnectionDestroyed(c) /\ functors' = functors
      BY <1>4 DEF DestroyConnection
    <2>2. /\ QueueTypes'
          /\ \A l \in Loops, o \in Ops, d \in Conns : Pending(l, o, d)' <=> Pending(l, o, d)
      BY <1>0, <1>1, <2>1, SameQueues
    <2>3. /\ LifeInv' /\ index_'[c] = "kNew" /\ removes'[c] = 1
          /\ down' \in [Conns -> Nat] /\ index_' \in [Conns -> {"kNew", "kAdded", "kDeleted"}]
          /\ removes' \in [Conns -> Nat] /\ UNCHANGED <<loop_, up>>
          /\ state_' \in [Conns -> {"kConnecting", "kConnected", "kDisconnecting", "kDisconnected"}]
          /\ \A d \in Conns : d # c => /\ down'[d] = down[d] /\ index_'[d] = index_[d]
                                       /\ removes'[d] = removes[d] /\ state_'[d] = state_[d]
      BY <1>2, <2>1, DestroyedConn
    <2>4. TypeOK'
      BY <1>0, <1>1, <2>2, <2>3 DEF TypeOK, QueueTypes
    <2>5. QueuesInv'
      BY <1>0, <1>1, <2>1 DEF QueuesInv, LoopInv
    <2>6. FreshInv'
      BY <1>0, <1>1, <1>2, <2>2, <2>3 DEF FreshInv
    <2>7. PendingInv'
      BY <1>0, <1>1, <1>2, <1>4, <2>2, <2>3 DEF PendingInv, Ops
    <2>8. MapInv'
      BY <1>0, <1>1, <1>2, <2>2, <2>3, Numbers DEF MapInv, Ops
    <2> QED BY <1>3, <2>3, <2>4, <2>5, <2>6, <2>7, <2>8 DEF SrvInv
  <1>5. CASE loop_[c] # Main
    <2>1. Queue(loop_[c], "destroyed", c) /\ UNCHANGED <<loop_, state_, index_, up, down, removes>>
      BY <1>5 DEF DestroyConnection, conn
    <2>2. /\ QueueTypes' /\ QueuesInv'
          /\ \A l \in Loops, o \in Ops, d \in Conns :
               Pending(l, o, d)' <=> Pending(l, o, d) \/ (l = loop_[c] /\ o = "destroyed" /\ d = c)
      BY <1>0, <1>1, <1>2, <2>1, QueueStep DEF Ops
    <2>3. TypeOK'
      BY <1>0, <1>1, <2>1, <2>2 DEF TypeOK, QueueTypes
    <2>4. LifeInv' /\ FreshInv'
      BY <1>0, <1>1, <1>2, <2>1, <2>2 DEF LifeInv, FreshInv
    <2>5. PendingInv'
      BY <1>0, <1>1, <1>2, <2>1, <2>2 DEF PendingInv, Ops
    <2>6. MapInv'
      BY <1>0, <1>1, <1>2, <1>5, <2>1, <2>2, Numbers DEF MapInv, Ops
    <2> QED BY <1>3, <2>2, <2>3, <2>4, <2>5, <2>6 DEF SrvInv
  <1> QED BY <1>4, <1>5

-----------------------------------------------------------------------------
(* The loops' steps over their functors *)

LEMMA SwapFunctorsStep ==
  ASSUME SrvInv, NEW l \in Loops, SwapFunctors(l) \/ FunctorsDone(l)
  PROVE  SrvInv'
  <1>0. TypeOK /\ QueuesInv /\ ServerInv /\ QueueTypes
    BY SrvParts
  <1>1. UNCHANGED <<phase, aborted, started_, num_threads_, next_, next_conn_id_, accept_index,
                    connection_maps, alive, quit_, loop_, state_, index_, up, down, removes>>
    BY DEF SwapFunctors, FunctorsDone, server, conn
  <1>2. \/ /\ at[l] = "poll" /\ at' = [at EXCEPT ![l] = "functors"]
           /\ batch' = [batch EXCEPT ![l] = functors[l]]
           /\ functors' = [functors EXCEPT ![l] = <<>>] /\ done' = done
           /\ (l = Main => phase = "open")
        \/ /\ done[l] = Len(batch[l]) /\ at' = [at EXCEPT ![l] = "test"]
           /\ batch' = [batch EXCEPT ![l] = <<>>] /\ done' = [done EXCEPT ![l] = 0]
           /\ functors' = functors
    BY DEF SwapFunctors, FunctorsDone, Dispatching, InLoop
  <1>3. at \in [Loops -> {"test", "poll", "functors"}] /\ at' \in [Loops -> {"test", "poll", "functors"}]
    BY <1>0, <1>2 DEF TypeOK
  <1>4. /\ QueueTypes' /\ QueuesInv'
        /\ \A k \in Loops, o \in Ops, c \in Conns : Pending(k, o, c)' <=> Pending(k, o, c)
    BY <1>0, <1>1, <1>2, <1>3, SwapStep
  <1>5. TypeOK'
    BY <1>0, <1>1, <1>3, <1>4 DEF TypeOK, QueueTypes
  <1>6. phase # "open" => at'[Main] = "test"
    BY <1>0, <1>2, <1>3, Numbers DEF ServerInv
  <1>7. ServerInv'
    BY <1>0, <1>1, <1>6 DEF ServerInv
  <1> QED BY <1>1, <1>4, <1>5, <1>7, QuietStep

(* A thread's loop ends: what it still had queued is dropped, and no one will miss it, *)
(* for the server is past the point of needing that loop.                              *)
LEMMA LoopEndsStep ==
  ASSUME SrvInv, NEW l \in Loops \ {Main}, LoopEnds(l)
  PROVE  SrvInv'
  <1>0. /\ TypeOK /\ QueuesInv /\ ServerInv /\ LifeInv /\ FreshInv /\ PendingInv /\ MapInv
        /\ QueueTypes
    BY SrvParts
  <1>1. /\ at[l] = "test" /\ quit_[l]
        /\ alive' = [alive EXCEPT ![l] = FALSE] /\ functors' = [functors EXCEPT ![l] = <<>>]
        /\ UNCHANGED <<phase, aborted, started_, num_threads_, next_, next_conn_id_, accept_index,
                       connection_maps, quit_, at, batch, done, loop_, state_, index_, up, down,
                       removes>>
    BY DEF LoopEnds, InLoop, server, conn
  <1>2. /\ phase \in {"joining", "gone"}
        /\ batch[l] = <<>> /\ done[l] = 0
    BY <1>0, <1>1 DEF ServerInv, QueuesInv, LoopInv, TypeOK
  <1>3. started_ # 0
    <2>1. alive[l]
      BY DEF LoopEnds, InLoop
    <2> QED BY <1>0, <2>1 DEF ServerInv
  <1>4. Len(<<>>) = 0 /\ <<>> \in Seq(Functors) /\ InOrder(<<>>, <<>>, 0)
        /\ \A g : ~Waits(<<>>, <<>>, 0, g)
    <2>1. <<>> \in Seq(Functors) /\ Len(<<>>) = 0
      OBVIOUS
    <2>2. InOrder(<<>>, <<>>, Len(<<>>))
      BY <2>1 DEF InOrder
    <2> QED BY <2>1, <2>2, MoveAll
  <1>5. /\ functors'[l] = <<>> /\ ~alive'[l]
        /\ \A k \in Loops : k # l => functors'[k] = functors[k] /\ alive'[k] = alive[k]
    BY <1>0, <1>1 DEF TypeOK
  <1>6. alive' \in [Loops -> BOOLEAN] /\ functors' \in [Loops -> Seq(Functors)]
    <2>1. alive' \in [Loops -> BOOLEAN]
      BY <1>0, <1>1 DEF TypeOK
    <2>2. functors' \in [Loops -> Seq(Functors)]
      BY <1>0, <1>1, <1>4 DEF TypeOK
    <2> QED BY <2>1, <2>2
  <1>7. TypeOK'
    BY <1>0, <1>1, <1>6 DEF TypeOK
  <1>8. QueuesInv'
    BY <1>0, <1>1, <1>2, <1>4, <1>5 DEF QueuesInv, LoopInv
  <1>9. /\ \A o \in Ops, c \in Conns : ~Pending(l, o, c)'
        /\ \A k \in Loops, o \in Ops, c \in Conns : k # l => (Pending(k, o, c)' <=> Pending(k, o, c))
    BY <1>1, <1>2, <1>4, <1>5 DEF Pending
  <1>10. ServerInv'
    BY <1>0, <1>1, <1>2, <1>3, <1>5, Numbers DEF ServerInv
  <1>11. LifeInv'
    BY <1>0, <1>1 DEF LifeInv
  <1>12. Accepted' = Accepted
    BY <1>1 DEF Accepted
  <1>13. FreshInv'
    BY <1>0, <1>1, <1>9, <1>12 DEF FreshInv
  <1>14. PendingInv'
    BY <1>0, <1>1, <1>9 DEF PendingInv, Ops
  <1>15. MapInv'
    BY <1>0, <1>1, <1>5, <1>9, <1>12, Numbers DEF MapInv, Ops
  <1> QED BY <1>7, <1>8, <1>10, <1>11, <1>13, <1>14, <1>15 DEF SrvInv

(* A functor runs on its loop. *)
LEMMA RunFunctorStep ==
  ASSUME SrvInv, NEW l \in Loops, RunFunctor(l)
  PROVE  SrvInv'
  <1> DEFINE f == batch[l][done[l] + 1]
  <1>c. PICK c : c = f.conn
    OBVIOUS
  <1>0. /\ TypeOK /\ QueuesInv /\ ServerInv /\ LifeInv /\ FreshInv /\ PendingInv /\ MapInv
        /\ QueueTypes
    BY SrvParts
  <1>1. /\ done[l] < Len(batch[l]) /\ done' = [done EXCEPT ![l] = @ + 1]
        /\ UNCHANGED <<phase, aborted, started_, num_threads_, next_, next_conn_id_, accept_index,
                       alive, quit_, at, batch>>
        /\ \/ /\ f.op = "established" /\ ConnectionEstablished(c)
              /\ UNCHANGED <<connection_maps, functors>>
           \/ f.op = "remove" /\ RemoveconnectionInLoop(c) /\ UNCHANGED conn
           \/ /\ f.op = "destroyed" /\ ConnectionDestroyed(c)
              /\ UNCHANGED <<connection_maps, functors>>
    BY <1>c DEF RunFunctor, server, loops
  <1>r. /\ f.op \in Ops /\ f.conn \in Conns /\ Pending(l, f.op, f.conn) /\ at[l] = "functors"
        /\ f.op = "destroyed" => ~Pending(l, "established", f.conn)
        /\ UNCHANGED functors =>
             /\ QueueTypes' /\ QueuesInv'
             /\ \A k \in Loops, o \in Ops, d \in Conns :
                  Pending(k, o, d)' <=> Pending(k, o, d) /\ ~(k = l /\ o = f.op /\ d = f.conn)
        /\ \A k \in Loops :
             /\ k # l /\ alive[k] /\ Queue(k, "destroyed", f.conn) /\ ~Pending(k, "destroyed", f.conn)
             => /\ QueueTypes' /\ QueuesInv'
                /\ \A m \in Loops, o \in Ops, d \in Conns :
                     Pending(m, o, d)' <=>
                       \/ Pending(m, o, d) /\ ~(m = l /\ o = f.op /\ d = f.conn)
                       \/ m = k /\ o = "destroyed" /\ d = f.conn
    BY <1>0, <1>1, RunStep
  <1> HIDE DEF f
  <1>2. /\ f.op \in Ops /\ c \in Conns /\ Pending(l, f.op, c) /\ at[l] = "functors"
        /\ f.op = "destroyed" => ~Pending(l, "established", c)
        /\ UNCHANGED functors =>
             /\ QueueTypes' /\ QueuesInv'
             /\ \A k \in Loops, o \in Ops, d \in Conns :
                  Pending(k, o, d)' <=> Pending(k, o, d) /\ ~(k = l /\ o = f.op /\ d = c)
        /\ \A k \in Loops :
             /\ k # l /\ alive[k] /\ Queue(k, "destroyed", c) /\ ~Pending(k, "destroyed", c)
             => /\ QueueTypes' /\ QueuesInv'
                /\ \A m \in Loops, o \in Ops, d \in Conns :
                     Pending(m, o, d)' <=>
                       \/ Pending(m, o, d) /\ ~(m = l /\ o = f.op /\ d = c)
                       \/ m = k /\ o = "destroyed" /\ d = c
    BY <1>c, <1>r
  <1>3. c \in Accepted /\ Accepted' = Accepted /\ loop_[c] \in Loops
    <2>1. c \in Accepted /\ Accepted' = Accepted
      BY <1>0, <1>1, <1>2 DEF FreshInv, Accepted
    <2> QED BY <2>1, Numbers
  <1>4. ServerInv' \/ ~(connection_maps' \subseteq connection_maps)
    BY <1>0, <1>1 DEF ServerInv
  <1>5. CASE /\ f.op = "established" /\ ConnectionEstablished(c)
             /\ UNCHANGED <<connection_maps, functors>>
    <2>1. /\ state_' = [state_ EXCEPT ![c] = "kConnected"]
          /\ index_' = [index_ EXCEPT ![c] = "kAdded"]
          /\ up' = [up EXCEPT ![c] = @ + 1]
          /\ UNCHANGED <<loop_, down, removes>>
      BY <1>5 DEF ConnectionEstablished
    <2>2. /\ QueueTypes' /\ QueuesInv'
          /\ \A k \in Loops, o \in Ops, d \in Conns :
               Pending(k, o, d)' <=> Pending(k, o, d) /\ ~(k = l /\ o = "established" /\ d = c)
      BY <1>2, <1>5
    <2>3. /\ l = loop_[c] /\ l # Main /\ up[c] = 0 /\ removes[c] = 0
          /\ (phase = "open" => c \in connection_maps)
      BY <1>0, <1>2, <1>5 DEF PendingInv
    <2>4. /\ up'[c] = 1 /\ state_'[c] = "kConnected" /\ index_'[c] = "kAdded"
          /\ \A d \in Conns : d # c => up'[d] = up[d] /\ state_'[d] = state_[d] /\ index_'[d] = index_[d]
      BY <1>0, <1>2, <2>1, <2>3 DEF TypeOK
    <2>5. TypeOK'
      <3>0. up \in [Conns -> Nat]
        BY <1>0 DEF TypeOK
      <3>1. up' \in [Conns -> Nat]
        BY <1>2, <2>1, <3>0
      <3>2. index_' \in [Conns -> {"kNew", "kAdded", "kDeleted"}]
        BY <1>0, <2>1 DEF TypeOK
      <3>3. state_' \in [Conns -> {"kConnecting", "kConnected", "kDisconnecting", "kDisconnected"}]
        BY <1>0, <2>1 DEF TypeOK
      <3> QED BY <1>0, <1>1, <1>5, <2>1, <2>2, <3>1, <3>2, <3>3 DEF TypeOK, QueueTypes
    <2>6. LifeInv'
      <3>1. down[c] = 0
        BY <1>0, <1>2, <2>3 DEF LifeInv
      <3> QED BY <1>0, <2>1, <2>3, <2>4, <3>1 DEF LifeInv
    <2>7. FreshInv'
      BY <1>0, <1>3, <1>5, <2>1, <2>2, <2>4 DEF FreshInv
    <2>8. ASSUME NEW k \in Loops
          PROVE  ~Pending(k, "remove", c)' /\ ~Pending(k, "established", c)'
      <3>1. ~Pending(k, "remove", c) /\ (Pending(k, "established", c) => k = l)
        BY <1>0, <1>2, <2>3 DEF PendingInv
      <3> QED BY <1>2, <2>2, <3>1 DEF Ops
    <2>9. PendingInv'
      <3> SUFFICES ASSUME NEW d \in Conns, NEW k \in Loops
                   PROVE  /\ Pending(k, "established", d)' =>
                               k = loop_[d] /\ k # Main /\ up'[d] = 0 /\ removes[d] = 0
                                 /\ (phase = "open" => d \in connection_maps)
                          /\ Pending(k, "remove", d)' =>
                               k = Main /\ loop_[d] # Main /\ up'[d] = 1 /\ index_'[d] # "kAdded"
                                 /\ (phase = "open" => d \in connection_maps)
                          /\ Pending(k, "destroyed", d)' =>
                               k = loop_[d] /\ removes[d] = 0 /\ d \notin connection_maps
        BY <1>1, <1>5, <2>1 DEF PendingInv
      <3>1. \A o \in Ops : Pending(k, o, d)' => Pending(k, o, d)
        BY <2>2
      <3> QED BY <1>0, <2>4, <2>8, <3>1 DEF PendingInv, Ops
    <2>10. MapInv'
      BY <1>0, <1>1, <1>3, <1>5, <2>1, <2>2, <2>3, <2>4, Numbers DEF MapInv, Ops
    <2> QED BY <1>4, <1>5, <2>2, <2>5, <2>6, <2>7, <2>9, <2>10 DEF SrvInv
  <1>6. CASE f.op = "remove" /\ RemoveconnectionInLoop(c) /\ UNCHANGED conn
    <2>1. /\ connection_maps' = connection_maps \ {c} /\ Queue(loop_[c], "destroyed", c)
          /\ UNCHANGED <<loop_, state_, index_, up, down, removes>>
      BY <1>6 DEF RemoveconnectionInLoop, conn
    <2>2. l = Main /\ loop_[c] # Main /\ up[c] = 1 /\ index_[c] # "kAdded"
      BY <1>0, <1>2, <1>6 DEF PendingInv
    <2>3. phase = "open" /\ c \in connection_maps
      <3>1. phase = "open"
        BY <1>0, <1>2, <2>2 DEF ServerInv
      <3> QED BY <1>0, <1>2, <1>6, <3>1 DEF PendingInv
    <2>4. alive[loop_[c]] /\ removes[c] = 0 /\ ~Pending(loop_[c], "destroyed", c)
      BY <1>0, <1>2, <1>3, <2>3, HomeAlive DEF MapInv, PendingInv
    <2>5. /\ QueueTypes' /\ QueuesInv'
          /\ \A m \in Loops, o \in Ops, d \in Conns :
               Pending(m, o, d)' <=>
                 \/ Pending(m, o, d) /\ ~(m = l /\ o = "remove" /\ d = c)
                 \/ m = loop_[c] /\ o = "destroyed" /\ d = c
      BY <1>2, <1>3, <1>6, <2>1, <2>2, <2>4
    <2>6. TypeOK'
      BY <1>0, <1>1, <2>1, <2>5 DEF TypeOK, QueueTypes
    <2>7. LifeInv'
      BY <1>0, <2>1 DEF LifeInv
    <2>8. FreshInv'
      BY <1>0, <1>3, <2>1, <2>5 DEF FreshInv
    <2>9. ASSUME NEW k \in Loops
          PROVE  ~Pending(k, "established", c)' /\ ~Pending(k, "remove", c)'
      <3>1. ~Pending(k, "established", c) /\ (Pending(k, "remove", c) => k = l)
        BY <1>0, <1>2, <2>2 DEF PendingInv
      <3> QED BY <1>2, <2>5, <3>1 DEF Ops
    <2>10. PendingInv'
      <3> SUFFICES ASSUME NEW d \in Conns, NEW k \in Loops
                   PROVE  /\ Pending(k, "established", d)' =>
                               k = loop_[d] /\ k # Main /\ up[d] = 0 /\ removes[d] = 0
                                 /\ (phase = "open" => d \in connection_maps')
                          /\ Pending(k, "remove", d)' =>
                               k = Main /\ loop_[d] # Main /\ up[d] = 1 /\ index_[d] # "kAdded"
                                 /\ (phase = "open" => d \in connection_maps')
                          /\ Pending(k, "destroyed", d)' =>
                               k = loop_[d] /\ removes[d] = 0 /\ d \notin connection_maps'
        BY <1>1, <2>1 DEF PendingInv
      <3>1. CASE d = c
        BY <1>0, <2>1, <2>4, <2>5, <2>9, <3>1 DEF PendingInv, Ops
      <3>2. CASE d # c
        <4>1. \A o \in Ops : Pending(k, o, d)' => Pending(k, o, d)
          BY <2>5, <3>2
        <4> QED BY <1>0, <2>1, <3>2, <4>1 DEF PendingInv, Ops
      <3> QED BY <3>1, <3>2
    <2>11. MapInv'
      BY <1>0, <1>1, <1>3, <2>1, <2>2, <2>5, Numbers DEF MapInv, Ops
    <2> QED BY <1>4, <2>1, <2>5, <2>6, <2>7, <2>8, <2>10, <2>11 DEF SrvInv
  <1>7. CASE /\ f.op = "destroyed" /\ ConnectionDestroyed(c)
             /\ UNCHANGED <<connection_maps, functors>>
    <2>1. /\ QueueTypes' /\ QueuesInv'
          /\ \A k \in Loops, o \in Ops, d \in Conns :
               Pending(k, o, d)' <=> Pending(k, o, d) /\ ~(k = l /\ o = "destroyed" /\ d = c)
      BY <1>2, <1>7
    <2>2. l = loop_[c] /\ removes[c] = 0 /\ c \notin connection_maps
      BY <1>0, <1>2, <1>7 DEF PendingInv
    <2>3. \A k \in Loops : ~Pending(k, "established", c)
      BY <1>0, <1>2, <1>7, <2>2 DEF PendingInv
    <2>4. /\ LifeInv' /\ index_'[c] = "kNew" /\ removes'[c] = 1
          /\ down' \in [Conns -> Nat] /\ index_' \in [Conns -> {"kNew", "kAdded", "kDeleted"}]
          /\ removes' \in [Conns -> Nat] /\ UNCHANGED <<loop_, up>>
          /\ state_' \in [Conns -> {"kConnecting", "kConnected", "kDisconnecting", "kDisconnected"}]
          /\ \A d \in Conns : d # c => /\ down'[d] = down[d] /\ index_'[d] = index_[d]
                                       /\ removes'[d] = removes[d] /\ state_'[d] = state_[d]
      BY <1>2, <1>7, <2>2, DestroyedConn
    <2>5. TypeOK'
      BY <1>0, <1>1, <1>7, <2>1, <2>4 DEF TypeOK, QueueTypes
    <2>6. FreshInv'
      BY <1>0, <1>3, <1>7, <2>1, <2>4 DEF FreshInv
    <2>7. PendingInv'
      <3> SUFFICES ASSUME NEW d \in Conns, NEW k \in Loops
                   PROVE  /\ Pending(k, "established", d)' =>
                               k = loop_[d] /\ k # Main /\ up[d] = 0 /\ removes'[d] = 0
                                 /\ (phase = "open" => d \in connection_maps)
                          /\ Pending(k, "remove", d)' =>
                               k = Main /\ loop_[d] # Main /\ up[d] = 1 /\ index_'[d] # "kAdded"
                                 /\ (phase = "open" => d \in connection_maps)
                          /\ Pending(k, "destroyed", d)' =>
                               k = loop_[d] /\ removes'[d] = 0 /\ d \notin connection_maps
        BY <1>1, <1>7, <2>4 DEF PendingInv
      <3>1. \A o \in Ops : Pending(k, o, d)' => Pending(k, o, d) /\ ~(k = l /\ o = "destroyed" /\ d = c)
        BY <2>1
      <3>2. CASE d = c
        BY <1>0, <2>2, <2>3, <2>4, <3>1, <3>2 DEF PendingInv, Ops
      <3>3. CASE d # c
        BY <1>0, <2>4, <3>1, <3>3 DEF PendingInv, Ops
      <3> QED BY <3>2, <3>3
    <2>8. MapInv'
      <3> SUFFICES ASSUME NEW d \in Accepted
                   PROVE  /\ loop_[d] <= num_threads_
                          /\ d \in connection_maps => removes'[d] = 0
                          /\ d \notin connection_maps =>
                               /\ phase = "open" \/ loop_[d] = Main => index_'[d] # "kAdded"
                               /\ alive[loop_[d]] =>
                                    removes'[d] = 1 \/ Pending(loop_[d], "destroyed", d)'
        BY <1>1, <1>3, <1>7, <2>4 DEF MapInv
      <3>1. d \in Conns /\ loop_[d] \in Loops
        BY Numbers
      <3>2. CASE d = c
        BY <1>0, <2>2, <2>4, <3>2 DEF MapInv
      <3>3. CASE d # c
        <4>1. Pending(loop_[d], "destroyed", d)' <=> Pending(loop_[d], "destroyed", d)
          BY <2>1, <2>4, <3>1, <3>3 DEF Ops
        <4> QED BY <1>0, <2>4, <3>1, <3>3, <4>1 DEF MapInv
      <3> QED BY <3>2, <3>3
    <2> QED BY <1>4, <1>7, <2>1, <2>4, <2>5, <2>6, <2>7, <2>8 DEF SrvInv
  <1> QED BY <1>1, <1>5, <1>6, <1>7

-----------------------------------------------------------------------------
LEMMA SrvStep == SrvInv /\ [Next]_vars => SrvInv'
  <1> SUFFICES ASSUME SrvInv, [Next]_vars
               PROVE  SrvInv'
    OBVIOUS
  <1>1. CASE UNCHANGED vars
    BY <1>1 DEF vars, server, loops, conn, SrvInv, TypeOK, QueuesInv, LoopInv, ServerInv, LifeInv,
                FreshInv, PendingInv, MapInv, Pending, Accepted
  <1>2. CASE HandleRead
    <2>1. (NewConnection /\ next_conn_id_ \in Conns) \/ AcceptFails
      BY <1>2 DEF HandleRead
    <2> QED BY <1>2, <2>1, NewConnectionStep, ServerStep
  <1>3. CASE \E c \in Conns : HandleClose(c) \/ DestroyConnection(c)
    BY <1>3, HandleCloseStep, DestroyConnectionStep
  <1>4. CASE \E l \in Loops : SwapFunctors(l) \/ RunFunctor(l) \/ FunctorsDone(l)
    BY <1>4, SwapFunctorsStep, RunFunctorStep
  <1>5. CASE \E l \in Loops \ {Main} : LoopEnds(l)
    BY <1>5, LoopEndsStep
  <1>6. CASE \/ \E n \in Loops : SetThreadNum(n)
             \/ Start \/ MainReturns \/ DestroyPool \/ DestroyAcceptor
             \/ \E l \in Loops \ {Main} : QuitThread(l)
             \/ \E l \in Loops : TestQuit(l)
             \/ \E c \in Conns : ShutDown(c)
    BY <1>6, ServerStep
  <1> QED BY <1>1, <1>2, <1>3, <1>4, <1>5, <1>6 DEF Next

(* The invariant holds throughout. *)
LEMMA SrvAlways == Spec => []SrvInv
  BY SrvInitially, SrvStep, PTL DEF Spec

(* TcpServer.tla's types: next_ (GetNextLoop of event_loop_thread_poll.cc) stays below the  *)
(* greatest number of threads, and next_conn_id_ (NewConnection) is one more than an id.    *)
THEOREM SrvTypeCorrect == Spec => []TypeOK
  <1>1. SrvInv => TypeOK
    BY DEF SrvInv
  <1> QED BY <1>1, SrvAlways, PTL

-----------------------------------------------------------------------------
(* A functor that waits holds a shared_ptr to its connection. *)
LEMMA PendingHolds ==
  ASSUME SrvInv, NEW l \in Loops, NEW op \in Ops, NEW c \in Conns, Pending(l, op, c)
  PROVE  Referenced(c)
  <1> DEFINE f == Functor(op, c)
  <1>1. functors[l] \in Seq(Functors) /\ batch[l] \in Seq(Functors) /\ done[l] \in Nat
    BY DEF SrvInv, TypeOK
  <1>2. f.conn = c
    BY FunctorEqual
  <1>3. Waits(functors[l], batch[l], done[l], f)
    BY DEF Pending
  <1> HIDE DEF f
  <1>4. f \in ToSet(functors[l]) \cup ToSet(batch[l])
    BY <1>1, <1>3 DEF Waits, ToSet
  <1> QED BY <1>2, <1>4 DEF Referenced

(* NoZombieChannel: a connection's last shared_ptr goes only after ConnectionDestroyed *)
(* has taken its channel out of the poller of its loop, if that loop still runs:       *)
(* RemoveconnectionInLoop and ~TcpServer's body hand the map's pointer over to the     *)
(* functor that runs it.                                                               *)
THEOREM NoChannelLeft == Spec => []NoZombieChannel
  <1>1. SrvInv => NoZombieChannel
    <2> SUFFICES ASSUME SrvInv, NEW c \in Accepted, Freed(c), alive[loop_[c]]
                 PROVE  index_[c] = "kNew"
      BY DEF NoZombieChannel
    <2>1. c \in Conns /\ loop_[c] \in Loops
      BY Numbers
    <2>2. c \notin connection_maps /\ ~Pending(loop_[c], "destroyed", c)
      BY <2>1, PendingHolds DEF Freed, Referenced, Ops
    <2>3. removes[c] = 1
      BY <2>2, SrvParts DEF MapInv
    <2> QED BY <2>1, <2>3, SrvParts DEF LifeInv
  <1> QED BY <1>1, SrvAlways, PTL

(* DestroyedOnce: whichever of a close and ~TcpServer comes first, a connection's      *)
(* channel is removed once, and the user hears of its end once, after its beginning.   *)
THEOREM RemovedOnce == Spec => []DestroyedOnce
  <1>1. SrvInv => DestroyedOnce
    <2> SUFFICES ASSUME SrvInv, NEW c \in Accepted
                 PROVE  removes[c] <= 1 /\ down[c] <= up[c] /\ up[c] <= 1
      BY DEF DestroyedOnce
    <2>1. c \in Conns
      BY Numbers
    <2> QED BY <2>1, SrvParts DEF LifeInv
  <1> QED BY <1>1, SrvAlways, PTL

(* ServerOutlivesCallbacks: nothing is queued on a loop that has ended, and once the   *)
(* server is gone no channel of a running loop could call back into it.                *)
THEOREM CallbacksEndFirst == Spec => []ServerOutlivesCallbacks
  <1>1. SrvInv => ServerOutlivesCallbacks
    <2> SUFFICES ASSUME SrvInv
                 PROVE  ServerOutlivesCallbacks
      OBVIOUS
    <2>1. \A l \in Loops : ~alive[l] => functors[l] = <<>>
      BY SrvParts DEF QueuesInv, LoopInv
    <2>2. ASSUME phase = "gone", NEW c \in Accepted, alive[loop_[c]]
          PROVE  index_[c] # "kAdded"
      <3>1. loop_[c] = Main /\ c \notin connection_maps
        BY <2>2, SrvParts, Numbers DEF ServerInv
      <3> QED BY <3>1, SrvParts DEF MapInv
    <2>3. phase = "gone" => accept_index = "kNew"
      BY SrvParts DEF ServerInv
    <2> QED BY <2>1, <2>2, <2>3 DEF ServerOutlivesCallbacks
  <1> QED BY <1>1, SrvAlways, PTL

-----------------------------------------------------------------------------
(* The way of a closed connection, from its loop to the main loop and back *)

(* A closed connection is in the map only while RemoveconnectionInLoop waits on the *)
(* main loop.                                                                       *)
RemovalQueued ==
  phase = "open" =>
    \A c \in connection_maps : index_[c] = "kDeleted" => Pending(Main, "remove", c)

DeletedWasUp == \A c \in Conns : index_[c] = "kDeleted" => up[c] = 1

HopInv == RemovalQueued /\ DeletedWasUp

(* Until the main loop returns, a closed connection has its next step queued: its      *)
(* removal from the map on the main loop, or then ConnectionDestroyed on its own.       *)
NextHopQueued ==
  phase = "open" =>
    \A c \in Conns : index_[c] = "kDeleted" =>
      Pending(Main, "remove", c) \/ Pending(loop_[c], "destroyed", c)

(* What waits keeps waiting when more is queued. *)
LEMMA QueueKeeps ==
  ASSUME QueueTypes, NEW k \in Loops, NEW op \in Ops, NEW c \in Conns,
         Queue(k, op, c), UNCHANGED <<batch, done>>
  PROVE  /\ Pending(k, op, c)'
         /\ \A l \in Loops, o \in Ops, d \in Conns : Pending(l, o, d) => Pending(l, o, d)'
  <1> DEFINE f == Functor(op, c)
             q == functors[k]
  <1>1. functors' = [functors EXCEPT ![k] = Append(q, f)] /\ q \in Seq(Functors)
    BY DEF Queue, Functor, QueueTypes
  <1>2. f \in Functors
    BY DEF Functor, Functors, Ops
  <1>3. functors'[k] = Append(q, f) /\ \A l \in Loops : l # k => functors'[l] = functors[l]
    BY <1>1 DEF QueueTypes
  <1> HIDE DEF f, q
  <1>4. /\ Len(q) \in Nat /\ Len(Append(q, f)) = Len(q) + 1 /\ Append(q, f)[Len(q) + 1] = f
        /\ \A i \in 1..Len(q) : Append(q, f)[i] = q[i]
    BY <1>1, <1>2
  <1>5. Len(q) + 1 \in 1..(Len(q) + 1) /\ \A i \in 1..Len(q) : i \in 1..(Len(q) + 1)
    BY ONLY <1>4
  <1>6. Waits(Append(q, f), batch[k], done[k], f)
    BY <1>4, <1>5 DEF Waits
  <1>7. Pending(k, op, c)'
    BY <1>3, <1>6 DEF Pending, f
  <1>8. \A g : Waits(q, batch[k], done[k], g) => Waits(Append(q, f), batch[k], done[k], g)
    BY <1>4, <1>5 DEF Waits
  <1>9. ASSUME NEW l \in Loops, NEW o \in Ops, NEW d \in Conns, Pending(l, o, d)
        PROVE  Pending(l, o, d)'
    <2>1. CASE l = k
      BY <1>3, <1>8, <1>9, <2>1 DEF Pending, q
    <2>2. CASE l # k
      BY <1>3, <1>9, <2>2 DEF Pending
    <2> QED BY <2>1, <2>2
  <1> QED BY <1>7, <1>9

(* Steps that only add to what waits and close no connection. *)
LEMMA HopKept ==
  ASSUME SrvInv, HopInv, connection_maps' \subseteq Conns,
         phase' = "open" => phase = "open",
         \A c \in Conns : index_'[c] = "kDeleted" => index_[c] = "kDeleted" /\ up'[c] = up[c],
         \A c \in Conns : c \in connection_maps' /\ index_'[c] = "kDeleted" =>
            c \in connection_maps /\ (Pending(Main, "remove", c) => Pending(Main, "remove", c)')
  PROVE  HopInv'
  BY DEF HopInv, RemovalQueued, DeletedWasUp

LEMMA HopStep ==
  ASSUME SrvInv, HopInv, [Next]_vars
  PROVE  HopInv'
  <1>t. /\ TypeOK /\ QueueTypes /\ QueuesInv /\ Main \in Loops /\ "remove" \in Ops
        /\ connection_maps \subseteq Conns
    BY SrvParts, Numbers DEF TypeOK, Ops
  <1>1. CASE UNCHANGED <<phase, connection_maps, functors, batch, done, index_, up>>
    BY <1>1, <1>t, SameQueues, HopKept
  <1>2. CASE UNCHANGED <<connection_maps, functors, batch, done, index_, up>> /\ phase' # "open"
    BY <1>2 DEF HopInv, RemovalQueued, DeletedWasUp
  <1>3. CASE HandleRead /\ NewConnection /\ next_conn_id_ \in Conns
    <2> DEFINE c == next_conn_id_
    <2>1. c \notin Accepted
      BY Numbers DEF Accepted
    <2>2. up[c] = 0
      BY <1>3, <2>1, SrvParts DEF FreshInv
    <2>3. index_[c] # "kDeleted"
      BY <1>3, <2>2 DEF HopInv, DeletedWasUp
    <2>4. UNCHANGED <<phase, batch, done>> /\ connection_maps' = connection_maps \cup {c}
      BY <1>3 DEF HandleRead, NewConnection
    <2>5. \A d \in Conns : Pending(Main, "remove", d) => Pending(Main, "remove", d)'
      <3>1. CASE UNCHANGED functors
        BY <3>1, <2>4, <1>t, SameQueues
      <3>2. CASE Queue(GetNextLoop, "established", c)
        <4>1. GetNextLoop \in Loops
          BY <1>t, Numbers DEF GetNextLoop, TypeOK, Loops, Main
        <4> QED BY <3>2, <4>1, <2>4, <1>3, <1>t, QueueKeeps DEF Ops
      <3> QED BY <1>3, <3>1, <3>2 DEF NewConnection
    <2>6. \A d \in Conns : index_'[d] = "kDeleted" =>
             d # c /\ index_[d] = "kDeleted" /\ up'[d] = up[d]
      BY <1>3, <1>t, <2>3 DEF NewConnection, TypeOK
    <2> HIDE DEF c
    <2>7. connection_maps' \subseteq Conns
      BY <1>3, <1>t, <2>4 DEF c
    <2> QED BY <2>4, <2>5, <2>6, <2>7, HopKept
  <1>4. ASSUME NEW c \in Conns, HandleClose(c)
        PROVE  HopInv'
    <2>1. /\ c \in Accepted /\ index_[c] = "kAdded" /\ loop_[c] \in Loops
          /\ UNCHANGED <<phase, batch, done, up>>
          /\ index_' = [index_ EXCEPT ![c] = "kDeleted"]
      BY <1>4, Numbers DEF HandleClose
    <2>2. up[c] = 1
      BY <2>1, SrvParts DEF LifeInv
    <2>3. \A d \in Conns : d # c => index_'[d] = index_[d]
      BY <1>t, <2>1 DEF TypeOK
    <2>4. DeletedWasUp'
      BY <2>1, <2>2, <2>3 DEF HopInv, DeletedWasUp
    <2>5. CASE loop_[c] = Main
      <3>1. connection_maps' = connection_maps \ {c} /\ Queue(Main, "destroyed", c)
        BY <1>4, <2>5 DEF HandleClose, RemoveConnection, RemoveconnectionInLoop
      <3>2. \A d \in Conns : Pending(Main, "remove", d) => Pending(Main, "remove", d)'
        BY <3>1, <2>1, <1>t, QueueKeeps DEF Ops
      <3> QED BY <1>t, <2>1, <2>3, <2>4, <3>1, <3>2 DEF HopInv, RemovalQueued
    <2>6. CASE loop_[c] # Main
      <3>1. connection_maps' = connection_maps /\ Queue(Main, "remove", c)
        BY <1>4, <2>6 DEF HandleClose, RemoveConnection
      <3>2. /\ Pending(Main, "remove", c)'
            /\ \A d \in Conns : Pending(Main, "remove", d) => Pending(Main, "remove", d)'
        BY <3>1, <2>1, <1>t, QueueKeeps DEF Ops
      <3> QED BY <1>t, <2>1, <2>3, <2>4, <3>1, <3>2 DEF HopInv, RemovalQueued
    <2> QED BY <2>5, <2>6
  <1>5. ASSUME NEW c \in Conns, DestroyConnection(c)
        PROVE  HopInv'
    <2>1. phase' # "open"
      BY <1>5 DEF DestroyConnection, InBody
    <2>2. \A d \in Conns : index_'[d] = "kDeleted" => index_[d] = "kDeleted" /\ up'[d] = up[d]
      BY <1>5, <1>t DEF DestroyConnection, ConnectionDestroyed, conn, TypeOK
    <2> QED BY <2>1, <2>2 DEF HopInv, RemovalQueued, DeletedWasUp
  <1>6. ASSUME NEW l \in Loops, SwapFunctors(l) \/ FunctorsDone(l)
        PROVE  HopInv'
    <2>1. \A k \in Loops, o \in Ops, c \in Conns : Pending(k, o, c)' <=> Pending(k, o, c)
      BY <1>6, <1>t, SwapStep DEF SwapFunctors, FunctorsDone, Dispatching, TypeOK
    <2> QED BY <1>6, <1>t, <2>1, HopKept DEF SwapFunctors, FunctorsDone, conn
  <1>7. ASSUME NEW l \in Loops, RunFunctor(l)
        PROVE  HopInv'
    <2> DEFINE f == batch[l][done[l] + 1]
    <2>0. /\ done[l] < Len(batch[l]) /\ done' = [done EXCEPT ![l] = @ + 1]
          /\ UNCHANGED <<phase, batch, alive, at>>
      BY <1>7 DEF RunFunctor, loops
    <2>1. /\ f.op \in Ops /\ f.conn \in Conns /\ Pending(l, f.op, f.conn)
          /\ UNCHANGED functors =>
               \A k \in Loops, o \in Ops, d \in Conns :
                 Pending(k, o, d)' <=> Pending(k, o, d) /\ ~(k = l /\ o = f.op /\ d = f.conn)
          /\ \A k \in Loops :
               /\ k # l /\ alive[k] /\ Queue(k, "destroyed", f.conn)
               /\ ~Pending(k, "destroyed", f.conn)
               => \A m \in Loops, o \in Ops, d \in Conns :
                    Pending(m, o, d)' <=>
                      \/ Pending(m, o, d) /\ ~(m = l /\ o = f.op /\ d = f.conn)
                      \/ m = k /\ o = "destroyed" /\ d = f.conn
      BY <1>t, <2>0, RunStep
    <2>2. \/ /\ f.op = "established" /\ ConnectionEstablished(f.conn)
             /\ UNCHANGED <<connection_maps, functors>>
          \/ f.op = "remove" /\ RemoveconnectionInLoop(f.conn) /\ UNCHANGED conn
          \/ /\ f.op = "destroyed" /\ ConnectionDestroyed(f.conn)
             /\ UNCHANGED <<connection_maps, functors>>
      BY <1>7 DEF RunFunctor
    <2> HIDE DEF f
    <2>3. CASE f.op # "remove"
      <3>1. UNCHANGED <<connection_maps, functors>>
        BY <2>2, <2>3
      <3>2. \A d \in Conns : Pending(Main, "remove", d) => Pending(Main, "remove", d)'
        BY <1>t, <2>1, <2>3, <3>1
      <3>3. \A d \in Conns : index_'[d] = "kDeleted" => index_[d] = "kDeleted" /\ up'[d] = up[d]
        <4>1. index_ \in [Conns -> {"kNew", "kAdded", "kDeleted"}] /\ up \in [Conns -> Nat]
          BY <1>t DEF TypeOK
        <4>2. CASE f.op = "established"
          <5>1. /\ index_' = [index_ EXCEPT ![f.conn] = "kAdded"]
                /\ up' = [up EXCEPT ![f.conn] = @ + 1]
            BY <4>2, <2>2 DEF ConnectionEstablished
          <5> QED BY ONLY <4>1, <5>1
        <4>3. CASE f.op = "destroyed"
          <5>1. index_' = [index_ EXCEPT ![f.conn] = "kNew"] /\ up' = up
            BY <4>3, <2>2 DEF ConnectionDestroyed
          <5> QED BY ONLY <4>1, <5>1
        <4> QED BY <2>2, <2>3, <4>2, <4>3
      <3> QED BY <1>t, <2>0, <3>1, <3>2, <3>3, HopKept
    <2>4. CASE f.op = "remove"
      <3>1. /\ connection_maps' = connection_maps \ {f.conn}
            /\ Queue(loop_[f.conn], "destroyed", f.conn) /\ UNCHANGED <<index_, up>>
        BY <2>2, <2>4 DEF RemoveconnectionInLoop, conn
      <3>2. phase # "open" => HopInv'
        BY <2>0, <3>1 DEF HopInv, RemovalQueued, DeletedWasUp
      <3>3. ASSUME phase = "open"
            PROVE  HopInv'
        <4>1. /\ l = Main /\ loop_[f.conn] # Main /\ f.conn \in connection_maps
              /\ f.conn \in Accepted /\ loop_[f.conn] \in Loops
          <5>1. l = Main /\ loop_[f.conn] # Main /\ f.conn \in connection_maps
            BY <2>1, <2>4, <3>3, SrvParts DEF PendingInv
          <5>2. f.conn \in Accepted
            BY <2>1, <5>1, SrvParts DEF FreshInv
          <5> QED BY <5>1, <5>2, Numbers
        <4>2. alive[loop_[f.conn]]
          BY <4>1, <3>3, HomeAlive
        <4>3. ~Pending(loop_[f.conn], "destroyed", f.conn)
          BY <2>1, <4>1, SrvParts DEF PendingInv
        <4>4. \A d \in Conns : d # f.conn /\ Pending(Main, "remove", d) => Pending(Main, "remove", d)'
          BY <1>t, <2>1, <3>1, <4>1, <4>2, <4>3
        <4> QED BY <1>t, <2>0, <3>1, <4>4, HopKept
      <3> QED BY <3>2, <3>3
    <2> QED BY <2>3, <2>4
  <1>8. ASSUME NEW l \in Loops \ {Main}, LoopEnds(l)
        PROVE  HopInv'
    <2>1. /\ UNCHANGED <<phase, connection_maps, batch, done, index_, up>>
          /\ functors'[Main] = functors[Main]
      BY <1>8, <1>t DEF LoopEnds, conn, QueueTypes
    <2>2. \A d \in Conns : Pending(Main, "remove", d) => Pending(Main, "remove", d)'
      BY <2>1 DEF Pending
    <2> QED BY <1>t, <2>1, <2>2, HopKept
  <1>9. CASE \/ UNCHANGED vars \/ \E n \in Loops : SetThreadNum(n)
             \/ Start \/ MainReturns \/ DestroyPool \/ DestroyAcceptor
             \/ \E l \in Loops \ {Main} : QuitThread(l)
             \/ \E l \in Loops : TestQuit(l)
             \/ \E c \in Conns : ShutDown(c)
             \/ HandleRead /\ AcceptFails
    <2>1. /\ UNCHANGED <<connection_maps, functors, batch, done, index_, up>>
          /\ phase' = phase \/ phase' # "open"
      BY <1>9 DEF vars, SetThreadNum, Start, MainReturns, DestroyPool, DestroyAcceptor, QuitThread,
                  TestQuit, ShutDown, HandleRead, AcceptFails, server, conn
    <2> QED BY <2>1, <1>1, <1>2
  <1> QED BY <1>3, <1>4, <1>5, <1>6, <1>7, <1>8, <1>9 DEF Next, HandleRead

(* NextHopQueued: over the two hops of RemoveConnection (tcp_server.cc:69-81) no closed *)
(* connection is ever left with nobody about to take it further, however the loops      *)
(* interleave; the safety part of ClosedIsFreed.                                        *)
THEOREM ClosedMovesOn == Spec => []NextHopQueued
  <1>1. Init => HopInv
    BY DEF Init, HopInv, RemovalQueued, DeletedWasUp
  <1>2. SrvInv /\ HopInv => NextHopQueued
    <2> SUFFICES ASSUME SrvInv, HopInv, phase = "open", NEW c \in Conns, index_[c] = "kDeleted",
                        c \notin connection_maps
                 PROVE  Pending(loop_[c], "destroyed", c)
      BY DEF NextHopQueued, HopInv, RemovalQueued
    <2>1. c \in Accepted
      BY SrvParts DEF HopInv, DeletedWasUp, FreshInv
    <2>2. alive[loop_[c]]
      BY <2>1, HomeAlive
    <2>3. removes[c] # 1
      BY SrvParts DEF LifeInv
    <2> QED BY <2>1, <2>2, <2>3, SrvParts DEF MapInv
  <1> QED BY <1>1, <1>2, HopStep, SrvAlways, PTL DEF Spec
=============================================================================
