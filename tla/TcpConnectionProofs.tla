------------------------ MODULE TcpConnectionProofs -------------------------
(***************************************************************************)
(* Proofs about a connection and its buffers.                              *)
(*                                                                         *)
(* Buffer.tla, for any sizes of the prepend area, the first vector and the  *)
(* overflow area: a Buffer is a queue, and its vector stays within twice    *)
(* what it had to hold.  HoldsQueue compares two sequences; the proof works *)
(* on their elements (Holds), which every method of the class is shown to   *)
(* keep.  That a Buffer is a queue is why output_buffer_ is a sequence in   *)
(* TcpConnection.tla.                                                      *)
(*                                                                         *)
(* TcpConnection.tla, for any threads, messages and message length: the     *)
(* order of the bytes, EPOLLOUT, FIN and the write-complete notification.   *)
(* The four properties and the types are inductive only together: a direct  *)
(* write keeps the order because the buffer is empty whenever EPOLLOUT is   *)
(* not watched, and FIN stays behind the data because of the same.          *)
(* Then the life of the connection: it is registered once, once down it     *)
(* stays down, and once removed it can only be registered by a queued       *)
(* SendInLoop that finds it shutting down.                                 *)
(***************************************************************************)
EXTENDS TcpConnection, Buffer, SequenceTheorems, TLAPS

-----------------------------------------------------------------------------
(* Buffer *)

Cell == 0..MaxBytes
Buffers == [buffer_ : Seq(Cell), read_index_ : Nat, write_index_ : Nat]

(* The diagram at buffer.h:13-18. *)
WellFormed(b) ==
  /\ b \in Buffers
  /\ kCheapPrepend <= b.read_index_ /\ b.read_index_ <= b.write_index_
  /\ b.write_index_ <= Len(b.buffer_)

(* The readable bytes of b are numbers t + 1 to p, in order. *)
Holds(b, t, p) ==
  /\ b.write_index_ - b.read_index_ = p - t
  /\ \A i \in 1..(p - t) : b.buffer_[b.read_index_ + i] = t + i

BufferInv ==
  WellFormed(buf) /\ Holds(buf, taken, put) /\ SizeBounded
    /\ put \in 0..MaxBytes /\ taken \in 0..put /\ peak \in 0..put

-----------------------------------------------------------------------------
LEMMA WellFormedType ==
  ASSUME NEW b, WellFormed(b)
  PROVE  /\ b \in Buffers /\ b.buffer_ \in Seq(Cell)
         /\ b.read_index_ \in Nat /\ b.write_index_ \in Nat /\ Len(b.buffer_) \in Nat
         /\ kCheapPrepend \in Nat /\ kCheapPrepend <= b.read_index_
         /\ b.read_index_ <= b.write_index_ /\ b.write_index_ <= Len(b.buffer_)
         /\ ReadableBytes(b) \in Nat /\ WriteableBytes(b) \in Nat
  <1>1. b.buffer_ \in Seq(Cell)
    BY DEF WellFormed, Buffers
  <1>2. Len(b.buffer_) \in Nat
    BY <1>1, LenProperties
  <1> QED BY <1>1, <1>2, SizesAssumption
          DEF WellFormed, Buffers, ReadableBytes, WriteableBytes

(* A function on 1..n is a vector of n cells. *)
LEMMA VectorType ==
  ASSUME NEW n \in Nat, NEW f \in [1..n -> Cell]
  PROVE  f \in Seq(Cell) /\ Len(f) = n
  OBVIOUS

(* The vector after resize. *)
LEMMA Extend ==
  ASSUME NEW v \in Seq(Cell), NEW k \in Nat
  PROVE  /\ v \o Zeros(k) \in Seq(Cell) /\ Len(v \o Zeros(k)) = Len(v) + k
         /\ \A i \in 1..Len(v) : (v \o Zeros(k))[i] = v[i]
  <1>1. Zeros(k) \in [1..k -> Cell]
    BY SizesAssumption DEF Zeros, Cell
  <1>2. Zeros(k) \in Seq(Cell) /\ Len(Zeros(k)) = k
    BY <1>1, VectorType
  <1>3. \A a, z \in Seq(Cell) :
          /\ a \o z \in Seq(Cell) /\ Len(a \o z) = Len(a) + Len(z)
          /\ \A i \in 1..(Len(a) + Len(z)) : (a \o z)[i] = IF i <= Len(a) THEN a[i] ELSE z[i - Len(a)]
    <2> TAKE a, z \in Seq(Cell)
    <2> QED BY ConcatProperties
  <1>4. /\ v \o Zeros(k) \in Seq(Cell) /\ Len(v \o Zeros(k)) = Len(v) + k
        /\ \A i \in 1..(Len(v) + k) :
             (v \o Zeros(k))[i] = IF i <= Len(v) THEN v[i] ELSE Zeros(k)[i - Len(v)]
    BY <1>2, <1>3
  <1>5. Len(v) \in Nat
    BY LenProperties
  <1>6. \A i \in 1..Len(v) : i \in 1..(Len(v) + k) /\ i <= Len(v)
    BY ONLY <1>5, k \in Nat
  <1> QED BY <1>4, <1>6

(* The vector after n cells have been moved from behind r to behind k. *)
Moved(v, k, n, r) ==
  [i \in 1..Len(v) |-> IF i \in (k + 1)..(k + n) THEN v[i - k + r] ELSE v[i]]

(* m has the cells of v, the n behind k having come from behind r. *)
IsMoved(m, v, k, n, r) ==
  m \in Seq(Cell) /\ Len(m) = Len(v) /\ \A i \in 1..n : m[k + i] = v[r + i]

LEMMA Move ==
  ASSUME NEW v \in Seq(Cell), NEW k \in Nat, NEW n \in Nat, NEW r \in Nat,
         k + n <= Len(v), r + n <= Len(v)
  PROVE  IsMoved(Moved(v, k, n, r), v, k, n, r)
  <1>0. Len(v) \in Nat /\ \A i \in 1..Len(v) : v[i] \in Cell
    BY LenProperties, ElementOfSeq
  <1>1. Moved(v, k, n, r) \in [1..Len(v) -> Cell]
    <2> SUFFICES ASSUME NEW i \in 1..Len(v)
                 PROVE  (IF i \in (k + 1)..(k + n) THEN v[i - k + r] ELSE v[i]) \in Cell
      BY DEF Moved
    <2>1. i \in (k + 1)..(k + n) => i - k + r \in 1..Len(v)
      BY <1>0
    <2> QED BY <1>0, <2>1
  <1>2. ASSUME NEW i \in 1..n
        PROVE  Moved(v, k, n, r)[k + i] = v[r + i]
    <2>1. k + i \in 1..Len(v) /\ k + i \in (k + 1)..(k + n) /\ (k + i) - k + r = r + i
      BY <1>0
    <2>2. Moved(v, k, n, r)[k + i] = v[(k + i) - k + r]
      BY <2>1 DEF Moved
    <2> QED BY <2>1, <2>2
  <1>3. Moved(v, k, n, r) \in Seq(Cell) /\ Len(Moved(v, k, n, r)) = Len(v)
    BY <1>0, <1>1, VectorType
  <1> QED BY <1>2, <1>3 DEF IsMoved

(* The vector after the bytes after number p have been copied to the len cells behind w. *)
Filled(v, w, len, p) ==
  [i \in 1..Len(v) |-> IF i \in (w + 1)..(w + len) THEN p + 1 + (i - w - 1) ELSE v[i]]

(* f is v with the bytes after number p in the len cells behind w. *)
IsFilled(f, v, w, len, p) ==
  /\ f \in Seq(Cell) /\ Len(f) = Len(v)
  /\ \A i \in 1..w : f[i] = v[i]
  /\ \A i \in 1..len : f[w + i] = p + i

LEMMA Copy ==
  ASSUME NEW v \in Seq(Cell), NEW w \in Nat, NEW len \in Nat, NEW p \in Nat,
         w + len <= Len(v), p + len <= MaxBytes
  PROVE  IsFilled(Filled(v, w, len, p), v, w, len, p)
  <1>0. Len(v) \in Nat /\ \A i \in 1..Len(v) : v[i] \in Cell
    BY LenProperties, ElementOfSeq
  <1>1. Filled(v, w, len, p) \in [1..Len(v) -> Cell]
    <2> SUFFICES ASSUME NEW i \in 1..Len(v)
                 PROVE  (IF i \in (w + 1)..(w + len) THEN p + 1 + (i - w - 1) ELSE v[i]) \in Cell
      BY DEF Filled
    <2>1. i \in (w + 1)..(w + len) => p + 1 + (i - w - 1) \in Cell
      BY SizesAssumption DEF Cell
    <2> QED BY <1>0, <2>1
  <1>2. \A i \in 1..w : Filled(v, w, len, p)[i] = v[i]
    BY <1>0 DEF Filled
  <1>3. ASSUME NEW i \in 1..len
        PROVE  Filled(v, w, len, p)[w + i] = p + i
    <2>1. /\ w + i \in 1..Len(v) /\ w + i \in (w + 1)..(w + len)
          /\ p + 1 + ((w + i) - w - 1) = p + i
      BY <1>0
    <2>2. Filled(v, w, len, p)[w + i] = p + 1 + ((w + i) - w - 1)
      BY <2>1 DEF Filled
    <2> QED BY <2>1, <2>2
  <1>4. Filled(v, w, len, p) \in Seq(Cell) /\ Len(Filled(v, w, len, p)) = Len(v)
    BY <1>0, <1>1, VectorType
  <1> QED BY <1>2, <1>3, <1>4 DEF IsFilled

-----------------------------------------------------------------------------
(* The methods.  Each keeps a well-formed buffer and the bytes it holds. *)

(* resize, when the vector is to be larger. *)
LEMMA GrowStep ==
  ASSUME NEW b, WellFormed(b), NEW len \in Nat, WriteableBytes(b) < len,
         NEW t \in Nat, NEW p \in Nat, t <= p, Holds(b, t, p)
  PROVE  /\ WellFormed(Grow(b, len)) /\ Holds(Grow(b, len), t, p)
         /\ WriteableBytes(Grow(b, len)) = len
         /\ Len(Grow(b, len).buffer_) = b.write_index_ + len
  <1> DEFINE k == b.write_index_ + len - Len(b.buffer_)
             v == b.buffer_ \o Zeros(k)
             g == Grow(b, len)
  <1>t. /\ Len(b.buffer_) \in Nat /\ b.read_index_ \in Nat /\ b.write_index_ \in Nat
        /\ kCheapPrepend \in Nat /\ kCheapPrepend <= b.read_index_
        /\ b.read_index_ <= b.write_index_ /\ b.write_index_ <= Len(b.buffer_)
    BY WellFormedType
  <1>1. k \in Nat /\ Len(b.buffer_) + k = b.write_index_ + len
    <2>1. Len(b.buffer_) - b.write_index_ < len
      BY DEF WriteableBytes
    <2> QED BY <1>t, <2>1
  <1>2. /\ v \in Seq(Cell) /\ Len(v) = b.write_index_ + len
        /\ \A i \in 1..Len(b.buffer_) : v[i] = b.buffer_[i]
    <2> HIDE DEF k
    <2> QED BY <1>1, WellFormedType, Extend
  <1>3. g = [b EXCEPT !.buffer_ = v]
    BY DEF Grow
  <1> HIDE DEF v, g
  <1>4. g.buffer_ = v /\ g.read_index_ = b.read_index_ /\ g.write_index_ = b.write_index_
    BY <1>3, WellFormedType DEF Buffers
  <1>5. g \in Buffers
    BY <1>2, <1>3, WellFormedType DEF Buffers
  <1>6. WellFormed(g) /\ WriteableBytes(g) = len
    BY <1>2, <1>4, <1>5, WellFormedType DEF WellFormed, WriteableBytes
  <1>7. Holds(g, t, p)
    <2> SUFFICES ASSUME NEW i \in 1..(p - t)
                 PROVE  v[b.read_index_ + i] = t + i
      BY <1>4 DEF Holds
    <2>1. b.buffer_[b.read_index_ + i] = t + i
      BY DEF Holds
    <2>2. b.read_index_ + i \in 1..Len(b.buffer_)
      <3>1. b.write_index_ - b.read_index_ = p - t
        BY DEF Holds
      <3>2. b.read_index_ + i <= b.write_index_ /\ b.read_index_ + i \in Nat \ {0}
        BY <1>t, <3>1
      <3> HIDE DEF k
      <3> QED BY <1>t, <3>2
    <2> QED BY <1>2, <2>1, <2>2
  <1> QED BY <1>2, <1>4, <1>6, <1>7 DEF g

(* Moving the readable bytes to the front. *)
LEMMA CompactStep ==
  ASSUME NEW b, WellFormed(b), NEW t \in Nat, NEW p \in Nat, t <= p, Holds(b, t, p)
  PROVE  /\ WellFormed(Compact(b)) /\ Holds(Compact(b), t, p)
         /\ Len(Compact(b).buffer_) = Len(b.buffer_)
         /\ Compact(b).write_index_ = kCheapPrepend + ReadableBytes(b)
  <1> DEFINE n == ReadableBytes(b)
             c == Compact(b)
             v == Moved(b.buffer_, kCheapPrepend, n, b.read_index_)
  <1>t. /\ Len(b.buffer_) \in Nat /\ b.read_index_ \in Nat /\ b.write_index_ \in Nat
        /\ kCheapPrepend \in Nat /\ kCheapPrepend <= b.read_index_
        /\ b.read_index_ <= b.write_index_ /\ b.write_index_ <= Len(b.buffer_)
    BY WellFormedType
  <1>1. /\ n = p - t /\ n \in Nat
        /\ b.read_index_ + n <= Len(b.buffer_) /\ kCheapPrepend + n <= Len(b.buffer_)
    <2>1. n = b.write_index_ - b.read_index_ /\ n = p - t
      BY DEF Holds, ReadableBytes
    <2> HIDE DEF n, c, v
    <2>2. n \in Nat
      BY <1>t, <2>1
    <2>3. b.read_index_ + n = b.write_index_
      BY <1>t, <2>1
    <2> QED BY <1>t, <2>1, <2>2, <2>3
  <1>2. c = [buffer_ |-> v, read_index_ |-> kCheapPrepend, write_index_ |-> kCheapPrepend + n]
    BY Zenon DEF Compact, Moved
  <1> HIDE DEF n, c
  <1>3. /\ v \in Seq(Cell) /\ Len(v) = Len(b.buffer_)
        /\ \A i \in 1..n : v[kCheapPrepend + i] = b.buffer_[b.read_index_ + i]
    <2>1. b.buffer_ \in Seq(Cell) /\ kCheapPrepend \in Nat /\ b.read_index_ \in Nat
      BY WellFormedType
    <2>2. v = Moved(b.buffer_, kCheapPrepend, n, b.read_index_)
      OBVIOUS
    <2> HIDE DEF v
    <2>3. /\ n \in Nat /\ b.read_index_ + n <= Len(b.buffer_)
          /\ kCheapPrepend + n <= Len(b.buffer_)
      BY <1>1
    <2>4. IsMoved(v, b.buffer_, kCheapPrepend, n, b.read_index_)
      BY <2>1, <2>2, <2>3, Move
    <2> QED BY <2>4 DEF IsMoved
  <1> HIDE DEF v
  <1>4. /\ c.buffer_ = v /\ c.read_index_ = kCheapPrepend /\ c.write_index_ = kCheapPrepend + n
        /\ c \in Buffers
    BY <1>1, <1>2, <1>3, SizesAssumption DEF Buffers
  <1>5. WellFormed(c)
    BY <1>1, <1>3, <1>4, SizesAssumption DEF WellFormed
  <1>6. Holds(c, t, p)
    <2>1. \A i \in 1..n : v[kCheapPrepend + i] = t + i
      BY <1>1, <1>3 DEF Holds
    <2> QED BY <1>1, <1>4, <2>1, SizesAssumption DEF Holds
  <1> QED BY <1>3, <1>4, <1>5, <1>6 DEF n, c

(* EnsureWriteableBytes keeps the bytes and makes room; if it grows the vector, the *)
(* whole prepended and readable part was smaller than what is held and asked for.   *)
LEMMA EnsureStep ==
  ASSUME NEW b, WellFormed(b), NEW len \in Nat,
         NEW t \in Nat, NEW p \in Nat, t <= p, Holds(b, t, p)
  PROVE  LET e == EnsureWriteableBytes(b, len) IN
         /\ WellFormed(e) /\ Holds(e, t, p) /\ WriteableBytes(e) >= len
         /\ \/ Len(e.buffer_) = Len(b.buffer_)
            \/ Len(e.buffer_) <= kCheapPrepend + 2 * (p - t + len)
  <1> DEFINE e == EnsureWriteableBytes(b, len)
  <1>t. /\ Len(b.buffer_) \in Nat /\ b.read_index_ \in Nat /\ b.write_index_ \in Nat
        /\ b.write_index_ <= Len(b.buffer_) /\ b.write_index_ - b.read_index_ = p - t
        /\ kCheapPrepend \in Nat
    BY WellFormedType, SizesAssumption DEF WellFormed, Holds
  <1>1. CASE WriteableBytes(b) >= len
    <2>1. e = b
      BY <1>1, <1>t DEF EnsureWriteableBytes, WriteableBytes
    <2> QED BY <1>1, <2>1
  <1>2. CASE WriteableBytes(b) < len /\ TooSmall(b, len)
    <2>1. e = Grow(b, len)
      BY <1>2 DEF EnsureWriteableBytes, MakeSpace
    <2>2. b.write_index_ + len <= kCheapPrepend + 2 * (p - t + len)
      BY <1>2, <1>t DEF TooSmall, WriteableBytes, PrependableBytes
    <2>3. Len(e.buffer_) = b.write_index_ + len
      BY <1>2, <2>1, GrowStep
    <2> QED BY <1>2, <2>1, <2>2, <2>3, GrowStep
  <1>3. CASE WriteableBytes(b) < len /\ ~TooSmall(b, len)
    <2>1. e = Compact(b)
      BY <1>3 DEF EnsureWriteableBytes, MakeSpace
    <2>2. /\ WellFormed(e) /\ Holds(e, t, p) /\ Len(e.buffer_) = Len(b.buffer_)
          /\ e.write_index_ = kCheapPrepend + ReadableBytes(b)
      BY <2>1, CompactStep
    <2>3. WriteableBytes(e) >= len
      BY <1>3, <1>t, <2>2 DEF TooSmall, WriteableBytes, PrependableBytes, ReadableBytes
    <2> QED BY <2>2, <2>3
  <1>4. WriteableBytes(b) \in Nat
    BY WellFormedType
  <1> QED BY <1>1, <1>2, <1>3, <1>4

(* Copying the next len bytes to BeginWrite(), where there is room for them. *)
LEMMA FillStep ==
  ASSUME NEW b, WellFormed(b), NEW len \in Nat, len <= WriteableBytes(b),
         NEW t \in Nat, NEW p \in Nat, t <= p, p + len <= MaxBytes, Holds(b, t, p)
  PROVE  LET f == Fill(b, len, p + 1) IN
         /\ WellFormed(f) /\ Holds(f, t, p + len)
         /\ Len(f.buffer_) = Len(b.buffer_) /\ f.write_index_ = b.write_index_ + len
  <1> DEFINE f == Fill(b, len, p + 1)
             w == b.write_index_
             v == Filled(b.buffer_, w, len, p)
  <1>1. /\ w + len <= Len(b.buffer_) /\ w - b.read_index_ = p - t
        /\ w \in Nat /\ b.read_index_ \in Nat /\ w = b.read_index_ + (p - t)
    BY WellFormedType DEF WriteableBytes, Holds
  <1>2. f.buffer_ = v /\ f.read_index_ = b.read_index_ /\ f.write_index_ = w + len
    BY WellFormedType DEF Fill, Filled, Buffers
  <1>3. f = [b EXCEPT !.buffer_ = v, !.write_index_ = w + len]
    BY DEF Fill, Filled
  <1> HIDE DEF f, w
  <1>4. /\ v \in Seq(Cell) /\ Len(v) = Len(b.buffer_)
        /\ \A i \in 1..w : v[i] = b.buffer_[i]
        /\ \A i \in 1..len : v[w + i] = p + i
    <2>1. b.buffer_ \in Seq(Cell) /\ w \in Nat /\ w + len <= Len(b.buffer_)
      BY <1>1, WellFormedType
    <2>2. v = Filled(b.buffer_, w, len, p)
      OBVIOUS
    <2> HIDE DEF v
    <2>3. IsFilled(v, b.buffer_, w, len, p)
      BY <2>1, <2>2, Copy
    <2> QED BY <2>3 DEF IsFilled
  <1> HIDE DEF v
  <1>5. f \in Buffers
    <2>1. b \in Buffers /\ w + len \in Nat
      BY <1>1, WellFormedType
    <2> QED BY <1>3, <1>4, <2>1 DEF Buffers
  <1>6. WellFormed(f)
    BY <1>1, <1>2, <1>4, <1>5, WellFormedType DEF WellFormed
  <1>7. ASSUME NEW i \in 1..(p + len - t)
        PROVE  v[b.read_index_ + i] = t + i
    <2>1. CASE i <= p - t
      <3>1. b.buffer_[b.read_index_ + i] = t + i
        BY <2>1 DEF Holds
      <3>2. b.read_index_ + i \in 1..w
        BY <1>1, <2>1
      <3> QED BY <1>4, <3>1, <3>2
    <2>2. CASE i > p - t
      <3> DEFINE j == i - (p - t)
      <3>1. j \in 1..len /\ b.read_index_ + i = w + j /\ p + j = t + i
        BY <1>1, <2>2
      <3> QED BY <1>4, <3>1
    <2> QED BY <2>1, <2>2
  <1>8. Holds(f, t, p + len)
    BY <1>1, <1>2, <1>7 DEF Holds
  <1> QED BY <1>2, <1>4, <1>6, <1>8 DEF f, w

LEMMA AppendBytesStep ==
  ASSUME NEW b, WellFormed(b), NEW len \in Nat,
         NEW t \in Nat, NEW p \in Nat, t <= p, p + len <= MaxBytes, Holds(b, t, p)
  PROVE  LET a == AppendBytes(b, len, p + 1) IN
         /\ WellFormed(a) /\ Holds(a, t, p + len)
         /\ \/ Len(a.buffer_) = Len(b.buffer_)
            \/ Len(a.buffer_) <= kCheapPrepend + 2 * (p + len - t)
  <1> DEFINE e == EnsureWriteableBytes(b, len)
             a == AppendBytes(b, len, p + 1)
  <1>1. /\ WellFormed(e) /\ Holds(e, t, p) /\ WriteableBytes(e) >= len
        /\ \/ Len(e.buffer_) = Len(b.buffer_)
           \/ Len(e.buffer_) <= kCheapPrepend + 2 * (p - t + len)
    BY EnsureStep
  <1>2. a = Fill(e, len, p + 1)
    BY DEF AppendBytes
  <1> HIDE DEF e, a
  <1>3. WriteableBytes(e) \in Nat
    BY <1>1, WellFormedType
  <1>4. WellFormed(a) /\ Holds(a, t, p + len) /\ Len(a.buffer_) = Len(e.buffer_)
    BY <1>1, <1>2, <1>3, FillStep
  <1>5. p - t + len = p + len - t
    OBVIOUS
  <1> QED BY <1>1, <1>4, <1>5 DEF a

(* readv into the writeable part, and the rest appended from extrabuf. *)
LEMMA ReadIntoStep ==
  ASSUME NEW b, WellFormed(b), NEW n \in Nat,
         NEW t \in Nat, NEW p \in Nat, t <= p, p + n <= MaxBytes, Holds(b, t, p)
  PROVE  LET a == ReadInto(b, n, p + 1) IN
         /\ WellFormed(a) /\ Holds(a, t, p + n)
         /\ \/ Len(a.buffer_) = Len(b.buffer_)
            \/ Len(a.buffer_) <= kCheapPrepend + 2 * (p + n - t)
  <1> DEFINE here == WriteableBytes(b)
             a == ReadInto(b, n, p + 1)
  <1>0. here \in Nat
    BY WellFormedType
  <1>1. CASE n <= here
    <2>1. a = Fill(b, n, p + 1)
      BY <1>1 DEF ReadInto
    <2> QED BY <1>1, <2>1, FillStep
  <1>2. CASE ~(n <= here)
    <2> DEFINE f == Fill(b, here, p + 1)
    <2>1. a = AppendBytes(f, n - here, p + 1 + here)
      BY <1>2 DEF ReadInto
    <2> DEFINE q == p + here
               m == n - here
    <2>2. /\ m \in Nat /\ q \in Nat /\ q <= MaxBytes /\ t <= q
          /\ q + m = p + n /\ p + 1 + here = q + 1
      BY <1>0, <1>2, SizesAssumption
    <2>3. WellFormed(f) /\ Holds(f, t, q) /\ Len(f.buffer_) = Len(b.buffer_)
      <3> HIDE DEF q, m
      <3>1. WriteableBytes(b) \in Nat /\ p + WriteableBytes(b) = q
        BY <1>0 DEF q
      <3>2. WellFormed(f) /\ Holds(f, t, p + here) /\ Len(f.buffer_) = Len(b.buffer_)
        BY <1>0, <2>2, <3>1, FillStep
      <3> QED BY <3>2 DEF q
    <2>4. a = AppendBytes(f, m, q + 1)
      BY <2>1, <2>2
    <2> HIDE DEF f, here, a, q, m
    <2>5. q + m <= MaxBytes
      BY <2>2
    <2>6. /\ WellFormed(a) /\ Holds(a, t, q + m)
          /\ \/ Len(a.buffer_) = Len(f.buffer_)
             \/ Len(a.buffer_) <= kCheapPrepend + 2 * (q + m - t)
      BY <2>2, <2>3, <2>4, <2>5, AppendBytesStep
    <2>7. /\ WellFormed(a) /\ Holds(a, t, p + n)
          /\ \/ Len(a.buffer_) = Len(b.buffer_)
             \/ Len(a.buffer_) <= kCheapPrepend + 2 * (p + n - t)
      <3>1. Holds(a, t, p + n)
        BY <2>2, <2>6, Zenon
      <3> QED BY <2>2, <2>3, <2>6, <3>1
    <2> QED BY <2>7 DEF a
  <1> QED BY <1>1, <1>2

LEMMA RetriveStep ==
  ASSUME NEW b, WellFormed(b), NEW len \in Nat, len <= ReadableBytes(b),
         NEW t \in Nat, NEW p \in Nat, t <= p, Holds(b, t, p)
  PROVE  LET a == Retrive(b, len) IN
         WellFormed(a) /\ Holds(a, t + len, p) /\ a.buffer_ = b.buffer_
  <1> DEFINE a == Retrive(b, len)
  <1>1. b \in Buffers /\ b.write_index_ - b.read_index_ = p - t /\ ReadableBytes(b) = p - t
    BY WellFormedType DEF ReadableBytes, Holds
  <1>2. CASE len < ReadableBytes(b)
    <2>1. /\ a = [b EXCEPT !.read_index_ = b.read_index_ + len]
          /\ a.buffer_ = b.buffer_ /\ a.read_index_ = b.read_index_ + len
          /\ a.write_index_ = b.write_index_
      BY <1>1, <1>2 DEF Retrive, Buffers
    <2> HIDE DEF a
    <2>2. a \in Buffers
      BY <1>1, <2>1, WellFormedType DEF Buffers
    <2>3. WellFormed(a)
      BY <1>1, <1>2, <2>1, <2>2, WellFormedType DEF WellFormed
    <2>4. ASSUME NEW i \in 1..(p - (t + len))
          PROVE  b.buffer_[(b.read_index_ + len) + i] = (t + len) + i
      <3>1. len + i \in 1..(p - t)
        OBVIOUS
      <3>2. b.buffer_[b.read_index_ + (len + i)] = t + (len + i)
        BY <3>1 DEF Holds
      <3>3. b.read_index_ + (len + i) = (b.read_index_ + len) + i /\ t + (len + i) = (t + len) + i
        BY WellFormedType
      <3> QED BY <3>2, <3>3
    <2>5. a.write_index_ - a.read_index_ = p - (t + len)
      <3>1. b.write_index_ - b.read_index_ = p - t
        BY DEF Holds
      <3>2. b.read_index_ \in Nat /\ b.write_index_ \in Nat
        BY WellFormedType
      <3> QED BY <1>1, <2>1, <3>1, <3>2
    <2>6. Holds(a, t + len, p)
      BY <2>1, <2>4, <2>5 DEF Holds
    <2> QED BY <2>1, <2>3, <2>6 DEF a
  <1>3. CASE len = ReadableBytes(b)
    <2>1. /\ a = [b EXCEPT !.read_index_ = kCheapPrepend, !.write_index_ = kCheapPrepend]
          /\ a.buffer_ = b.buffer_ /\ a.read_index_ = kCheapPrepend
          /\ a.write_index_ = kCheapPrepend
      BY <1>1, <1>3 DEF Retrive, Buffers
    <2> HIDE DEF a
    <2>2. a \in Buffers
      BY <1>1, <2>1, WellFormedType DEF Buffers
    <2>3. WellFormed(a)
      BY <2>1, <2>2, WellFormedType DEF WellFormed
    <2>4. Holds(a, t + len, p)
      BY <1>1, <1>3, <2>1, SizesAssumption DEF Holds
    <2> QED BY <2>1, <2>3, <2>4 DEF a
  <1> QED BY <1>1, <1>2, <1>3

-----------------------------------------------------------------------------
LEMMA BufferInitially == BufferInit => BufferInv
  <1> SUFFICES ASSUME BufferInit
               PROVE  BufferInv
    OBVIOUS
  <1>1. kCheapPrepend + kInitialSize \in Nat
    BY SizesAssumption
  <1>2. Zeros(kCheapPrepend + kInitialSize) \in [1..(kCheapPrepend + kInitialSize) -> Cell]
    BY SizesAssumption DEF Zeros, Cell
  <1>3. /\ Zeros(kCheapPrepend + kInitialSize) \in Seq(Cell)
        /\ Len(Zeros(kCheapPrepend + kInitialSize)) = kCheapPrepend + kInitialSize
    BY <1>1, <1>2, VectorType
  <1> QED BY <1>3, SizesAssumption DEF BufferInit, BufferInv, WellFormed, Buffers, Holds, SizeBounded

(* A method that puts n bytes in keeps the invariant. *)
LEMMA PutStep ==
  ASSUME BufferInv, NEW n \in Nat, put + n <= MaxBytes, Counted(n),
         WellFormed(buf'), Holds(buf', taken, put + n),
         \/ Len(buf'.buffer_) = Len(buf.buffer_)
         \/ Len(buf'.buffer_) <= kCheapPrepend + 2 * (put + n - taken)
  PROVE  BufferInv'
  <1>1. /\ put' = put + n /\ taken' = taken /\ put' \in 0..MaxBytes /\ taken' \in 0..put'
        /\ peak' \in 0..put' /\ peak' >= peak /\ peak' >= put + n - taken
    BY SizesAssumption DEF BufferInv, Counted
  <1>2. SizeBounded'
    <2>1. /\ kCheapPrepend \in Nat /\ kInitialSize \in Nat /\ put \in Nat /\ taken \in Nat /\ peak \in Nat
          /\ peak' \in Nat /\ SizeBounded
      BY <1>1, SizesAssumption DEF BufferInv
    <2>2. Len(buf.buffer_) \in Nat /\ Len(buf'.buffer_) \in Nat
      BY WellFormedType DEF BufferInv
    <2> QED BY <1>1, <2>1, <2>2 DEF SizeBounded
  <1>3. WellFormed(buf)' /\ Holds(buf, taken, put)'
    BY <1>1 DEF WellFormed, Holds, Buffers
  <1> QED BY <1>1, <1>2, <1>3 DEF BufferInv

LEMMA BufferStep == BufferInv /\ [BufferNext]_bufferVars => BufferInv'
  <1> SUFFICES ASSUME BufferInv, [BufferNext]_bufferVars
               PROVE  BufferInv'
    OBVIOUS
  <1>0. /\ WellFormed(buf) /\ Holds(buf, taken, put) /\ SizeBounded
        /\ put \in Nat /\ taken \in Nat /\ taken <= put /\ put \in 0..MaxBytes
    BY SizesAssumption DEF BufferInv
  <1>1. ASSUME NEW n \in 1..MaxBytes, Append_(n)
        PROVE  BufferInv'
    <2>1. put + n <= MaxBytes /\ n \in Nat /\ buf' = AppendBytes(buf, n, put + 1) /\ Counted(n)
      BY <1>1 DEF Append_
    <2>2. /\ WellFormed(buf') /\ Holds(buf', taken, put + n)
          /\ \/ Len(buf'.buffer_) = Len(buf.buffer_)
             \/ Len(buf'.buffer_) <= kCheapPrepend + 2 * (put + n - taken)
      BY <1>0, <2>1, AppendBytesStep
    <2> QED BY <2>1, <2>2, PutStep
  <1>2. ASSUME NEW n \in 1..MaxBytes, ReadFd(n)
        PROVE  BufferInv'
    <2>1. put + n <= MaxBytes /\ n \in Nat /\ buf' = ReadInto(buf, n, put + 1) /\ Counted(n)
      BY <1>2 DEF ReadFd
    <2>2. /\ WellFormed(buf') /\ Holds(buf', taken, put + n)
          /\ \/ Len(buf'.buffer_) = Len(buf.buffer_)
             \/ Len(buf'.buffer_) <= kCheapPrepend + 2 * (put + n - taken)
      BY <1>0, <2>1, ReadIntoStep
    <2> QED BY <2>1, <2>2, PutStep
  <1>3. ASSUME NEW n \in 1..MaxBytes, Take(n)
        PROVE  BufferInv'
    <2>1. WellFormed(buf') /\ Holds(buf', taken + n, put) /\ buf'.buffer_ = buf.buffer_
      BY <1>0, <1>3, RetriveStep DEF Take
    <2>2. taken' = taken + n /\ put' = put /\ peak' = peak /\ n <= put - taken
      BY <1>0, <1>3 DEF Take, Holds, ReadableBytes
    <2>3. taken + n \in 0..put
      BY <1>0, <2>2, SizesAssumption
    <2>4. SizeBounded'
      BY <1>0, <2>1, <2>2 DEF SizeBounded
    <2> QED BY <1>0, <2>1, <2>2, <2>3, <2>4 DEF BufferInv
  <1>4. CASE UNCHANGED bufferVars
    BY <1>4 DEF bufferVars, BufferInv, SizeBounded, WellFormed, Holds, Buffers
  <1> QED BY <1>1, <1>2, <1>3, <1>4 DEF BufferNext

LEMMA BufferAlways == BufferSpec => []BufferInv
  BY BufferInitially, BufferStep, PTL DEF BufferSpec

-----------------------------------------------------------------------------
(* The two indices stay within the vector and behind the prepend area. *)
THEOREM BufferTypeCorrect == BufferSpec => []BufferTypeOK
  <1>1. BufferInv => BufferTypeOK
    BY DEF BufferInv, BufferTypeOK, WellFormed, Buffers, Cell
  <1> QED BY <1>1, BufferAlways, PTL

(* The buffer is a queue of bytes: what can be read is what was put in and not *)
(* taken out, in order, through compaction, growth, resets and readv.          *)
THEOREM BufferIsQueue == BufferSpec => []HoldsQueue
  <1>1. BufferInv => HoldsQueue
    <2> SUFFICES ASSUME BufferInv
                 PROVE  HoldsQueue
      OBVIOUS
    <2> DEFINE r == buf.read_index_
               w == buf.write_index_
               s == SubSeq(buf.buffer_, r + 1, w)
               q == [i \in 1..(put - taken) |-> taken + i]
    <2>1. /\ WellFormed(buf) /\ Holds(buf, taken, put)
          /\ put \in Nat /\ taken \in Nat /\ put - taken \in Nat /\ r \in Nat /\ w \in Nat
          /\ w - r = put - taken /\ Len(buf.buffer_) \in Nat /\ w <= Len(buf.buffer_)
          /\ buf.buffer_ \in Seq(Cell)
      BY WellFormedType, SizesAssumption DEF BufferInv, Holds, WellFormed
    <2>2. \A i \in (r + 1)..w : buf.buffer_[i] \in Cell
      BY <2>1, ElementOfSeq
    <2>3. /\ s \in Seq(Cell) /\ Len(s) = put - taken
          /\ \A i \in 1..(put - taken) : s[i] = buf.buffer_[r + i]
      <3>1. /\ s \in Seq(Cell) /\ Len(s) = IF r + 1 <= w THEN w - (r + 1) + 1 ELSE 0
            /\ \A i \in 1..(w - (r + 1) + 1) : s[i] = buf.buffer_[(r + 1) + i - 1]
        <4> HIDE DEF r, w
        <4>1. r + 1 \in Int /\ w \in Int
          BY <2>1
        <4> QED BY <2>2, <4>1, SubSeqProperties
      <3>2. w - (r + 1) + 1 = put - taken /\ \A i \in 1..(put - taken) : (r + 1) + i - 1 = r + i
        BY <2>1
      <3> HIDE DEF s, r, w
      <3>3. Len(s) = put - taken
        BY <2>1, <3>1
      <3> QED BY <3>1, <3>2, <3>3
    <2>4. q \in Seq(Nat) /\ Len(q) = put - taken /\ \A i \in 1..(put - taken) : q[i] = taken + i
      BY <2>1
    <2>5. \A i \in 1..(put - taken) : buf.buffer_[r + i] = taken + i
      BY <2>1 DEF Holds
    <2>6. s \in Seq(Nat)
      BY <2>3 DEF Cell
    <2>7. s = q
      BY <2>3, <2>4, <2>5, <2>6, SeqEqual
    <2> QED BY <2>7 DEF HoldsQueue, Readable
  <1> QED BY <1>1, BufferAlways, PTL

(* The vector is never larger than its first size or than the prepend area and twice *)
(* the most bytes it ever held.                                                      *)
THEOREM BufferStaysSmall == BufferSpec => []SizeBounded
  <1>1. BufferInv => SizeBounded
    BY DEF BufferInv
  <1> QED BY <1>1, BufferAlways, PTL

-----------------------------------------------------------------------------
(* TcpConnection *)

ConnInv ==
  TypeOK /\ WireInOrder /\ WritingWhilePending /\ FinAfterData /\ NotifiedWhenDrained

-----------------------------------------------------------------------------
(* Sequences *)

(* A message, or what is found in its place, is a non-empty sequence of bytes. *)
LEMMA BytesType ==
  ASSUME NEW m \in Contents
  PROVE  Bytes(m) \in Seq(Byte) /\ Len(Bytes(m)) = MsgLen /\ Bytes(m) # <<>>
  <1>1. Bytes(m) \in [1..MsgLen -> Byte]
    BY DEF Bytes, Byte
  <1>2. Bytes(m) \in Seq(Byte) /\ Len(Bytes(m)) = MsgLen
    BY <1>1, MsgLenAssumption
  <1> QED BY <1>2, MsgLenAssumption, EmptySeq

LEMMA Assoc == \A w, a, b \in Seq(Byte) : (w \o a) \o b = w \o (a \o b)
  <1> TAKE w, a, b \in Seq(Byte)
  <1> QED BY ConcatAssociative

(* What write(2) took of s and what it left are s. *)
LEMMA Split ==
  ASSUME NEW s \in Seq(Byte), NEW n \in 0..Len(s)
  PROVE  /\ SubSeq(s, 1, n) \in Seq(Byte) /\ SubSeq(s, n + 1, Len(s)) \in Seq(Byte)
         /\ Len(SubSeq(s, 1, n)) = n /\ Len(SubSeq(s, n + 1, Len(s))) = Len(s) - n
         /\ SubSeq(s, 1, n) \o SubSeq(s, n + 1, Len(s)) = s
  <1>0. Len(s) \in Nat
    BY LenProperties
  <1>1. \A i \in 1..Len(s) : s[i] \in Byte
    BY ElementOfSeq
  <1>2. /\ SubSeq(s, 1, n) \in Seq(Byte) /\ Len(SubSeq(s, 1, n)) = n
    BY <1>0, <1>1, SubSeqProperties
  <1>3. /\ SubSeq(s, n + 1, Len(s)) \in Seq(Byte) /\ Len(SubSeq(s, n + 1, Len(s))) = Len(s) - n
    BY <1>0, <1>1, SubSeqProperties
  <1>4. SubSeq(s, 1, n) \o SubSeq(s, n + 1, Len(s)) = SubSeq(s, 1, Len(s))
    <2>1. 1 \in 1..(Len(s) + 1) /\ n \in (1 - 1)..Len(s) /\ Len(s) \in n..Len(s)
      BY <1>0
    <2> QED BY <2>1, ConcatAdjacentSubSeq
  <1>5. SubSeq(s, 1, n) \o SubSeq(s, n + 1, Len(s)) = s
    BY <1>4, SubSeqFull
  <1> QED BY <1>2, <1>3, <1>5

-----------------------------------------------------------------------------
(* Channel::Update leaves the mask it was given. *)
LEMMA SetEventsType ==
  ASSUME NEW mask \in SUBSET {"read", "write"}, SetEvents(mask)
  PROVE  /\ events_' = mask
         /\ events_' \subseteq {"read", "write"} /\ index_' \in {"kNew", "kAdded", "kDeleted"}
  BY DEF SetEvents

(* What the four properties are about, and their types. *)
DataTypes ==
  /\ events_ \subseteq {"read", "write"} /\ index_ \in {"kNew", "kAdded", "kDeleted"}
  /\ output_buffer_ \in Seq(Byte) /\ wire \in Seq(Byte) /\ accepted \in Seq(Byte)
  /\ notified \in Nat /\ fin \in BOOLEAN /\ down \in Nat

DataInv ==
  DataTypes /\ WireInOrder /\ WritingWhilePending /\ FinAfterData /\ NotifiedWhenDrained

LEMMA DataUnchanged ==
  ASSUME DataInv,
         UNCHANGED <<events_, index_, output_buffer_, wire, fin, accepted, notified, down>>
  PROVE  DataInv'
  BY DEF DataInv, DataTypes, WireInOrder, WritingWhilePending, FinAfterData,
         NotifiedWhenDrained, IsWriting

(* Appending the rest of a message to output_buffer_: EPOLLOUT is watched *)
(* afterwards if there is a rest.                                         *)
LEMMA BufferRestStep ==
  ASSUME DataTypes, NEW rest \in Seq(Byte), BufferRest(rest)
  PROVE  /\ output_buffer_' = output_buffer_ \o rest /\ output_buffer_' \in Seq(Byte)
         /\ events_' \subseteq {"read", "write"} /\ index_' \in {"kNew", "kAdded", "kDeleted"}
         /\ IsWriting' <=> IsWriting \/ rest # <<>>
         /\ (output_buffer_' = <<>>) <=> (output_buffer_ = <<>> /\ rest = <<>>)
  <1>1. output_buffer_' = output_buffer_ \o rest
    BY DEF BufferRest
  <1>2. /\ output_buffer_' \in Seq(Byte)
        /\ (output_buffer_' = <<>>) <=> (output_buffer_ = <<>> /\ rest = <<>>)
    BY <1>1, ConcatProperties, ConcatEqualIffEmpty DEF DataTypes
  <1>3. CASE rest # <<>> /\ ~IsWriting
    <2>1. SetEvents(events_ \cup {"write"})
      BY <1>3 DEF BufferRest
    <2>2. events_ \cup {"write"} \in SUBSET {"read", "write"}
      BY DEF DataTypes
    <2>3. events_' = events_ \cup {"write"} /\ index_' \in {"kNew", "kAdded", "kDeleted"}
      BY <2>1, <2>2, SetEventsType
    <2> QED BY <1>1, <1>2, <1>3, <2>2, <2>3 DEF IsWriting
  <1>4. CASE ~(rest # <<>> /\ ~IsWriting)
    <2>1. UNCHANGED <<events_, index_>>
      BY <1>4 DEF BufferRest, chan
    <2> QED BY <1>1, <1>2, <1>4, <2>1 DEF IsWriting, DataTypes
  <1> QED BY <1>3, <1>4

(* SendInLoop, whichever way write(2) goes. *)
LEMMA SendInLoopStep ==
  ASSUME DataInv, NEW m \in Contents, SendInLoop(m), UNCHANGED <<fin, down>>
  PROVE  DataInv'
  <1> DEFINE data == Bytes(m)
  <1>0. data \in Seq(Byte) /\ data # <<>> /\ Len(data) \in Nat \ {0}
    BY BytesType, MsgLenAssumption
  <1>t. DataTypes
    BY DEF DataInv
  <1>1. CASE UNCHANGED sendvars
    BY <1>1, DataUnchanged DEF sendvars
  <1>2. CASE /\ WritesDirectly
             /\ \E n \in 0..Len(data) :
                  /\ CanTake(n)
                  /\ wire' = wire \o SubSeq(data, 1, n)
                  /\ BufferRest(SubSeq(data, n + 1, Len(data)))
                  /\ accepted' = accepted \o data
                  /\ notified' = IF n = Len(data) THEN Len(accepted') ELSE notified
    <2>1. PICK n \in 0..Len(data) :
            /\ CanTake(n)
            /\ wire' = wire \o SubSeq(data, 1, n)
            /\ BufferRest(SubSeq(data, n + 1, Len(data)))
            /\ accepted' = accepted \o data
            /\ notified' = IF n = Len(data) THEN Len(accepted') ELSE notified
      BY <1>2
    <2> DEFINE took == SubSeq(data, 1, n)  rest == SubSeq(data, n + 1, Len(data))
    <2>2. /\ took \in Seq(Byte) /\ rest \in Seq(Byte)
          /\ Len(rest) = Len(data) - n /\ (wire \o took) \o rest = wire \o data
      <3>1. wire \in Seq(Byte)
        BY <1>t DEF DataTypes
      <3>2. /\ took \in Seq(Byte) /\ rest \in Seq(Byte) /\ Len(rest) = Len(data) - n
        BY <1>0, Split
      <3>3. took \o rest = data
        BY <1>0, Split
      <3>4. (wire \o took) \o rest = wire \o (took \o rest)
        BY <3>1, <3>2, Assoc, Zenon
      <3>5. (wire \o took) \o rest = wire \o data
        BY <3>3, <3>4, Zenon
      <3> QED BY <3>2, <3>5, Zenon
    <2>3. output_buffer_ = <<>> /\ ~IsWriting /\ wire = accepted /\ ~fin
      BY <1>2, <2>1, ConcatEmptySeq
         DEF WritesDirectly, CanTake, DataInv, DataTypes, WireInOrder
    <2> HIDE DEF took, rest
    <2>4. /\ output_buffer_' = output_buffer_ \o rest /\ output_buffer_' \in Seq(Byte)
          /\ events_' \subseteq {"read", "write"} /\ index_' \in {"kNew", "kAdded", "kDeleted"}
          /\ IsWriting' <=> IsWriting \/ rest # <<>>
          /\ (output_buffer_' = <<>>) <=> (output_buffer_ = <<>> /\ rest = <<>>)
      BY <1>t, <2>1, <2>2, BufferRestStep DEF rest
    <2>5. output_buffer_' = rest
      BY <2>2, <2>3, <2>4, ConcatEmptySeq
    <2>6. wire' = wire \o took /\ wire' \in Seq(Byte)
      BY <1>t, <2>1, <2>2, ConcatProperties DEF took, DataTypes
    <2>7. accepted' = accepted \o data /\ accepted' \in Seq(Byte) /\ Len(accepted') \in Nat
      BY <1>t, <1>0, <2>1, ConcatProperties, LenProperties DEF DataTypes
    <2>8. notified' \in Nat /\ (n = Len(data) => notified' = Len(accepted'))
      BY <1>t, <2>1, <2>7 DEF DataTypes
    <2>9. rest = <<>> <=> n = Len(data)
      BY <1>0, <2>2, EmptySeq
    <2>10. WireInOrder'
      BY <2>2, <2>3, <2>5, <2>6, <2>7 DEF WireInOrder
    <2>11. WritingWhilePending'
      BY <2>3, <2>4, <2>5 DEF WritingWhilePending
    <2>12. FinAfterData'
      BY <2>3 DEF FinAfterData
    <2>13. NotifiedWhenDrained'
      BY <2>5, <2>8, <2>9 DEF NotifiedWhenDrained
    <2>14. DataTypes'
      BY <1>t, <2>4, <2>6, <2>7, <2>8 DEF DataTypes
    <2> QED BY <2>10, <2>11, <2>12, <2>13, <2>14 DEF DataInv
  <1>3. CASE /\ ~WritesDirectly
             /\ BufferRest(data)
             /\ accepted' = accepted \o data
             /\ UNCHANGED <<wire, notified>>
    <2>1. /\ output_buffer_' = output_buffer_ \o data /\ output_buffer_' \in Seq(Byte)
          /\ events_' \subseteq {"read", "write"} /\ index_' \in {"kNew", "kAdded", "kDeleted"}
          /\ IsWriting' /\ output_buffer_' # <<>>
      BY <1>t, <1>0, <1>3, BufferRestStep
    <2>2. accepted' \in Seq(Byte)
      BY <1>t, <1>0, <1>3, ConcatProperties DEF DataTypes
    <2>3. WireInOrder'
      <3>1. wire \o (output_buffer_ \o data) = (wire \o output_buffer_) \o data
        BY <1>t, <1>0, ConcatAssociative DEF DataTypes
      <3> QED BY <1>3, <2>1, <3>1 DEF WireInOrder, DataInv
    <2>4. FinAfterData'
      BY <1>3 DEF DataInv, WritesDirectly, FinAfterData, WritingWhilePending
    <2> QED BY <1>t, <1>3, <2>1, <2>2, <2>3, <2>4
            DEF DataInv, DataTypes, WritingWhilePending, NotifiedWhenDrained
  <1> QED BY <1>1, <1>2, <1>3 DEF SendInLoop

(* HandleWrite, partial or to the end. *)
LEMMA HandleWriteStep ==
  ASSUME DataInv, functors \in Seq(Functors), HandleWrite
  PROVE  DataInv' /\ functors' \in Seq(Functors)
  <1>t. DataTypes
    BY DEF DataInv
  <1>u. UNCHANGED <<accepted, down>>
    BY DEF HandleWrite, calls
  <1>1. CASE UNCHANGED <<chan, output_buffer_, functors, net, notified>>
    BY <1>1, <1>u, DataUnchanged DEF chan, net
  <1>2. CASE /\ IsWriting
             /\ \E n \in 1..Len(output_buffer_) :
                  LET rest == SubSeq(output_buffer_, n + 1, Len(output_buffer_)) IN
                  /\ CanTake(n)
                  /\ wire' = wire \o SubSeq(output_buffer_, 1, n)
                  /\ output_buffer_' = rest
                  /\ IF rest = <<>> THEN Drained ELSE UNCHANGED <<chan, functors, notified, fin>>
    <2>1. PICK n \in 1..Len(output_buffer_) :
            LET rest == SubSeq(output_buffer_, n + 1, Len(output_buffer_)) IN
            /\ CanTake(n)
            /\ wire' = wire \o SubSeq(output_buffer_, 1, n)
            /\ output_buffer_' = rest
            /\ IF rest = <<>> THEN Drained ELSE UNCHANGED <<chan, functors, notified, fin>>
      BY <1>2
    <2> DEFINE took == SubSeq(output_buffer_, 1, n)
               rest == SubSeq(output_buffer_, n + 1, Len(output_buffer_))
    <2>2. /\ took \in Seq(Byte) /\ rest \in Seq(Byte)
          /\ (wire \o took) \o rest = wire \o output_buffer_
      <3>1. n \in 0..Len(output_buffer_)
        BY <1>t, LenProperties DEF DataTypes
      <3>2. output_buffer_ \in Seq(Byte) /\ wire \in Seq(Byte)
        BY <1>t DEF DataTypes
      <3>3. took \in Seq(Byte) /\ rest \in Seq(Byte) /\ took \o rest = output_buffer_
        BY <3>1, <3>2, Split
      <3>4. (wire \o took) \o rest = wire \o (took \o rest)
        BY <3>2, <3>3, Assoc, Zenon
      <3> QED BY <3>3, <3>4, Zenon
    <2>3. wire' = wire \o took /\ output_buffer_' = rest /\ ~fin
      BY <2>1 DEF CanTake
    <2>4. IF rest = <<>> THEN Drained ELSE UNCHANGED <<chan, functors, notified, fin>>
      BY <2>1
    <2> HIDE DEF took, rest
    <2>5. wire' \in Seq(Byte) /\ WireInOrder'
      <3>1. wire' \in Seq(Byte)
        BY <1>t, <2>2, <2>3, ConcatProperties DEF DataTypes
      <3> QED BY <1>u, <2>2, <2>3, <3>1 DEF DataInv, WireInOrder
    <2>6. CASE rest = <<>>
      <3>1. /\ SetEvents(events_ \ {"write"})
            /\ functors' = Append(functors, [op |-> "writeComplete"])
            /\ notified' = Len(accepted)
            /\ fin' \in BOOLEAN
        BY <1>t, <2>4, <2>6 DEF Drained, DataTypes
      <3>2. events_' = events_ \ {"write"} /\ events_' \subseteq {"read", "write"}
            /\ index_' \in {"kNew", "kAdded", "kDeleted"}
        <4>1. events_ \ {"write"} \in SUBSET {"read", "write"}
          BY <1>t DEF DataTypes
        <4> QED BY <3>1, <4>1, SetEventsType
      <3>3. functors' \in Seq(Functors)
        <4>1. [op |-> "writeComplete"] \in Functors
          BY DEF Functors
        <4> QED BY <3>1, <4>1, AppendProperties
      <3>4. notified' \in Nat
        BY <1>t, <3>1, LenProperties DEF DataTypes
      <3> QED BY <1>t, <1>u, <2>2, <2>3, <2>5, <2>6, <3>1, <3>2, <3>3, <3>4
              DEF DataInv, DataTypes, WritingWhilePending, FinAfterData, NotifiedWhenDrained,
                  IsWriting
    <2>7. CASE rest # <<>>
      BY <1>t, <1>u, <1>2, <2>2, <2>3, <2>4, <2>5, <2>7
         DEF DataInv, DataTypes, WritingWhilePending, FinAfterData, NotifiedWhenDrained,
             IsWriting, chan
    <2> QED BY <2>6, <2>7
  <1> QED BY <1>1, <1>2 DEF HandleWrite
-----------------------------------------------------------------------------
(* The types of everything else. *)
OtherTypes ==
  /\ state_ \in States /\ functors \in Seq(Functors) /\ todo \subseteq Handlers
  /\ in_callback \in BOOLEAN /\ caller \in [Threads -> Callers] /\ unsent \subseteq Messages
  /\ peer \in {"open", "closed", "reset"} /\ removals \in Nat /\ in_map \in BOOLEAN
  /\ up \in Nat /\ overwritten \in BOOLEAN /\ sigpipe \in BOOLEAN

LEMMA ConnInvParts == ConnInv <=> OtherTypes /\ DataInv
  BY DEF ConnInv, TypeOK, OtherTypes, DataInv, DataTypes

(* Taking a functor off the queue, and putting one on. *)
LEMMA RunHeadType ==
  ASSUME OtherTypes, NEW op, RunHead(op)
  PROVE  functors' \in Seq(Functors) /\ Head(functors) \in Functors /\ Head(functors).op = op
  BY HeadTailProperties DEF OtherTypes, RunHead

LEMMA QueueType ==
  ASSUME OtherTypes, NEW f \in Functors, functors' = Append(functors, f)
  PROVE  functors' \in Seq(Functors)
  BY AppendProperties DEF OtherTypes

(* A write that fails may end the process. *)
LEMMA SignalType ==
  ASSUME OtherTypes, NEW m, SendInLoop(m)
  PROVE  sigpipe' \in BOOLEAN
  BY DEF SendInLoop, Breaks, OtherTypes

LEMMA ConnInitially == Init => ConnInv
  <1> SUFFICES ASSUME Init PROVE ConnInv
    OBVIOUS
  <1>1. <<>> \in Seq(Byte) /\ Len(<<>>) = 0 /\ <<>> \o <<>> = <<>>
    BY EmptySeq, ConcatEmptySeq
  <1>2. [op |-> "established"] \in Functors
    BY DEF Functors
  <1>3. functors \in Seq(Functors)
    BY <1>2 DEF Init
  <1>4. OtherTypes
    BY <1>3 DEF Init, OtherTypes, States, Callers, Idle
  <1>5. DataInv
    BY <1>1 DEF Init, DataInv, DataTypes, WireInOrder, WritingWhilePending, FinAfterData,
                NotifiedWhenDrained, IsWriting
  <1> QED BY <1>4, <1>5, ConnInvParts

(* Functors of the loop. *)
LEMMA RunFunctorStep ==
  ASSUME OtherTypes, DataInv, RunFunctor
  PROVE  OtherTypes' /\ DataInv'
  <1>1. CASE RunSend
    <2>1. functors' \in Seq(Functors) /\ Head(functors).msg \in Messages
      <3>1. functors' \in Seq(Functors) /\ Head(functors) \in Functors /\ Head(functors).op = "send"
        BY <1>1, RunHeadType DEF RunSend
      <3> QED BY <3>1 DEF Functors
    <2>2. PICK d \in Found(Head(functors).msg) : SendInLoop(d)
      BY <1>1 DEF RunSend
    <2>3. d \in Contents
      BY <2>1 DEF Found, Contents
    <2>4. DataInv'
      BY <1>1, <2>2, <2>3, SendInLoopStep DEF RunSend, calls
    <2>5. sigpipe' \in BOOLEAN
      BY <2>2, SignalType
    <2> QED BY <1>1, <2>1, <2>4, <2>5 DEF RunSend, OtherTypes, env, server, calls
  <1>2. CASE RunShutdown
    <2>1. functors' \in Seq(Functors)
      BY <1>2, RunHeadType DEF RunShutdown
    <2>2. OtherTypes'
      BY <1>2, <2>1 DEF RunShutdown, OtherTypes, env, server, calls
    <2> QED BY <1>2, <2>2
            DEF RunShutdown, ShutdownInLoop, DataInv, DataTypes, WireInOrder, WritingWhilePending,
                FinAfterData, NotifiedWhenDrained, IsWriting, chan, calls
  <1>3. CASE RunWriteComplete
    <2>1. functors' \in Seq(Functors)
      BY <1>3, RunHeadType DEF RunWriteComplete
    <2>2. DataInv'
      BY <1>3, DataUnchanged DEF RunWriteComplete, chan, net, calls
    <2> QED BY <1>3, <2>1, <2>2 DEF RunWriteComplete, OtherTypes, env, server, calls
  <1>4. CASE ConnectionEstablished
    <2>1. functors' \in Seq(Functors)
      BY <1>4, RunHeadType DEF ConnectionEstablished
    <2>2. events_' = events_ \cup {"read"} /\ index_' \in {"kNew", "kAdded", "kDeleted"}
      <3>1. events_ \cup {"read"} \in SUBSET {"read", "write"}
        BY DEF DataInv, DataTypes
      <3> QED BY <1>4, <3>1, SetEventsType DEF ConnectionEstablished
    <2>3. DataInv'
      BY <1>4, <2>2
         DEF ConnectionEstablished, DataInv, DataTypes, WireInOrder, WritingWhilePending,
             FinAfterData, NotifiedWhenDrained, IsWriting, net
    <2> QED BY <1>4, <2>1, <2>3 DEF ConnectionEstablished, OtherTypes, States, env, server
  <1>5. CASE ConnectionDestroyed
    <2>1. functors' \in Seq(Functors)
      BY <1>5, RunHeadType DEF ConnectionDestroyed
    <2>2. OtherTypes'
      BY <1>5, <2>1 DEF ConnectionDestroyed, OtherTypes, States, env, server
    <2>3. CASE state_ = "kConnected"
      <3>1. down' \in Nat /\ down' # 0 /\ events_' = {}
        BY <1>5, <2>3 DEF ConnectionDestroyed, DataInv, DataTypes
      <3> QED BY <1>5, <2>2, <3>1
              DEF ConnectionDestroyed, DataInv, DataTypes, WireInOrder, WritingWhilePending,
                  FinAfterData, NotifiedWhenDrained, net
    <2>4. CASE state_ # "kConnected"
      BY <1>5, <2>2, <2>4
         DEF ConnectionDestroyed, DataInv, DataTypes, WireInOrder, WritingWhilePending,
             FinAfterData, NotifiedWhenDrained, IsWriting, net
    <2> QED BY <2>3, <2>4
  <1> QED BY <1>1, <1>2, <1>3, <1>4, <1>5 DEF RunFunctor

(* A close only clears the mask and counts. *)
LEMMA HandleCloseStep ==
  ASSUME OtherTypes, DataInv, HandleClose, UNCHANGED <<output_buffer_, net, accepted, notified>>
  PROVE  DataInv' /\ state_' \in States /\ removals' \in Nat
  <1>1. events_' = {} /\ index_' \in {"kNew", "kAdded", "kDeleted"}
    BY SetEventsType DEF HandleClose
  <1>2. down' \in Nat /\ down' # 0
    BY DEF HandleClose, DataInv, DataTypes
  <1>3. DataInv'
    BY <1>1, <1>2 DEF DataInv, DataTypes, WireInOrder, WritingWhilePending, FinAfterData,
                      NotifiedWhenDrained, net
  <1> QED BY <1>3 DEF HandleClose, OtherTypes, States

LEMMA RunHandlerStep ==
  ASSUME OtherTypes, DataInv, RunHandler
  PROVE  OtherTypes' /\ DataInv'
  <1>0. todo' \subseteq Handlers
    BY DEF RunHandler, CloseEvent, HandleError, HandleRead, HandleWrite, Calls, OtherTypes
  <1>1. CASE CloseEvent
    <2>1. DataInv' /\ state_' \in States /\ removals' \in Nat
      BY <1>1, HandleCloseStep DEF CloseEvent
    <2> QED BY <1>0, <1>1, <2>1 DEF CloseEvent, OtherTypes, env
  <1>2. CASE HandleError
    <2>1. DataInv'
      BY <1>2, DataUnchanged DEF HandleError, chan, net, calls
    <2> QED BY <1>0, <1>2, <2>1 DEF HandleError, OtherTypes, env, server, calls
  <1>3. CASE HandleRead
    <2>1. CASE HandleClose /\ UNCHANGED in_callback
      <3>1. DataInv' /\ state_' \in States /\ removals' \in Nat
        BY <1>3, <2>1, HandleCloseStep DEF HandleRead
      <3> QED BY <1>0, <1>3, <2>1, <3>1 DEF HandleRead, OtherTypes, env
    <2>2. CASE UNCHANGED <<state_, chan, removals, down>> /\ in_callback' \in BOOLEAN
      <3>1. DataInv'
        BY <1>3, <2>2, DataUnchanged DEF HandleRead, chan, net
      <3> QED BY <1>0, <1>3, <2>2, <3>1 DEF HandleRead, OtherTypes, env
    <2> QED BY <1>3, <2>1, <2>2 DEF HandleRead, OtherTypes, env
  <1>4. CASE HandleWrite
    <2>1. DataInv' /\ functors' \in Seq(Functors)
      BY <1>4, HandleWriteStep DEF OtherTypes
    <2>2. sigpipe' \in BOOLEAN
      BY <1>4 DEF HandleWrite, Breaks, OtherTypes
    <2> QED BY <1>0, <1>4, <2>1, <2>2 DEF HandleWrite, OtherTypes, env, server, calls
  <1> QED BY <1>1, <1>2, <1>3, <1>4 DEF RunHandler

(* The calls of user code, on the loop thread and on others. *)
LEMMA CallStep ==
  ASSUME OtherTypes, DataInv,
         \/ \E m \in Messages : Send_Self(m) \/ \E th \in Threads : Send_Check(th, m)
         \/ \E th \in Threads :
              Send_Queue(th) \/ ShutDown_Check(th) \/ ShutDown_Set(th) \/ ShutDown_Queue(th)
         \/ ShutDown_Self
  PROVE  OtherTypes' /\ DataInv'
  <1>1. ASSUME NEW m \in Messages, Send_Self(m) PROVE OtherTypes' /\ DataInv'
    <2>0. sigpipe' \in BOOLEAN
      BY <1>1, SignalType DEF Send_Self, OtherTypes
    <2>1. OtherTypes'
      BY <1>1, <2>0 DEF Send_Self, OtherTypes, env, server, calls
    <2>2. CASE state_ = "kConnected"
      BY <1>1, <2>1, <2>2, SendInLoopStep DEF Send_Self, Contents, calls
    <2>3. CASE state_ # "kConnected"
      BY <1>1, <2>1, <2>3, DataUnchanged DEF Send_Self, sendvars, calls
    <2> QED BY <2>2, <2>3
  <1>2. ASSUME NEW m \in Messages, NEW th \in Threads, Send_Check(th, m)
        PROVE  OtherTypes' /\ DataInv'
    <2>1. DataInv'
      BY <1>2, DataUnchanged DEF Send_Check, chan, net, calls
    <2>2. caller' \in [Threads -> Callers]
      BY <1>2 DEF Send_Check, OtherTypes, Callers, Idle
    <2> QED BY <1>2, <2>1, <2>2 DEF Send_Check, OtherTypes, env, server, calls
  <1>3. ASSUME NEW th \in Threads, Send_Queue(th) PROVE OtherTypes' /\ DataInv'
    <2>1. DataInv'
      BY <1>3, DataUnchanged DEF Send_Queue, chan, net, calls
    <2>2. caller' \in [Threads -> Callers]
      BY <1>3 DEF Send_Queue, OtherTypes, Callers, Idle
    <2>3. caller[th].msg \in Messages
      BY <1>3 DEF Send_Queue, OtherTypes, Callers
    <2>4. [op |-> "send", msg |-> caller[th].msg] \in Functors
      BY <2>3 DEF Functors
    <2>5. functors' \in Seq(Functors)
      BY <1>3, <2>4, QueueType DEF Send_Queue
    <2> QED BY <1>3, <2>1, <2>2, <2>5 DEF Send_Queue, OtherTypes, env, server, calls
  <1>4. ASSUME NEW th \in Threads, ShutDown_Check(th) \/ ShutDown_Set(th)
        PROVE  OtherTypes' /\ DataInv'
    <2>1. DataInv'
      BY <1>4, DataUnchanged DEF ShutDown_Check, ShutDown_Set, chan, net, calls
    <2>2. caller' \in [Threads -> Callers]
      BY <1>4 DEF ShutDown_Check, ShutDown_Set, OtherTypes, Callers
    <2> QED BY <1>4, <2>1, <2>2
            DEF ShutDown_Check, ShutDown_Set, OtherTypes, States, env, server, calls
  <1>5. ASSUME NEW th \in Threads, ShutDown_Queue(th) PROVE OtherTypes' /\ DataInv'
    <2>1. DataInv'
      BY <1>5, DataUnchanged DEF ShutDown_Queue, chan, net, calls
    <2>2. caller' \in [Threads -> Callers]
      BY <1>5 DEF ShutDown_Queue, OtherTypes, Callers, Idle
    <2>3. [op |-> "shutdown"] \in Functors
      BY DEF Functors
    <2>4. functors' \in Seq(Functors)
      BY <1>5, <2>3, QueueType DEF ShutDown_Queue
    <2> QED BY <1>5, <2>1, <2>2, <2>4 DEF ShutDown_Queue, OtherTypes, env, server, calls
  <1>6. CASE ShutDown_Self
    BY <1>6 DEF ShutDown_Self, ShutdownInLoop, OtherTypes, States, DataInv, DataTypes, WireInOrder,
                WritingWhilePending, FinAfterData, NotifiedWhenDrained, IsWriting, chan, env,
                server, calls
  <1> QED BY <1>1, <1>2, <1>3, <1>4, <1>5, <1>6

(* The kernel, the peer and the server. *)
LEMMA EnvironmentStep ==
  ASSUME OtherTypes, DataInv,
         \/ Dispatch \/ OtherCallback \/ EndCallback
         \/ PeerCloses \/ ServerRemoves \/ ServerDestroyed
  PROVE  OtherTypes' /\ DataInv'
  <1>1. DataInv'
    BY DataUnchanged DEF Dispatch, OtherCallback, EndCallback, PeerCloses, ServerRemoves,
                         ServerDestroyed, chan, net, calls
  <1>2. CASE Dispatch
    <2>1. todo' \subseteq Handlers
      BY <1>2 DEF Dispatch
    <2> QED BY <1>1, <1>2, <2>1 DEF Dispatch, OtherTypes, env, server, calls
  <1>3. CASE OtherCallback \/ EndCallback \/ PeerCloses
    BY <1>1, <1>3 DEF OtherCallback, EndCallback, PeerCloses, OtherTypes, env, server, calls
  <1>4. CASE ServerRemoves \/ ServerDestroyed
    <2>1. [op |-> "destroyed"] \in Functors
      BY DEF Functors
    <2>2. functors' \in Seq(Functors)
      BY <1>4, <2>1, QueueType DEF ServerRemoves, ServerDestroyed
    <2>3. removals' \in Nat
      BY <1>4 DEF ServerRemoves, ServerDestroyed, OtherTypes
    <2> QED BY <1>1, <1>4, <2>2, <2>3 DEF ServerRemoves, ServerDestroyed, OtherTypes, env, calls
  <1> QED BY <1>2, <1>3, <1>4

LEMMA ConnStep == ConnInv /\ [Next]_vars => ConnInv'
  <1> SUFFICES ASSUME ConnInv, [Next]_vars PROVE ConnInv'
    OBVIOUS
  <1>0. OtherTypes /\ DataInv /\ (OtherTypes' /\ DataInv' => ConnInv')
    BY DEF ConnInv, TypeOK, OtherTypes, DataInv, DataTypes
  <1>1. CASE UNCHANGED vars
    <2>1. DataInv'
      BY <1>0, <1>1, DataUnchanged DEF vars, chan, net, calls
    <2> QED BY <1>0, <1>1, <2>1 DEF vars, OtherTypes, env, server, calls
  <1>2. CASE Step
    BY <1>0, <1>2, RunFunctorStep, RunHandlerStep, CallStep, EnvironmentStep DEF Step
  <1> QED BY <1>0, <1>1, <1>2 DEF Next, Ended

LEMMA ConnAlways == Spec => []ConnInv
  BY ConnInitially, ConnStep, PTL DEF Spec

(* TcpConnection.tla's types, which the order of its bytes needs: output_buffer_, the   *)
(* wire and the functors of the connection's loop stay sequences of bytes and functors. *)
THEOREM ConnTypeCorrect == Spec => []TypeOK
  <1>1. ConnInv => TypeOK
    BY DEF ConnInv
  <1> QED BY <1>1, ConnAlways, PTL

-----------------------------------------------------------------------------
(* What the peer is sent is what SendInLoop took, in order, however write(2) splits *)
(* it and whichever threads send.                                                   *)
THEOREM BytesInOrder == Spec => []WireInOrder
  <1>1. ConnInv => WireInOrder
    BY DEF ConnInv
  <1> QED BY <1>1, ConnAlways, PTL

(* Until the connection goes down, EPOLLOUT is watched exactly while output_buffer_ *)
(* holds bytes.                                                                     *)
THEOREM WritesWhilePending == Spec => []WritingWhilePending
  <1>1. ConnInv => WritingWhilePending
    BY DEF ConnInv
  <1> QED BY <1>1, ConnAlways, PTL

(* FIN goes out behind everything SendInLoop took, whoever calls ShutDown and when. *)
THEOREM FinIsLast == Spec => []FinAfterData
  <1>1. ConnInv => FinAfterData
    BY DEF ConnInv
  <1> QED BY <1>1, ConnAlways, PTL

(* write_complete_callback_ has been scheduled whenever output_buffer_ is empty. *)
THEOREM DrainIsNotified == Spec => []NotifiedWhenDrained
  <1>1. ConnInv => NotifiedWhenDrained
    BY DEF ConnInv
  <1> QED BY <1>1, ConnAlways, PTL

-----------------------------------------------------------------------------
(* The life of a connection *)

NoneEstablishes(q, k) == \A i \in k..Len(q) : q[i].op # "established"

(* Until the functor that establishes it has run, nothing else can have happened to *)
(* the connection; it runs once, since nobody queues it again.                      *)
NotYetEstablished ==
  /\ up = 0 /\ down = 0 /\ index_ = "kNew" /\ events_ = {} /\ todo = {} /\ ~in_callback
  /\ \A th \in Threads : caller[th] = Idle
  /\ functors # <<>> /\ Head(functors).op = "established"
  /\ NoneEstablishes(functors, 2)

EstablishedOnce ==
  /\ state_ = "kConnecting" => NotYetEstablished
  /\ state_ # "kConnecting" => up = 1 /\ NoneEstablishes(functors, 1)

(* Reading is on and a reported channel is registered, until the connection is down. *)
ReadsUntilDown ==
  down = 0 => /\ state_ # "kDisconnected"
              /\ state_ # "kConnecting" => "read" \in events_
              /\ todo # {} => index_ = "kAdded"

(* HandleEventWithGuard calls the close handler or the read handler, never both. *)
ClosesOrReads == ~("close" \in todo /\ "read" \in todo)

(* A connection that is down was reported up and down once, watches nothing, is out of *)
(* epoll's set, and no handler that would close it again is to be called.              *)
IsDown ==
  /\ up = 1 /\ down = 1 /\ state_ = "kDisconnected"
  /\ events_ = {} /\ index_ # "kAdded" /\ todo \cap {"close", "read"} = {}

StaysDown == down > 0 => IsDown \/ overwritten

LifeInv ==
  EstablishedOnce /\ ClosesOrReads /\ StaysDown /\ (~overwritten => ReadsUntilDown)

LEMMA AppendEstablishesNot ==
  ASSUME NEW q \in Seq(Functors), NEW f \in Functors, f.op # "established",
         NEW k \in {1, 2}, NoneEstablishes(q, k)
  PROVE  /\ NoneEstablishes(Append(q, f), k) /\ Append(q, f) # <<>>
         /\ q # <<>> => Head(Append(q, f)) = Head(q)
  <1>1. /\ Append(q, f) \in Seq(Functors) /\ Len(Append(q, f)) = Len(q) + 1 /\ Len(q) \in Nat
        /\ \A i \in 1..Len(q) : Append(q, f)[i] = q[i]
        /\ Append(q, f)[Len(q) + 1] = f
    BY AppendProperties, LenProperties
  <1>2. ASSUME NEW i \in k..Len(Append(q, f))
        PROVE  Append(q, f)[i].op # "established"
    <2>1. i = Len(q) + 1 \/ (i \in 1..Len(q) /\ i \in k..Len(q))
      BY <1>1, <1>2
    <2> QED BY <1>1, <2>1 DEF NoneEstablishes
  <1>3. Append(q, f) # <<>>
    BY <1>1
  <1>4. q # <<>> => Head(Append(q, f)) = Head(q)
    BY <1>1, <1>3, EmptySeq, HeadTailProperties
  <1> QED BY <1>2, <1>3, <1>4 DEF NoneEstablishes

LEMMA TailEstablishesNot ==
  ASSUME NEW q \in Seq(Functors), q # <<>>, NoneEstablishes(q, 2)
  PROVE  NoneEstablishes(Tail(q), 1)
  <1>1. /\ Len(q) \in Nat /\ Len(Tail(q)) = Len(q) - 1
        /\ \A i \in 1..Len(Tail(q)) : Tail(q)[i] = q[i + 1]
    BY HeadTailProperties, LenProperties
  <1>2. \A i \in 1..Len(Tail(q)) : i + 1 \in 2..Len(q)
    BY ONLY <1>1
  <1> QED BY <1>1, <1>2 DEF NoneEstablishes

(* What a step does to the functors, once none establishes the connection. *)
LEMMA FunctorsStep ==
  ASSUME NEW q \in Seq(Functors), NoneEstablishes(q, 1), NEW p,
         \/ p = q
         \/ q # <<>> /\ p = Tail(q)
         \/ \E f \in Functors : f.op # "established" /\ p = Append(q, f)
  PROVE  NoneEstablishes(p, 1)
  <1>1. NoneEstablishes(q, 2)
    BY LenProperties DEF NoneEstablishes
  <1> QED BY <1>1, TailEstablishesNot, AppendEstablishesNot

(* What a loop's step or a call queues is no "established". *)
LEMMA OpsQueued ==
  /\ \A o \in {"shutdown", "writeComplete", "destroyed"} :
       [op |-> o] \in Functors /\ [op |-> o].op # "established"
  /\ \A m \in Messages :
       [op |-> "send", msg |-> m] \in Functors /\ [op |-> "send", msg |-> m].op # "established"
  BY DEF Functors

LEMMA SendRegisters ==
  ASSUME NEW m, SendInLoop(m)
  PROVE  \/ UNCHANGED <<events_, index_>>
         \/ state_ # "kDisconnected" /\ events_' = events_ \cup {"write"} /\ index_' = "kAdded"
  BY DEF SendInLoop, sendvars, BufferRest, SetEvents, GivesUp, chan

(* A step that at most registers the channel of a connection that is not down. *)
LEMMA LifeSends ==
  ASSUME LifeInv, state_ # "kConnecting", NoneEstablishes(functors', 1),
         UNCHANGED <<state_, todo, up, down, overwritten>>,
         \/ UNCHANGED <<events_, index_>>
         \/ state_ # "kDisconnected" /\ events_' = events_ \cup {"write"} /\ index_' = "kAdded"
  PROVE  LifeInv'
  <1>1. EstablishedOnce' /\ ClosesOrReads'
    BY DEF LifeInv, EstablishedOnce, ClosesOrReads
  <1>2. StaysDown'
    BY DEF LifeInv, StaysDown, IsDown
  <1>3. ~overwritten' => ReadsUntilDown'
    BY DEF LifeInv, ReadsUntilDown
  <1> QED BY <1>1, <1>2, <1>3 DEF LifeInv

(* HandleClose, from the close handler or from a read that met the end. *)
LEMMA LifeCloses ==
  ASSUME TypeOK, LifeInv, state_ # "kConnecting", NEW h \in {"close", "read"}, h \in todo,
         todo' = todo \ {h}, HandleClose, UNCHANGED <<functors, up, overwritten>>
  PROVE  LifeInv'
  <1>1. EstablishedOnce' /\ ClosesOrReads'
    BY DEF LifeInv, EstablishedOnce, ClosesOrReads, HandleClose
  <1>2. ~overwritten => down = 0 /\ index_ = "kAdded" /\ down' = 1
    BY DEF LifeInv, StaysDown, IsDown, ReadsUntilDown, HandleClose, TypeOK
  <1>3. todo' \cap {"close", "read"} = {}
    BY DEF LifeInv, ClosesOrReads
  <1>4. StaysDown'
    BY <1>2, <1>3 DEF LifeInv, StaysDown, IsDown, HandleClose, SetEvents, EstablishedOnce
  <1>5. ~overwritten' => ReadsUntilDown'
    BY <1>2 DEF ReadsUntilDown
  <1> QED BY <1>1, <1>4, <1>5 DEF LifeInv

(* A handler that leaves the connection up. *)
LEMMA LifeHandles ==
  ASSUME LifeInv, state_ # "kConnecting", NoneEstablishes(functors', 1), todo' \subseteq todo,
         UNCHANGED <<state_, up, down, overwritten>>,
         \/ UNCHANGED <<events_, index_>>
         \/ "write" \in events_ /\ SetEvents(events_ \ {"write"})
  PROVE  LifeInv'
  <1>1. EstablishedOnce' /\ ClosesOrReads'
    BY DEF LifeInv, EstablishedOnce, ClosesOrReads
  <1>2. StaysDown'
    BY DEF LifeInv, StaysDown, IsDown
  <1>3. ~overwritten' => ReadsUntilDown'
    <2> SUFFICES ASSUME ~overwritten, down = 0
                 PROVE  ReadsUntilDown'
      BY DEF ReadsUntilDown
    <2>1. /\ state_ # "kDisconnected" /\ "read" \in events_ /\ (todo # {} => index_ = "kAdded")
      BY DEF LifeInv, ReadsUntilDown
    <2>2. "read" \in events_' /\ (todo # {} => index_' = "kAdded")
      BY <2>1 DEF SetEvents
    <2> QED BY <2>1, <2>2 DEF ReadsUntilDown
  <1> QED BY <1>1, <1>2, <1>3 DEF LifeInv

LEMMA CallsParts ==
  ASSUME NEW h, Calls(h)
  PROVE  h \in todo /\ todo' = todo \ {h}
  BY Zenon DEF Calls

-----------------------------------------------------------------------------
LEMMA LifeInitially == Init => LifeInv
  <1> SUFFICES ASSUME Init
               PROVE  LifeInv
    OBVIOUS
  <1>1. functors # <<>> /\ Head(functors).op = "established" /\ Len(functors) = 1
    BY DEF Init
  <1>2. NotYetEstablished
    BY <1>1 DEF Init, NotYetEstablished, NoneEstablishes
  <1> QED BY <1>2 DEF Init, LifeInv, EstablishedOnce, ClosesOrReads, StaysDown, ReadsUntilDown

(* Before it is established: the functor that establishes it is at the head. *)
LEMMA LifeBefore ==
  ASSUME ConnInv, LifeInv, Step, state_ = "kConnecting"
  PROVE  LifeInv'
  <1>0. TypeOK /\ NotYetEstablished /\ functors \in Seq(Functors)
    BY DEF ConnInv, LifeInv, EstablishedOnce, TypeOK
  <1>1. CASE ConnectionEstablished
    <2>1. NoneEstablishes(functors', 1)
      BY <1>0, <1>1, TailEstablishesNot DEF ConnectionEstablished, RunHead, NotYetEstablished
    <2>2. /\ state_' = "kConnected" /\ up' = 1 /\ down' = 0 /\ todo' = {} /\ "read" \in events_'
      BY <1>0, <1>1 DEF ConnectionEstablished, NotYetEstablished, SetEvents
    <2> QED BY <2>1, <2>2
            DEF LifeInv, EstablishedOnce, ClosesOrReads, StaysDown, ReadsUntilDown
  <1>2. ASSUME /\ UNCHANGED <<state_, events_, index_, todo, in_callback, up, down, overwritten>>
               /\ \A th \in Threads : caller'[th] = Idle
               /\ \/ UNCHANGED functors
                  \/ functors' = Append(functors, [op |-> "destroyed"])
        PROVE  LifeInv'
    <2>1. /\ functors' # <<>> /\ Head(functors').op = "established"
          /\ NoneEstablishes(functors', 2)
      BY <1>0, <1>2, AppendEstablishesNot, OpsQueued DEF NotYetEstablished
    <2>2. NotYetEstablished'
      BY <1>0, <1>2, <2>1 DEF NotYetEstablished
    <2> QED BY <2>2, <1>2 DEF LifeInv, EstablishedOnce, ClosesOrReads, StaysDown, ReadsUntilDown,
                              NotYetEstablished
  <1>3. ASSUME NEW m \in Messages, NEW th \in Threads, Send_Check(th, m)
        PROVE  LifeInv'
    <2>1. \A t \in Threads : caller'[t] = Idle
      BY <1>0, <1>3 DEF Send_Check, NotYetEstablished, TypeOK
    <2> QED BY <2>1, <1>3, <1>2 DEF Send_Check, chan, calls
  <1>4. CASE PeerCloses \/ ServerRemoves \/ ServerDestroyed
    <2>1. \A t \in Threads : caller'[t] = Idle
      BY <1>0, <1>4 DEF PeerCloses, ServerRemoves, ServerDestroyed, NotYetEstablished
    <2> QED BY <2>1, <1>4, <1>2 DEF PeerCloses, ServerRemoves, ServerDestroyed, chan, calls
  <1>5. ~(RunSend \/ RunShutdown \/ RunWriteComplete \/ ConnectionDestroyed)
    BY <1>0 DEF NotYetEstablished, RunSend, RunShutdown, RunWriteComplete, ConnectionDestroyed,
                RunHead
  <1>6. ~RunHandler
    BY <1>0, CallsParts
       DEF NotYetEstablished, RunHandler, CloseEvent, HandleError, HandleRead, HandleWrite
  <1>7. ~(Dispatch \/ OtherCallback \/ EndCallback \/ ShutDown_Self \/ \E m \in Messages : Send_Self(m))
    BY <1>0 DEF NotYetEstablished, Dispatch, OtherCallback, EndCallback, ShutDown_Self, Send_Self
  <1>8. ~\E th \in Threads :
           Send_Queue(th) \/ ShutDown_Check(th) \/ ShutDown_Set(th) \/ ShutDown_Queue(th)
    <2>1. \A th \in Threads : caller[th].at = "idle"
      BY <1>0 DEF NotYetEstablished, Idle
    <2> QED BY <2>1 DEF Send_Queue, ShutDown_Check, ShutDown_Set, ShutDown_Queue
  <1> QED BY <1>1, <1>3, <1>4, <1>5, <1>6, <1>7, <1>8 DEF Step, RunFunctor

(* Once it is established. *)
LEMMA LifeAfterFunctor ==
  ASSUME ConnInv, LifeInv, RunFunctor, state_ # "kConnecting"
  PROVE  LifeInv'
  <1>0. TypeOK /\ functors \in Seq(Functors) /\ NoneEstablishes(functors, 1)
    BY DEF ConnInv, LifeInv, EstablishedOnce, TypeOK
  <1>t. functors # <<>> /\ functors' = Tail(functors) /\ LoopFree
    BY DEF RunFunctor, RunSend, RunShutdown, RunWriteComplete, ConnectionEstablished,
           ConnectionDestroyed, RunHead
  <1>n. NoneEstablishes(functors', 1)
    BY <1>0, <1>t, FunctorsStep
  <1>1. CASE RunSend
    <2>1. PICK d : SendInLoop(d)
      BY <1>1 DEF RunSend
    <2>2. UNCHANGED <<state_, todo, up, down, overwritten>>
      BY <1>1 DEF RunSend, calls
    <2> QED BY <1>n, <2>1, <2>2, SendRegisters, LifeSends
  <1>2. CASE RunShutdown \/ RunWriteComplete
    <2>1. UNCHANGED <<state_, todo, up, down, overwritten, events_, index_>>
      BY <1>2 DEF RunShutdown, RunWriteComplete, calls, chan
    <2> QED BY <1>n, <2>1, LifeSends
  <1>3. ~ConnectionEstablished
    <2>1. functors[1].op # "established" /\ Head(functors) = functors[1]
      BY <1>0, <1>t, LenProperties, EmptySeq DEF NoneEstablishes
    <2> QED BY <2>1 DEF ConnectionEstablished, RunHead
  <1>4. CASE ConnectionDestroyed
    <2>1. todo = {} /\ todo' = {} /\ index_' = "kNew" /\ UNCHANGED <<up, overwritten>>
      BY <1>4, <1>t DEF ConnectionDestroyed, LoopFree
    <2>2. state_' # "kConnecting" /\ EstablishedOnce' /\ ClosesOrReads'
      BY <1>4, <1>n, <2>1 DEF ConnectionDestroyed, LifeInv, EstablishedOnce, ClosesOrReads
    <2>3. up = 1
      BY DEF LifeInv, EstablishedOnce
    <2>4. CASE state_ = "kConnected"
      <3>1. state_' = "kDisconnected" /\ events_' = {} /\ down' = down + 1
        BY <1>4, <2>4 DEF ConnectionDestroyed
      <3>2. ~overwritten => down = 0
        BY <1>0, <2>4 DEF LifeInv, StaysDown, IsDown, TypeOK
      <3>3. down' # 0
        BY <1>0, <3>1 DEF TypeOK
      <3>4. StaysDown'
        BY <2>1, <2>3, <3>1, <3>2 DEF StaysDown, IsDown
      <3> QED BY <2>2, <3>3, <3>4 DEF LifeInv, ReadsUntilDown
    <2>5. CASE state_ # "kConnected"
      <3>1. UNCHANGED <<state_, events_, down>>
        BY <1>4, <2>5 DEF ConnectionDestroyed
      <3> QED BY <2>1, <2>2, <3>1 DEF LifeInv, StaysDown, IsDown, ReadsUntilDown
    <2> QED BY <2>4, <2>5
  <1> QED BY <1>1, <1>2, <1>3, <1>4 DEF RunFunctor

LEMMA LifeAfterHandler ==
  ASSUME ConnInv, LifeInv, RunHandler, state_ # "kConnecting"
  PROVE  LifeInv'
  <1>0. TypeOK /\ functors \in Seq(Functors) /\ NoneEstablishes(functors, 1)
    BY DEF ConnInv, LifeInv, EstablishedOnce, TypeOK
  <1>1. CASE CloseEvent
    BY <1>0, <1>1, CallsParts, LifeCloses DEF CloseEvent
  <1>2. CASE HandleError
    <2>1. /\ todo' = todo \ {"error"}
          /\ UNCHANGED <<state_, events_, index_, functors, up, down, overwritten>>
      BY <1>2, CallsParts DEF HandleError, chan, calls
    <2> QED BY <1>0, <2>1, LifeHandles
  <1>3. CASE HandleRead
    <2>1. "read" \in todo /\ todo' = todo \ {"read"} /\ UNCHANGED <<functors, up, overwritten>>
      BY <1>3, CallsParts DEF HandleRead
    <2>2. HandleClose \/ UNCHANGED <<state_, events_, index_, down>>
      BY <1>3 DEF HandleRead, chan
    <2> QED BY <1>0, <2>1, <2>2, LifeCloses, LifeHandles
  <1>4. CASE HandleWrite
    <2>1. todo' = todo \ {"write"} /\ UNCHANGED <<state_, up, down, overwritten>>
      BY <1>4, CallsParts DEF HandleWrite, calls
    <2>2. \/ UNCHANGED <<events_, index_, functors>>
          \/ /\ "write" \in events_ /\ SetEvents(events_ \ {"write"})
             /\ functors' = Append(functors, [op |-> "writeComplete"])
      BY <1>4 DEF HandleWrite, Drained, IsWriting, chan
    <2>3. NoneEstablishes(functors', 1)
      BY <1>0, <2>2, FunctorsStep, OpsQueued
    <2> QED BY <2>1, <2>2, <2>3, LifeHandles
  <1> QED BY <1>1, <1>2, <1>3, <1>4 DEF RunHandler

LEMMA LifeAfterCall ==
  ASSUME ConnInv, LifeInv, state_ # "kConnecting", NEW th \in Threads,
         \/ Send_Queue(th) \/ ShutDown_Check(th) \/ ShutDown_Set(th) \/ ShutDown_Queue(th)
         \/ \E m \in Messages : Send_Check(th, m)
  PROVE  LifeInv'
  <1>0. TypeOK /\ functors \in Seq(Functors) /\ NoneEstablishes(functors, 1)
    BY DEF ConnInv, LifeInv, EstablishedOnce, TypeOK
  <1>1. CASE Send_Queue(th)
    <2>1. caller[th] \in Callers
      BY <1>0 DEF TypeOK
    <2>2. caller[th].msg \in Messages
      BY <2>1, <1>1 DEF Send_Queue, Callers
    <2>3. NoneEstablishes(functors', 1)
      BY <1>0, <1>1, <2>2, FunctorsStep, OpsQueued DEF Send_Queue
    <2> QED BY <1>1, <2>3, LifeSends DEF Send_Queue, chan, calls
  <1>2. CASE ShutDown_Queue(th)
    <2>1. NoneEstablishes(functors', 1)
      BY <1>0, <1>2, FunctorsStep, OpsQueued DEF ShutDown_Queue
    <2> QED BY <1>2, <2>1, LifeSends DEF ShutDown_Queue, chan, calls
  <1>3. CASE ShutDown_Check(th) \/ \E m \in Messages : Send_Check(th, m)
    <2>1. UNCHANGED <<state_, todo, up, down, overwritten, events_, index_, functors>>
      BY <1>3 DEF ShutDown_Check, Send_Check, chan, calls
    <2> QED BY <1>0, <2>1, LifeSends
  <1>4. CASE ShutDown_Set(th)
    <2>1. /\ state_' = "kDisconnecting" /\ overwritten' = (overwritten \/ state_ = "kDisconnected")
          /\ UNCHANGED <<todo, up, down, events_, index_, functors>>
      BY <1>4 DEF ShutDown_Set, chan
    <2> QED BY <1>0, <2>1
            DEF LifeInv, EstablishedOnce, ClosesOrReads, StaysDown, IsDown, ReadsUntilDown
  <1> QED BY <1>1, <1>2, <1>3, <1>4

LEMMA LifeAfterRest ==
  ASSUME ConnInv, LifeInv, state_ # "kConnecting",
         \/ Dispatch \/ OtherCallback \/ EndCallback \/ ShutDown_Self
         \/ \E m \in Messages : Send_Self(m)
         \/ PeerCloses \/ ServerRemoves \/ ServerDestroyed
  PROVE  LifeInv'
  <1>0. TypeOK /\ functors \in Seq(Functors) /\ NoneEstablishes(functors, 1)
    BY DEF ConnInv, LifeInv, EstablishedOnce, TypeOK
  <1>1. CASE Dispatch
    <2>1. /\ index_ = "kAdded" /\ ~("close" \in todo' /\ "read" \in todo')
          /\ UNCHANGED <<state_, events_, index_, functors, up, down, overwritten>>
      BY <1>1 DEF Dispatch, chan, calls
    <2> QED BY <2>1
            DEF LifeInv, EstablishedOnce, ClosesOrReads, StaysDown, IsDown, ReadsUntilDown
  <1>2. CASE OtherCallback \/ EndCallback \/ PeerCloses
    <2>1. UNCHANGED <<state_, todo, up, down, overwritten, events_, index_, functors>>
      BY <1>2 DEF OtherCallback, EndCallback, PeerCloses, chan, calls
    <2> QED BY <1>0, <2>1, LifeSends
  <1>3. CASE ServerRemoves \/ ServerDestroyed
    <2>1. /\ UNCHANGED <<state_, todo, up, down, overwritten, events_, index_>>
          /\ functors' = Append(functors, [op |-> "destroyed"])
      BY <1>3 DEF ServerRemoves, ServerDestroyed, chan, calls
    <2>2. NoneEstablishes(functors', 1)
      BY <1>0, <2>1, FunctorsStep, OpsQueued
    <2> QED BY <2>1, <2>2, LifeSends
  <1>4. CASE ShutDown_Self
    <2>1. /\ state_ = "kConnected" /\ state_' = "kDisconnecting"
          /\ UNCHANGED <<todo, up, down, overwritten, events_, index_, functors>>
      BY <1>4 DEF ShutDown_Self, chan, calls
    <2> QED BY <1>0, <2>1
            DEF LifeInv, EstablishedOnce, ClosesOrReads, StaysDown, IsDown, ReadsUntilDown
  <1>5. ASSUME NEW m \in Messages, Send_Self(m)
        PROVE  LifeInv'
    <2>1. UNCHANGED <<state_, todo, up, down, overwritten, functors>>
      BY <1>5 DEF Send_Self, calls
    <2>2. SendInLoop(m) \/ UNCHANGED <<events_, index_>>
      BY <1>5 DEF Send_Self, sendvars
    <2> QED BY <1>0, <2>1, <2>2, SendRegisters, LifeSends
  <1> QED BY <1>1, <1>2, <1>3, <1>4, <1>5

LEMMA LifeStep == ConnInv /\ LifeInv /\ [Next]_vars => LifeInv'
  <1> SUFFICES ASSUME ConnInv, LifeInv, [Next]_vars
               PROVE  LifeInv'
    OBVIOUS
  <1>1. CASE UNCHANGED vars
    BY <1>1 DEF vars, chan, calls, LifeInv, EstablishedOnce, NotYetEstablished, ClosesOrReads,
                StaysDown, IsDown, ReadsUntilDown, NoneEstablishes
  <1>2. CASE Step /\ state_ = "kConnecting"
    BY <1>2, LifeBefore
  <1>3. CASE Step /\ state_ # "kConnecting"
    BY <1>3, LifeAfterFunctor, LifeAfterHandler, LifeAfterCall, LifeAfterRest DEF Step
  <1> QED BY <1>1, <1>2, <1>3 DEF Next, Ended

LEMMA LifeAlways == Spec => [](ConnInv /\ LifeInv)
  BY LifeInitially, LifeStep, ConnAlways, PTL DEF Spec

(* Each connection is reported up once and down at most once, and once down it watches *)
(* nothing and is not in epoll's set, unless a ShutDown of another thread has           *)
(* overwritten kDisconnected: connection_callback_, HandleClose and ConnectionDestroyed *)
(* of tcp_connection.cc.                                                                *)
THEOREM DownIsKept == Spec => []StaysDown
  <1>1. LifeInv => StaysDown
    BY DEF LifeInv
  <1> QED BY <1>1, LifeAlways, PTL

(* A channel that is not registered has no event under way, and its connection is not *)
(* kConnected.                                                                         *)
RemovedInv == index_ = "kNew" => todo = {} /\ state_ # "kConnected"

(* Channel::Update registers a channel that is not. *)
LEMMA UpdateRegisters ==
  ASSUME NEW mask, SetEvents(mask)
  PROVE  index_' # "kNew"
  BY DEF SetEvents

(* The steps of the loop that leave an unregistered channel, and those that register it. *)
LEMMA RemovedFunctor ==
  ASSUME RemovedInv, RunFunctor
  PROVE  RemovedInv'
  <1>1. CASE RunSend
    <2>1. PICK d : SendInLoop(d)
      BY <1>1 DEF RunSend
    <2>2. index_' = "kNew" => index_ = "kNew"
      BY <2>1, SendRegisters
    <2> QED BY <1>1, <2>2 DEF RunSend, RemovedInv
  <1>2. CASE RunShutdown \/ RunWriteComplete
    BY <1>2 DEF RunShutdown, RunWriteComplete, RemovedInv, chan
  <1>3. CASE ConnectionEstablished
    BY <1>3, UpdateRegisters DEF ConnectionEstablished, RemovedInv
  <1>4. CASE ConnectionDestroyed
    BY <1>4 DEF ConnectionDestroyed, RunHead, LoopFree, RemovedInv
  <1> QED BY <1>1, <1>2, <1>3, <1>4 DEF RunFunctor

LEMMA RemovedHandler ==
  ASSUME RemovedInv, RunHandler
  PROVE  RemovedInv' /\ index_ # "kNew"
  <1>1. index_ # "kNew"
    BY CallsParts DEF RemovedInv, RunHandler, CloseEvent, HandleError, HandleRead, HandleWrite
  <1>2. index_' # "kNew"
    BY <1>1, UpdateRegisters DEF RunHandler, CloseEvent, HandleError, HandleRead, HandleWrite,
                                 HandleClose, Drained, chan
  <1> QED BY <1>1, <1>2 DEF RemovedInv

LEMMA RemovedOther ==
  ASSUME RemovedInv, Step, ~RunFunctor, ~RunHandler
  PROVE  RemovedInv' /\ (index_ = "kNew" => index_' = "kNew")
  <1>1. ASSUME NEW m \in Messages, Send_Self(m)
        PROVE  RemovedInv' /\ (index_ = "kNew" => index_' = "kNew")
    <2>1. index_' = "kNew" => index_ = "kNew"
      BY <1>1, SendRegisters DEF Send_Self, sendvars
    <2>2. state_ # "kConnected" => index_' = index_
      BY <1>1 DEF Send_Self, sendvars
    <2> QED BY <1>1, <2>1, <2>2 DEF Send_Self, RemovedInv
  <1>2. CASE Dispatch
    BY <1>2 DEF Dispatch, RemovedInv, chan
  <1>3. CASE \/ OtherCallback \/ EndCallback \/ ShutDown_Self
             \/ PeerCloses \/ ServerRemoves \/ ServerDestroyed
    BY <1>3 DEF OtherCallback, EndCallback, ShutDown_Self, PeerCloses, ServerRemoves,
                ServerDestroyed, RemovedInv, chan
  <1>4. ASSUME NEW th \in Threads,
               \/ Send_Queue(th) \/ ShutDown_Check(th) \/ ShutDown_Set(th) \/ ShutDown_Queue(th)
               \/ \E m \in Messages : Send_Check(th, m)
        PROVE  RemovedInv' /\ (index_ = "kNew" => index_' = "kNew")
    BY <1>4 DEF Send_Queue, ShutDown_Check, ShutDown_Set, ShutDown_Queue, Send_Check, RemovedInv,
                chan
  <1> QED BY <1>1, <1>2, <1>3, <1>4 DEF Step

LEMMA RemovedAlways == Spec => []RemovedInv
  <1>1. Init => RemovedInv
    BY DEF Init, RemovedInv
  <1>2. RemovedInv /\ [Next]_vars => RemovedInv'
    <2> SUFFICES ASSUME RemovedInv, [Next]_vars PROVE RemovedInv'
      OBVIOUS
    <2>1. CASE UNCHANGED vars
      BY <2>1 DEF vars, chan, RemovedInv
    <2>2. CASE Step
      BY <2>2, RemovedFunctor, RemovedHandler, RemovedOther
    <2> QED BY <2>1, <2>2 DEF Next, Ended
  <1> QED BY <1>1, <1>2, PTL DEF Spec

(* A channel that ConnectionDestroyed has taken out of the poller is registered again  *)
(* only by a SendInLoop that was queued before, and only if that finds kDisconnecting:  *)
(* either ~TcpServer destroyed a connection that was being shut down and never reported *)
(* it down, or a late ShutDown has overwritten kDisconnected.  In every other case the  *)
(* test of state_ at the head of SendInLoop keeps it out.                               *)
RegisteredAgainBySend ==
  [][up > 0 /\ index_ = "kNew" /\ index_' # "kNew" =>
       RunSend /\ state_ = "kDisconnecting" /\ (down = 0 \/ overwritten)]_vars

(* No handler, no Send of the loop's own thread and no second ConnectionEstablished can *)
(* register a removed channel; what SendInLoop can do to it is said in full.  For a      *)
(* connection that was reported down this is the safety part of DownIsFinal.             *)
THEOREM OnlySendRegistersAgain == Spec => RegisteredAgainBySend
  <1>1. ASSUME ConnInv, LifeInv, RemovedInv, [Next]_vars
        PROVE  [up > 0 /\ index_ = "kNew" /\ index_' # "kNew" =>
                  RunSend /\ state_ = "kDisconnecting" /\ (down = 0 \/ overwritten)]_vars
    <2> SUFFICES ASSUME Step, up > 0, index_ = "kNew", index_' # "kNew"
                 PROVE  RunSend /\ state_ = "kDisconnecting" /\ (down = 0 \/ overwritten)
      BY <1>1 DEF Next, Ended
    <2>0. /\ state_ \in States /\ functors \in Seq(Functors) /\ up \in Nat /\ down \in Nat
      BY <1>1 DEF ConnInv, TypeOK
    <2>1. state_ # "kConnecting" /\ NoneEstablishes(functors, 1)
      BY <1>1, <2>0 DEF LifeInv, EstablishedOnce, NotYetEstablished
    <2>2. RunFunctor
      BY <1>1, RemovedHandler, RemovedOther
    <2>3. ~ConnectionEstablished
      <3>1. functors # <<>> => functors[1].op # "established" /\ Head(functors) = functors[1]
        BY <2>0, <2>1, LenProperties, EmptySeq DEF NoneEstablishes
      <3> QED BY <3>1 DEF ConnectionEstablished, RunHead
    <2>4. RunSend
      BY <2>2, <2>3 DEF RunFunctor, RunShutdown, RunWriteComplete, ConnectionDestroyed, chan
    <2>5. state_ # "kDisconnected"
      BY <2>4, SendRegisters DEF RunSend
    <2>6. state_ = "kDisconnecting"
      BY <1>1, <2>0, <2>1, <2>5 DEF RemovedInv, States
    <2>7. down > 0 => overwritten
      BY <1>1, <2>5 DEF LifeInv, StaysDown, IsDown
    <2> QED BY <2>0, <2>4, <2>6, <2>7
  <1> QED BY <1>1, LifeAlways, RemovedAlways, PTL DEF Spec, RegisteredAgainBySend
=============================================================================
