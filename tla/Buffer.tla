------------------------------- MODULE Buffer --------------------------------
(***************************************************************************)
(* The growable byte buffer of a connection (src/include/buffer.h,         *)
(* src/src/buffer.cc): a vector and two indices into it.  It must behave   *)
(* as a first-in first-out queue of bytes through in-place appends,        *)
(* compaction, growth, resets, and readv's overflow area.                  *)
(*                                                                         *)
(* A buffer is a record of its vector and indices, and its methods are     *)
(* operators from records to records.  The k-th byte ever put in is the    *)
(* number k, and 0 is a cell never written.                                *)
(***************************************************************************)
EXTENDS Naturals, Sequences

CONSTANTS
  kCheapPrepend, kInitialSize,
  ExtraLen,       \* sizeof extrabuf in ReadFd
  MaxBytes        \* bound: bytes put in during a behaviour

ASSUME SizesAssumption ==
  /\ kCheapPrepend \in Nat /\ kInitialSize \in Nat \ {0}
  /\ ExtraLen \in Nat \ {0} /\ MaxBytes \in Nat

VARIABLES buf,           \* [buffer_, read_index_, write_index_]
          put, taken,    \* history: bytes put in, bytes taken out
          peak           \* history: the most bytes ever held at once

bufferVars == <<buf, put, taken, peak>>

(* With the diagram at buffer.h:13-18: the prepend area is never given away, and *)
(* kCheapPrepend <= read_index_ <= write_index_ <= size.                          *)
BufferTypeOK ==
  /\ buf \in [buffer_ : Seq(0..MaxBytes), read_index_ : Nat, write_index_ : Nat]
  /\ kCheapPrepend <= buf.read_index_ /\ buf.read_index_ <= buf.write_index_
  /\ buf.write_index_ <= Len(buf.buffer_)
  /\ put \in 0..MaxBytes /\ taken \in 0..put /\ peak \in 0..put

Zeros(n) == [i \in 1..n |-> 0]

BufferInit ==
  /\ buf = [buffer_ |-> Zeros(kCheapPrepend + kInitialSize),
            read_index_ |-> kCheapPrepend, write_index_ |-> kCheapPrepend]
  /\ put = 0 /\ taken = 0 /\ peak = 0

-----------------------------------------------------------------------------
ReadableBytes(b)    == b.write_index_ - b.read_index_
WriteableBytes(b)   == Len(b.buffer_) - b.write_index_
PrependableBytes(b) == b.read_index_

(* The bytes at BeginRead(), in order. *)
Readable(b) == SubSeq(b.buffer_, b.read_index_ + 1, b.write_index_)

(* Neither end of the vector, nor both together, has room for len more bytes. *)
TooSmall(b, len) == WriteableBytes(b) + PrependableBytes(b) < len + kCheapPrepend

(* resize(write_index_ + len) *)
Grow_Double(b, len) ==
  [b EXCEPT !.buffer_ = @ \o Zeros(2 * (b.write_index_ + len) - Len(@))]
Grow(b, len) == [b EXCEPT !.buffer_ = @ \o Zeros(b.write_index_ + len - Len(@))]

(* Move the readable bytes to the front. *)
Compact(b) ==
  LET readable == ReadableBytes(b) IN
  [buffer_ |-> [i \in 1..Len(b.buffer_) |->
                  IF i \in (kCheapPrepend + 1)..(kCheapPrepend + readable)
                  THEN b.buffer_[i - kCheapPrepend + b.read_index_] ELSE b.buffer_[i]],
   read_index_ |-> kCheapPrepend, write_index_ |-> kCheapPrepend + readable]

MakeSpace(b, len) == IF TooSmall(b, len) THEN Grow(b, len) ELSE Compact(b)
EnsureWriteableBytes(b, len) == IF WriteableBytes(b) < len THEN MakeSpace(b, len) ELSE b

(* len new bytes, the first of them number from, copied to BeginWrite(). *)
Fill(b, len, from) ==
  LET w == b.write_index_ IN
  [b EXCEPT !.buffer_ = [i \in 1..Len(@) |-> IF i \in (w + 1)..(w + len)
                                             THEN from + (i - w - 1) ELSE @[i]],
            !.write_index_ = w + len]

AppendBytes(b, len, from) == Fill(EnsureWriteableBytes(b, len), len, from)

Retrive(b, len) ==
  IF len < ReadableBytes(b)
  THEN [b EXCEPT !.read_index_ = @ + len]
  ELSE [b EXCEPT !.read_index_ = kCheapPrepend, !.write_index_ = kCheapPrepend]

(* readv fills the writeable part and then extrabuf, which it is given only when *)
(* the writeable part is the smaller; what is in extrabuf is then appended.      *)
ReadLimit(b) ==
  IF WriteableBytes(b) < ExtraLen THEN WriteableBytes(b) + ExtraLen ELSE WriteableBytes(b)

ReadInto_RestFirst(b, n, from) ==
  IF n <= WriteableBytes(b) THEN Fill(b, n, from)
  ELSE LET here == WriteableBytes(b)
       IN  AppendBytes(Fill(b, here, from + n - here), n - here, from)

ReadInto(b, n, from) ==
  IF n <= WriteableBytes(b) THEN Fill(b, n, from)
  ELSE LET here == WriteableBytes(b)
       IN  AppendBytes(Fill(b, here, from), n - here, from + here)

-----------------------------------------------------------------------------
(* The buffer in use. *)

Counted(n) ==
  /\ put' = put + n
  /\ peak' = IF peak < put' - taken THEN put' - taken ELSE peak
  /\ UNCHANGED taken

Append_(len) ==
  /\ put + len <= MaxBytes
  /\ buf' = AppendBytes(buf, len, put + 1)
  /\ Counted(len)

ReadFd(n) ==
  /\ put + n <= MaxBytes /\ n <= ReadLimit(buf)
  /\ buf' = ReadInto(buf, n, put + 1)
  /\ Counted(n)

(* Retrive, RetriveAsString and, with everything, RetriveAll; also what follows a *)
(* WriteFd that wrote len bytes.                                                  *)
Take(len) ==
  /\ len <= ReadableBytes(buf)
  /\ buf' = Retrive(buf, len)
  /\ taken' = taken + len
  /\ UNCHANGED <<put, peak>>

BufferNext == \E n \in 1..MaxBytes : Append_(n) \/ ReadFd(n) \/ Take(n)

BufferSpec == BufferInit /\ [][BufferNext]_bufferVars

-----------------------------------------------------------------------------
(* Properties *)

(* What can be read is what was put in and not taken out, in order: no byte is  *)
(* lost or overwritten by compaction, growth, a reset or the overflow area.     *)
HoldsQueue == Readable(buf) = [i \in 1..(put - taken) |-> taken + i]

(* The vector is never larger than its first size or than the prepend area and  *)
(* twice the most bytes it ever had to hold.                                    *)
SizeBounded ==
  \/ Len(buf.buffer_) <= kCheapPrepend + kInitialSize
  \/ Len(buf.buffer_) <= kCheapPrepend + 2 * peak
=============================================================================
