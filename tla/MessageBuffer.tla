---------------------------- MODULE MessageBuffer ----------------------------
(***************************************************************************)
(* MessageBuffer (src/netpoll/util/message_buffer.{h,cc}): the byte queue   *)
(* of every connection.  A vector with a reserved area in front, a head and *)
(* a tail; data is added at both ends and removed from the front.          *)
(*                                                                         *)
(* A byte is a number below Radix (256 in the code).  The bytes outside the *)
(* head and the tail are not data and read 0.  A buffer is created with a  *)
(* capacity of at least Offset, as every caller does: below it retrieveAll  *)
(* would shrink the vector to less than the head.                          *)
(***************************************************************************)
EXTENDS Integers, SequencesExt

CONSTANTS Offset,   \* kBufferOffset: 8
          Caps,     \* initial capacities
          Radix,    \* values of a byte
          Widths,   \* the widths of the integers, in bytes: 1, 2, 4, 8
          ExtBuffer,\* the size of extBuffer in readFd: 8192
          MaxText   \* bound: bytes in the buffer

VARIABLES b,     \* the buffer
          text,  \* the data it should hold
          ok     \* everything read from it so far was what it should be

bvars == <<b, text, ok>>

Messages == {s \in BoundedSeq(1..(Radix - 1), 3) : s # <<>>}

New(len) == [head |-> Offset, tail |-> Offset, initCap |-> len, buf |-> [i \in 1..(len + Offset) |-> 0]]

readableBytes(x) == x.tail - x.head

writableBytes(x) == Len(x.buf) - x.tail

peek(x) == SubSeq(x.buf, x.head + 1, x.tail)

(* memcpy or std::copy of s to the address at *)
Copy(x, s, at) ==
  [x EXCEPT !.buf = [i \in DOMAIN @ |-> IF i - at \in 1..Len(s) THEN s[i - at] ELSE @[i]]]

(* Only the bytes from head to tail are data. *)
Clean(x) == [x EXCEPT !.buf = [i \in DOMAIN @ |-> IF i \in (x.head + 1)..x.tail THEN @[i] ELSE 0]]

(* A new buffer holding s, which fits it. *)
Filled(len, s) == [Copy(New(len), s, Offset) EXCEPT !.tail = Offset + Len(s)]

LargerOf(m, n) == IF m > n THEN m ELSE n

(* Mutant: the test for moving the data forgets the reserved area. *)
ensureWritableBytesNoOffset(x, len) ==
  IF writableBytes(x) >= len THEN x
  ELSE IF x.head + writableBytes(x) >= len
    THEN [Copy(x, peek(x), Offset) EXCEPT !.head = Offset, !.tail = Offset + readableBytes(x)]
  ELSE Filled(LargerOf(2 * Len(x.buf), Offset + readableBytes(x) + len), peek(x))

ensureWritableBytes(x, len) ==
  IF writableBytes(x) >= len THEN x
  ELSE IF x.head + writableBytes(x) >= len + Offset
    THEN [Copy(x, peek(x), Offset) EXCEPT !.head = Offset, !.tail = Offset + readableBytes(x)]
  ELSE Filled(LargerOf(2 * Len(x.buf), Offset + readableBytes(x) + len), peek(x))

hasWritten(x, len) == [x EXCEPT !.tail = @ + len]

pushBack(x, s) ==
  LET y == ensureWritableBytes(x, Len(s)) IN hasWritten(Copy(y, s, y.tail), Len(s))

pushFront(x, s) ==
  IF x.head >= Len(s) THEN [Copy(x, s, x.head - Len(s)) EXCEPT !.head = @ - Len(s)]
  ELSE IF Len(s) <= writableBytes(x)
    THEN hasWritten(Copy(Copy(x, peek(x), x.head + Len(s)), s, x.head), Len(s))
  ELSE pushBack(pushBack(New(LargerOf(x.initCap, Len(s) + readableBytes(x))), s), peek(x))

(* std::vector::resize *)
Resize(s, n) == [i \in 1..n |-> IF i <= Len(s) THEN s[i] ELSE 0]

retrieveAll(x) ==
  [x EXCEPT !.buf = IF Len(@) > 2 * x.initCap THEN Resize(@, x.initCap) ELSE @, !.head = Offset, !.tail = Offset]

retrieve(x, len) == IF len >= readableBytes(x) THEN retrieveAll(x) ELSE [x EXCEPT !.head = @ + len]

unwrite(x, len) == [x EXCEPT !.tail = @ - len]

(* readv into the free part and extBuffer: s is what the kernel delivered. *)
readFd(x, s) ==
  LET n == writableBytes(x) IN
  IF Len(s) <= n THEN hasWritten(Copy(x, s, x.tail), Len(s))
  ELSE pushBack([Copy(x, SubSeq(s, 1, n), x.tail) EXCEPT !.tail = Len(x.buf)], SubSeq(s, n + 1, Len(s)))

(* Most readFd can take: extBuffer is used only when the free part is smaller. *)
ReadLimit(x) == writableBytes(x) + (IF writableBytes(x) < ExtBuffer THEN ExtBuffer ELSE 0)

(* hton: most significant byte first; ntoh reads it back. *)
Hton(i, n) == [k \in 1..n |-> (i \div (Radix ^ (n - k))) % Radix]

Ntoh(s) == FoldLeft(LAMBDA acc, d : Radix * acc + d, 0, s)

peekInt(x, n) == Ntoh(SubSeq(peek(x), 1, n))

-----------------------------------------------------------------------------

Init == (\E len \in Caps : b = New(len)) /\ text = <<>> /\ ok = TRUE

Fits(n) == Len(text) + n <= MaxText

PushBack(s) == Fits(Len(s)) /\ b' = Clean(pushBack(b, s)) /\ text' = text \o s /\ UNCHANGED ok

PushFront(s) == Fits(Len(s)) /\ b' = Clean(pushFront(b, s)) /\ text' = s \o text /\ UNCHANGED ok

PushBackInt(i, n) == Fits(n) /\ b' = Clean(pushBack(b, Hton(i, n))) /\ text' = text \o Hton(i, n) /\ UNCHANGED ok

PushFrontInt(i, n) == Fits(n) /\ b' = Clean(pushFront(b, Hton(i, n))) /\ text' = Hton(i, n) \o text /\ UNCHANGED ok

ReadFd(s) ==
  /\ Fits(Len(s)) /\ Len(s) <= ReadLimit(b)
  /\ b' = Clean(readFd(b, s)) /\ text' = text \o s /\ UNCHANGED ok

(* read(len) takes what there is when it is less. *)
Read(len) ==
  LET n == IF len > readableBytes(b) THEN readableBytes(b) ELSE len IN
  /\ ok' = (ok /\ SubSeq(peek(b), 1, n) = SubSeq(text, 1, n))
  /\ b' = Clean(retrieve(b, n)) /\ text' = SubSeq(text, n + 1, Len(text))

(* peekIntN asserts that the bytes are there. *)
ReadInt(n) ==
  /\ readableBytes(b) >= n
  /\ ok' = (ok /\ Hton(peekInt(b, n), n) = SubSeq(text, 1, n))
  /\ b' = Clean(retrieve(b, n)) /\ text' = SubSeq(text, n + 1, Len(text))

RetrieveAll == b' = Clean(retrieveAll(b)) /\ text' = <<>> /\ UNCHANGED ok

Unwrite(len) ==
  /\ readableBytes(b) >= len
  /\ b' = Clean(unwrite(b, len)) /\ text' = SubSeq(text, 1, Len(text) - len) /\ UNCHANGED ok

Next ==
  \/ \E s \in Messages : PushBack(s) \/ PushFront(s) \/ ReadFd(s)
  \/ \E n \in Widths : ReadInt(n) \/ \E i \in 0..(Radix ^ n - 1) : PushBackInt(i, n) \/ PushFrontInt(i, n)
  \/ \E len \in 0..MaxText : Read(len) \/ Unwrite(len)
  \/ RetrieveAll

Spec == Init /\ [][Next]_bvars

-----------------------------------------------------------------------------

(* Whatever was moved, reallocated or written into the reserved area, the  *)
(* buffer holds exactly the data that was added at either end and not read, *)
(* in order, inside the vector; what was read, as bytes or as integers, was *)
(* what had been written.                                                  *)
BufferIsDeque ==
  /\ b.head <= b.tail /\ b.tail <= Len(b.buf)
  /\ peek(b) = text /\ ok
=============================================================================
