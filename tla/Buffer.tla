------------------------------- MODULE Buffer -------------------------------
(***************************************************************************)
(* potato/net/Buffer.{h,cpp}: one vector of bytes with a read and a write   *)
(* index, used as the read buffer and the write buffer of a TcpConnection.  *)
(* Byte i of buf_ in the code (0-based) is buf[i + 1] here.                 *)
(***************************************************************************)
EXTENDS Integers, Sequences

CONSTANTS Byte,         \* the bytes users write
          Zero,         \* what resize fills new room with
          InitialSize,  \* Buffer(): buf_(4096)
          ReadRoom,     \* the 4096 of handleReadEvent: room wanted for a read
          MaxWrite,     \* bound: bytes put in by one operation
          MaxReadable   \* bound: bytes in the buffer

ASSUME BufferAssumption ==
  /\ InitialSize \in Nat \ {0}
  /\ ReadRoom \in 1 .. InitialSize
  /\ MaxWrite \in Nat
  /\ MaxReadable \in Nat

VARIABLES buffer,  \* [buf, read, write]: buf_, curReadIndex_, curWriteIndex_
          io,      \* the last operation and the bytes that went in or out
          peak,    \* history: the most readable bytes ever held
          written  \* history: write has been used

vars == <<buffer, io, peak, written>>

Cell == Byte \cup {Zero}

MaxOf(a, b) == IF a >= b THEN a ELSE b

-----------------------------------------------------------------------------
(* The private state and its queries.                                       *)

WriteableBytes(b) == Len(b.buf) - b.write

ReadableBytes(b) == b.write - b.read

\* What readAsSlice shows.
Contents(b) == SubSeq(b.buf, b.read + 1, b.write)

\* Variant: the indices move and the bytes stay.
ExpandBufferWithoutCopy(b, len) ==
  IF WriteableBytes(b) + b.read > len
    THEN [b EXCEPT !.read = 0, !.write = ReadableBytes(b)]
    ELSE [b EXCEPT !.buf = @ \o [i \in 1 .. len |-> Zero]]

\* Variant: always grow, never move.
ExpandBufferByGrowing(b, len) ==
  [b EXCEPT !.buf = @ \o [i \in 1 .. len |-> Zero]]

\* Move the readable bytes to the front if that frees more than len bytes,
\* otherwise make the vector len longer and leave them where they are.
ExpandBuffer(b, len) ==
  IF WriteableBytes(b) + b.read > len
    THEN [buf |-> [i \in 1 .. Len(b.buf) |->
                     IF i <= ReadableBytes(b) THEN b.buf[b.read + i]
                                              ELSE b.buf[i]],
          read |-> 0,
          write |-> ReadableBytes(b)]
    ELSE [b EXCEPT !.buf = @ \o [i \in 1 .. len |-> Zero]]

\* std::copy to beginWrite() and the advance of curWriteIndex_.
Store(b, s) ==
  [b EXCEPT !.buf = [i \in 1 .. Len(b.buf) |->
                       IF i \in b.write + 1 .. b.write + Len(s)
                         THEN s[i - b.write] ELSE b.buf[i]],
            !.write = @ + Len(s)]

\* Variant: the room is one byte less than believed.
WrittenOffByOne(b, s) ==
  Store(IF Len(s) > WriteableBytes(b) + 1 THEN ExpandBuffer(b, Len(s)) ELSE b, s)

\* write: expandBuffer if the room falls short, then the copy.
Written(b, s) ==
  Store(IF Len(s) > WriteableBytes(b) THEN ExpandBuffer(b, Len(s)) ELSE b, s)

\* retrieve(size_t), whose assert(len <= readableBytes()) the guards below
\* stand for.
Retrieved(b, n) ==
  IF n = ReadableBytes(b) THEN [b EXCEPT !.read = 0, !.write = 0]
                          ELSE [b EXCEPT !.read = @ + n]

-----------------------------------------------------------------------------
Init ==
  /\ buffer = [buf |-> [i \in 1 .. InitialSize |-> Zero], read |-> 0, write |-> 0]
  /\ io = [op |-> "none", data |-> <<>>]
  /\ peak = 0
  /\ written = FALSE

\* What the users put in at once.
Inputs == UNION {[1 .. n -> Byte] : n \in 0 .. MaxWrite}

Put(b, s) ==
  /\ buffer' = b
  /\ io' = [op |-> "put", data |-> s]
  /\ peak' = MaxOf(peak, ReadableBytes(b))

\* write(const char *, size_t), and write of a slice and of the three integer
\* widths through it.
Write(s) ==
  /\ ReadableBytes(buffer) + Len(s) <= MaxReadable
  /\ Put(Written(buffer, s), s)
  /\ written' = TRUE

\* Variant: the room is restored only when it is used up.
ReceiveUntilFull(s) ==
  /\ s # <<>>
  /\ Len(s) <= WriteableBytes(buffer)
  /\ ReadableBytes(buffer) + Len(s) <= MaxReadable
  /\ LET b == Store(buffer, s) IN
       Put(IF WriteableBytes(b) = 0 THEN ExpandBuffer(b, ReadRoom) ELSE b, s)
  /\ UNCHANGED written

\* handleReadEvent's use of its read buffer: the kernel fills part of the free
\* room, hasWritten claims it and expandBuffer restores the room.
Receive(s) ==
  /\ s # <<>>
  /\ Len(s) <= WriteableBytes(buffer)
  /\ ReadableBytes(buffer) + Len(s) <= MaxReadable
  /\ LET b == Store(buffer, s) IN
       Put(IF WriteableBytes(b) < ReadRoom THEN ExpandBuffer(b, ReadRoom) ELSE b, s)
  /\ UNCHANGED written

\* retrieve(char *, size_t), retrieveAllAsString and the integer retrievals:
\* the oldest n bytes are read and dropped.
Retrieve(n) ==
  /\ n <= ReadableBytes(buffer)
  /\ buffer' = Retrieved(buffer, n)
  /\ io' = [op |-> "take", data |-> SubSeq(buffer.buf, buffer.read + 1, buffer.read + n)]
  /\ UNCHANGED <<peak, written>>

Next ==
  \/ \E s \in Inputs : Write(s) \/ Receive(s)
  \/ \E n \in 0 .. ReadableBytes(buffer) : Retrieve(n)

Spec == Init /\ [][Next]_vars

-----------------------------------------------------------------------------
\* The indices of a buffer stay ordered and inside the vector.
TypeOK ==
  /\ buffer \in [buf : Seq(Cell), read : Nat, write : Nat]
  /\ buffer.read <= buffer.write
  /\ buffer.write <= Len(buffer.buf)
  /\ io \in [op : {"none", "put", "take"}, data : Seq(Cell)]
  /\ peak \in Nat
  /\ written \in BOOLEAN

\* The readable bytes of the vector, across every mix of moving, growing and
\* index resets, are the bytes put in and not yet taken out, in that order.
Queue == INSTANCE ByteQueue WITH bytes <- Contents(buffer)

\* What goes in comes out, see ByteQueue.
ImplementsByteQueue == Queue!Spec

\* The vector never outgrows its use: expandBuffer grows it only when moving
\* would not do, so its size is bounded by the most bytes it ever held - twice
\* that for write, that and two rooms for handleReadEvent - however long the
\* connection lives and however its reads and writes interleave.
BoundedMemory ==
  \/ Len(buffer.buf) <= InitialSize
  \/ Len(buffer.buf) <= 2 * peak
  \/ Len(buffer.buf) <= peak + 2 * ReadRoom

\* An emptied buffer has its whole vector to write to, whatever was retrieved
\* in which portions: the room does not creep away with the read index.
EmptyIsReset ==
  ReadableBytes(buffer) = 0 => WriteableBytes(buffer) = Len(buffer.buf)

\* handleReadEvent never calls read(2) without room: a read of zero bytes
\* would return 0, which it takes for the peer's FIN, and close the connection.
\* The read buffer of a connection is one only handleReadEvent fills.
RoomToRead == ~written => WriteableBytes(buffer) >= ReadRoom
=============================================================================
