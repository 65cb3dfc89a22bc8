-------------------------------- MODULE Endian --------------------------------
(***************************************************************************)
(* potato/utils/Endian.h and the integers of potato/net/Buffer.cpp.  A byte *)
(* is a digit below Radix, and an integer of Width bytes lies in memory as  *)
(* the sequence of its digits, in the order of the host.                    *)
(***************************************************************************)
EXTENDS Integers, Sequences, SequencesExt

CONSTANTS Radix,  \* 256 in the code
          Widths  \* {4, 8} in the code

ASSUME EndianAssumption ==
  /\ Radix \in {2 * n : n \in 1 .. 128}
  /\ Widths \subseteq 1 .. 8

\* How many values n bytes have.
Power[n \in 0 .. 8] == IF n = 0 THEN 1 ELSE Radix * Power[n - 1]
Capacity(n) == Power[n]

\* The memory of unsigned value v, and the value of memory m, on a host that
\* puts the least significant byte first or last.
Memory(v, width, littleEndian) ==
  LET digits == [i \in 1 .. width |-> (v \div Capacity(i - 1)) % Radix]
  IN  IF littleEndian THEN digits ELSE Reverse(digits)

Value(m, littleEndian) ==
  LET digits == IF littleEndian THEN m ELSE Reverse(m)
      sum[n \in 0 .. Len(m)] ==
        IF n = 0 THEN 0 ELSE sum[n - 1] + digits[n] * Capacity(n - 1)
  IN  sum[Len(m)]

\* static_cast between the signed and the unsigned integer of a width.
ToUnsigned(v, width) == v % Capacity(width)
ToSigned(v, width) ==
  IF 2 * v >= Capacity(width) THEN v - Capacity(width) ELSE v

\* hostToNetwork32 and 64, htobe: the bytes change places on a little-endian
\* host.
HostToNetwork(v, width, littleEndian) ==
  IF littleEndian THEN Value(Reverse(Memory(v, width, TRUE)), TRUE) ELSE v

\* Variant: the bytes are left as they came.
NetworkToHostUnchanged(v, width, littleEndian) == v

\* networkToHost32 and 64, betoh.
NetworkToHost(v, width, littleEndian) ==
  IF littleEndian THEN Value(Reverse(Memory(v, width, TRUE)), TRUE) ELSE v

\* writeInt32, writeInt64 and writeUint64: the bytes that go into the buffer.
WriteInt(v, width, littleEndian) ==
  LET big == HostToNetwork(ToUnsigned(v, width), width, littleEndian)
  IN  Memory(big, width, littleEndian)

\* readUint64, and the unsigned half of readInt32 and readInt64.
ReadUint(bytes, littleEndian) ==
  NetworkToHost(Value(bytes, littleEndian), Len(bytes), littleEndian)

\* readInt32 and readInt64.
ReadInt(bytes, littleEndian) ==
  ToSigned(ReadUint(bytes, littleEndian), Len(bytes))

\* retrieveInt32, retrieveInt64 and retrieveUint64: the integer at the front of
\* the readable bytes, signed and unsigned, and what is left of them.
Retrieve(bytes, width, littleEndian) ==
  LET front == SubSeq(bytes, 1, width)
  IN  [signed   |-> ReadInt(front, littleEndian),
       unsigned |-> ReadUint(front, littleEndian),
       rest     |-> SubSeq(bytes, width + 1, Len(bytes))]
=============================================================================
