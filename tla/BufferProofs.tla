---------------------------- MODULE BufferProofs ----------------------------
(***************************************************************************)
(* Theorems about Buffer, for every initial size, every room for reads and  *)
(* every bound: the vector holds the byte queue, stays within its memory    *)
(* bound, and a read buffer always has room for the next read(2).           *)
(***************************************************************************)
EXTENDS Buffer, SequenceTheorems, TLAPS

\* The indices of b are ordered and inside its vector.
Valid(b) == /\ b \in [buf : Seq(Cell), read : Nat, write : Nat]
            /\ b.read <= b.write
            /\ b.write <= Len(b.buf)

-----------------------------------------------------------------------------
(* The operators on the private state.                                      *)

\* The n elements that follow the first m ones: what a copy of n bytes from
\* index m of the vector reads.
LEMMA Portion ==
  ASSUME NEW S, NEW s \in Seq(S), NEW m \in Nat, NEW n \in Nat,
         m + n <= Len(s)
  PROVE  /\ SubSeq(s, m + 1, m + n) \in Seq(S)
         /\ Len(SubSeq(s, m + 1, m + n)) = n
         /\ \A i \in 1 .. n : SubSeq(s, m + 1, m + n)[i] = s[m + i]
<1> DEFINE first == m + 1
           last == m + n
<1>1. Len(s) \in Nat
  BY LenProperties
<1>2. first \in Int /\ last \in Int
  OBVIOUS
<1>3. \A i \in first .. last : s[i] \in S
  BY <1>1, ElementOfSeq
<1>4. /\ last - first + 1 = n
      /\ (IF first <= last THEN last - first + 1 ELSE 0) = n
      /\ \A i \in 1 .. n : first + i - 1 = m + i
  OBVIOUS
<1> HIDE DEF first, last
<1>5. /\ SubSeq(s, first, last) \in Seq(S)
      /\ Len(SubSeq(s, first, last))
           = IF first <= last THEN last - first + 1 ELSE 0
      /\ \A i \in 1 .. last - first + 1 :
           SubSeq(s, first, last)[i] = s[first + i - 1]
  BY <1>2, <1>3, SubSeqProperties
<1> QED
  BY <1>4, <1>5 DEF first, last

\* A buffer with other indices is a buffer.
LEMMA IndicesMove ==
  ASSUME NEW S, NEW b \in [buf : S, read : Nat, write : Nat],
         NEW read \in Nat, NEW write \in Nat
  PROVE  [b EXCEPT !.read = read, !.write = write]
           \in [buf : S, read : Nat, write : Nat]
OBVIOUS

\* What a valid buffer shows and has room for.
LEMMA ContentsOf ==
  ASSUME NEW b, Valid(b)
  PROVE  /\ Contents(b) \in Seq(Cell)
         /\ Len(Contents(b)) = ReadableBytes(b)
         /\ \A i \in 1 .. ReadableBytes(b) : Contents(b)[i] = b.buf[b.read + i]
         /\ ReadableBytes(b) \in Nat
         /\ WriteableBytes(b) \in Nat
         /\ Len(b.buf) \in Nat
         /\ Len(b.buf) = b.read + ReadableBytes(b) + WriteableBytes(b)
<1>1. /\ b.buf \in Seq(Cell)
      /\ b.read \in Nat /\ b.write \in Nat /\ Len(b.buf) \in Nat
      /\ b.read <= b.write /\ b.write <= Len(b.buf)
  BY LenProperties DEF Valid
<1>2. /\ ReadableBytes(b) \in Nat
      /\ b.read + ReadableBytes(b) = b.write
  BY <1>1 DEF ReadableBytes
<1>3. /\ Contents(b) \in Seq(Cell)
      /\ Len(Contents(b)) = ReadableBytes(b)
      /\ \A i \in 1 .. ReadableBytes(b) : Contents(b)[i] = b.buf[b.read + i]
  <2> DEFINE buf == b.buf
             first == b.read
             k == ReadableBytes(b)
  <2>1. /\ buf \in Seq(Cell) /\ first \in Nat /\ k \in Nat
        /\ first + k <= Len(buf)
        /\ first + k = b.write
    BY <1>1, <1>2
  <2> HIDE DEF buf, first, k
  <2>2. /\ SubSeq(buf, first + 1, first + k) \in Seq(Cell)
        /\ Len(SubSeq(buf, first + 1, first + k)) = k
        /\ \A i \in 1 .. k :
             SubSeq(buf, first + 1, first + k)[i] = buf[first + i]
    BY <2>1, Portion
  <2> QED
    BY <2>1, <2>2 DEF Contents, buf, first, k
<1>4. /\ WriteableBytes(b) \in Nat
      /\ Len(b.buf) = b.read + ReadableBytes(b) + WriteableBytes(b)
  BY <1>1, <1>2, SMTT(30) DEF WriteableBytes
<1> QED
  BY <1>1, <1>2, <1>3, <1>4

\* expandBuffer makes room for len bytes, shows the same bytes, and lengthens
\* the vector only when moving the bytes would not give more than len.
LEMMA ExpandBufferCorrect ==
  ASSUME NEW b, Valid(b), NEW len \in Nat
  PROVE  LET e == ExpandBuffer(b, len) IN
         /\ Valid(e)
         /\ Contents(e) = Contents(b)
         /\ ReadableBytes(e) = ReadableBytes(b)
         /\ WriteableBytes(e) >= len
         /\ \/ Len(e.buf) = Len(b.buf)
            \/ Len(e.buf) <= ReadableBytes(b) + 2 * len
         /\ b.write = 0 => e.write = 0
<1> DEFINE e == ExpandBuffer(b, len)
<1>1. /\ b.buf \in Seq(Cell)
      /\ b.read \in Nat /\ b.write \in Nat /\ Len(b.buf) \in Nat
      /\ b.read <= b.write /\ b.write <= Len(b.buf)
  BY LenProperties DEF Valid
<1>2. CASE WriteableBytes(b) + b.read > len
  <2> DEFINE moved == [i \in 1 .. Len(b.buf) |->
                         IF i <= ReadableBytes(b) THEN b.buf[b.read + i]
                                                  ELSE b.buf[i]]
  <2>1. e = [buf |-> moved, read |-> 0, write |-> ReadableBytes(b)]
    BY <1>2 DEF ExpandBuffer
  <2>2. moved \in Seq(Cell) /\ Len(moved) = Len(b.buf)
    <3>1. \A i \in 1 .. Len(b.buf) :
            (IF i <= ReadableBytes(b) THEN b.buf[b.read + i] ELSE b.buf[i]) \in Cell
      BY <1>1, ElementOfSeq DEF ReadableBytes
    <3>2. moved \in [1 .. Len(b.buf) -> Cell]
      BY <3>1
    <3> QED
      BY <1>1, <3>2
  <2> HIDE DEF moved
  <2>3. Valid(e) /\ ReadableBytes(e) = ReadableBytes(b)
    BY <1>1, <2>1, <2>2 DEF Valid, ReadableBytes
  <2>4. WriteableBytes(e) >= len
    BY <1>1, <1>2, <2>1, <2>2 DEF WriteableBytes, ReadableBytes
  <2>5. \A i \in 1 .. ReadableBytes(b) : e.buf[e.read + i] = b.buf[b.read + i]
    BY <1>1, <2>1 DEF moved, ReadableBytes
  <2>6. Contents(e) = Contents(b)
    BY <2>3, <2>5, ContentsOf, SeqEqual
  <2> QED
    BY <1>1, <2>1, <2>2, <2>3, <2>4, <2>6 DEF ReadableBytes
<1>3. CASE ~(WriteableBytes(b) + b.read > len)
  <2> DEFINE room == [i \in 1 .. len |-> Zero]
  <2>1. e = [b EXCEPT !.buf = @ \o room]
    BY <1>3 DEF ExpandBuffer
  <2>2. room \in Seq(Cell) /\ Len(room) = len
    BY DEF Cell
  <2> HIDE DEF room
  <2>3. /\ b.buf \o room \in Seq(Cell)
        /\ Len(b.buf \o room) = Len(b.buf) + len
        /\ \A i \in 1 .. Len(b.buf) : (b.buf \o room)[i] = b.buf[i]
    <3>1. /\ b.buf \o room \in Seq(Cell)
          /\ Len(b.buf \o room) = Len(b.buf) + Len(room)
          /\ \A i \in 1 .. Len(b.buf) + Len(room) :
               (b.buf \o room)[i] = IF i <= Len(b.buf) THEN b.buf[i]
                                                      ELSE room[i - Len(b.buf)]
      BY <1>1, <2>2, ConcatProperties
    <3> QED
      BY <1>1, <2>2, <3>1
  <2>4. e.buf = b.buf \o room /\ e.read = b.read /\ e.write = b.write
    BY <2>1 DEF Valid
  <2>5. Valid(e) /\ ReadableBytes(e) = ReadableBytes(b)
    <3>1. e \in [buf : Seq(Cell), read : Nat, write : Nat]
      <4> DEFINE longer == b.buf \o room
      <4>1. e = [b EXCEPT !.buf = longer]
        BY <2>1
      <4>2. longer \in Seq(Cell)
        BY <2>3
      <4> HIDE DEF longer, e
      <4> QED
        BY <4>1, <4>2 DEF Valid
    <3> QED
      BY <1>1, <2>3, <2>4, <3>1 DEF Valid, ReadableBytes
  <2>6. WriteableBytes(e) >= len
    BY <1>1, <2>3, <2>4 DEF WriteableBytes
  <2>7. \A i \in 1 .. ReadableBytes(b) : e.buf[e.read + i] = b.buf[b.read + i]
    BY <1>1, <2>3, <2>4, SMTT(30) DEF ReadableBytes
  <2>8. Contents(e) = Contents(b)
    BY <2>5, <2>7, ContentsOf, SeqEqual
  <2>9. Len(e.buf) <= ReadableBytes(b) + 2 * len
    BY <1>1, <1>3, <2>3, <2>4 DEF WriteableBytes, ReadableBytes
  <2> QED
    BY <2>4, <2>5, <2>6, <2>8, <2>9
<1> QED
  BY <1>2, <1>3

\* Copying s to beginWrite(), room permitting, puts s behind the contents.
LEMMA StoreCorrect ==
  ASSUME NEW b, Valid(b), NEW s \in Seq(Byte), Len(s) <= WriteableBytes(b)
  PROVE  LET c == Store(b, s) IN
         /\ Valid(c)
         /\ Contents(c) = Contents(b) \o s
         /\ ReadableBytes(c) = ReadableBytes(b) + Len(s)
         /\ WriteableBytes(c) = WriteableBytes(b) - Len(s)
         /\ Len(c.buf) = Len(b.buf)
         /\ c.write = b.write + Len(s)
<1> DEFINE c == Store(b, s)
           filled == [i \in 1 .. Len(b.buf) |->
                        IF i \in b.write + 1 .. b.write + Len(s)
                          THEN s[i - b.write] ELSE b.buf[i]]
<1>1. /\ b.buf \in Seq(Cell)
      /\ b.read \in Nat /\ b.write \in Nat /\ Len(b.buf) \in Nat
      /\ b.read <= b.write /\ b.write <= Len(b.buf)
  BY LenProperties DEF Valid
<1>2. /\ Len(s) \in Nat
      /\ s \in Seq(Cell)
      /\ b.write + Len(s) <= Len(b.buf)
  BY <1>1, LenProperties, SeqMonotonic DEF WriteableBytes, Cell
<1>3. filled \in Seq(Cell) /\ Len(filled) = Len(b.buf)
  <2>1. \A i \in 1 .. Len(b.buf) :
          (IF i \in b.write + 1 .. b.write + Len(s)
             THEN s[i - b.write] ELSE b.buf[i]) \in Cell
    <3> TAKE i \in 1 .. Len(b.buf)
    <3>1. CASE i \in b.write + 1 .. b.write + Len(s)
      <4>1. i - b.write \in 1 .. Len(s)
        BY <1>1, <1>2, <3>1
      <4> QED
        BY <1>2, <3>1, <4>1, ElementOfSeq
    <3>2. CASE i \notin b.write + 1 .. b.write + Len(s)
      BY <1>1, <3>2, ElementOfSeq
    <3> QED
      BY <3>1, <3>2
  <2>2. filled \in [1 .. Len(b.buf) -> Cell]
    BY <2>1
  <2> QED
    BY <1>1, <2>2
<1>4. c.buf = filled /\ c.read = b.read /\ c.write = b.write + Len(s)
  BY DEF Store, Valid
<1>5. c \in [buf : Seq(Cell), read : Nat, write : Nat]
  <2>1. c = [b EXCEPT !.buf = filled, !.write = b.write + Len(s)]
    BY DEF Store
  <2>2. b.write + Len(s) \in Nat
    BY <1>1, <1>2
  <2> HIDE DEF filled, c
  <2> QED
    BY <1>3, <2>1, <2>2 DEF Valid
<1>6. \A i \in 1 .. ReadableBytes(b) + Len(s) :
        c.buf[c.read + i] = IF i <= ReadableBytes(b) THEN b.buf[b.read + i]
                                                     ELSE s[i - ReadableBytes(b)]
  <2>0. \A j \in 1 .. Len(b.buf) :
          filled[j] = IF j \in b.write + 1 .. b.write + Len(s)
                        THEN s[j - b.write] ELSE b.buf[j]
    OBVIOUS
  <2> HIDE DEF filled
  <2> TAKE i \in 1 .. ReadableBytes(b) + Len(s)
  <2> DEFINE j == b.read + i
  <2>1. /\ j \in 1 .. Len(b.buf)
        /\ j \in b.write + 1 .. b.write + Len(s) <=> ~(i <= ReadableBytes(b))
        /\ j - b.write = i - ReadableBytes(b)
    BY <1>1, <1>2, SMTT(30) DEF ReadableBytes
  <2>2. filled[j] = IF i <= ReadableBytes(b) THEN b.buf[j]
                                            ELSE s[i - ReadableBytes(b)]
    <3> HIDE DEF j
    <3>1. filled[j] = IF j \in b.write + 1 .. b.write + Len(s)
                        THEN s[j - b.write] ELSE b.buf[j]
      BY <2>0, <2>1
    <3> QED
      BY <2>1, <3>1
  <2> QED
    BY <1>4, <2>2
<1> HIDE DEF filled, c
<1>7. /\ Valid(c)
      /\ ReadableBytes(c) = ReadableBytes(b) + Len(s)
      /\ WriteableBytes(c) = WriteableBytes(b) - Len(s)
  BY <1>1, <1>2, <1>3, <1>4, <1>5 DEF Valid, ReadableBytes, WriteableBytes
<1>8. Contents(c) = Contents(b) \o s
  <2>1. /\ Contents(b) \o s \in Seq(Cell)
        /\ Len(Contents(b) \o s) = ReadableBytes(b) + Len(s)
        /\ \A i \in 1 .. ReadableBytes(b) + Len(s) :
             (Contents(b) \o s)[i]
               = IF i <= ReadableBytes(b) THEN Contents(b)[i]
                                          ELSE s[i - ReadableBytes(b)]
    <3>1. /\ Contents(b) \in Seq(Cell)
          /\ Len(Contents(b)) = ReadableBytes(b)
      BY ContentsOf
    <3>2. /\ Contents(b) \o s \in Seq(Cell)
          /\ Len(Contents(b) \o s) = Len(Contents(b)) + Len(s)
          /\ \A i \in 1 .. Len(Contents(b)) + Len(s) :
               (Contents(b) \o s)[i]
                 = IF i <= Len(Contents(b)) THEN Contents(b)[i]
                                            ELSE s[i - Len(Contents(b))]
      BY <1>2, <3>1, ConcatProperties
    <3> QED
      BY <3>1, <3>2
  <2>2. /\ Contents(c) \in Seq(Cell)
        /\ Len(Contents(c)) = ReadableBytes(b) + Len(s)
        /\ \A i \in 1 .. ReadableBytes(b) + Len(s) :
             Contents(c)[i] = c.buf[c.read + i]
    BY <1>7, ContentsOf
  <2>3. \A i \in 1 .. ReadableBytes(b) : Contents(b)[i] = b.buf[b.read + i]
    BY ContentsOf
  <2>4. ReadableBytes(b) \in Nat
    BY ContentsOf
  <2>5. \A i \in 1 .. ReadableBytes(b) + Len(s) :
          Contents(c)[i] = (Contents(b) \o s)[i]
    <3> TAKE i \in 1 .. ReadableBytes(b) + Len(s)
    <3>1. CASE i <= ReadableBytes(b)
      <4>1. i \in 1 .. ReadableBytes(b)
        BY <1>2, <2>4, <3>1
      <4> QED
        BY <1>6, <2>1, <2>2, <2>3, <3>1, <4>1
    <3>2. CASE ~(i <= ReadableBytes(b))
      BY <1>6, <2>1, <2>2, <3>2
    <3> QED
      BY <3>1, <3>2
  <2> QED
    BY <2>1, <2>2, <2>5, SeqEqual
<1> QED
  BY <1>3, <1>4, <1>7, <1>8 DEF c

\* retrieve(n) drops the oldest n bytes and shows the others, and a buffer
\* emptied by it starts again at index 0.
LEMMA RetrievedCorrect ==
  ASSUME NEW b, Valid(b), NEW n \in Nat, n <= ReadableBytes(b)
  PROVE  LET d == Retrieved(b, n)
             taken == SubSeq(b.buf, b.read + 1, b.read + n)
         IN  /\ Valid(d)
             /\ taken \in Seq(Cell)
             /\ Contents(b) = taken \o Contents(d)
             /\ ReadableBytes(d) = ReadableBytes(b) - n
             /\ WriteableBytes(d) >= WriteableBytes(b)
             /\ d.buf = b.buf
             /\ ReadableBytes(d) = 0 => d.write = 0
<1> DEFINE d == Retrieved(b, n)
           taken == SubSeq(b.buf, b.read + 1, b.read + n)
<1>1. /\ b.buf \in Seq(Cell)
      /\ b.read \in Nat /\ b.write \in Nat /\ Len(b.buf) \in Nat
      /\ b.read <= b.write /\ b.write <= Len(b.buf)
      /\ b.read + n <= b.write
  BY LenProperties DEF Valid, ReadableBytes
<1>2. /\ taken \in Seq(Cell)
      /\ Len(taken) = n
      /\ \A i \in 1 .. n : taken[i] = b.buf[b.read + i]
  <2> DEFINE buf == b.buf
             first == b.read
  <2>1. buf \in Seq(Cell) /\ first \in Nat /\ first + n <= Len(buf)
    BY <1>1
  <2> HIDE DEF buf, first
  <2>2. /\ SubSeq(buf, first + 1, first + n) \in Seq(Cell)
        /\ Len(SubSeq(buf, first + 1, first + n)) = n
        /\ \A i \in 1 .. n :
             SubSeq(buf, first + 1, first + n)[i] = buf[first + i]
    BY <2>1, Portion
  <2> QED
    BY <2>2 DEF buf, first
<1> HIDE DEF taken
<1>3. CASE n = ReadableBytes(b)
  <2>1. d = [b EXCEPT !.read = 0, !.write = 0]
    BY <1>3 DEF Retrieved
  <2>2. d.buf = b.buf /\ d.read = 0 /\ d.write = 0
    BY <2>1 DEF Valid
  <2>3. Valid(d) /\ ReadableBytes(d) = 0
    <3>1. b \in [buf : Seq(Cell), read : Nat, write : Nat] /\ 0 \in Nat
      BY DEF Valid
    <3>2. d \in [buf : Seq(Cell), read : Nat, write : Nat]
      BY <2>1, <3>1, IndicesMove
    <3> QED
      BY <1>1, <2>2, <3>2 DEF Valid, ReadableBytes
  <2>4. WriteableBytes(d) >= WriteableBytes(b) /\ ReadableBytes(b) - n = 0
    BY <1>1, <1>3, <2>2, SMTT(30) DEF WriteableBytes, ReadableBytes
  <2>5. Contents(d) = <<>>
    BY <2>3, ContentsOf, EmptySeq
  <2>6. taken \o <<>> = taken
    BY <1>2, ConcatEmptySeq
  <2>7. Contents(b) = taken
    BY <1>2, <1>3, ContentsOf, SeqEqual
  <2> QED
    BY <1>2, <2>2, <2>3, <2>4, <2>5, <2>6, <2>7 DEF taken
<1>4. CASE n # ReadableBytes(b)
  <2>1. d = [b EXCEPT !.read = @ + n]
    BY <1>4 DEF Retrieved
  <2>2. d.buf = b.buf /\ d.read = b.read + n /\ d.write = b.write
    BY <2>1 DEF Valid
  <2>3. /\ Valid(d)
        /\ ReadableBytes(d) = ReadableBytes(b) - n
        /\ ReadableBytes(d) # 0
    <3>1. b.read + n \in Nat
      BY <1>1
    <3>2. d \in [buf : Seq(Cell), read : Nat, write : Nat]
      BY <2>1, <3>1 DEF Valid
    <3> QED
      BY <1>1, <1>4, <2>2, <3>2 DEF Valid, ReadableBytes
  <2>4. WriteableBytes(d) >= WriteableBytes(b)
    BY <1>1, <2>2 DEF WriteableBytes
  <2> HIDE DEF d
  <2>5. /\ taken \o Contents(d) \in Seq(Cell)
        /\ Len(taken \o Contents(d)) = ReadableBytes(b)
        /\ \A i \in 1 .. ReadableBytes(b) :
             (taken \o Contents(d))[i] = IF i <= n THEN taken[i]
                                                   ELSE Contents(d)[i - n]
    <3>1. /\ Contents(d) \in Seq(Cell)
          /\ Len(Contents(d)) = ReadableBytes(b) - n
      BY <2>3, ContentsOf
    <3>2. /\ taken \o Contents(d) \in Seq(Cell)
          /\ Len(taken \o Contents(d)) = Len(taken) + Len(Contents(d))
          /\ \A i \in 1 .. Len(taken) + Len(Contents(d)) :
               (taken \o Contents(d))[i]
                 = IF i <= Len(taken) THEN taken[i]
                                      ELSE Contents(d)[i - Len(taken)]
      BY <1>2, <3>1, ConcatProperties
    <3>3. Len(taken) + Len(Contents(d)) = ReadableBytes(b)
      BY <1>1, <1>2, <3>1 DEF ReadableBytes
    <3> QED
      BY <1>2, <3>2, <3>3
  <2>6. \A i \in 1 .. ReadableBytes(b) - n : Contents(d)[i] = b.buf[b.read + n + i]
    BY <2>2, <2>3, ContentsOf
  <2>7. \A i \in 1 .. ReadableBytes(b) :
          Contents(b)[i] = (taken \o Contents(d))[i]
    <3> TAKE i \in 1 .. ReadableBytes(b)
    <3>1. Contents(b)[i] = b.buf[b.read + i]
      BY ContentsOf
    <3>2. CASE i <= n
      BY <1>2, <2>5, <3>1, <3>2
    <3>3. CASE ~(i <= n)
      <4>1. /\ i - n \in 1 .. ReadableBytes(b) - n
            /\ b.read + n + (i - n) = b.read + i
        BY <1>1, <3>3 DEF ReadableBytes
      <4> QED
        BY <2>5, <2>6, <3>1, <3>3, <4>1
    <3> QED
      BY <3>2, <3>3
  <2>8. Contents(b) = taken \o Contents(d)
    BY <2>5, <2>7, ContentsOf, SeqEqual
  <2> QED
    BY <1>2, <2>2, <2>3, <2>4, <2>8 DEF taken, d
<1> QED
  BY <1>3, <1>4

-----------------------------------------------------------------------------
(* Safety.                                                                  *)

\* The bytes in the buffer never exceed the most it ever held.
PeakCovers == ReadableBytes(buffer) <= peak

\* The inductive invariant.  BoundedMemory needs PeakCovers: what expandBuffer
\* makes of the vector is bounded by what the buffer holds at that moment.
IInv == TypeOK /\ BoundedMemory /\ EmptyIsReset /\ RoomToRead /\ PeakCovers

\* What TypeOK says of the vector and the indices is validity.
LEMMA TypeValid == TypeOK => Valid(buffer)
BY DEF TypeOK, Valid

\* Every input of the specification is a sequence of bytes.
LEMMA InputsAreBytes ==
  ASSUME NEW s \in Inputs
  PROVE  s \in Seq(Byte) /\ s \in Seq(Cell) /\ Len(s) \in Nat
<1>1. PICK n \in 0 .. MaxWrite : s \in [1 .. n -> Byte]
  BY DEF Inputs
<1>2. s \in Seq(Byte)
  BY <1>1, BufferAssumption
<1> QED
  BY <1>2, SeqMonotonic, LenProperties DEF Cell

\* An empty valid buffer satisfies EmptyIsReset exactly if it is at index 0.
LEMMA EmptyAtZero ==
  ASSUME TypeOK
  PROVE  EmptyIsReset <=> (ReadableBytes(buffer) = 0 => buffer.write = 0)
BY LenProperties DEF TypeOK, EmptyIsReset, ReadableBytes, WriteableBytes

\* A put of s that leaves the buffer b keeps the invariant if b is valid,
\* shows s behind the old contents, has grown only as far as it may, and has
\* room for a read unless write has been used.
LEMMA PutInv ==
  ASSUME IInv, NEW s \in Inputs, NEW b, Valid(b), Put(b, s),
         ReadableBytes(b) = ReadableBytes(buffer) + Len(s),
         Len(s) = 0 /\ buffer.write = 0 => b.write = 0,
         \/ Len(b.buf) = Len(buffer.buf)
         \/ Len(b.buf) <= 2 * ReadableBytes(b)
         \/ Len(b.buf) <= ReadableBytes(b) + 2 * ReadRoom,
         written' \in BOOLEAN,
         written' \/ WriteableBytes(b) >= ReadRoom
  PROVE  IInv'
<1>1. /\ buffer' = b
      /\ io' = [op |-> "put", data |-> s]
      /\ peak' = MaxOf(peak, ReadableBytes(b))
  BY DEF Put
<1>2. /\ Valid(buffer) /\ ReadableBytes(buffer) \in Nat
      /\ ReadableBytes(b) \in Nat /\ Len(b.buf) \in Nat
      /\ Len(s) \in Nat /\ peak \in Nat /\ ReadRoom \in Nat
      /\ InitialSize \in Nat /\ Len(buffer.buf) \in Nat
  BY TypeValid, ContentsOf, InputsAreBytes, BufferAssumption DEF IInv, TypeOK
<1>3. /\ peak' \in Nat
      /\ peak <= peak'
      /\ ReadableBytes(b) <= peak'
  BY <1>1, <1>2 DEF MaxOf
<1>4. TypeOK'
  <2>1. io' \in [op : {"none", "put", "take"}, data : Seq(Cell)]
    BY <1>1, InputsAreBytes
  <2> QED
    BY <1>1, <1>3, <2>1 DEF IInv, TypeOK, Valid
<1>5. BoundedMemory'
  <2>1. CASE Len(b.buf) = Len(buffer.buf)
    <3>1. \/ Len(b.buf) <= InitialSize
          \/ Len(b.buf) <= 2 * peak
          \/ Len(b.buf) <= peak + 2 * ReadRoom
      BY <2>1 DEF IInv, BoundedMemory
    <3> QED
      BY <1>1, <1>2, <1>3, <3>1, SMTT(30) DEF BoundedMemory
  <2>2. CASE Len(b.buf) <= 2 * ReadableBytes(b)
    <3>1. Len(b.buf) <= 2 * peak'
      BY <1>2, <1>3, <2>2
    <3> QED
      BY <1>1, <3>1 DEF BoundedMemory
  <2>3. CASE Len(b.buf) <= ReadableBytes(b) + 2 * ReadRoom
    <3>1. Len(b.buf) <= peak' + 2 * ReadRoom
      BY <1>2, <1>3, <2>3
    <3> QED
      BY <1>1, <3>1 DEF BoundedMemory
  <2> QED
    BY <2>1, <2>2, <2>3
<1>6. EmptyIsReset'
  <2>1. ReadableBytes(b) = 0 => b.write = 0
    BY <1>2, EmptyAtZero DEF IInv
  <2>2. ReadableBytes(b) = 0 => WriteableBytes(b) = Len(b.buf)
    BY <1>2, <2>1 DEF WriteableBytes
  <2> QED
    BY <1>1, <2>2 DEF EmptyIsReset
<1>7. PeakCovers'
  BY <1>1, <1>3 DEF PeakCovers
<1>8. RoomToRead'
  BY <1>1 DEF RoomToRead
<1> QED
  BY <1>4, <1>5, <1>6, <1>7, <1>8 DEF IInv

\* A write keeps the invariant and is a put into the byte queue.
LEMMA WriteStep ==
  ASSUME IInv, NEW s \in Inputs, Write(s)
  PROVE  /\ IInv'
         /\ io'.op = "put"
         /\ Contents(buffer') = Contents(buffer) \o io'.data
<1> DEFINE room == IF Len(s) > WriteableBytes(buffer)
                     THEN ExpandBuffer(buffer, Len(s)) ELSE buffer
           b == Store(room, s)
<1>1. /\ Put(b, s) /\ buffer' = b /\ io' = [op |-> "put", data |-> s]
      /\ written' = TRUE
  BY DEF Write, Written, Put
<1>2. /\ Valid(buffer) /\ s \in Seq(Byte) /\ Len(s) \in Nat
      /\ ReadableBytes(buffer) \in Nat /\ WriteableBytes(buffer) \in Nat
  BY TypeValid, InputsAreBytes, ContentsOf DEF IInv
<1>3. /\ Valid(room)
      /\ Contents(room) = Contents(buffer)
      /\ ReadableBytes(room) = ReadableBytes(buffer)
      /\ Len(s) <= WriteableBytes(room)
      /\ \/ Len(room.buf) = Len(buffer.buf)
         \/ Len(room.buf) <= ReadableBytes(buffer) + 2 * Len(s)
      /\ buffer.write = 0 => room.write = 0
  <2>1. CASE Len(s) > WriteableBytes(buffer)
    BY <1>2, <2>1, ExpandBufferCorrect
  <2>2. CASE ~(Len(s) > WriteableBytes(buffer))
    BY <1>2, <2>2
  <2> QED
    BY <2>1, <2>2
<1> HIDE DEF room
<1>4. /\ Valid(b)
      /\ Contents(b) = Contents(buffer) \o s
      /\ ReadableBytes(b) = ReadableBytes(buffer) + Len(s)
      /\ Len(b.buf) = Len(room.buf)
      /\ b.write = room.write + Len(s)
  BY <1>2, <1>3, StoreCorrect
<1> HIDE DEF b
<1>5. \/ Len(b.buf) = Len(buffer.buf)
      \/ Len(b.buf) <= 2 * ReadableBytes(b)
  <2>1. ReadableBytes(buffer) + 2 * Len(s) <= 2 * ReadableBytes(b)
    BY <1>2, <1>4
  <2>2. Len(b.buf) \in Nat /\ ReadableBytes(b) \in Nat
    BY <1>4, ContentsOf
  <2> QED
    BY <1>2, <1>3, <1>4, <2>1, <2>2
<1>6. Len(s) = 0 /\ buffer.write = 0 => b.write = 0
  BY <1>3, <1>4
<1>7. IInv'
  BY <1>1, <1>4, <1>5, <1>6, PutInv
<1> QED
  BY <1>1, <1>4, <1>7

\* A receive keeps the invariant, with the room the next read(2) needs, and is
\* a put into the byte queue.
LEMMA ReceiveStep ==
  ASSUME IInv, NEW s \in Inputs, Receive(s)
  PROVE  /\ IInv'
         /\ io'.op = "put"
         /\ Contents(buffer') = Contents(buffer) \o io'.data
<1> DEFINE c == Store(buffer, s)
           b == IF WriteableBytes(c) < ReadRoom
                  THEN ExpandBuffer(c, ReadRoom) ELSE c
<1>1. /\ Put(b, s) /\ buffer' = b /\ io' = [op |-> "put", data |-> s]
      /\ written' = written /\ written \in BOOLEAN
  BY DEF Receive, Put, IInv, TypeOK
<1>2. /\ Valid(buffer) /\ s \in Seq(Byte) /\ Len(s) \in Nat
      /\ ReadableBytes(buffer) \in Nat
      /\ Len(s) <= WriteableBytes(buffer)
      /\ ReadRoom \in Nat
  BY TypeValid, InputsAreBytes, ContentsOf, BufferAssumption DEF IInv, Receive
<1>3. /\ Valid(c)
      /\ Contents(c) = Contents(buffer) \o s
      /\ ReadableBytes(c) = ReadableBytes(buffer) + Len(s)
      /\ Len(c.buf) = Len(buffer.buf)
      /\ c.write = buffer.write + Len(s)
  BY <1>2, StoreCorrect
<1> HIDE DEF c
<1>4. WriteableBytes(c) \in Nat
  BY <1>3, ContentsOf
<1>5. /\ Valid(b)
      /\ Contents(b) = Contents(buffer) \o s
      /\ ReadableBytes(b) = ReadableBytes(c)
      /\ WriteableBytes(b) >= ReadRoom
      /\ \/ Len(b.buf) = Len(buffer.buf)
         \/ Len(b.buf) <= ReadableBytes(b) + 2 * ReadRoom
      /\ c.write = 0 => b.write = 0
  <2>1. CASE WriteableBytes(c) < ReadRoom
    BY <1>2, <1>3, <2>1, ExpandBufferCorrect
  <2>2. CASE ~(WriteableBytes(c) < ReadRoom)
    BY <1>2, <1>3, <1>4, <2>2
  <2> QED
    BY <2>1, <2>2
<1> HIDE DEF b
<1>6. Len(s) = 0 /\ buffer.write = 0 => b.write = 0
  BY <1>3, <1>5
<1>7. IInv'
  BY <1>1, <1>3, <1>5, <1>6, PutInv
<1> QED
  BY <1>1, <1>5, <1>7

\* A retrieve keeps the invariant and is a take from the byte queue.
LEMMA RetrieveStep ==
  ASSUME IInv, NEW n \in 0 .. ReadableBytes(buffer), Retrieve(n)
  PROVE  /\ IInv'
         /\ io'.op = "take"
         /\ Contents(buffer) = io'.data \o Contents(buffer')
<1> DEFINE d == Retrieved(buffer, n)
           taken == SubSeq(buffer.buf, buffer.read + 1, buffer.read + n)
<1>1. /\ buffer' = d
      /\ io' = [op |-> "take", data |-> taken]
      /\ peak' = peak
      /\ written' = written
      /\ n <= ReadableBytes(buffer)
  BY DEF Retrieve
<1>2. /\ Valid(buffer)
      /\ ReadableBytes(buffer) \in Nat
      /\ n \in Nat
      /\ peak \in Nat
  BY TypeValid, ContentsOf DEF IInv, TypeOK
<1>3. /\ Valid(d)
      /\ taken \in Seq(Cell)
      /\ Contents(buffer) = taken \o Contents(d)
      /\ ReadableBytes(d) = ReadableBytes(buffer) - n
      /\ WriteableBytes(d) >= WriteableBytes(buffer)
      /\ d.buf = buffer.buf
      /\ ReadableBytes(d) = 0 => d.write = 0
  BY <1>1, <1>2, RetrievedCorrect
<1> HIDE DEF d, taken
<1>4. TypeOK'
  BY <1>1, <1>2, <1>3 DEF IInv, TypeOK, Valid
<1>5. BoundedMemory'
  BY <1>1, <1>3 DEF IInv, BoundedMemory
<1>6. EmptyIsReset'
  <2>1. Len(d.buf) \in Nat
    BY <1>3, ContentsOf
  <2>2. ReadableBytes(d) = 0 => WriteableBytes(d) = Len(d.buf)
    BY <1>3, <2>1 DEF WriteableBytes
  <2> QED
    BY <1>1, <2>2 DEF EmptyIsReset
<1>7. PeakCovers'
  BY <1>1, <1>2, <1>3 DEF IInv, PeakCovers
<1>8. RoomToRead'
  <2>1. /\ WriteableBytes(buffer) \in Nat
        /\ WriteableBytes(d) \in Nat
        /\ ReadRoom \in Nat
    BY <1>2, <1>3, ContentsOf, BufferAssumption
  <2> QED
    BY <1>1, <1>3, <2>1 DEF IInv, RoomToRead
<1> QED
  BY <1>1, <1>3, <1>4, <1>5, <1>6, <1>7, <1>8 DEF IInv

\* A new buffer is empty, has its initial size and satisfies the invariant.
LEMMA InitInv ==
  Init => IInv /\ Contents(buffer) = <<>>
<1> SUFFICES ASSUME Init
             PROVE  IInv /\ Contents(buffer) = <<>>
  OBVIOUS
<1> DEFINE fresh == [i \in 1 .. InitialSize |-> Zero]
<1>1. fresh \in Seq(Cell) /\ Len(fresh) = InitialSize
  BY BufferAssumption DEF Cell
<1> HIDE DEF fresh
<1>2. /\ buffer = [buf |-> fresh, read |-> 0, write |-> 0]
      /\ io = [op |-> "none", data |-> <<>>]
      /\ peak = 0
      /\ written = FALSE
  BY DEF Init, fresh
<1>3. TypeOK
  <2>1. buffer \in [buf : Seq(Cell), read : Nat, write : Nat]
    BY <1>1, <1>2
  <2>2. io \in [op : {"none", "put", "take"}, data : Seq(Cell)]
    BY <1>2, EmptySeq
  <2>3. buffer.read <= buffer.write /\ buffer.write <= Len(buffer.buf)
    BY <1>1, <1>2, BufferAssumption
  <2>4. peak \in Nat /\ written \in BOOLEAN
    BY <1>2
  <2> QED
    BY <2>1, <2>2, <2>3, <2>4 DEF TypeOK
<1>4. BoundedMemory /\ EmptyIsReset /\ PeakCovers
  BY <1>1, <1>2, BufferAssumption
     DEF BoundedMemory, EmptyIsReset, PeakCovers, ReadableBytes, WriteableBytes
<1>5. Contents(buffer) = <<>>
  <2>1. Len(Contents(buffer)) = 0 /\ Contents(buffer) \in Seq(Cell)
    BY <1>2, <1>3, TypeValid, ContentsOf DEF ReadableBytes
  <2> QED
    BY <2>1, EmptySeq
<1>6. RoomToRead
  BY <1>1, <1>2, BufferAssumption DEF RoomToRead, WriteableBytes
<1> QED
  BY <1>3, <1>4, <1>5, <1>6 DEF IInv

\* Every step keeps the inductive invariant.
LEMMA NextInv == IInv /\ [Next]_vars => IInv'
<1> SUFFICES ASSUME IInv, [Next]_vars PROVE IInv'
  OBVIOUS
<1>1. CASE UNCHANGED vars
  BY <1>1 DEF vars, IInv, TypeOK, BoundedMemory, EmptyIsReset, RoomToRead,
              PeakCovers, ReadableBytes, WriteableBytes
<1>2. CASE Next
  BY <1>2, WriteStep, ReceiveStep, RetrieveStep DEF Next
<1> QED
  BY <1>1, <1>2

\* The inductive invariant holds in every reachable state.
THEOREM Invariance == Spec => []IInv
<1>1. Init => IInv
  BY InitInv
<1> QED
  BY <1>1, NextInv, PTL DEF Spec

\* The indices of a Buffer are ordered and inside its vector, after any
\* sequence of its operations.
THEOREM TypeCorrect == Spec => []TypeOK
<1>1. IInv => TypeOK
  BY DEF IInv
<1> QED
  BY <1>1, Invariance, PTL

\* expandBuffer's choice between moving and growing keeps the vector within a
\* bound given by the most bytes it ever held.
THEOREM MemoryIsBounded == Spec => []BoundedMemory
<1>1. IInv => BoundedMemory
  BY DEF IInv
<1> QED
  BY <1>1, Invariance, PTL

\* retrieve and retrieveAll give an emptied buffer its whole vector back.
THEOREM EmptyStartsOver == Spec => []EmptyIsReset
<1>1. IInv => EmptyIsReset
  BY DEF IInv
<1> QED
  BY <1>1, Invariance, PTL

\* handleReadEvent never issues a read(2) of zero bytes, so a return value of
\* 0 is always the peer's FIN.
THEOREM AlwaysRoomToRead == Spec => []RoomToRead
<1>1. IInv => RoomToRead
  BY DEF IInv
<1> QED
  BY <1>1, Invariance, PTL

-----------------------------------------------------------------------------
(* Buffer implements ByteQueue.                                             *)

\* Every step is a put, a take or invisible in ByteQueue.
LEMMA NextRefines == IInv /\ [Next]_vars => [Queue!Next]_(Queue!vars)
<1> SUFFICES ASSUME IInv, [Next]_vars PROVE [Queue!Next]_(Queue!vars)
  OBVIOUS
<1>1. CASE UNCHANGED vars
  BY <1>1 DEF vars, Queue!vars, Contents
<1>2. ASSUME NEW s \in Inputs, Write(s) \/ Receive(s) PROVE Queue!Next
  <2>1. /\ io'.op = "put"
        /\ Contents(buffer') = Contents(buffer) \o io'.data
    BY <1>2, WriteStep, ReceiveStep
  <2> QED
    BY <2>1 DEF Queue!Next, Queue!Put, Contents
<1>3. ASSUME NEW n \in 0 .. ReadableBytes(buffer), Retrieve(n) PROVE Queue!Next
  <2>1. /\ io'.op = "take"
        /\ Contents(buffer) = io'.data \o Contents(buffer')
    BY <1>3, RetrieveStep
  <2> QED
    BY <2>1 DEF Queue!Next, Queue!Take, Contents
<1> QED
  BY <1>1, <1>2, <1>3 DEF Next

\* Whatever expandBuffer moves or grows, the users of a Buffer see a queue of
\* bytes: what they put in is what they take out, in that order.
THEOREM Implementation == Spec => ImplementsByteQueue
<1>1. Init => Queue!Init
  BY InitInv DEF Init, Queue!Init
<1> QED
  BY <1>1, Invariance, NextRefines, PTL DEF Spec, ImplementsByteQueue, Queue!Spec

=============================================================================
