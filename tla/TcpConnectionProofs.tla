------------------------- MODULE TcpConnectionProofs -------------------------
(***************************************************************************)
(* Theorems about TcpConnection, for every combination of modes, every      *)
(* placement of the application's closes, every size of the kernel's buffer *)
(* and every bound.                                                         *)
(*                                                                         *)
(* The module goes from the sequences the state is made of (the stack, the  *)
(* functors, the bytes), through the inductive invariant IInv, to one lemma *)
(* for each action of TcpConnection; the theorems are at its end.           *)
(***************************************************************************)
EXTENDS TcpConnection, SequenceTheorems, TLAPS

-----------------------------------------------------------------------------
(* What the invariant says of the stack, of the functors and of the bytes.  *)

\* All elements of s but the last one are x.
OnTop(s, x) == \A i \in DOMAIN s : s[i] # x => i = Len(s)

\* x is in s if b, once, and not otherwise.
Once(s, x, b) ==
  /\ \A i, j \in DOMAIN s : s[i] = x /\ s[j] = x => i = j
  /\ b <=> \E i \in DOMAIN s : s[i] = x

\* Of the bytes of connection g in all there are the first n, each once and in
\* order.
Faithful(all, g, n) ==
  LET own == {i \in DOMAIN all : all[i][1] = g}
  IN  /\ \A k \in 1 .. n : \E i \in own : all[i][2] = k
      /\ \A i, j \in own : i < j => all[i][2] < all[j][2]
      /\ \A i \in own : all[i][2] <= n

\* It is so of what the kernel took and of the backlog behind it, and there are
\* no other bytes.
Carried(o, w, g, n) == Faithful(o \o w, g, n)
AllOwn(o, w, g) == \A i \in DOMAIN (o \o w) : (o \o w)[i][1] = g

-----------------------------------------------------------------------------
(* Lemmas about sequences.                                                  *)

\* A sequence of one element.
LEMMA SingleProperties ==
  ASSUME NEW S, NEW s \in Seq(S), Len(s) = 1
  PROVE  s = <<s[1]>> /\ s # <<>> /\ Head(s) = s[1] /\ Tail(s) = <<>>
<1>1. s = <<s[1]>> /\ s # <<>> /\ Head(s) = s[1]
  OBVIOUS
<1>2. Tail(s) \in Seq(S) /\ Len(Tail(s)) = 0
  BY <1>1, HeadTailProperties
<1> QED
  BY <1>1, <1>2, EmptySeq

\* If the first is not x, it is the only one.
LEMMA OnTopAlone ==
  ASSUME NEW S, NEW s \in Seq(S), s # <<>>, NEW x, OnTop(s, x), Head(s) # x
  PROVE  Len(s) = 1
<1>1. Len(s) \in Nat \ {0} /\ DOMAIN s = 1 .. Len(s) /\ Head(s) = s[1]
  BY EmptySeq
<1> DEFINE n == Len(s)
<1>2. n \in Nat \ {0} /\ (1 \in 1 .. n => 1 = n)
  BY <1>1 DEF OnTop
<1> HIDE DEF n
<1>3. n = 1
  BY <1>2
<1> QED
  BY <1>3 DEF n

\* Without the first one it is still so,
LEMMA OnTopTail ==
  ASSUME NEW S, NEW s \in Seq(S), s # <<>>, NEW x, OnTop(s, x)
  PROVE  /\ Tail(s) \in Seq(S)
         /\ OnTop(Tail(s), x)
         /\ \A i \in DOMAIN Tail(s) : \E j \in DOMAIN s : Tail(s)[i] = s[j]
<1> DEFINE t == Tail(s)
           n == Len(s)
           m == Len(t)
<1>1. /\ t \in Seq(S) /\ m = n - 1 /\ n \in Nat \ {0} /\ m \in Nat
      /\ \A i \in 1 .. m : t[i] = s[i + 1]
      /\ DOMAIN t = 1 .. m /\ DOMAIN s = 1 .. n
      /\ \A i \in 1 .. n : s[i] # x => i = n
  BY HeadTailProperties, EmptySeq, LenProperties DEF OnTop
<1> HIDE DEF t, n, m
<1>2. \A i \in 1 .. m : i + 1 \in 1 .. n
  BY <1>1
<1>3. \A i \in 1 .. m : t[i] # x => i = m
  BY <1>1, <1>2
<1>4. OnTop(t, x)
  BY <1>1, <1>3 DEF OnTop, m
<1> QED
  BY <1>1, <1>2, <1>4 DEF t

\* and with another x in front.
LEMMA OnTopPush ==
  ASSUME NEW S, NEW s \in Seq(S), NEW x \in S, OnTop(s, x)
  PROVE  /\ <<x>> \o s \in Seq(S) /\ <<x>> \o s # <<>>
         /\ Len(<<x>> \o s) = Len(s) + 1 /\ Head(<<x>> \o s) = x
         /\ OnTop(<<x>> \o s, x)
         /\ \A i \in DOMAIN (<<x>> \o s) :
              (<<x>> \o s)[i] = x \/ \E j \in DOMAIN s : (<<x>> \o s)[i] = s[j]
<1> DEFINE t == <<x>> \o s
           n == Len(s)
           m == Len(t)
<1>1. /\ t \in Seq(S) /\ m = n + 1 /\ n \in Nat /\ m \in Nat
      /\ \A i \in 1 .. m : t[i] = IF i <= 1 THEN x ELSE s[i - 1]
      /\ DOMAIN t = 1 .. m /\ DOMAIN s = 1 .. n
      /\ \A i \in 1 .. n : s[i] # x => i = n
  <2>1. <<x>> \in Seq(S) /\ Len(<<x>>) = 1 /\ <<x>>[1] = x
    OBVIOUS
  <2> QED
    BY <2>1, ConcatProperties, LenProperties DEF OnTop
<1> HIDE DEF t, n, m
<1>2. t # <<>> /\ Head(t) = x
  <2>1. m # 0
    BY <1>1
  <2>2. t # <<>>
    BY <2>1, Zenon, EmptySeq DEF m
  <2>3. Head(t) = t[1] /\ 1 \in 1 .. m
    BY <1>1, <2>2
  <2> QED
    BY <1>1, <2>2, <2>3
<1>3. \A i \in 1 .. m : i <= 1 \/ i - 1 \in 1 .. n
  BY <1>1
<1>4. \A i \in 1 .. m : t[i] # x => i = m
  BY <1>1, <1>3
<1>5. OnTop(t, x)
  BY <1>1, <1>4 DEF OnTop, m
<1>6. \A i \in DOMAIN t : t[i] = x \/ \E j \in DOMAIN s : t[i] = s[j]
  BY <1>1, <1>3
<1>7. t \in Seq(S) /\ Len(t) = Len(s) + 1
  BY <1>1 DEF n, m
<1> QED
  BY <1>2, <1>5, <1>6, <1>7, Zenon DEF t
\* A queue that loses its head holds what was behind it.
LEMMA TailElements ==
  ASSUME NEW S, NEW s \in Seq(S), s # <<>>
  PROVE  /\ Tail(s) \in Seq(S) /\ Len(Tail(s)) = Len(s) - 1
         /\ \A i \in DOMAIN Tail(s) : i + 1 \in DOMAIN s /\ Tail(s)[i] = s[i + 1]
         /\ \A i \in DOMAIN s : i # 1 => i - 1 \in DOMAIN Tail(s)
         /\ 1 \in DOMAIN s /\ Head(s) = s[1]
<1> DEFINE t == Tail(s)
           n == Len(s)
           m == Len(t)
<1>1. /\ t \in Seq(S) /\ m = n - 1 /\ n \in Nat \ {0} /\ m \in Nat
      /\ \A i \in 1 .. m : t[i] = s[i + 1]
      /\ DOMAIN t = 1 .. m /\ DOMAIN s = 1 .. n
  BY HeadTailProperties, EmptySeq, LenProperties
<1>2. Head(s) = s[1]
  OBVIOUS
<1> HIDE DEF t, n, m
<1>3. /\ \A i \in 1 .. m : i + 1 \in 1 .. n
      /\ \A i \in 1 .. n : i # 1 => i - 1 \in 1 .. m
      /\ 1 \in 1 .. n
  BY <1>1
<1>4. /\ \A i \in DOMAIN t : i + 1 \in DOMAIN s /\ t[i] = s[i + 1]
      /\ \A i \in DOMAIN s : i # 1 => i - 1 \in DOMAIN t
      /\ 1 \in DOMAIN s
  BY <1>1, <1>3
<1> QED
  BY <1>1, <1>2, <1>4 DEF t, n, m

\* And one that gains an element at its end holds what was in it, and that.
LEMMA AppendElements ==
  ASSUME NEW S, NEW s \in Seq(S), NEW e \in S
  PROVE  /\ Append(s, e) \in Seq(S) /\ Len(Append(s, e)) = Len(s) + 1
         /\ \A i \in DOMAIN Append(s, e) :
              (i \in DOMAIN s /\ Append(s, e)[i] = s[i])
                \/ (i = Len(s) + 1 /\ Append(s, e)[i] = e)
         /\ \A i \in DOMAIN s : i \in DOMAIN Append(s, e) /\ Append(s, e)[i] = s[i]
         /\ Len(s) + 1 \in DOMAIN Append(s, e) /\ Append(s, e)[Len(s) + 1] = e
         /\ Len(s) + 1 \notin DOMAIN s
<1> DEFINE t == Append(s, e)
           n == Len(s)
<1>1. /\ t \in Seq(S) /\ Len(t) = n + 1 /\ n \in Nat
      /\ \A i \in 1 .. n : t[i] = s[i]
      /\ t[n + 1] = e
      /\ DOMAIN t = 1 .. n + 1 /\ DOMAIN s = 1 .. n
  BY AppendProperties, LenProperties
<1> HIDE DEF t, n
<1>2. /\ \A i \in 1 .. n + 1 : i \in 1 .. n \/ i = n + 1
      /\ \A i \in 1 .. n : i \in 1 .. n + 1
      /\ n + 1 \in 1 .. n + 1 /\ n + 1 \notin 1 .. n
  BY <1>1
<1>3. /\ \A i \in DOMAIN t : (i \in DOMAIN s /\ t[i] = s[i]) \/ (i = n + 1 /\ t[i] = e)
      /\ \A i \in DOMAIN s : i \in DOMAIN t /\ t[i] = s[i]
      /\ n + 1 \in DOMAIN t /\ t[n + 1] = e /\ n + 1 \notin DOMAIN s
  BY <1>1, <1>2
<1> QED
  BY <1>1, <1>3 DEF t, n

\* Another element is taken: x is where it was, and the queue held both.
LEMMA OnceTail ==
  ASSUME NEW S, NEW s \in Seq(S), s # <<>>, NEW x, NEW b \in BOOLEAN,
         Once(s, x, b), Head(s) # x
  PROVE  Once(Tail(s), x, b) /\ (b => Len(s) >= 2)
<1> DEFINE t == Tail(s)
<1>1. /\ t \in Seq(S) /\ Len(t) = Len(s) - 1
      /\ \A i \in DOMAIN t : i + 1 \in DOMAIN s /\ t[i] = s[i + 1] /\ i \in Int
      /\ \A i \in DOMAIN s : i # 1 => i - 1 \in DOMAIN t /\ i \in Int
      /\ 1 \in DOMAIN s /\ s[1] # x
  BY TailElements, LenProperties
<1>2. /\ \A i, j \in DOMAIN s : s[i] = x /\ s[j] = x => i = j
      /\ b <=> \E i \in DOMAIN s : s[i] = x
  BY DEF Once
<1>3. Len(t) \in Nat /\ DOMAIN t = 1 .. Len(t)
  BY <1>1, LenProperties
<1>4. Len(s) \in Nat
  BY LenProperties
<1> HIDE DEF t
<1>5. ASSUME NEW i \in DOMAIN t, NEW j \in DOMAIN t, t[i] = x, t[j] = x
      PROVE  i = j
  <2>1. i + 1 = j + 1
    BY <1>1, <1>2, <1>5
  <2> QED
    BY <1>1, <2>1
<1>6. ASSUME b PROVE \E i \in DOMAIN t : t[i] = x
  <2>1. PICK i \in DOMAIN s : s[i] = x
    BY <1>2, <1>6
  <2>2. i - 1 \in DOMAIN t /\ i \in Int /\ (i - 1) + 1 = i
    BY <1>1, <2>1
  <2> QED
    BY <1>1, <2>1, <2>2
<1>7. ASSUME NEW i \in DOMAIN t, t[i] = x PROVE b
  BY <1>1, <1>2, <1>7
<1>8. b => Len(s) >= 2
  <2> SUFFICES ASSUME b PROVE Len(s) >= 2
    OBVIOUS
  <2>1. PICK i \in DOMAIN t : t[i] = x
    BY <1>6
  <2>2. Len(t) >= 1
    BY <1>3, <2>1
  <2> QED
    BY <1>1, <1>4, <2>2
<1>9. Once(t, x, b)
  BY <1>5, <1>6, <1>7 DEF Once
<1> QED
  BY <1>8, <1>9 DEF t

\* x is taken, and was the only one.
LEMMA OnceTaken ==
  ASSUME NEW S, NEW s \in Seq(S), s # <<>>, NEW x, Once(s, x, TRUE), Head(s) = x
  PROVE  Once(Tail(s), x, FALSE)
<1> DEFINE t == Tail(s)
<1>1. /\ \A i \in DOMAIN t : i + 1 \in DOMAIN s /\ t[i] = s[i + 1] /\ i \in Nat \ {0}
      /\ 1 \in DOMAIN s /\ s[1] = x
  BY TailElements, LenProperties
<1>2. \A i, j \in DOMAIN s : s[i] = x /\ s[j] = x => i = j
  BY DEF Once
<1> HIDE DEF t
<1>3. ASSUME NEW i \in DOMAIN t PROVE t[i] # x
  <2>1. i + 1 # 1
    BY <1>1
  <2> QED
    BY <1>1, <1>2, <2>1
<1>4. Once(t, x, FALSE)
  BY <1>3 DEF Once
<1> QED
  BY <1>4 DEF t

\* An element comes in behind: another one than x, or x itself if it was not there.
LEMMA OnceAppend ==
  ASSUME NEW S, NEW s \in Seq(S), NEW e \in S, NEW x, NEW b \in BOOLEAN,
         Once(s, x, b)
  PROVE  /\ e # x => Once(Append(s, e), x, b)
         /\ e = x /\ ~b => Once(Append(s, e), x, TRUE)
<1> DEFINE t == Append(s, e)
           n == Len(s)
<1>1. /\ \A i \in DOMAIN t : (i \in DOMAIN s /\ t[i] = s[i]) \/ (i = n + 1 /\ t[i] = e)
      /\ \A i \in DOMAIN s : i \in DOMAIN t /\ t[i] = s[i]
      /\ n + 1 \in DOMAIN t /\ t[n + 1] = e /\ n + 1 \notin DOMAIN s
  BY AppendElements
<1>2. /\ \A i, j \in DOMAIN s : s[i] = x /\ s[j] = x => i = j
      /\ b <=> \E i \in DOMAIN s : s[i] = x
  BY DEF Once
<1> HIDE DEF t, n
<1>3. e # x => Once(t, x, b)
  BY <1>1, <1>2 DEF Once
<1>4. e = x /\ ~b => Once(t, x, TRUE)
  BY <1>1, <1>2 DEF Once
<1> QED
  BY <1>3, <1>4 DEF t
\* What is in a concatenation is in one of its parts.
LEMMA ConcatElements ==
  ASSUME NEW S, NEW s \in Seq(S), NEW t \in Seq(S)
  PROVE  /\ s \o t \in Seq(S) /\ Len(s \o t) = Len(s) + Len(t)
         /\ \A i \in DOMAIN (s \o t) :
              (\E j \in DOMAIN s : (s \o t)[i] = s[j])
                \/ (\E j \in DOMAIN t : (s \o t)[i] = t[j])
<1> DEFINE u == s \o t
           m == Len(s)
           n == Len(t)
<1>1. /\ u \in Seq(S) /\ Len(u) = m + n /\ m \in Nat /\ n \in Nat
      /\ \A i \in 1 .. m + n : u[i] = IF i <= m THEN s[i] ELSE t[i - m]
      /\ DOMAIN u = 1 .. m + n /\ DOMAIN s = 1 .. m /\ DOMAIN t = 1 .. n
  BY ConcatProperties, LenProperties
<1> HIDE DEF u, m, n
<1>2. \A i \in 1 .. m + n : (i <= m => i \in 1 .. m) /\ (~(i <= m) => i - m \in 1 .. n)
  BY <1>1
<1>3. \A i \in DOMAIN u :
        (\E j \in DOMAIN s : u[i] = s[j]) \/ (\E j \in DOMAIN t : u[i] = t[j])
  BY <1>1, <1>2
<1> QED
  BY <1>1, <1>3 DEF u, m, n

\* The first n elements and the rest.
LEMMA Halves ==
  ASSUME NEW S, NEW w \in Seq(S), NEW n \in 0 .. Len(w)
  PROVE  /\ SubSeq(w, 1, n) \in Seq(S) /\ Len(SubSeq(w, 1, n)) = n
         /\ \A i \in DOMAIN SubSeq(w, 1, n) :
              i \in DOMAIN w /\ SubSeq(w, 1, n)[i] = w[i]
         /\ SubSeq(w, n + 1, Len(w)) \in Seq(S)
         /\ Len(SubSeq(w, n + 1, Len(w))) = Len(w) - n
         /\ \A i \in DOMAIN SubSeq(w, n + 1, Len(w)) :
              n + i \in DOMAIN w /\ SubSeq(w, n + 1, Len(w))[i] = w[n + i]
         /\ SubSeq(w, 1, n) \o SubSeq(w, n + 1, Len(w)) = w
<1> DEFINE L == Len(w)
           a == SubSeq(w, 1, n)
           b == SubSeq(w, n + 1, L)
<1>0. L \in Nat /\ n \in Nat /\ n <= L /\ DOMAIN w = 1 .. L
  BY LenProperties
<1>1. /\ \A i \in 1 .. n : w[i] \in S
      /\ \A i \in n + 1 .. L : w[i] \in S
  BY ElementOfSeq
<1>2. a \in Seq(S) /\ Len(a) = n /\ \A i \in 1 .. n : a[i] = w[i]
  <2>1. /\ SubSeq(w, 1, n) \in Seq(S)
        /\ Len(SubSeq(w, 1, n)) = IF 1 <= n THEN n - 1 + 1 ELSE 0
        /\ \A i \in 1 .. n - 1 + 1 : SubSeq(w, 1, n)[i] = w[1 + i - 1]
    BY ONLY <1>0, <1>1, SubSeqProperties
  <2>2. \A i \in 1 .. n : 1 + i - 1 = i
    BY <1>0
  <2> QED
    BY <1>0, <2>1, <2>2
<1>3. b \in Seq(S) /\ Len(b) = L - n /\ \A i \in 1 .. L - n : b[i] = w[n + i]
  <2>1. n + 1 \in Int /\ L \in Int
    BY <1>0
  <2>2. /\ SubSeq(w, n + 1, L) \in Seq(S)
        /\ Len(SubSeq(w, n + 1, L)) = IF n + 1 <= L THEN L - (n + 1) + 1 ELSE 0
        /\ \A i \in 1 .. L - (n + 1) + 1 : SubSeq(w, n + 1, L)[i] = w[n + 1 + i - 1]
    BY ONLY <2>1, <1>1, SubSeqProperties
  <2>3. \A i \in 1 .. L - n : n + 1 + i - 1 = n + i /\ i \in 1 .. L - (n + 1) + 1
    BY <1>0
  <2>4. (IF n + 1 <= L THEN L - (n + 1) + 1 ELSE 0) = L - n
    <3>1. \A k, l \in Nat :
            k <= l => (IF k + 1 <= l THEN l - (k + 1) + 1 ELSE 0) = l - k
      BY ONLY TRUE
    <3> QED
      BY <1>0, <3>1
  <2> QED
    BY <2>2, <2>3, <2>4
<1>4. DOMAIN a = 1 .. n /\ DOMAIN b = 1 .. L - n
  BY <1>2, <1>3, LenProperties
<1>5. /\ \A i \in 1 .. n : i \in 1 .. L
      /\ \A i \in 1 .. L - n : n + i \in 1 .. L
  BY <1>0
<1>6. a \o b = w
  <2>1. /\ 1 \in 1 .. L + 1 /\ n \in 1 - 1 .. L /\ L \in n .. L
    BY <1>0
  <2>2. SubSeq(w, 1, n) \o SubSeq(w, n + 1, L) = SubSeq(w, 1, L)
    BY ONLY w \in Seq(S), <2>1, ConcatAdjacentSubSeq DEF L
  <2> QED
    BY <2>2, SubSeqFull
<1> HIDE DEF L, a, b
<1>7. /\ \A i \in DOMAIN a : i \in DOMAIN w /\ a[i] = w[i]
      /\ \A i \in DOMAIN b : n + i \in DOMAIN w /\ b[i] = w[n + i]
  BY <1>0, <1>2, <1>3, <1>4, <1>5
<1> QED
  BY <1>2, <1>3, <1>6, <1>7 DEF L, a, b

\* Moving the first elements from behind to the front loses nothing.
LEMMA Moved ==
  ASSUME NEW S, NEW o \in Seq(S), NEW w \in Seq(S), NEW n \in 0 .. Len(w)
  PROVE  (o \o SubSeq(w, 1, n)) \o SubSeq(w, n + 1, Len(w)) = o \o w
<1> DEFINE a == SubSeq(w, 1, n)
           b == SubSeq(w, n + 1, Len(w))
<1>1. a \in Seq(S) /\ b \in Seq(S)
  BY Halves
<1>2. a \o b = w
  BY Halves
<1> HIDE DEF a, b
<1>3. (o \o a) \o b = o \o (a \o b)
  BY ONLY o \in Seq(S), <1>1
<1>4. (o \o a) \o b = o \o w
  BY ONLY <1>2, <1>3
<1> QED
  BY <1>4 DEF a, b

\* The same by the positions of x, r and y in x \o y and x \o r \o y.
LEMMA InsertedAt ==
  ASSUME NEW X \in Nat, NEW R \in Nat \ {0}, NEW Y \in Nat, NEW g, NEW n \in Nat,
         NEW a, DOMAIN a = 1 .. X + Y, NEW b, DOMAIN b = 1 .. X + R + Y,
         \A i \in 1 .. X : b[i] = a[i],
         \A i \in X + 1 .. X + R : b[i] = <<g, n + (i - X)>>,
         \A i \in X + R + 1 .. X + R + Y : b[i] = a[i - R],
         \A i \in 1 .. X + Y : a[i][2] \in Nat,
         \A i \in X + 1 .. X + Y : a[i][1] # g,
         Faithful(a, g, n)
  PROVE  Faithful(b, g, n + R)
<1> DEFINE ownA == {i \in DOMAIN a : a[i][1] = g}
           ownB == {i \in DOMAIN b : b[i][1] = g}
           numA(i) == a[i][2]
           numB(i) == b[i][2]
<1>1. /\ \A k \in 1 .. n : \E i \in ownA : numA(i) = k
      /\ \A i, j \in ownA : i < j => numA(i) < numA(j)
      /\ \A i \in ownA : numA(i) <= n
  BY DEF Faithful
<1>2. \A i \in ownA : i \in 1 .. X /\ numA(i) \in Nat
  OBVIOUS
<1>3. \A i \in ownA : i \in ownB /\ numB(i) = numA(i)
  <2> SUFFICES ASSUME NEW i \in ownA PROVE i \in ownB /\ numB(i) = numA(i)
    OBVIOUS
  <2>1. i \in 1 .. X /\ i \in DOMAIN b
    BY <1>2
  <2>2. b[i] = a[i]
    BY <2>1
  <2> QED
    BY <2>1, <2>2
<1>4. \A i \in X + 1 .. X + R : i \in ownB /\ numB(i) = n + (i - X)
  <2> SUFFICES ASSUME NEW i \in X + 1 .. X + R
               PROVE  i \in ownB /\ numB(i) = n + (i - X)
    OBVIOUS
  <2>1. i \in DOMAIN b
    OBVIOUS
  <2>2. b[i] = <<g, n + (i - X)>>
    OBVIOUS
  <2> QED
    BY <2>1, <2>2
<1>5. \A i \in ownB : i \in ownA \/ i \in X + 1 .. X + R
  <2> SUFFICES ASSUME NEW i \in ownB PROVE i \in ownA \/ i \in X + 1 .. X + R
    OBVIOUS
  <2>1. CASE i <= X
    BY <2>1
  <2>2. CASE i > X + R
    <3>1. i \in X + R + 1 .. X + R + Y /\ i - R \in X + 1 .. X + Y
      BY <2>2
    <3> QED
      BY <3>1
  <2> QED
    BY <2>1, <2>2
<1> HIDE DEF ownA, ownB, numA, numB
<1>6. \A k \in 1 .. n + R : \E i \in ownB : numB(i) = k
  <2> SUFFICES ASSUME NEW k \in 1 .. n + R PROVE \E i \in ownB : numB(i) = k
    OBVIOUS
  <2>1. CASE k <= n
    BY <1>1, <1>3, <2>1
  <2>2. CASE k > n
    <3>1. X + (k - n) \in X + 1 .. X + R /\ n + ((X + (k - n)) - X) = k
      BY <2>2
    <3> QED
      BY <1>4, <3>1
  <2> QED
    BY <2>1, <2>2
<1>7. \A i, j \in ownB : i < j => numB(i) < numB(j)
  BY <1>1, <1>2, <1>3, <1>4, <1>5
<1>8. \A i \in ownB : numB(i) <= n + R
  BY <1>1, <1>2, <1>3, <1>4, <1>5
<1> QED
  BY <1>6, <1>7, <1>8 DEF Faithful, ownB, numB

\* Where the elements of x, r and y are once r is inserted.
LEMMA Positions ==
  ASSUME NEW S, NEW x \in Seq(S), NEW r \in Seq(S), NEW y \in Seq(S),
         NEW a, a = x \o y, NEW b, b = (x \o r) \o y,
         NEW X, X = Len(x), NEW R, R = Len(r), NEW Y, Y = Len(y)
  PROVE  /\ X \in Nat /\ R \in Nat /\ Y \in Nat
         /\ a \in Seq(S) /\ DOMAIN a = 1 .. X + Y
         /\ b \in Seq(S) /\ DOMAIN b = 1 .. X + R + Y
         /\ \A i \in 1 .. X : b[i] = a[i]
         /\ \A i \in X + 1 .. X + R : b[i] = r[i - X]
         /\ \A i \in X + R + 1 .. X + R + Y : b[i] = a[i - R]
         /\ \A i \in X + 1 .. X + Y : a[i] = y[i - X]
<1>1. X \in Nat /\ R \in Nat /\ Y \in Nat
  OBVIOUS
<1>2. /\ a \in Seq(S) /\ Len(a) = X + Y
      /\ \A i \in 1 .. X + Y : a[i] = IF i <= X THEN x[i] ELSE y[i - X]
  BY ConcatProperties
<1> DEFINE xr == x \o r
<1>3. /\ xr \in Seq(S) /\ Len(xr) = X + R
      /\ \A i \in 1 .. X + R : xr[i] = IF i <= X THEN x[i] ELSE r[i - X]
  BY ConcatProperties
<1> HIDE DEF xr
<1>4. /\ b \in Seq(S) /\ Len(b) = Len(xr) + Len(y)
      /\ \A i \in 1 .. Len(xr) + Len(y) :
           b[i] = IF i <= Len(xr) THEN xr[i] ELSE y[i - Len(xr)]
  <2>1. b = xr \o y
    BY DEF xr
  <2> QED
    BY ONLY <1>3, <2>1, y \in Seq(S), ConcatProperties
<1>5. /\ Len(b) = X + R + Y
      /\ \A i \in 1 .. X + R + Y :
           b[i] = IF i <= X + R THEN xr[i] ELSE y[i - (X + R)]
  BY <1>3, <1>4
<1>6. DOMAIN a = 1 .. X + Y /\ DOMAIN b = 1 .. X + R + Y
  BY <1>2, <1>4, <1>5, LenProperties
<1>7. \A i \in 1 .. X : b[i] = a[i]
  <2> SUFFICES ASSUME NEW i \in 1 .. X PROVE b[i] = a[i]
    OBVIOUS
  <2>1. /\ i \in 1 .. X + R + Y /\ i <= X + R /\ i \in 1 .. X + R
        /\ i <= X /\ i \in 1 .. X + Y
    BY <1>1
  <2> QED
    BY <2>1, <1>2, <1>3, <1>5
<1>8. \A i \in X + 1 .. X + R : b[i] = r[i - X]
  <2> SUFFICES ASSUME NEW i \in X + 1 .. X + R PROVE b[i] = r[i - X]
    OBVIOUS
  <2>1. /\ i \in 1 .. X + R + Y /\ i <= X + R /\ i \in 1 .. X + R
        /\ ~(i <= X)
    BY <1>1
  <2> QED
    BY <2>1, <1>3, <1>5
<1>9. \A i \in X + 1 .. X + Y : a[i] = y[i - X]
  <2> SUFFICES ASSUME NEW i \in X + 1 .. X + Y PROVE a[i] = y[i - X]
    OBVIOUS
  <2>1. i \in 1 .. X + Y /\ ~(i <= X)
    BY <1>1
  <2> QED
    BY <2>1, <1>2
<1>10. \A i \in X + R + 1 .. X + R + Y : b[i] = a[i - R]
  <2> SUFFICES ASSUME NEW i \in X + R + 1 .. X + R + Y PROVE b[i] = a[i - R]
    OBVIOUS
  <2>1. /\ i \in 1 .. X + R + Y /\ ~(i <= X + R)
        /\ i - R \in X + 1 .. X + Y /\ (i - R) - X = i - (X + R)
    BY <1>1
  <2> QED
    BY <2>1, <1>5, <1>9
<1> QED
  BY <1>1, <1>2, <1>4, <1>6, <1>7, <1>8, <1>9, <1>10

\* The next bytes of a connection may be inserted in front of others only.
LEMMA Inserted ==
  ASSUME NEW S, NEW x \in Seq(S), NEW r \in Seq(S), NEW y \in Seq(S),
         NEW g, NEW n \in Nat, Carried(x, y, g, n),
         \A s \in S : s[2] \in Nat,
         \A i \in DOMAIN r : r[i] = <<g, n + i>>,
         \A i \in DOMAIN y : y[i][1] # g
  PROVE  /\ Carried(x \o r, y, g, n + Len(r))
         /\ AllOwn(x, y, g) => AllOwn(x \o r, y, g)
<1> DEFINE a == x \o y
           b == (x \o r) \o y
           X == Len(x)
           R == Len(r)
           Y == Len(y)
<1>0. X \in Nat /\ R \in Nat /\ Y \in Nat
  OBVIOUS
<1>1. /\ X \in Nat /\ R \in Nat /\ Y \in Nat
      /\ a \in Seq(S) /\ DOMAIN a = 1 .. X + Y
      /\ b \in Seq(S) /\ DOMAIN b = 1 .. X + R + Y
      /\ \A i \in 1 .. X : b[i] = a[i]
      /\ \A i \in X + 1 .. X + R : b[i] = r[i - X]
      /\ \A i \in X + R + 1 .. X + R + Y : b[i] = a[i - R]
      /\ \A i \in X + 1 .. X + Y : a[i] = y[i - X]
  BY Positions
<1>2. DOMAIN r = 1 .. R /\ DOMAIN y = 1 .. Y
  BY LenProperties
<1>3. Faithful(a, g, n)
  BY DEF Carried
<1>4. \A i \in DOMAIN a : a[i] \in S
  BY <1>1, ElementOfSeq
<1> HIDE DEF a, b, X, R, Y
<1>5. \A i \in 1 .. X + Y : a[i][2] \in Nat
  BY <1>1, <1>4
<1>6. \A i \in X + 1 .. X + R : b[i] = <<g, n + (i - X)>>
  <2> SUFFICES ASSUME NEW i \in X + 1 .. X + R PROVE b[i] = <<g, n + (i - X)>>
    OBVIOUS
  <2>1. i - X \in DOMAIN r
    BY <1>1, <1>2
  <2>2. b[i] = r[i - X]
    BY <1>1
  <2> QED
    BY <2>1, <2>2
<1>7. \A i \in X + 1 .. X + Y : a[i][1] # g
  <2> SUFFICES ASSUME NEW i \in X + 1 .. X + Y PROVE a[i][1] # g
    OBVIOUS
  <2>1. i - X \in DOMAIN y
    BY <1>1, <1>2
  <2>2. a[i] = y[i - X]
    BY <1>1
  <2> QED
    BY <2>1, <2>2
<1>8. Faithful(b, g, n + R)
  <2>1. CASE R = 0
    <3>1. r = <<>>
      BY <2>1, EmptySeq DEF R
    <3>2. b = a
      BY <3>1, ConcatEmptySeq DEF a, b
    <3> QED
      BY <1>1, <1>3, <2>1, <3>2
  <2>2. CASE R # 0
    <3>1. R \in Nat \ {0}
      BY <1>1, <2>2
    <3> QED
      BY ONLY <1>1, <1>3, <1>5, <1>6, <1>7, <3>1, n \in Nat, InsertedAt
  <2> QED
    BY <2>1, <2>2
<1>9. (\A i \in DOMAIN a : a[i][1] = g) => \A i \in DOMAIN b : b[i][1] = g
  <2> SUFFICES ASSUME \A i \in DOMAIN a : a[i][1] = g, NEW i \in DOMAIN b
               PROVE  b[i][1] = g
    OBVIOUS
  <2>1. \/ i \in 1 .. X /\ i \in DOMAIN a
        \/ i \in X + 1 .. X + R
        \/ i \in X + R + 1 .. X + R + Y /\ i - R \in DOMAIN a
    <3>1. i \in 1 .. X + R + Y
      BY <1>1
    <3>2. i \in 1 .. X \/ i \in X + 1 .. X + R \/ i \in X + R + 1 .. X + R + Y
      BY <1>0, <3>1
    <3>3. i \in 1 .. X => i \in 1 .. X + Y
      BY <1>1
    <3>4. i \in X + R + 1 .. X + R + Y => i - R \in 1 .. X + Y
      BY <1>1
    <3> QED
      BY <1>1, <3>2, <3>3, <3>4
  <2>2. CASE i \in 1 .. X /\ i \in DOMAIN a
    BY <1>1, <2>2
  <2>3. CASE i \in X + 1 .. X + R
    BY <1>6, <2>3
  <2>4. CASE i \in X + R + 1 .. X + R + Y /\ i - R \in DOMAIN a
    <3>1. b[i] = a[i - R]
      BY <1>1, <2>4
    <3> QED
      BY <2>4, <3>1
  <2> QED
    BY <2>1, <2>2, <2>3, <2>4
<1> QED
  <2>1. Carried(x \o r, y, g, n + Len(r))
    BY <1>8 DEF b, R, Carried
  <2>2. AllOwn(x, y, g) => AllOwn(x \o r, y, g)
    BY <1>9 DEF a, b, AllOwn
  <2> QED
    BY <2>1, <2>2

\* The next bytes of the connection may go behind everything.
LEMMA PutBehind ==
  ASSUME NEW S, NEW o \in Seq(S), NEW w \in Seq(S), NEW r \in Seq(S),
         NEW g, NEW n \in Nat, Carried(o, w, g, n),
         \A s \in S : s[2] \in Nat,
         \A i \in DOMAIN r : r[i] = <<g, n + i>>
  PROVE  /\ Carried(o, w \o r, g, n + Len(r))
         /\ AllOwn(o, w, g) => AllOwn(o, w \o r, g)
<1> DEFINE x == o \o w
<1>1. x \in Seq(S) /\ x \o <<>> = x
  BY ConcatProperties, ConcatEmptySeq
<1>2. (x \o r) \o <<>> = o \o (w \o r)
  <2>1. x \o r \in Seq(S)
    BY ONLY <1>1, r \in Seq(S), ConcatProperties
  <2>2. (x \o r) \o <<>> = x \o r
    BY ONLY <2>1, ConcatEmptySeq
  <2>3. (o \o w) \o r = o \o (w \o r)
    BY ONLY o \in Seq(S), w \in Seq(S), r \in Seq(S)
  <2> QED
    BY ONLY <2>2, <2>3
<1>3. Carried(x, <<>>, g, n) /\ (AllOwn(o, w, g) => AllOwn(x, <<>>, g))
  BY <1>1 DEF Carried, AllOwn
<1>4. <<>> \in Seq(S) /\ \A i \in DOMAIN <<>> : <<>>[i][1] # g
  OBVIOUS
<1> HIDE DEF x
<1>5. /\ Carried(x \o r, <<>>, g, n + Len(r))
      /\ AllOwn(x, <<>>, g) => AllOwn(x \o r, <<>>, g)
  BY ONLY <1>1, <1>3, <1>4, r \in Seq(S), n \in Nat, \A s \in S : s[2] \in Nat,
     \A i \in DOMAIN r : r[i] = <<g, n + i>>, Inserted
<1>6. Carried(o, w \o r, g, n + Len(r))
  BY ONLY <1>2, <1>5 DEF Carried
<1>7. AllOwn(o, w, g) => AllOwn(o, w \o r, g)
  BY ONLY <1>2, <1>3, <1>5 DEF AllOwn
<1> QED
  BY <1>6, <1>7

\* Its first part may go in front of bytes that are not its own, and the rest
\* behind them.
LEMMA PutAround ==
  ASSUME NEW S, NEW o \in Seq(S), NEW w \in Seq(S), NEW p \in Seq(S),
         NEW q \in Seq(S), NEW g, NEW n \in Nat, Carried(o, w, g, n),
         \A s \in S : s[2] \in Nat,
         \A i \in DOMAIN p : p[i] = <<g, n + i>>,
         \A i \in DOMAIN q : q[i] = <<g, n + Len(p) + i>>,
         \A i \in DOMAIN w : w[i][1] # g
  PROVE  /\ Carried(o \o p, w \o q, g, n + Len(p) + Len(q))
         /\ AllOwn(o, w, g) => AllOwn(o \o p, w \o q, g)
<1> DEFINE op == o \o p
           m == n + Len(p)
<1>1. Carried(op, w, g, m) /\ (AllOwn(o, w, g) => AllOwn(op, w, g))
  BY Inserted
<1>2. op \in Seq(S) /\ m \in Nat
  BY ConcatProperties
<1>3. \A i \in DOMAIN q : q[i] = <<g, m + i>>
  OBVIOUS
<1> HIDE DEF op, m
<1>4. /\ Carried(op, w \o q, g, m + Len(q))
      /\ AllOwn(op, w, g) => AllOwn(op, w \o q, g)
  BY ONLY <1>1, <1>2, <1>3, w \in Seq(S), q \in Seq(S),
     \A s \in S : s[2] \in Nat, PutBehind
<1> QED
  BY <1>1, <1>4 DEF op, m

-----------------------------------------------------------------------------
(* The inductive invariant, in three parts: the ranges of the counters, who *)
(* is in progress on which state of the slot, and the order of the bytes.   *)

\* The calls of the application's thread that have moved no byte yet: in
\* progress, or posted.  A functor of bindSocket is not one of them.
Waiting ==
  Len(functors) - (IF event = "created" THEN 1 ELSE 0)
                + (IF app = NoCall THEN 0 ELSE 1)

\* Input is counted when it arrives.  What was sent on the connection is
\* within the loop's own bound and that of the calls that no longer wait, each
\* of which moved MaxMessage bytes at most.
Counted ==
  /\ rcvQueue <= arrived
  /\ Waiting \in 0 .. posted
  /\ sent <= MaxSent + (posted - Waiting) * MaxMessage

\* bindSocket's functor is pending exactly while the event is created, once.
BindPending == Once(functors, BindCall, event = "created")

\* Only writeCompleteCallback_ is called on top of something, and
\* handleWriteEvent begins with an event that waits for room.
Stacked ==
  /\ OnTop(stack, "onWriteComplete")
  /\ (\E i \in DOMAIN stack : stack[i] = "write")
       => stack = <<"write">> /\ event = "writing"

\* An event that waits for room has a backlog, the last connection's included.
HasBacklog == event = "writing" => writeBuffer # <<>>

\* connectionCallback_ has been called for a registered connection, and not for
\* one that waits to be.
Greeted ==
  /\ event \in {"bound", "created"} => ~greeted
  /\ Registered => greeted

\* No call means a connection the application has not been told of.
CallsKnown ==
  /\ app # NoCall => app.gen <= Known
  /\ \A i \in DOMAIN functors : functors[i] # BindCall => functors[i].gen <= Known

\* A handler or callback in progress on a slot that is not registered: it has
\* closed its connection, or was called by a functor that missed its own, or it
\* is handleWriteEvent after a failed write, which still sees the backlog.
Orphaned ==
  stack # <<>> =>
    /\ event = "none" =>
         closedInside \/ (stack = <<"writeTail">> /\ writeBuffer # <<>>)
    /\ event \in {"bound", "created"} =>
         closedInside \/ mixed \/ (stack = <<"writeTail">> /\ writeBuffer # <<>>)

\* A free slot keeps no history of its last connection, and every byte in it
\* was sent to a connection it has served.
Kept ==
  /\ event = "none" => sent = 0 /\ out = <<>>
  /\ \A i \in DOMAIN out : out[i][1] <= gen
  /\ \A i \in DOMAIN writeBuffer : writeBuffer[i][1] <= gen

\* As long as no backlog is awaited, what is in the write buffer is not the
\* connection's own.
OwnGone ==
  (event # "writing" /\ event # "none" /\ ~mixed /\ fault = "none") =>
    \A i \in DOMAIN writeBuffer : writeBuffer[i][1] # gen

\* What the functors and the call in progress mean.
Posts == BindPending /\ CallsKnown

\* What is in progress on the slot, and what its event waits for.
Slot == Stacked /\ HasBacklog /\ Greeted /\ Orphaned /\ FaultNeedsCallback
          /\ BacklogIsAwaited

\* What becomes of the bytes.
Order == Kept /\ OwnGone /\ OutputInOrder

IInv == TypeOK /\ Counted /\ Posts /\ Slot /\ Order

-----------------------------------------------------------------------------
(* Lemmas about single parts of a step.                                     *)

\* What may be in progress.
Frames == Callbacks \cup {"read", "write", "writeTail"}

\* What the constants are.
LEMMA Bounds ==
  /\ SendBuffer \in Nat \ {0} /\ MaxGens \in Nat /\ MaxSent \in Nat
  /\ MaxMessage \in Nat /\ MaxArrived \in Nat /\ MaxDepth \in Nat
  /\ MaxPosts \in Nat /\ MaxTotal \in Nat /\ MaxSent <= MaxTotal
BY ConnectionAssumption DEF MaxTotal

\* Arithmetic of the calls that no longer wait.
LEMMA Times ==
  ASSUME NEW m \in Nat, NEW a \in Nat, NEW b \in Nat, a <= b
  PROVE  /\ a * m \in Nat
         /\ a * m <= b * m
         /\ (a + 1) * m = a * m + m
OBVIOUS

\* A handler, and a callback that was called by one, is alone.
LEMMA Alone ==
  ASSUME TypeOK, Stacked, Frame \notin {"idle", "onWriteComplete"}
  PROVE  /\ Len(stack) = 1 /\ stack = <<Frame>> /\ stack # <<>>
         /\ stack \in Seq(Frames)
<1>1. stack \in Seq(Frames) /\ stack # <<>> /\ Frame = Head(stack)
  BY DEF TypeOK, Frames, Frame
<1>2. Len(stack) = 1
  BY <1>1, OnTopAlone DEF Stacked
<1> QED
  BY <1>1, <1>2, SingleProperties

\* It returns to what it leaves behind.
LEMMA ReturnsAlone ==
  ASSUME TypeOK, Stacked, Frame \notin {"idle", "onWriteComplete"},
         NEW frames \in Seq(Frames), ReturnTo(frames)
  PROVE  stack' = frames /\ closedInside' = (closedInside /\ frames # <<>>)
<1>1. Tail(stack) = <<>>
  BY Alone, SingleProperties
<1> QED
  BY <1>1, ConcatEmptySeq DEF ReturnTo

\* A step that posts nothing, runs no functor and leaves the event's creation
\* alone changes nothing about the calls.
LEMMA PostsStay ==
  ASSUME Posts, UNCHANGED <<functors, app>>, Known \in Int, Known' \in Int,
         Known <= Known', event' = "created" <=> event = "created",
         TypeOK
  PROVE  Posts'
<1>1. BindPending'
  BY DEF Posts, BindPending
<1>2. CallsKnown'
  <2>1. app.gen \in Int
    BY DEF TypeOK, Posted, NoCall
  <2>2. \A i \in DOMAIN functors : functors[i].gen \in Int
    BY DEF TypeOK, Posted, BindCall
  <2> QED
    BY <2>1, <2>2 DEF Posts, CallsKnown
<1> QED
  BY <1>1, <1>2 DEF Posts

\* Nor does it change the counts, if no input is lost or comes uncounted and
\* nothing is sent but within the loop's own bound.
LEMMA CountedStays ==
  ASSUME TypeOK, Counted, UNCHANGED <<functors, app, posted>>,
         event' = "created" <=> event = "created",
         rcvQueue' <= arrived', sent' \in Nat,
         sent' <= sent \/ sent' <= MaxSent
  PROVE  Counted'
<1>1. /\ Waiting' = Waiting
      /\ Waiting \in 0 .. posted /\ posted \in Nat /\ sent \in Nat
      /\ sent <= MaxSent + (posted - Waiting) * MaxMessage
  <2>1. Waiting' = Waiting
    BY Zenon DEF Waiting
  <2> QED
    BY <2>1, Bounds DEF Counted, TypeOK
<1> DEFINE n == posted - Waiting
<1>2. n \in Nat
  BY <1>1
<1>3. n * MaxMessage \in Nat
  BY <1>2, Bounds, Times
<1>4. sent' <= MaxSent + n * MaxMessage
  <2> HIDE DEF n
  <2>1. sent <= MaxSent + n * MaxMessage
    BY <1>1 DEF n
  <2> QED
    BY <1>1, <1>3, <2>1, Bounds
<1> QED
  BY <1>1, <1>4 DEF Counted

\* The order of the bytes is not touched by a step that moves none and keeps
\* the connection, unless it gives up waiting for room with a backlog.
LEMMA OrderStays ==
  ASSUME Order, fault = "none", UNCHANGED <<writeBuffer, out, sent, gen, stale>>,
         mixed => mixed',
         event' # event =>
           event # "none" /\ event' # "none"
             /\ (event = "writing" => writeBuffer = <<>>)
  PROVE  Order'
<1>1. Kept'
  BY DEF Order, Kept
<1>2. OwnGone'
  BY DEF Order, OwnGone
<1>3. OutputInOrder'
  BY DEF Order, OutputInOrder
<1> QED
  BY <1>1, <1>2, <1>3 DEF Order

\* Nor by one that ends the connection: what is left is the backlog.
LEMMA OrderEnds ==
  ASSUME Order, event' = "none", CloseSocket, UNCHANGED <<writeBuffer, gen>>
  PROVE  Order'
BY DEF Order, Kept, OwnGone, OutputInOrder, CloseSocket

\* A new connection has sent nothing, and what it finds is not its own.
LEMMA OrderBegins ==
  ASSUME TypeOK, Order, NewSocket, event' \in {"bound", "reading"}
  PROVE  Order'
<1>1. /\ out = <<>> /\ sent = 0 /\ gen \in Nat /\ gen' = gen + 1
      /\ UNCHANGED <<writeBuffer, out, sent>>
      /\ writeBuffer \in Seq(Bytes)
      /\ \A i \in DOMAIN writeBuffer : writeBuffer[i][1] <= gen
      /\ \A i \in DOMAIN writeBuffer : writeBuffer[i][1] \in Nat
      /\ stale' = (writeBuffer # <<>>)
  BY Bounds DEF Order, Kept, NewSocket, TypeOK, stream, kernel, Bytes
<1>2. \A i \in DOMAIN writeBuffer : writeBuffer[i][1] # gen' /\ writeBuffer[i][1] <= gen'
  BY <1>1
<1>3. out' \o writeBuffer' = writeBuffer
  BY <1>1, ConcatEmptySeq
<1>4. OutputInOrder'
  <2>1. writeBuffer = <<>> => DOMAIN writeBuffer = {}
    BY <1>1
  <2>2. {i \in DOMAIN (out \o writeBuffer)' : (out \o writeBuffer)'[i][1] = gen'} = {}
    BY <1>2, <1>3
  <2>3. 1 .. sent' = {}
    BY <1>1
  <2> QED
    BY <1>1, <1>3, <2>1, <2>2, <2>3, Zenon DEF OutputInOrder
<1> QED
  BY <1>1, <1>2, <1>4 DEF Order, Kept, OwnGone

\* Nor does it change what is in progress.
LEMMA SlotStays ==
  ASSUME Slot, mixed => mixed',
         UNCHANGED <<event, stack, writeBuffer, greeted, closedInside, stale,
                     fault>>
  PROVE  Slot'
<1>1. Stacked' /\ HasBacklog' /\ Greeted'
  BY DEF Slot, Stacked, HasBacklog, Greeted, Registered, OnTop
<1>2. Orphaned' /\ FaultNeedsCallback' /\ BacklogIsAwaited'
  BY DEF Slot, Orphaned, FaultNeedsCallback, BacklogIsAwaited
<1> QED
  BY <1>1, <1>2 DEF Slot

\* Which connection the application may mean.
LEMMA KnownProperties ==
  ASSUME TypeOK, Greeted
  PROVE  /\ Known \in Int /\ gen \in Nat /\ Known <= gen
         /\ Registered => Known = gen
         /\ event \in {"bound", "created"} => Known = gen - 1
BY Bounds DEF TypeOK, Greeted, Known

\* The types of what a step on the loop's thread leaves alone or sets to one of
\* a few values.
LEMMA TypeStays ==
  ASSUME TypeOK, UNCHANGED <<modes, writeBuffer, functors, app, posted, out,
                             sent, gen, stale>>,
         stack' \in Seq(Frames),
         event' \in {"none", "bound", "created", "reading", "writing"},
         fault' \in {"none", "newConnection", "removeIOEvent", "enableIOWriting",
                     "handleReadEvent", "handleWriteEvent", "runInLoop"},
         rcvQueue' \in 0 .. MaxArrived, arrived' \in 0 .. MaxArrived,
         room' \in 0 .. SendBuffer,
         {fin', rst', starved', ready', greeted', mixed', closedInside'}
           \subseteq BOOLEAN
  PROVE  TypeOK'
BY DEF TypeOK, modes, Frames

-----------------------------------------------------------------------------
(* The peer, the kernel's end of the socket and the application's thread.   *)

\* The peer sends, closes, resets and reads: nothing of the slot moves.
LEMMA PeerKeeps ==
  ASSUME IInv, fault = "none",
         PeerSends \/ PeerCloses \/ PeerReset \/ PeerReadStep
  PROVE  IInv'
<1>1. UNCHANGED <<event, modes, writeBuffer, stack, functors, app, fault, gen,
                  stale, greeted, sent, out, mixed, closedInside, posted>>
  BY DEF PeerSends, PeerCloses, PeerReset, PeerReadStep, PeerReads, connection,
         stream, threads
<1>2. /\ rcvQueue' \in 0 .. MaxArrived /\ arrived' \in 0 .. MaxArrived
      /\ rcvQueue' <= arrived' /\ room' \in 0 .. SendBuffer
      /\ {fin', rst', starved', ready'} \subseteq BOOLEAN
  <2>0. /\ rcvQueue \in 0 .. MaxArrived /\ arrived \in 0 .. MaxArrived
        /\ rcvQueue <= arrived /\ room \in 0 .. SendBuffer
        /\ {fin, rst, starved, ready, etMode} \subseteq BOOLEAN
    BY ConnectionAssumption DEF IInv, TypeOK, Counted
  <2>1. CASE PeerSends
    BY <2>0, <2>1, Bounds DEF PeerSends, Edge, Registered, output
  <2>2. CASE PeerCloses
    BY <2>0, <2>2, Bounds DEF PeerCloses, Edge, Registered, output
  <2>3. CASE PeerReset
    BY <2>0, <2>3, Bounds DEF PeerReset, Edge, Registered, output
  <2>4. CASE PeerReadStep
    <3>1. PICK n \in 1 .. SendBuffer : PeerReads(n)
      BY <2>4 DEF PeerReadStep
    <3>2. /\ room' = room + n /\ room + n <= SendBuffer
          /\ UNCHANGED <<rcvQueue, fin, rst, arrived>>
      BY <3>1 DEF PeerReads, input
    <3>3. starved' \in BOOLEAN /\ ready' \in BOOLEAN
      BY <2>0, <3>1, Zenon DEF PeerReads
    <3> QED
      BY <2>0, <3>2, <3>3, Bounds
  <2> QED
    BY <2>1, <2>2, <2>3, <2>4
<1>3. TypeOK'
  <2>1. /\ stack \in Seq(Frames)
        /\ event \in {"none", "bound", "created", "reading", "writing"}
        /\ {greeted, mixed, closedInside} \subseteq BOOLEAN
    BY DEF IInv, TypeOK, Frames
  <2> QED
    BY <1>1, <1>2, <2>1, TypeStays DEF IInv
<1>4. Known' = Known /\ Known \in Int
  BY <1>1, KnownProperties DEF IInv, Slot, Known
<1>5. Posts'
  BY <1>1, <1>4, PostsStay DEF IInv
<1>6. Counted'
  BY <1>1, <1>2, CountedStays DEF IInv, TypeOK
<1>7. Slot'
  BY <1>1, SlotStays DEF IInv
<1>8. Order'
  BY <1>1, OrderStays DEF IInv
<1> QED
  BY <1>3, <1>5, <1>6, <1>7, <1>8 DEF IInv

\* Its calls are counted while they wait, and mean a connection it knows.
LEMMA AppKeeps ==
  ASSUME IInv, fault = "none", AppStep
  PROVE  IInv'
<1>1. /\ TypeOK /\ Counted /\ Posts /\ Slot /\ Order
      /\ functors \in Seq(Posted \cup {BindCall}) /\ app \in Posted \cup {NoCall}
      /\ gen \in 0 .. MaxGens /\ posted \in 0 .. MaxPosts
      /\ fault \in {"none", "newConnection", "removeIOEvent", "enableIOWriting",
                    "handleReadEvent", "handleWriteEvent", "runInLoop"}
  BY DEF IInv, TypeOK
<1>2. Known \in Int /\ gen \in Nat /\ Known <= gen
  BY <1>1, KnownProperties DEF Slot
<1>3. UNCHANGED <<event, modes, writeBuffer, stack, kernel, connection, stream,
                  closedInside>>
  BY DEF AppStep, AppPost, AppCheck
<1>4. /\ Known' = Known
      /\ UNCHANGED <<event, writeBuffer, stack, rcvQueue, arrived, greeted, gen,
                     stale, sent, out, mixed, closedInside>>
  BY <1>3 DEF Known, kernel, input, connection, stream
<1>5. Order'
  BY <1>1, <1>4, OrderStays
<1>6. ASSUME NEW call \in Calls, AppCheck(call) PROVE IInv'
  <2>1. /\ app = NoCall /\ posted < MaxPosts /\ Known > 0
        /\ app' = [op |-> call.op, len |-> call.len, gen |-> Known]
        /\ posted' = posted + 1 /\ functors' = functors /\ fault' = fault
    BY <1>6 DEF AppCheck
  <2>2. app' \in Posted /\ app' # NoCall /\ app'.gen = Known
    BY <1>1, <1>2, <2>1, Bounds DEF Calls, Posted, NoCall
  <2>3. TypeOK'
    BY <1>1, <1>3, <2>1, <2>2, Bounds
       DEF TypeOK, modes, kernel, input, output, connection, stream
  <2>4. Posts'
    <3>1. BindPending'
      BY <1>1, <1>4, <2>1 DEF Posts, BindPending, Once
    <3>2. CallsKnown'
      BY <1>1, <1>2, <1>4, <2>1, <2>2 DEF Posts, CallsKnown
    <3> QED
      BY <3>1, <3>2 DEF Posts
  <2>5. Counted'
    <3>1. Waiting \in Int /\ Waiting' = Waiting + 1
      <4>1. Len(functors) \in Nat
        BY <1>1
      <4> HIDE <1>1
      <4> QED
        BY <1>4, <2>1, <2>2, <4>1 DEF Waiting
    <3> DEFINE w == Waiting
               v == Waiting'
    <3>2. /\ rcvQueue <= arrived /\ w \in 0 .. posted
          /\ sent <= MaxSent + (posted - w) * MaxMessage
          /\ v = w + 1 /\ posted \in Nat
      BY <1>1, <3>1, Bounds DEF Counted
    <3> HIDE DEF w, v
    <3>3. v \in 0 .. posted' /\ posted' - v = posted - w
      BY <2>1, <3>2
    <3>4. sent' <= MaxSent + (posted' - v) * MaxMessage /\ rcvQueue' <= arrived'
      BY <1>4, <3>2, <3>3
    <3> QED
      BY <3>3, <3>4 DEF Counted, v
  <2>6. Slot'
    BY <1>1, <1>4, <2>1, SlotStays
  <2> QED
    BY <1>5, <2>3, <2>4, <2>5, <2>6 DEF IInv
<1>7. ASSUME AppPost, event # "none" PROVE IInv'
  <2>1. /\ app # NoCall /\ functors' = Append(functors, app) /\ app' = NoCall
        /\ UNCHANGED <<fault, posted>>
    BY <1>7 DEF AppPost
  <2>2. app \in Posted /\ app # BindCall
    BY <1>1, <2>1 DEF Posted, BindCall
  <2>3. /\ functors' \in Seq(Posted \cup {BindCall})
        /\ Len(functors') = Len(functors) + 1 /\ Len(functors) \in Nat
        /\ \A i \in DOMAIN functors' :
             (i \in DOMAIN functors /\ functors'[i] = functors[i])
               \/ (i = Len(functors) + 1 /\ functors'[i] = app)
    BY <1>1, <2>1, <2>2, AppendElements
  <2>4. TypeOK'
    BY <1>1, <1>3, <2>1, <2>3
       DEF TypeOK, modes, kernel, input, output, connection, stream
  <2>5. Posts'
    <3>1. BindPending'
      BY <1>1, <1>4, <2>1, <2>2, OnceAppend DEF Posts, BindPending
    <3>2. CallsKnown'
      BY <1>1, <1>4, <2>1, <2>3 DEF Posts, CallsKnown
    <3> QED
      BY <3>1, <3>2 DEF Posts
  <2>6. Counted'
    <3>1. Waiting' = Waiting
      BY <1>4, <2>1, <2>3 DEF Waiting
    <3> QED
      BY <1>1, <1>4, <2>1, <3>1, Zenon DEF Counted
  <2>7. Slot'
    BY <1>1, <1>4, <2>1, SlotStays
  <2> QED
    BY <1>5, <2>4, <2>5, <2>6, <2>7 DEF IInv
<1>8. ASSUME AppPost, event = "none" PROVE IInv'
  <2>1. fault' = "runInLoop" /\ UNCHANGED threads
    BY <1>8 DEF AppPost, threads
  <2>2. TypeOK'
    BY <1>1, <1>3, <2>1
       DEF TypeOK, modes, kernel, input, output, connection, stream, threads
  <2>3. Posts'
    BY <1>1, <1>2, <1>4, <2>1, PostsStay DEF threads
  <2>4. Counted'
    BY <1>1, <1>4, <2>1, CountedStays DEF threads, TypeOK, Counted
  <2>5. Slot'
    <3>1. Stacked' /\ HasBacklog' /\ Greeted' /\ Orphaned'
      BY <1>1, <1>4
         DEF Slot, Stacked, HasBacklog, Greeted, Registered, OnTop, Orphaned
    <3>2. FaultNeedsCallback' /\ BacklogIsAwaited'
      BY <2>1 DEF FaultNeedsCallback, BacklogIsAwaited
    <3> QED
      BY <3>1, <3>2 DEF Slot
  <2> QED
    BY <1>5, <2>2, <2>3, <2>4, <2>5 DEF IInv
<1> QED
  BY <1>6, <1>7, <1>8 DEF AppStep

-----------------------------------------------------------------------------
(* The birth of a connection.                                               *)

\* What every binding does, on whatever thread.
LEMMA NewSocketKeeps ==
  ASSUME IInv, fault = "none", NewSocket, event' \in {"bound", "reading"},
         greeted' \in BOOLEAN
  PROVE  /\ Posts' /\ Counted' /\ Order'
         /\ HasBacklog' /\ BacklogIsAwaited'
         /\ gen' \in 0 .. MaxGens /\ stale' \in BOOLEAN /\ mixed' = FALSE
         /\ UNCHANGED <<modes, writeBuffer, kernel, sent, out, closedInside,
                        threads>>
<1>1. /\ TypeOK /\ Counted /\ Posts /\ Slot /\ Order
      /\ event = "none" /\ gen < MaxGens /\ gen' = gen + 1
      /\ stale' = (writeBuffer # <<>>) /\ mixed' = FALSE
      /\ UNCHANGED <<modes, writeBuffer, kernel, sent, out, closedInside,
                     threads>>
      /\ gen \in Nat
  BY Bounds DEF IInv, NewSocket, TypeOK
<1>2. UNCHANGED <<functors, app, posted, rcvQueue, arrived, sent>>
  BY <1>1 DEF threads, kernel, input
<1>3. Known \in Int /\ Known <= gen
  BY <1>1, KnownProperties DEF Slot
<1>4. Known' \in Int /\ Known <= Known'
  BY <1>1, <1>3 DEF Known
<1>5. Posts'
  BY <1>1, <1>2, <1>3, <1>4, PostsStay
<1>6. Counted'
  BY <1>1, <1>2, CountedStays DEF Counted, TypeOK
<1>7. Order'
  BY <1>1, OrderBegins
<1>8. HasBacklog' /\ BacklogIsAwaited'
  BY <1>1 DEF HasBacklog, BacklogIsAwaited
<1>9. gen' \in 0 .. MaxGens
  BY <1>1, Bounds
<1> QED
  BY <1>1, <1>5, <1>6, <1>7, <1>8, <1>9

\* Without a pool bindSocket ends in connectionCallback_.
LEMMA BindSocketInLoopKeeps ==
  ASSUME IInv, fault = "none", BindSocketInLoop
  PROVE  IInv'
<1>1. /\ TypeOK /\ NewSocket /\ event' = "reading" /\ greeted' = TRUE
      /\ stack' = <<"onConnection">> /\ fault' = fault
  BY DEF BindSocketInLoop, IInv
<1>2. /\ Posts' /\ Counted' /\ Order'
      /\ HasBacklog' /\ BacklogIsAwaited'
      /\ gen' \in 0 .. MaxGens /\ stale' \in BOOLEAN /\ mixed' = FALSE
      /\ UNCHANGED <<modes, writeBuffer, kernel, sent, out, closedInside,
                     threads>>
  BY <1>1, NewSocketKeeps
<1>3. TypeOK'
  <2>1. stack' \in Seq(Callbacks \cup {"read", "write", "writeTail"})
    BY <1>1 DEF Callbacks
  <2> QED
    BY <1>1, <1>2, <2>1 DEF TypeOK, modes, kernel, input, output, threads
<1>4. Stacked' /\ Greeted' /\ Orphaned' /\ FaultNeedsCallback'
  BY <1>1
     DEF Stacked, OnTop, Greeted, Registered, Orphaned, FaultNeedsCallback
<1> QED
  BY <1>2, <1>3, <1>4 DEF IInv, Slot

\* A callback in progress on a free slot has closed its connection.
LEMMA BindSocketKeeps ==
  ASSUME IInv, fault = "none", BindSocket
  PROVE  IInv'
<1>1. /\ TypeOK /\ Slot /\ NewSocket /\ event = "none" /\ event' = "bound"
      /\ greeted' = FALSE /\ stack' = stack
      /\ \/ fault' = fault
         \/ fault' = "newConnection" /\ \E i \in DOMAIN stack : stack[i] \in Callbacks
  BY DEF BindSocket, IInv, NewSocket
<1>2. /\ Posts' /\ Counted' /\ Order'
      /\ HasBacklog' /\ BacklogIsAwaited'
      /\ gen' \in 0 .. MaxGens /\ stale' \in BOOLEAN /\ mixed' = FALSE
      /\ UNCHANGED <<modes, writeBuffer, kernel, sent, out, closedInside,
                     threads>>
  BY <1>1, NewSocketKeeps
<1>3. TypeOK'
  BY <1>1, <1>2 DEF TypeOK, modes, kernel, input, output, threads
<1>4. Stacked' /\ Greeted'
  BY <1>1 DEF Slot, Stacked, OnTop, Greeted, Registered
<1>5. Orphaned'
  BY <1>1, <1>2 DEF Slot, Orphaned
<1>6. FaultNeedsCallback'
  <2>1. CASE fault' = fault
    BY <2>1 DEF FaultNeedsCallback
  <2>2. CASE \E i \in DOMAIN stack : stack[i] \in Callbacks
    <3>1. stack # <<>> /\ stack # <<"writeTail">>
      BY <2>2 DEF Callbacks
    <3>2. closedInside
      BY <1>1, <3>1 DEF Slot, Orphaned
    <3> QED
      BY <1>2, <3>2 DEF FaultNeedsCallback
  <2> QED
    BY <1>1, <2>1, <2>2
<1> QED
  BY <1>2, <1>3, <1>4, <1>5, <1>6 DEF IInv, Slot

\* The functor of bindSocket is posted, and is no call.
LEMMA BindPostKeeps ==
  ASSUME IInv, fault = "none", BindPost
  PROVE  IInv'
<1>1. /\ TypeOK /\ Counted /\ Posts /\ Slot /\ Order
      /\ event = "bound" /\ event' = "created"
      /\ functors' = Append(functors, BindCall)
      /\ functors \in Seq(Posted \cup {BindCall})
      /\ UNCHANGED <<modes, writeBuffer, stack, fault, kernel, connection, stream,
                     closedInside, app, posted>>
  BY DEF IInv, BindPost, TypeOK
<1>2. /\ Known' = Known /\ Known \in Int
      /\ UNCHANGED <<gen, stale, greeted, sent, out, mixed, rcvQueue, arrived>>
  BY <1>1, KnownProperties DEF Slot, Known, connection, stream, kernel, input
<1>3. /\ functors' \in Seq(Posted \cup {BindCall})
      /\ Len(functors') = Len(functors) + 1 /\ Len(functors) \in Nat
      /\ \A i \in DOMAIN functors' :
           (i \in DOMAIN functors /\ functors'[i] = functors[i])
             \/ (i = Len(functors) + 1 /\ functors'[i] = BindCall)
  BY <1>1, AppendElements
<1>4. TypeOK'
  BY <1>1, <1>3
     DEF TypeOK, modes, kernel, input, output, connection, stream
<1>5. Posts'
  <2>1. BindPending'
    BY <1>1, OnceAppend DEF Posts, BindPending
  <2>2. CallsKnown'
    BY <1>1, <1>2, <1>3 DEF Posts, CallsKnown
  <2> QED
    BY <2>1, <2>2 DEF Posts
<1>6. Counted'
  <2>1. Waiting' = Waiting
    BY <1>1, <1>3 DEF Waiting
  <2> QED
    BY <1>1, <1>2, <2>1, Zenon DEF Counted
<1>7. Slot'
  BY <1>1, <1>2 DEF Slot, Stacked, OnTop, HasBacklog, Greeted, Registered,
     Orphaned, FaultNeedsCallback, BacklogIsAwaited
<1>8. Order'
  BY <1>1, <1>2, OrderStays
<1> QED
  BY <1>4, <1>5, <1>6, <1>7, <1>8 DEF IInv

\* What taking a functor does to the queue: another one leaves bindSocket's
\* where it is.
LEMMA FunctorTaken ==
  ASSUME TypeOK, Posts, NEW op, RunFunctor(op)
  PROVE  /\ stack = <<>> /\ Head(functors).op = op
         /\ Head(functors) \in Posted \cup {BindCall}
         /\ functors' \in Seq(Posted \cup {BindCall})
         /\ Len(functors') = Len(functors) - 1 /\ Len(functors) \in Nat
         /\ \A i \in DOMAIN functors' :
              i + 1 \in DOMAIN functors /\ functors'[i] = functors[i + 1]
         /\ Head(functors) # BindCall =>
              /\ Once(functors', BindCall, event = "created")
              /\ event = "created" => Len(functors) >= 2
              /\ Len(functors) >= 1
              /\ Head(functors).gen <= Known
         /\ Head(functors) = BindCall =>
              event = "created" /\ Once(functors', BindCall, FALSE)
         /\ UNCHANGED <<modes, app, posted>>
<1>1. /\ functors \in Seq(Posted \cup {BindCall}) /\ functors # <<>>
      /\ functors' = Tail(functors)
      /\ Once(functors, BindCall, event = "created")
      /\ Len(functors) \in Nat
  BY DEF TypeOK, Posts, BindPending, RunFunctor
<1>2. /\ functors' \in Seq(Posted \cup {BindCall})
      /\ Len(functors') = Len(functors) - 1
      /\ \A i \in DOMAIN functors' :
           i + 1 \in DOMAIN functors /\ functors'[i] = functors[i + 1]
      /\ 1 \in DOMAIN functors /\ Head(functors) = functors[1]
  BY <1>1, TailElements
<1>3. Len(functors) >= 1 /\ Head(functors) \in Posted \cup {BindCall}
  BY <1>1, EmptySeq, HeadTailProperties
<1>4. Head(functors) # BindCall =>
        /\ Once(functors', BindCall, event = "created")
        /\ event = "created" => Len(functors) >= 2
        /\ Head(functors).gen <= Known
  <2> SUFFICES ASSUME Head(functors) # BindCall
               PROVE  /\ Once(functors', BindCall, event = "created")
                      /\ event = "created" => Len(functors) >= 2
                      /\ Head(functors).gen <= Known
    OBVIOUS
  <2>1. Head(functors).gen <= Known
    BY <1>2 DEF Posts, CallsKnown
  <2> QED
    BY <1>1, <2>1, OnceTail
<1>5. Head(functors) = BindCall =>
        event = "created" /\ Once(functors', BindCall, FALSE)
  <2> SUFFICES ASSUME Head(functors) = BindCall
               PROVE  event = "created" /\ Once(functors', BindCall, FALSE)
    OBVIOUS
  <2>1. event = "created"
    BY <1>1, <1>2 DEF Once
  <2> QED
    BY <1>1, <2>1, OnceTaken
<1> QED
  BY <1>1, <1>2, <1>3, <1>4, <1>5 DEF RunFunctor

\* bindSocket's functor: the connection is registered and greeted.
LEMMA RunBindKeeps ==
  ASSUME IInv, fault = "none", RunBind
  PROVE  IInv'
<1>1. /\ TypeOK /\ Counted /\ Posts /\ Slot /\ Order
      /\ RunFunctor("bind") /\ event = "created" /\ event' = "reading"
      /\ ready' = (etMode /\ Readable) /\ greeted' = TRUE
      /\ stack' = <<"onConnection">>
      /\ UNCHANGED <<writeBuffer, fault, input, output, gen, stale, stream,
                     closedInside>>
  BY DEF IInv, RunBind
<1>2. /\ Head(functors) \in Posted \cup {BindCall} /\ Head(functors).op = "bind"
      /\ functors' \in Seq(Posted \cup {BindCall})
      /\ Len(functors') = Len(functors) - 1 /\ Len(functors) \in Nat
      /\ \A i \in DOMAIN functors' :
           i + 1 \in DOMAIN functors /\ functors'[i] = functors[i + 1]
      /\ UNCHANGED <<modes, app, posted>>
  BY <1>1, FunctorTaken
<1>3. Head(functors) = BindCall
  BY <1>2 DEF Posted
<1>4. Once(functors', BindCall, FALSE)
  BY <1>1, <1>3, FunctorTaken
<1>5. /\ Known \in Int /\ Known' \in Int /\ Known' = gen /\ Known <= Known'
      /\ UNCHANGED <<gen, stale, sent, out, mixed, rcvQueue, arrived>>
  BY <1>1, KnownProperties DEF Slot, Known, stream, input
<1>6. TypeOK'
  <2>1. ready' \in BOOLEAN
    BY <1>1, ConnectionAssumption, Zenon DEF TypeOK
  <2> QED
    BY <1>1, <1>2, <2>1 DEF TypeOK, modes, input, output, stream, Callbacks
<1>7. Posts'
  <2>1. BindPending'
    BY <1>1, <1>4 DEF BindPending
  <2>2. CallsKnown'
    <3>1. app.gen \in Int
      BY <1>1 DEF TypeOK, Posted, NoCall
    <3>2. app' # NoCall => app'.gen <= Known'
      BY <1>1, <1>2, <1>5, <3>1 DEF Posts, CallsKnown
    <3>3. ASSUME NEW i \in DOMAIN functors', functors'[i] # BindCall
          PROVE  functors'[i].gen <= Known'
      <4>1. /\ i + 1 \in DOMAIN functors /\ functors'[i] = functors[i + 1]
            /\ functors[i + 1].gen <= Known
        BY <1>1, <1>2, <3>3 DEF Posts, CallsKnown
      <4>2. functors[i + 1] \in Posted \cup {BindCall}
        BY <1>1, <4>1, LenProperties, ElementOfSeq DEF TypeOK
      <4>3. functors[i + 1].gen \in Int
        BY <3>3, <4>1, <4>2 DEF Posted
      <4> QED
        BY <1>5, <4>1, <4>3
    <3> QED
      BY <3>2, <3>3 DEF CallsKnown
  <2> QED
    BY <2>1, <2>2 DEF Posts
<1>8. Counted'
  <2>1. Waiting' = Waiting
    BY <1>1, <1>2 DEF Waiting
  <2> QED
    BY <1>1, <1>2, <1>5, <2>1, Zenon DEF Counted
<1>9. Slot'
  <2>1. Stacked' /\ HasBacklog' /\ Greeted' /\ Orphaned'
    BY <1>1 DEF Slot, Stacked, OnTop, HasBacklog, Greeted, Registered, Orphaned
  <2>2. FaultNeedsCallback' /\ BacklogIsAwaited'
    BY <1>1 DEF Slot, FaultNeedsCallback, BacklogIsAwaited
  <2> QED
    BY <2>1, <2>2 DEF Slot
<1>10. Order'
  BY <1>1, <1>5, OrderStays
<1> QED
  BY <1>6, <1>7, <1>8, <1>9, <1>10 DEF IInv

-----------------------------------------------------------------------------
(* The end of a connection.                                                 *)

\* handleCloseEvent frees the slot and drops the kernel's end of the socket, or
\* meets an event that is not registered yet.
LEMMA EventCloses ==
  ASSUME IInv, fault = "none", HandleCloseEvent, mixed => mixed',
         UNCHANGED <<gen, stale, greeted>>
  PROVE  /\ \/ Registered /\ event' = "none" /\ fault' = fault
            \/ ~Registered /\ event' = event /\ fault' = "removeIOEvent"
         /\ UNCHANGED <<writeBuffer, Known>>
         /\ rcvQueue' \in 0 .. MaxArrived /\ arrived' \in 0 .. MaxArrived
         /\ rcvQueue' <= arrived' /\ room' \in 0 .. SendBuffer
         /\ {fin', rst', starved', ready'} \subseteq BOOLEAN
         /\ sent' \in Nat /\ sent' <= sent /\ sent' \in 0 .. MaxTotal
         /\ out' \in Seq(Bytes)
         /\ Order' /\ HasBacklog' /\ Greeted' /\ BacklogIsAwaited'
<1>1. /\ TypeOK /\ Slot /\ Order /\ writeBuffer' = writeBuffer
      /\ rcvQueue \in 0 .. MaxArrived /\ arrived \in 0 .. MaxArrived
      /\ rcvQueue <= arrived /\ room \in 0 .. SendBuffer
      /\ {fin, rst, starved, ready} \subseteq BOOLEAN
      /\ sent \in Nat /\ sent \in 0 .. MaxTotal /\ out \in Seq(Bytes)
  BY Bounds DEF IInv, TypeOK, Counted, HandleCloseEvent
<1>2. Known' = Known
  BY DEF Known
<1>3. CASE Registered
  <2>1. event' = "none" /\ CloseSocket /\ fault' = fault
    BY <1>3 DEF HandleCloseEvent
  <2>2. /\ rcvQueue' = 0 /\ fin' = FALSE /\ rst' = FALSE /\ arrived' = 0
        /\ room' = SendBuffer /\ starved' = FALSE /\ ready' = FALSE
        /\ sent' = 0 /\ out' = <<>>
    BY <2>1 DEF CloseSocket
  <2>3. Order'
    BY <1>1, <2>1, OrderEnds
  <2>4. HasBacklog' /\ Greeted' /\ BacklogIsAwaited'
    BY <2>1 DEF HasBacklog, Greeted, Registered, BacklogIsAwaited
  <2>5. out' \in Seq(Bytes)
    BY <2>2
  <2>6. /\ rcvQueue' \in 0 .. MaxArrived /\ arrived' \in 0 .. MaxArrived
        /\ rcvQueue' <= arrived' /\ room' \in 0 .. SendBuffer
        /\ sent' \in Nat /\ sent' <= sent /\ sent' \in 0 .. MaxTotal
    BY <1>1, <2>2, Bounds
  <2> QED
    BY <1>1, <1>2, <1>3, <2>1, <2>2, <2>3, <2>4, <2>5, <2>6
<1>4. CASE ~Registered
  <2>1. fault' = "removeIOEvent" /\ UNCHANGED <<event, kernel, sent, out>>
    BY <1>4 DEF HandleCloseEvent
  <2>2. UNCHANGED <<rcvQueue, fin, rst, arrived, room, starved, ready>>
    BY <2>1 DEF kernel, input, output
  <2>3. Order'
    BY <1>1, <2>1, OrderStays
  <2>4. HasBacklog' /\ Greeted' /\ BacklogIsAwaited'
    BY <1>1, <2>1 DEF Slot, HasBacklog, Greeted, Registered, BacklogIsAwaited
  <2> QED
    BY <1>1, <1>2, <1>4, <2>1, <2>2, <2>3, <2>4
<1> QED
  BY <1>3, <1>4

\* A step that closes on the loop's thread, outside of the functors: what is
\* left to show is who is in progress then.
LEMMA ClosingKeeps ==
  ASSUME IInv, fault = "none", HandleCloseEvent, mixed => mixed',
         UNCHANGED <<modes, gen, stale, greeted, functors, app, posted>>,
         stack' \in Seq(Frames), mixed' \in BOOLEAN, closedInside' \in BOOLEAN,
         Stacked', Orphaned', FaultNeedsCallback'
  PROVE  IInv'
<1>1. /\ \/ Registered /\ event' = "none" /\ fault' = fault
         \/ ~Registered /\ event' = event /\ fault' = "removeIOEvent"
      /\ UNCHANGED <<writeBuffer, Known>>
      /\ rcvQueue' \in 0 .. MaxArrived /\ arrived' \in 0 .. MaxArrived
      /\ rcvQueue' <= arrived' /\ room' \in 0 .. SendBuffer
      /\ {fin', rst', starved', ready'} \subseteq BOOLEAN
      /\ sent' \in Nat /\ sent' <= sent /\ sent' \in 0 .. MaxTotal
      /\ out' \in Seq(Bytes)
      /\ Order' /\ HasBacklog' /\ Greeted' /\ BacklogIsAwaited'
  BY EventCloses
<1>2. TypeOK /\ Counted /\ Posts /\ Slot
  BY DEF IInv
<1>3. event' = "created" <=> event = "created"
  BY <1>1 DEF Registered
<1>4. Known \in Int
  BY <1>2, KnownProperties DEF Slot
<1>5. TypeOK'
  <2>1. /\ event' \in {"none", "bound", "created", "reading", "writing"}
        /\ fault' \in {"none", "newConnection", "removeIOEvent", "enableIOWriting",
                       "handleReadEvent", "handleWriteEvent", "runInLoop"}
    BY <1>1, <1>2 DEF TypeOK
  <2>2. stack' \in Seq(Callbacks \cup {"read", "write", "writeTail"})
    BY DEF Frames
  <2> QED
    BY <1>1, <1>2, <2>1, <2>2 DEF TypeOK, modes
<1>6. Posts'
  BY <1>1, <1>2, <1>3, <1>4, PostsStay
<1>7. Counted'
  BY <1>1, <1>2, <1>3, CountedStays
<1> QED
  BY <1>1, <1>5, <1>6, <1>7 DEF IInv, Slot

\* close() by a callback, or between the handlers.
LEMMA CloseKeeps ==
  ASSUME IInv, fault = "none", Close
  PROVE  IInv'
<1>1. /\ TypeOK /\ Slot /\ HandleCloseEvent /\ Frame \in AppCloses
      /\ event # "none" /\ closedInside' = (stack # <<>>)
      /\ mixed' = (mixed \/ Known # gen)
      /\ UNCHANGED <<modes, stack, connection, threads>>
  BY DEF IInv, Close
<1>2. UNCHANGED <<modes, gen, stale, greeted, functors, app, posted>>
  BY <1>1 DEF connection, threads
<1>3. /\ \/ Registered /\ event' = "none" /\ fault' = fault
         \/ ~Registered /\ event' = event /\ fault' = "removeIOEvent"
      /\ writeBuffer' = writeBuffer
  BY <1>1, <1>2, EventCloses
<1>4. stack # <<"write">>
  <2>1. Frame # "write"
    BY <1>1, ConnectionAssumption DEF Callbacks
  <2> QED
    BY <2>1 DEF Frame
<1>5. Stacked'
  BY <1>1, <1>4 DEF Slot, Stacked, OnTop
<1>6. mixed' \/ (event' = "none" /\ fault' = fault)
  <2>1. CASE Registered
    BY <1>3, <2>1
  <2>2. CASE ~Registered
    <3>1. event \in {"bound", "created"}
      BY <1>1, <2>2 DEF TypeOK, Registered
    <3>2. Known # gen
      BY <1>1, <3>1, KnownProperties DEF Slot
    <3> QED
      BY <1>1, <3>2
  <2> QED
    BY <2>1, <2>2
<1>7. Orphaned' /\ FaultNeedsCallback'
  BY <1>1, <1>3, <1>6 DEF Orphaned, FaultNeedsCallback
<1>8. stack' \in Seq(Frames) /\ closedInside' \in BOOLEAN /\ mixed' \in BOOLEAN
  BY <1>1, Zenon DEF TypeOK, Frames
<1> QED
  BY <1>1, <1>2, <1>5, <1>7, <1>8, ClosingKeeps

\* The peer's FIN or an error, met by the read handler.
LEMMA ReadEndKeeps ==
  ASSUME IInv, fault = "none", ReadEnd
  PROVE  IInv'
<1>1. /\ TypeOK /\ Slot /\ HandleCloseEvent /\ Frame = "read"
      /\ IF Registered THEN ReturnTo(<<>>) ELSE UNCHANGED <<stack, closedInside>>
      /\ mixed' = mixed
      /\ UNCHANGED <<modes, connection, threads>>
  BY DEF IInv, ReadEnd
<1>2. UNCHANGED <<modes, gen, stale, greeted, functors, app, posted>>
  BY <1>1 DEF connection, threads
<1>3. \/ Registered /\ event' = "none" /\ fault' = fault
      \/ ~Registered /\ event' = event /\ fault' = "removeIOEvent"
  BY <1>1, <1>2, EventCloses
<1>4. /\ stack = <<"read">> /\ stack # <<>> /\ stack \in Seq(Frames)
      /\ closedInside \in BOOLEAN /\ mixed \in BOOLEAN /\ <<>> \in Seq(Frames)
      /\ stack # <<"write">> /\ stack # <<"writeTail">>
  <2>1. stack = <<"read">> /\ stack # <<>> /\ stack \in Seq(Frames)
    BY <1>1, Alone DEF Slot
  <2> QED
    BY <1>1, <2>1 DEF TypeOK
<1>5. CASE Registered
  <2>1. stack' = <<>> /\ closedInside' = FALSE
    BY <1>1, <1>4, <1>5, ReturnsAlone DEF Slot
  <2>2. Stacked' /\ Orphaned' /\ FaultNeedsCallback'
    BY <1>3, <1>5, <2>1 DEF Stacked, OnTop, Orphaned, FaultNeedsCallback
  <2> QED
    BY <1>1, <1>2, <1>4, <2>1, <2>2, ClosingKeeps
<1>6. CASE ~Registered
  <2>1. UNCHANGED <<stack, closedInside>> /\ event' = event
    BY <1>1, <1>3, <1>6
  <2>2. closedInside \/ mixed
    BY <1>1, <1>4, <1>6 DEF TypeOK, Slot, Orphaned, Registered
  <2>3. Stacked' /\ Orphaned' /\ FaultNeedsCallback'
    BY <1>1, <1>4, <2>1, <2>2
       DEF Slot, Stacked, OnTop, Orphaned, FaultNeedsCallback
  <2> QED
    BY <1>1, <1>2, <1>4, <2>1, <2>3, ClosingKeeps
<1> QED
  BY <1>5, <1>6

\* A reset met by handleWriteEvent: its backlog stays, and it still looks at it.
LEMMA HandleWriteFailsKeeps ==
  ASSUME IInv, fault = "none", HandleWriteFails
  PROVE  IInv'
<1>1. /\ TypeOK /\ Slot /\ HandleCloseEvent /\ Frame = "write"
      /\ ReturnTo(<<"writeTail">>) /\ mixed' = mixed
      /\ UNCHANGED <<modes, connection, threads>>
  BY DEF IInv, HandleWriteFails
<1>2. UNCHANGED <<modes, gen, stale, greeted, functors, app, posted>>
  BY <1>1 DEF connection, threads
<1>3. /\ stack = <<"write">> /\ mixed \in BOOLEAN /\ closedInside \in BOOLEAN
      /\ <<"writeTail">> \in Seq(Frames)
  BY <1>1, Alone DEF Slot, TypeOK, Frames
<1>4. event = "writing" /\ writeBuffer # <<>>
  <2>1. 1 \in DOMAIN stack /\ stack[1] = "write"
    BY <1>3
  <2> QED
    BY <1>1, <2>1 DEF Slot, Stacked, HasBacklog
<1>5. event' = "none" /\ fault' = fault /\ writeBuffer' = writeBuffer
  BY <1>1, <1>2, <1>4, EventCloses DEF Registered
<1>6. stack' = <<"writeTail">> /\ closedInside' = closedInside
  <2>1. stack' = <<"writeTail">>
        /\ closedInside' = (closedInside /\ <<"writeTail">> # <<>>)
    BY <1>1, <1>3, ReturnsAlone DEF Slot
  <2> QED
    BY <1>3, <2>1
<1>7. Stacked' /\ Orphaned' /\ FaultNeedsCallback'
  BY <1>4, <1>5, <1>6 DEF Stacked, OnTop, Orphaned, FaultNeedsCallback
<1> QED
  BY <1>1, <1>2, <1>3, <1>6, <1>7, ClosingKeeps

-----------------------------------------------------------------------------
(* The handlers and the returns of callbacks, where no byte is sent.        *)

\* A handler that keeps what is to be sent and at most stops waiting for room
\* without a backlog: what is left to show is who is in progress then.
LEMMA HandlerKeeps ==
  ASSUME IInv, fault = "none",
         UNCHANGED <<modes, writeBuffer, functors, app, posted, out, sent, gen,
                     stale, greeted, mixed, arrived, room>>,
         event' # event =>
           event = "writing" /\ event' = "reading" /\ writeBuffer = <<>>,
         rcvQueue' \in Nat, rcvQueue' <= rcvQueue,
         {fin', rst', starved', ready'} \subseteq BOOLEAN,
         stack' \in Seq(Frames), closedInside' \in BOOLEAN,
         fault' \in {"none", "handleReadEvent", "handleWriteEvent"},
         Stacked', Orphaned', FaultNeedsCallback'
  PROVE  IInv'
<1>1. TypeOK /\ Counted /\ Posts /\ Slot /\ Order
  BY DEF IInv
<1>2. rcvQueue' \in 0 .. MaxArrived /\ rcvQueue' <= arrived'
  <2>1. rcvQueue \in 0 .. MaxArrived /\ arrived \in Nat /\ rcvQueue <= arrived
    BY <1>1, Bounds DEF TypeOK, Counted
  <2> QED
    BY <2>1, Bounds
<1>3. TypeOK'
  <2>1. /\ event' \in {"none", "bound", "created", "reading", "writing"}
        /\ arrived' \in 0 .. MaxArrived /\ room' \in 0 .. SendBuffer
        /\ {greeted', mixed'} \subseteq BOOLEAN
    BY <1>1 DEF TypeOK
  <2> QED
    BY <1>1, <1>2, <2>1, TypeStays
<1>4. Known' = Known /\ Known \in Int
  BY <1>1, KnownProperties DEF Slot, Known
<1>5. Posts'
  BY <1>1, <1>4, PostsStay
<1>6. Counted'
  BY <1>1, <1>2, CountedStays DEF TypeOK
<1>7. Order'
  BY <1>1, OrderStays
<1>8. HasBacklog' /\ Greeted' /\ BacklogIsAwaited'
  BY <1>1 DEF Slot, HasBacklog, Greeted, Registered, BacklogIsAwaited
<1> QED
  BY <1>3, <1>5, <1>6, <1>7, <1>8 DEF IInv, Slot

\* The stacks of one frame.
LEMMA SingleFrame ==
  /\ <<>> \in Seq(Frames) /\ <<"read">> \in Seq(Frames)
  /\ <<"write">> \in Seq(Frames) /\ <<"writeTail">> \in Seq(Frames)
  /\ <<"onMessage">> \in Seq(Frames) /\ <<"onConnection">> \in Seq(Frames)
<1>1. \A f \in Frames : <<f>> \in Seq(Frames)
  OBVIOUS
<1>2. {"read", "write", "writeTail", "onMessage", "onConnection"} \subseteq Frames
  BY DEF Frames, Callbacks
<1>3. <<>> \in Seq(Frames)
  OBVIOUS
<1> QED
  BY <1>1, <1>2, <1>3, Zenon

\* A handler or callback that was alone returns, or goes on as another one.
LEMMA ReturnKeeps ==
  ASSUME TypeOK, Slot, Frame \notin {"idle", "onWriteComplete"},
         NEW frames \in {<<>>, <<"read">>, <<"onMessage">>}, ReturnTo(frames),
         frames # <<>> => Frame # "writeTail" /\ event' = event,
         mixed' = mixed, fault' = "none"
  PROVE  /\ Stacked' /\ Orphaned' /\ FaultNeedsCallback'
         /\ stack' \in Seq(Frames) /\ closedInside' \in BOOLEAN
<1>1. frames \in Seq(Frames)
  BY SingleFrame
<1>2. stack' = frames /\ closedInside' = (closedInside /\ frames # <<>>)
  BY <1>1, ReturnsAlone DEF Slot
<1>3. stack = <<Frame>> /\ stack # <<>> /\ closedInside \in BOOLEAN
  BY Alone DEF Slot, TypeOK
<1>4. Stacked' /\ FaultNeedsCallback'
  <2>1. CASE frames = <<>>
    BY <1>2, <2>1 DEF Stacked, OnTop, FaultNeedsCallback
  <2>2. CASE frames = <<"read">>
    BY <1>2, <2>2 DEF Stacked, OnTop, FaultNeedsCallback
  <2>3. CASE frames = <<"onMessage">>
    BY <1>2, <2>3 DEF Stacked, OnTop, FaultNeedsCallback
  <2> QED
    BY <2>1, <2>2, <2>3
<1>5. Orphaned'
  <2>1. CASE frames = <<>>
    BY <1>2, <2>1 DEF Orphaned
  <2>2. CASE frames # <<>>
    <3>1. stack # <<"writeTail">> /\ event' = event /\ closedInside' = closedInside
      BY <1>2, <1>3, <2>2
    <3> QED
      BY <1>3, <3>1 DEF Slot, Orphaned
  <2> QED
    BY <2>1, <2>2
<1> QED
  BY <1>1, <1>2, <1>3, <1>4, <1>5

\* A report of epoll begins a handler on an empty stack, or closes.
LEMMA HandleIOEventKeeps ==
  ASSUME IInv, fault = "none", HandleIOEvent
  PROVE  IInv'
<1>1. /\ TypeOK /\ Slot /\ Registered /\ stack = <<>> /\ mixed' = mixed
      /\ closedInside' = closedInside /\ UNCHANGED <<modes, connection, threads>>
      /\ closedInside \in BOOLEAN /\ mixed \in BOOLEAN /\ stack \in Seq(Frames)
  BY DEF IInv, HandleIOEvent, TypeOK, Frames
<1>2. UNCHANGED <<modes, gen, stale, greeted, functors, app, posted>>
  BY <1>1 DEF connection, threads
<1>3. ASSUME HandleCloseEvent, UNCHANGED stack PROVE IInv'
  <2>1. event' = "none" /\ fault' = fault
    BY <1>1, <1>2, <1>3, EventCloses
  <2>2. Stacked' /\ Orphaned' /\ FaultNeedsCallback'
    BY <1>1, <1>3, <2>1 DEF Stacked, OnTop, Orphaned, FaultNeedsCallback
  <2> QED
    BY <1>1, <1>2, <1>3, <2>2, ClosingKeeps
<1>4. ASSUME ready' = FALSE,
             stack' = CASE Readable -> <<"read">>
                        [] ~Readable /\ Writeable -> <<"write">>
                        [] OTHER -> <<>>,
             UNCHANGED <<event, fault, writeBuffer, input, output, sent, out>>
      PROVE  IInv'
  <2>1. \/ stack' = <<"read">> \/ stack' = <<>>
        \/ stack' = <<"write">> /\ event = "writing"
    BY <1>4 DEF Writeable
  <2>2. stack' \in Seq(Frames)
    BY <2>1, SingleFrame
  <2>3. Stacked'
    BY <1>4, <2>1 DEF Stacked, OnTop
  <2>4. Orphaned' /\ FaultNeedsCallback'
    BY <1>1, <1>4 DEF Orphaned, FaultNeedsCallback, Registered
  <2>5. /\ UNCHANGED <<arrived, room, rcvQueue, fin, rst, starved>>
        /\ rcvQueue \in Nat /\ {fin, rst, starved} \subseteq BOOLEAN
    BY <1>1, <1>4, Bounds DEF input, output, TypeOK
  <2>6. /\ UNCHANGED <<modes, writeBuffer, functors, app, posted, out, sent, gen,
                       stale, greeted, mixed, arrived, room, event, rcvQueue, fin,
                       rst, starved, closedInside>>
        /\ ready' \in BOOLEAN /\ fault' = "none"
    BY <1>1, <1>2, <1>4, <2>5
  <2> QED
    BY <1>1, <2>2, <2>3, <2>4, <2>5, <2>6, HandlerKeeps
<1> QED
  BY <1>3, <1>4 DEF HandleIOEvent

\* handleReadEvent calls messageCallback_ in its own place.
LEMMA ReadSomeKeeps ==
  ASSUME IInv, fault = "none", NEW n \in 1 .. rcvQueue, ReadSome(n)
  PROVE  IInv'
<1>1. /\ TypeOK /\ Slot /\ Frame = "read" /\ rcvQueue' = rcvQueue - n
      /\ ReturnTo(<<"onMessage">>) /\ event' = event
      /\ UNCHANGED <<modes, writeBuffer, fault, fin, rst, arrived, output, ready,
                     connection, stream, threads>>
  BY DEF IInv, ReadSome
<1>2. /\ UNCHANGED <<modes, writeBuffer, functors, app, posted, out, sent, gen,
                     stale, greeted, mixed, arrived, room, fault, fin, rst,
                     starved, ready>>
      /\ rcvQueue \in Nat
      /\ {fin, rst, starved, ready} \subseteq BOOLEAN
  BY <1>1, Bounds DEF output, connection, stream, threads, TypeOK
<1>3. /\ Stacked' /\ Orphaned' /\ FaultNeedsCallback'
      /\ stack' \in Seq(Frames) /\ closedInside' \in BOOLEAN
  BY <1>1, <1>2, ReturnKeeps
<1>4. rcvQueue' \in Nat /\ rcvQueue' <= rcvQueue
  BY <1>1, <1>2
<1> QED
  BY <1>1, <1>2, <1>3, <1>4, HandlerKeeps

\* handleReadEvent returns at EAGAIN, and messageCallback_ to its loop.
LEMMA ReadReturnsKeep ==
  ASSUME IInv, fault = "none", ReadNothing \/ MessageReturns
  PROVE  IInv'
<1>1. /\ TypeOK /\ Slot /\ Frame \in {"read", "onMessage"}
      /\ UNCHANGED <<event, modes, writeBuffer, fault, kernel, connection, stream,
                     threads>>
  BY DEF IInv, ReadNothing, MessageReturns
<1>2. /\ UNCHANGED <<modes, writeBuffer, functors, app, posted, out, sent, gen,
                     stale, greeted, mixed, arrived, room, fault, fin, rst,
                     starved, ready, rcvQueue, event>>
      /\ rcvQueue \in Nat
      /\ {fin, rst, starved, ready} \subseteq BOOLEAN
  BY <1>1, Bounds DEF kernel, input, output, connection, stream, threads, TypeOK
<1>3. ReturnTo(<<>>) \/ ReturnTo(<<"read">>)
  BY DEF ReadNothing, MessageReturns
<1>4. /\ Stacked' /\ Orphaned' /\ FaultNeedsCallback'
      /\ stack' \in Seq(Frames) /\ closedInside' \in BOOLEAN
  BY <1>1, <1>2, <1>3, ReturnKeeps
<1> QED
  BY <1>1, <1>2, <1>4, HandlerKeeps

\* A callback that closed its connection returns to a handler without event.
LEMMA NullKeeps ==
  ASSUME IInv, fault = "none", MessageReturnsToNull \/ WriteTailOfNull
  PROVE  IInv'
<1>1. /\ TypeOK /\ Slot /\ event = "none"
      /\ fault' \in {"handleReadEvent", "handleWriteEvent"}
      /\ \/ Frame = "onMessage"
         \/ Frame = "writeTail" /\ writeBuffer = <<>>
      /\ UNCHANGED <<event, modes, writeBuffer, stack, kernel, connection, stream,
                     closedInside, threads>>
  BY DEF IInv, MessageReturnsToNull, WriteTailOfNull
<1>2. /\ UNCHANGED <<modes, writeBuffer, functors, app, posted, out, sent, gen,
                     stale, greeted, mixed, arrived, room, fin, rst, starved,
                     ready, rcvQueue, event, stack, closedInside>>
      /\ rcvQueue \in Nat
      /\ {fin, rst, starved, ready} \subseteq BOOLEAN
  BY <1>1, Bounds DEF kernel, input, output, connection, stream, threads, TypeOK
<1>3. stack = <<Frame>> /\ stack # <<>> /\ stack \in Seq(Frames)
  BY <1>1, Alone DEF Slot
<1>4. closedInside
  BY <1>1, <1>3 DEF Slot, Orphaned
<1>5. Stacked' /\ Orphaned' /\ FaultNeedsCallback' /\ closedInside' \in BOOLEAN
  BY <1>1, <1>2, <1>4
     DEF Slot, Stacked, OnTop, Orphaned, FaultNeedsCallback, TypeOK
<1> QED
  BY <1>1, <1>2, <1>3, <1>5, HandlerKeeps

\* connectionCallback_ was alone; writeCompleteCallback_ returns to whatever
\* made the send, or to handleWriteEvent.
LEMMA CallbackReturnsKeeps ==
  ASSUME IInv, fault = "none", CallbackReturns
  PROVE  IInv'
<1>1. /\ TypeOK /\ Slot /\ Frame \in {"onConnection", "onWriteComplete"}
      /\ ReturnTo(<<>>)
      /\ UNCHANGED <<event, modes, writeBuffer, fault, kernel, connection, stream,
                     threads>>
  BY DEF IInv, CallbackReturns
<1>2. /\ UNCHANGED <<modes, writeBuffer, functors, app, posted, out, sent, gen,
                     stale, greeted, mixed, arrived, room, fault, fin, rst,
                     starved, ready, rcvQueue, event>>
      /\ rcvQueue \in Nat
      /\ {fin, rst, starved, ready} \subseteq BOOLEAN
  BY <1>1, Bounds DEF kernel, input, output, connection, stream, threads, TypeOK
<1>3. /\ stack \in Seq(Frames) /\ stack # <<>> /\ closedInside \in BOOLEAN
      /\ OnTop(stack, "onWriteComplete")
  BY <1>1 DEF TypeOK, Frames, Frame, Slot, Stacked
<1>4. /\ Tail(stack) \in Seq(Frames) /\ OnTop(Tail(stack), "onWriteComplete")
      /\ \A i \in DOMAIN Tail(stack) :
           \E j \in DOMAIN stack : Tail(stack)[i] = stack[j]
  BY <1>3, OnTopTail
<1>5. /\ stack' = Tail(stack)
      /\ closedInside' = (closedInside /\ Tail(stack) # <<>>)
  BY <1>1, <1>4, ConcatEmptySeq DEF ReturnTo
<1>6. stack # <<"write">> /\ stack # <<"writeTail">>
  BY <1>1 DEF Frame
<1>7. Stacked'
  <2>1. \A i \in DOMAIN stack : stack[i] # "write"
    BY <1>1, <1>6 DEF Slot, Stacked
  <2>2. \A i \in DOMAIN stack' : stack'[i] # "write"
    BY <1>4, <1>5, <2>1
  <2> QED
    BY <1>4, <1>5, <2>2 DEF Stacked
<1>8. Orphaned'
  BY <1>1, <1>2, <1>3, <1>5, <1>6 DEF Slot, Orphaned
<1>9. FaultNeedsCallback' /\ closedInside' \in BOOLEAN /\ stack' \in Seq(Frames)
  BY <1>2, <1>3, <1>4, <1>5 DEF FaultNeedsCallback
<1> QED
  BY <1>1, <1>2, <1>7, <1>8, <1>9, HandlerKeeps

\* handleWriteEvent ends: an event that waits for room has a backlog, so that
\* nothing is left to ignore.
LEMMA WriteTailKeeps ==
  ASSUME IInv, fault = "none", WriteTail
  PROVE  IInv'
<1>1. /\ TypeOK /\ Slot /\ Frame = "writeTail" /\ ReturnTo(<<>>)
      /\ IF writeBuffer = <<>> THEN IgnoreWriting ELSE UNCHANGED <<event, ready>>
      /\ UNCHANGED <<modes, writeBuffer, fault, input, output, connection, stream,
                     threads>>
  BY DEF IInv, WriteTail
<1>2. /\ UNCHANGED <<modes, writeBuffer, functors, app, posted, out, sent, gen,
                     stale, greeted, mixed, arrived, room, fault, fin, rst,
                     starved, rcvQueue>>
      /\ rcvQueue \in Nat
      /\ {fin, rst, starved, ready, etMode} \subseteq BOOLEAN
  BY <1>1, Bounds, ConnectionAssumption
     DEF input, output, connection, stream, threads, TypeOK
<1>3. event' # event =>
        event = "writing" /\ event' = "reading" /\ writeBuffer = <<>>
  BY <1>1 DEF IgnoreWriting
<1>4. ready' \in BOOLEAN
  BY <1>1, <1>2, Zenon DEF IgnoreWriting
<1>5. /\ Stacked' /\ Orphaned' /\ FaultNeedsCallback'
      /\ stack' \in Seq(Frames) /\ closedInside' \in BOOLEAN
  BY <1>1, <1>2, ReturnKeeps
<1> QED
  BY <1>1, <1>2, <1>3, <1>4, <1>5, HandlerKeeps

-----------------------------------------------------------------------------
(* What a send does to the bytes.                                           *)

\* The bytes of one send are the next ones of the connection it is meant for.
LEMMA NewBytesProperties ==
  ASSUME TypeOK, NEW from \in 1 .. MaxGens, NEW len \in Nat,
         sent + len <= MaxTotal
  PROVE  /\ NewBytes(from, len) \in Seq(Bytes)
         /\ Len(NewBytes(from, len)) = len
         /\ DOMAIN NewBytes(from, len) = 1 .. len
         /\ \A i \in 1 .. len : NewBytes(from, len)[i] = <<from, sent + i>>
<1>1. sent \in Nat /\ MaxTotal \in Nat
  BY Bounds DEF TypeOK
<1>2. \A i \in 1 .. len : sent + i \in 1 .. MaxTotal
  BY <1>1
<1>3. \A i \in 1 .. len : <<from, sent + i>> \in Bytes
  BY <1>2 DEF Bytes
<1> DEFINE new == [i \in 1 .. len |-> <<from, sent + i>>]
<1>4. new \in [1 .. len -> Bytes]
  BY <1>3
<1>5. new \in Seq(Bytes) /\ Len(new) = len
  BY <1>4, SMTT(30)
<1> QED
  BY <1>5 DEF NewBytes

\* Bytes are numbered, and by the connections served so far.
LEMMA ByteNumbers ==
  /\ \A b \in Bytes : b[1] \in Nat /\ b[2] \in Nat
BY Bounds DEF Bytes

\* What Order says while the connection has met no foreign call.
LEMMA OrderIsFaithful ==
  ASSUME Order, event # "none", ~mixed
  PROVE  /\ Carried(out, writeBuffer, gen, sent)
         /\ ~stale => AllOwn(out, writeBuffer, gen)
<1> DEFINE all == out \o writeBuffer
           own == {i \in DOMAIN all : all[i][1] = gen}
<1>1. /\ \A k \in 1 .. sent : \E i \in own : all[i][2] = k
      /\ \A i, j \in own : i < j => all[i][2] < all[j][2]
      /\ \A i \in own : all[i][2] <= sent
      /\ ~stale => own = DOMAIN all
  BY DEF Order, OutputInOrder
<1>2. Faithful(all, gen, sent)
  BY <1>1 DEF Faithful
<1>3. ~stale => \A i \in DOMAIN all : all[i][1] = gen
  BY <1>1
<1> QED
  BY <1>2, <1>3 DEF Carried, AllOwn

\* And how it is shown: of the bytes of a step.
LEMMA OrderFromFaithful ==
  ASSUME event' # "none", Kept', OwnGone',
         ~mixed' => /\ Carried(out', writeBuffer', gen', sent')
                    /\ ~stale' => AllOwn(out', writeBuffer', gen')
  PROVE  Order'
<1> DEFINE all == out' \o writeBuffer'
           own == {i \in DOMAIN all : all[i][1] = gen'}
<1>1. ASSUME ~mixed'
      PROVE  /\ \A k \in 1 .. sent' : \E i \in own : all[i][2] = k
             /\ \A i, j \in own : i < j => all[i][2] < all[j][2]
             /\ \A i \in own : all[i][2] <= sent'
             /\ ~stale' => own = DOMAIN all
  <2>1. Faithful(all, gen', sent')
    BY <1>1 DEF Carried
  <2>2. ~stale' => \A i \in DOMAIN all : all[i][1] = gen'
    BY <1>1 DEF AllOwn
  <2>3. ~stale' => own = DOMAIN all
    BY <2>2
  <2> QED
    BY <2>1, <2>3 DEF Faithful
<1>2. OutputInOrder'
  BY <1>1 DEF OutputInOrder
<1> QED
  BY <1>2 DEF Order

\* Elements of a concatenation that were sent to a connection up to g.
LEMMA KnownBytes ==
  ASSUME NEW S, NEW s \in Seq(S), NEW t \in Seq(S), NEW g,
         \A i \in DOMAIN s : s[i][1] <= g, \A i \in DOMAIN t : t[i][1] <= g
  PROVE  s \o t \in Seq(S) /\ \A i \in DOMAIN (s \o t) : (s \o t)[i][1] <= g
<1> DEFINE u == s \o t
<1>1. /\ u \in Seq(S)
      /\ \A i \in DOMAIN u :
           (\E j \in DOMAIN s : u[i] = s[j]) \/ (\E j \in DOMAIN t : u[i] = t[j])
  BY ConcatElements
<1> HIDE DEF u
<1>2. \A i \in DOMAIN u : u[i][1] <= g
  BY <1>1
<1> QED
  BY <1>1, <1>2 DEF u

\* The bytes of a send that queues up: nothing else is touched.
LEMMA SentBehind ==
  ASSUME TypeOK, Order, NEW from \in 1 .. MaxGens, from <= gen, NEW len \in Nat,
         sent + len <= MaxTotal, SendBehindBacklog(from, len),
         mixed' = (mixed \/ from # gen), UNCHANGED <<gen, stale>>
  PROVE  /\ Order' /\ writeBuffer' \in Seq(Bytes) /\ out' \in Seq(Bytes)
         /\ sent' = sent + len
         /\ writeBuffer # <<>> => writeBuffer' # <<>>
<1> DEFINE new == NewBytes(from, len)
<1>1. /\ event = "writing" /\ event' = event /\ out' = out
      /\ writeBuffer' = writeBuffer \o new /\ sent' = sent + len
  BY DEF SendBehindBacklog
<1>2. /\ new \in Seq(Bytes) /\ Len(new) = len /\ DOMAIN new = 1 .. len
      /\ \A i \in 1 .. len : new[i] = <<from, sent + i>>
  BY NewBytesProperties
<1>3. /\ writeBuffer \in Seq(Bytes) /\ out \in Seq(Bytes) /\ gen \in Nat
      /\ sent \in Nat /\ mixed \in BOOLEAN
  BY Bounds DEF TypeOK
<1> HIDE DEF new
<1>4. \A i \in DOMAIN new : new[i][1] <= gen
  BY <1>2
<1>5. /\ writeBuffer' \in Seq(Bytes)
      /\ \A i \in DOMAIN writeBuffer' : writeBuffer'[i][1] <= gen
  <2>1. \A i \in DOMAIN writeBuffer : writeBuffer[i][1] <= gen
    BY DEF Order, Kept
  <2> QED
    BY ONLY <1>1, <1>2, <1>3, <1>4, <2>1, KnownBytes
<1>6. Kept' /\ OwnGone'
  BY <1>1, <1>5 DEF Order, Kept, OwnGone
<1>7. ASSUME ~mixed'
      PROVE  /\ Carried(out', writeBuffer', gen', sent')
             /\ ~stale' => AllOwn(out', writeBuffer', gen')
  <2>1. ~mixed /\ from = gen
    BY <1>7
  <2>2. /\ Carried(out, writeBuffer, gen, sent)
        /\ ~stale => AllOwn(out, writeBuffer, gen)
    BY <1>1, <2>1, OrderIsFaithful
  <2>3. \A i \in DOMAIN new : new[i] = <<gen, sent + i>>
    BY <1>2, <2>1
  <2>4. /\ Carried(out, writeBuffer \o new, gen, sent + Len(new))
        /\ AllOwn(out, writeBuffer, gen)
             => AllOwn(out, writeBuffer \o new, gen)
    <3>1. \A s \in Bytes : s[2] \in Nat
      BY ByteNumbers
    <3> QED
      BY ONLY <1>2, <1>3, <2>2, <2>3, <3>1, PutBehind
  <2> QED
    BY <1>1, <1>2, <2>2, <2>4
<1>8. Order'
  BY <1>1, <1>6, <1>7, OrderFromFaithful
<1>9. writeBuffer # <<>> => writeBuffer' # <<>>
  BY <1>1, <1>2, <1>3, ConcatEqualIffEmpty
<1> QED
  BY <1>1, <1>3, <1>5, <1>8, <1>9

\* Of one that the kernel takes whole: no byte of the connection waits.
LEMMA SentWhole ==
  ASSUME TypeOK, Order, fault = "none", event # "none",
         NEW from \in 1 .. MaxGens, from <= gen, NEW len \in Nat,
         sent + len <= MaxTotal, SendWhole(from, len),
         mixed' = (mixed \/ from # gen), UNCHANGED <<gen, stale>>
  PROVE  Order' /\ out' \in Seq(Bytes) /\ sent' = sent + len
<1> DEFINE new == NewBytes(from, len)
<1>1. /\ event # "writing" /\ event' = event /\ writeBuffer' = writeBuffer
      /\ out' = out \o new /\ sent' = sent + len
  BY DEF SendWhole
<1>2. /\ new \in Seq(Bytes) /\ Len(new) = len /\ DOMAIN new = 1 .. len
      /\ \A i \in 1 .. len : new[i] = <<from, sent + i>>
  BY NewBytesProperties
<1>3. /\ writeBuffer \in Seq(Bytes) /\ out \in Seq(Bytes) /\ gen \in Nat
      /\ sent \in Nat /\ mixed \in BOOLEAN
  BY Bounds DEF TypeOK
<1> HIDE DEF new
<1>4. \A i \in DOMAIN new : new[i][1] <= gen
  BY <1>2
<1>5. out' \in Seq(Bytes) /\ \A i \in DOMAIN out' : out'[i][1] <= gen
  <2>1. \A i \in DOMAIN out : out[i][1] <= gen
    BY DEF Order, Kept
  <2> QED
    BY ONLY <1>1, <1>2, <1>3, <1>4, <2>1, KnownBytes
<1>6. Kept' /\ OwnGone'
  BY <1>1, <1>5 DEF Order, Kept, OwnGone
<1>7. ASSUME ~mixed'
      PROVE  /\ Carried(out', writeBuffer', gen', sent')
             /\ ~stale' => AllOwn(out', writeBuffer', gen')
  <2>1. ~mixed /\ from = gen
    BY <1>7
  <2>2. /\ Carried(out, writeBuffer, gen, sent)
        /\ ~stale => AllOwn(out, writeBuffer, gen)
    BY <2>1, OrderIsFaithful
  <2>3. \A i \in DOMAIN new : new[i] = <<gen, sent + i>>
    BY <1>2, <2>1
  <2>4. \A i \in DOMAIN writeBuffer : writeBuffer[i][1] # gen
    BY <1>1, <2>1 DEF Order, OwnGone
  <2>5. /\ Carried(out \o new, writeBuffer, gen, sent + Len(new))
        /\ AllOwn(out, writeBuffer, gen) => AllOwn(out \o new, writeBuffer, gen)
    <3>1. \A s \in Bytes : s[2] \in Nat
      BY ByteNumbers
    <3> QED
      BY ONLY <1>2, <1>3, <2>2, <2>3, <2>4, <3>1, Inserted
  <2> QED
    BY <1>1, <1>2, <2>2, <2>5
<1>8. Order'
  BY <1>1, <1>6, <1>7, OrderFromFaithful
<1> QED
  BY <1>1, <1>5, <1>8

\* And of one that it takes in part: the rest is the backlog's end.
LEMMA SentPart ==
  ASSUME TypeOK, Order, fault = "none", event # "none",
         NEW from \in 1 .. MaxGens, from <= gen, NEW len \in Nat,
         sent + len <= MaxTotal, SendPart(from, len),
         mixed' = (mixed \/ from # gen), UNCHANGED <<gen, stale>>
  PROVE  /\ Order' /\ writeBuffer' \in Seq(Bytes) /\ out' \in Seq(Bytes)
         /\ sent' = sent + len /\ writeBuffer' # <<>>
<1> DEFINE new == NewBytes(from, len)
           p == SubSeq(new, 1, room)
           q == SubSeq(new, room + 1, len)
<1>1. /\ event # "writing" /\ room < len
      /\ out' = out \o p /\ writeBuffer' = writeBuffer \o q /\ sent' = sent + len
      /\ event' = "writing" \/ (event' = event /\ fault' # "none")
  <2>1. ExpectWriting
    BY DEF SendPart
  <2>2. event' = "writing" \/ (event' = event /\ fault' # "none")
    BY <2>1 DEF ExpectWriting
  <2> QED
    BY <2>2 DEF SendPart
<1>2. /\ new \in Seq(Bytes) /\ Len(new) = len /\ DOMAIN new = 1 .. len
      /\ \A i \in 1 .. len : new[i] = <<from, sent + i>>
  BY NewBytesProperties
<1>3. /\ writeBuffer \in Seq(Bytes) /\ out \in Seq(Bytes) /\ gen \in Nat
      /\ sent \in Nat /\ mixed \in BOOLEAN /\ room \in Nat
  BY Bounds DEF TypeOK
<1>4. /\ p \in Seq(Bytes) /\ Len(p) = room
      /\ \A i \in DOMAIN p : i \in DOMAIN new /\ p[i] = new[i]
      /\ q \in Seq(Bytes) /\ Len(q) = len - room
      /\ \A i \in DOMAIN q : room + i \in DOMAIN new /\ q[i] = new[room + i]
  <2>1. room \in 0 .. Len(new) /\ Len(new) = len
    BY <1>1, <1>2, <1>3
  <2> HIDE DEF new
  <2> QED
    BY ONLY <1>2, <2>1, Halves
<1> HIDE DEF new, p, q
<1>5. /\ \A i \in DOMAIN p : p[i] = <<from, sent + i>>
      /\ \A i \in DOMAIN q : q[i] = <<from, sent + (room + i)>>
      /\ \A i \in DOMAIN q : i \in Nat
  <2>1. \A i \in DOMAIN q : i \in Nat
    BY <1>4, LenProperties
  <2>2. \A i \in DOMAIN p : p[i] = <<from, sent + i>>
    BY ONLY <1>2, <1>4
  <2>3. \A i \in DOMAIN q : q[i] = <<from, sent + (room + i)>>
    BY ONLY <1>2, <1>4
  <2> QED
    BY <2>1, <2>2, <2>3
<1>6. /\ out' \in Seq(Bytes) /\ \A i \in DOMAIN out' : out'[i][1] <= gen
      /\ writeBuffer' \in Seq(Bytes)
      /\ \A i \in DOMAIN writeBuffer' : writeBuffer'[i][1] <= gen
  <2>1. /\ \A i \in DOMAIN out : out[i][1] <= gen
        /\ \A i \in DOMAIN writeBuffer : writeBuffer[i][1] <= gen
    BY DEF Order, Kept
  <2>2. /\ \A i \in DOMAIN p : p[i][1] <= gen
        /\ \A i \in DOMAIN q : q[i][1] <= gen
    BY <1>5
  <2> QED
    BY ONLY <1>1, <1>3, <1>4, <2>1, <2>2, KnownBytes
<1>7. Kept' /\ OwnGone'
  BY <1>1, <1>6 DEF Kept, OwnGone
<1>8. ASSUME ~mixed'
      PROVE  /\ Carried(out', writeBuffer', gen', sent')
             /\ ~stale' => AllOwn(out', writeBuffer', gen')
  <2>1. ~mixed /\ from = gen
    BY <1>8
  <2>2. /\ Carried(out, writeBuffer, gen, sent)
        /\ ~stale => AllOwn(out, writeBuffer, gen)
    BY <2>1, OrderIsFaithful
  <2>3. \A i \in DOMAIN p : p[i] = <<gen, sent + i>>
    BY <1>5, <2>1
  <2>4. \A i \in DOMAIN q : q[i] = <<gen, sent + Len(p) + i>>
    BY <1>3, <1>4, <1>5, <2>1
  <2>5. \A i \in DOMAIN writeBuffer : writeBuffer[i][1] # gen
    BY <1>1, <2>1 DEF Order, OwnGone
  <2>6. /\ Carried(out \o p, writeBuffer \o q, gen, sent + Len(p) + Len(q))
        /\ AllOwn(out, writeBuffer, gen)
             => AllOwn(out \o p, writeBuffer \o q, gen)
    <3>1. \A s \in Bytes : s[2] \in Nat
      BY ByteNumbers
    <3> QED
      BY ONLY <1>3, <1>4, <2>2, <2>3, <2>4, <2>5, <3>1, PutAround
  <2>7. sent + Len(p) + Len(q) = sent'
    BY <1>1, <1>3, <1>4
  <2> QED
    BY <1>1, <2>2, <2>6, <2>7
<1>9. event' # "none"
  BY <1>1
<1>10. Order'
  BY <1>7, <1>8, <1>9, OrderFromFaithful
<1>11. writeBuffer' # <<>>
  <2>1. q # <<>>
    BY <1>1, <1>3, <1>4, EmptySeq
  <2> QED
    BY <1>1, <1>3, <1>4, <2>1, ConcatEqualIffEmpty
<1> QED
  BY <1>1, <1>6, <1>10, <1>11

-----------------------------------------------------------------------------
(* The actions that send, and the functors of the application's calls.      *)

\* What a send leaves behind, whichever way it goes, from a callback or from
\* none.
LEMMA SendKeeps ==
  ASSUME IInv, fault = "none", event # "none",
         stack # <<"write">>, NEW from \in 1 .. MaxGens, from <= Known,
         NEW len \in 0 .. MaxMessage, sent + len <= MaxTotal, Send(from, len)
  PROVE  /\ functors' \in Seq(Posted \cup {BindCall})
              /\ app' \in Posted \cup {NoCall} /\ posted' \in 0 .. MaxPosts
              => TypeOK'
         /\ Slot' /\ Order'
         /\ event' = "created" <=> event = "created"
         /\ rcvQueue' <= arrived'
         /\ sent' \in Nat /\ sent' <= sent + len
         /\ Known' = Known
<1>1. /\ TypeOK /\ Slot /\ Order
      /\ mixed' = (mixed \/ from # gen)
      /\ UNCHANGED <<pooled, etMode, gen, stale, greeted>>
      /\ pooled \in PooledModes /\ etMode \in EtModes
      /\ writeBuffer \in Seq(Bytes) /\ stack \in Seq(Frames)
      /\ event \in {"bound", "created", "reading", "writing"}
      /\ gen \in Nat /\ gen \in 0 .. MaxGens /\ sent \in Nat /\ len \in Nat
      /\ sent \in 0 .. MaxTotal /\ room \in 0 .. SendBuffer
      /\ rcvQueue \in 0 .. MaxArrived /\ arrived \in 0 .. MaxArrived
      /\ rcvQueue <= arrived /\ out \in Seq(Bytes)
      /\ {fin, rst, starved, ready, stale, greeted, mixed, closedInside, etMode}
           \subseteq BOOLEAN
  BY Bounds, ConnectionAssumption
     DEF IInv, Send, modes, connection, TypeOK, Frames, Counted
<1>2. /\ Known \in Int /\ Known <= gen /\ from <= gen
      /\ event \in {"bound", "created"} => mixed'
      /\ Known' = Known
  <2>1. /\ Known \in Int /\ Known <= gen
        /\ event \in {"bound", "created"} => Known = gen - 1
    BY <1>1, KnownProperties DEF Slot
  <2>2. from <= gen /\ (event \in {"bound", "created"} => from # gen)
    BY <1>1, <2>1
  <2>3. Known' = Known
    BY <1>1 DEF Known
  <2> QED
    BY <1>1, <2>1, <2>2, <2>3
<1>3. \A i \in DOMAIN stack : stack[i] # "write"
  BY <1>1 DEF Slot, Stacked
<1>4. mixed' \in BOOLEAN
  BY <1>1
\* It queues up.
<1>5. CASE SendBehindBacklog(from, len)
  <2>1. /\ event = "writing"
        /\ UNCHANGED <<event, stack, fault, kernel, out, closedInside>>
    BY <1>5 DEF SendBehindBacklog
  <2>2. UNCHANGED <<rcvQueue, fin, rst, arrived, room, starved, ready>>
    BY <2>1 DEF kernel, input, output
  <2>3. /\ Order' /\ writeBuffer' \in Seq(Bytes) /\ out' \in Seq(Bytes)
        /\ sent' = sent + len
        /\ writeBuffer # <<>> => writeBuffer' # <<>>
    BY <1>1, <1>2, <1>5, SentBehind
  <2>4. writeBuffer' # <<>>
    BY <1>1, <2>1, <2>3 DEF Slot, HasBacklog
  <2>5. Slot'
    BY <1>1, <1>3, <2>1, <2>4
       DEF Slot, Stacked, OnTop, HasBacklog, Greeted, Registered, Orphaned,
           FaultNeedsCallback, BacklogIsAwaited
  <2>6. /\ functors' \in Seq(Posted \cup {BindCall})
             /\ app' \in Posted \cup {NoCall} /\ posted' \in 0 .. MaxPosts
             => TypeOK'
    BY <1>1, <1>4, <2>1, <2>2, <2>3, Bounds DEF TypeOK, Frames
  <2> QED
    BY <1>1, <1>2, <2>1, <2>2, <2>3, <2>5, <2>6
\* The kernel takes it.
<1>6. CASE SendWhole(from, len)
  <2>1. /\ event # "writing" /\ room' = room - len /\ len <= room
        /\ stack' = <<"onWriteComplete">> \o stack
        /\ UNCHANGED <<event, writeBuffer, fault, input, starved, ready,
                       closedInside>>
    BY <1>6 DEF SendWhole
  <2>2. UNCHANGED <<rcvQueue, fin, rst, arrived>> /\ room' \in 0 .. SendBuffer
    BY <1>1, <2>1, Bounds DEF input
  <2>3. Order' /\ out' \in Seq(Bytes) /\ sent' = sent + len
    BY <1>1, <1>2, <1>6, SentWhole
  <2>4. /\ stack' \in Seq(Frames) /\ OnTop(stack', "onWriteComplete")
        /\ \A i \in DOMAIN stack' : stack'[i] # "write"
    <3>1. "onWriteComplete" \in Frames /\ OnTop(stack, "onWriteComplete")
      BY <1>1 DEF Slot, Stacked, Frames, Callbacks
    <3>2. /\ stack' \in Seq(Frames) /\ OnTop(stack', "onWriteComplete")
          /\ \A i \in DOMAIN stack' : stack'[i] = "onWriteComplete"
               \/ \E j \in DOMAIN stack : stack'[i] = stack[j]
      BY <1>1, <2>1, <3>1, OnTopPush
    <3> QED
      BY <1>3, <3>2
  <2>5. Stacked' /\ HasBacklog' /\ Greeted'
    BY <1>1, <2>1, <2>4 DEF Slot, Stacked, HasBacklog, Greeted, Registered
  <2>6. Orphaned' /\ FaultNeedsCallback' /\ BacklogIsAwaited'
    BY <1>1, <1>2, <2>1
       DEF Slot, Orphaned, FaultNeedsCallback, BacklogIsAwaited
  <2>7. /\ functors' \in Seq(Posted \cup {BindCall})
             /\ app' \in Posted \cup {NoCall} /\ posted' \in 0 .. MaxPosts
             => TypeOK'
    BY <1>1, <1>4, <2>1, <2>2, <2>3, <2>4, Bounds DEF TypeOK, Frames
  <2> QED
    BY <1>1, <1>2, <2>1, <2>2, <2>3, <2>5, <2>6, <2>7 DEF Slot
\* It takes a part.
<1>7. CASE SendPart(from, len)
  <2>1. /\ event # "writing" /\ room' = 0 /\ starved' = TRUE /\ ExpectWriting
        /\ UNCHANGED <<stack, input, closedInside>>
    BY <1>7 DEF SendPart
  <2>2. UNCHANGED <<rcvQueue, fin, rst, arrived>> /\ room' \in 0 .. SendBuffer
    BY <1>1, <2>1, Bounds DEF input
  <2>3. /\ Order' /\ writeBuffer' \in Seq(Bytes) /\ out' \in Seq(Bytes)
        /\ sent' = sent + len /\ writeBuffer' # <<>>
    BY <1>1, <1>2, <1>7, SentPart
  <2>4. /\ \/ Registered /\ event' = "writing" /\ fault' = fault
           \/ event \in {"bound", "created"} /\ event' = event
                /\ fault' = "enableIOWriting"
        /\ ready' \in BOOLEAN
    <3>1. CASE Registered
      BY <1>1, <2>1, <3>1, Zenon DEF ExpectWriting
    <3>2. CASE ~Registered
      BY <1>1, <2>1, <3>2 DEF ExpectWriting, Registered
    <3> QED
      BY <3>1, <3>2
  <2>5. Stacked' /\ HasBacklog' /\ Greeted'
    BY <1>1, <1>3, <2>1, <2>3, <2>4
       DEF Slot, Stacked, OnTop, HasBacklog, Greeted, Registered
  <2>6. Orphaned' /\ FaultNeedsCallback' /\ BacklogIsAwaited'
    BY <1>1, <1>2, <2>1, <2>3, <2>4
       DEF Slot, Orphaned, FaultNeedsCallback, BacklogIsAwaited
  <2>7. /\ functors' \in Seq(Posted \cup {BindCall})
             /\ app' \in Posted \cup {NoCall} /\ posted' \in 0 .. MaxPosts
             => TypeOK'
    BY <1>1, <1>4, <2>1, <2>2, <2>3, <2>4, Bounds DEF TypeOK, Frames
  <2> QED
    BY <1>1, <1>2, <2>1, <2>2, <2>3, <2>4, <2>5, <2>6, <2>7
       DEF Slot, Registered
\* Or it fails.
<1>8. CASE SendFails
  <2>1. /\ HandleCloseEvent /\ closedInside' = (stack # <<>>) /\ stack' = stack
    BY <1>8 DEF SendFails
  <2>2. /\ \/ Registered /\ event' = "none" /\ fault' = fault
           \/ ~Registered /\ event' = event /\ fault' = "removeIOEvent"
        /\ writeBuffer' = writeBuffer
        /\ rcvQueue' \in 0 .. MaxArrived /\ arrived' \in 0 .. MaxArrived
        /\ rcvQueue' <= arrived' /\ room' \in 0 .. SendBuffer
        /\ {fin', rst', starved', ready'} \subseteq BOOLEAN
        /\ sent' \in Nat /\ sent' <= sent /\ sent' \in 0 .. MaxTotal
        /\ out' \in Seq(Bytes)
        /\ Order' /\ HasBacklog' /\ Greeted' /\ BacklogIsAwaited'
    BY <1>1, <2>1, EventCloses
  <2>3. mixed' \/ (event' = "none" /\ fault' = fault)
    BY <1>1, <1>2, <2>2 DEF Registered
  <2>4. Stacked'
    BY <1>1, <1>3, <2>1 DEF Slot, Stacked, OnTop
  <2>5. Orphaned' /\ FaultNeedsCallback'
    BY <1>1, <2>1, <2>2, <2>3 DEF Orphaned, FaultNeedsCallback
  <2>6. closedInside' \in BOOLEAN
    BY <2>1
  <2>7. /\ functors' \in Seq(Posted \cup {BindCall})
             /\ app' \in Posted \cup {NoCall} /\ posted' \in 0 .. MaxPosts
             => TypeOK'
    BY <1>1, <1>4, <2>1, <2>2, <2>6 DEF TypeOK, Frames
  <2>8. /\ event' = "created" <=> event = "created"
        /\ sent' <= sent + len
    BY <1>1, <2>2, Bounds DEF Registered
  <2> QED
    BY <1>2, <2>2, <2>4, <2>5, <2>7, <2>8 DEF Slot
<1> QED
  BY <1>5, <1>6, <1>7, <1>8 DEF Send

\* write() by a callback, or between the handlers.
LEMMA WriteKeeps ==
  ASSUME IInv, fault = "none", NEW len \in 1 .. MaxMessage, Write(len)
  PROVE  IInv'
<1>1. /\ TypeOK /\ Counted /\ Posts /\ Slot
      /\ event # "none" /\ Known > 0 /\ Frame \in Callbacks \cup {"idle"}
      /\ sent + len <= MaxSent /\ Send(Known, len)
      /\ UNCHANGED <<functors, app, posted>>
      /\ functors \in Seq(Posted \cup {BindCall})
      /\ app \in Posted \cup {NoCall} /\ posted \in 0 .. MaxPosts
      /\ gen \in 0 .. MaxGens /\ sent \in Nat
  BY Bounds DEF IInv, Write, threads, TypeOK
<1>2. stack # <<"write">>
  <2>1. Frame # "write"
    BY <1>1 DEF Callbacks
  <2> QED
    BY <2>1 DEF Frame
<1>3. Known \in 1 .. MaxGens /\ Known <= Known /\ Known \in Int
  BY <1>1, KnownProperties, Bounds DEF Slot
<1>4. sent + len <= MaxTotal /\ len \in 0 .. MaxMessage
  BY <1>1, Bounds
<1>5. /\ TypeOK' /\ Slot' /\ Order'
      /\ event' = "created" <=> event = "created"
      /\ rcvQueue' <= arrived'
      /\ sent' \in Nat /\ sent' <= sent + len
      /\ Known' = Known
  BY <1>1, <1>2, <1>3, <1>4, SendKeeps
<1>6. sent' <= MaxSent
  BY <1>1, <1>5, Bounds
<1>7. Counted'
  BY <1>1, <1>5, <1>6, CountedStays
<1>8. Posts'
  BY <1>1, <1>3, <1>5, PostsStay
<1> QED
  BY <1>5, <1>7, <1>8 DEF IInv

\* A functor of send or close is counted out, whatever it does.
LEMMA CallRuns ==
  ASSUME TypeOK, Counted, Posts, NEW op \in {"send", "close"}, RunFunctor(op)
  PROVE  /\ stack = <<>> /\ Head(functors) \in Posted /\ Head(functors).op = op
         /\ Head(functors).gen <= Known
         /\ functors' \in Seq(Posted \cup {BindCall})
         /\ app' \in Posted \cup {NoCall} /\ posted' \in 0 .. MaxPosts
         /\ UNCHANGED <<modes, app, posted>>
         /\ sent + Head(functors).len <= MaxTotal
         /\ Known' = Known /\ (event' = "created" <=> event = "created") => Posts'
         /\ (event' = "created" <=> event = "created")
              /\ rcvQueue' <= arrived' /\ sent' \in Nat
              /\ sent' <= sent + Head(functors).len
              => Counted'
<1> DEFINE head == Head(functors)
<1>1. /\ stack = <<>> /\ head.op = op /\ head \in Posted \cup {BindCall}
      /\ functors' \in Seq(Posted \cup {BindCall})
      /\ Len(functors') = Len(functors) - 1 /\ Len(functors) \in Nat
      /\ \A i \in DOMAIN functors' :
           i + 1 \in DOMAIN functors /\ functors'[i] = functors[i + 1]
      /\ head # BindCall =>
           /\ Once(functors', BindCall, event = "created")
           /\ event = "created" => Len(functors) >= 2
           /\ Len(functors) >= 1
           /\ head.gen <= Known
      /\ UNCHANGED <<modes, app, posted>>
  BY FunctorTaken
<1> HIDE DEF head
<1>2. head # BindCall /\ head \in Posted
  BY <1>1 DEF BindCall
<1>3. /\ app' \in Posted \cup {NoCall} /\ posted' \in 0 .. MaxPosts
      /\ posted' = posted /\ posted \in Nat /\ posted <= MaxPosts
      /\ app' = app /\ sent \in Nat /\ head.len \in 0 .. MaxMessage
  BY <1>1, <1>2, Bounds DEF TypeOK, Posted
<1>4. ASSUME Known' = Known, event' = "created" <=> event = "created"
      PROVE  Posts'
  <2>1. BindPending'
    BY <1>1, <1>2, <1>4, Zenon DEF BindPending
  <2>2. CallsKnown'
    BY <1>1, <1>3, <1>4 DEF Posts, CallsKnown
  <2> QED
    BY <2>1, <2>2 DEF Posts
\* How many calls wait before and after.
<1> DEFINE b == IF event = "created" THEN 1 ELSE 0
           c == IF app = NoCall THEN 0 ELSE 1
           m == Len(functors)
           w == Waiting
           n == posted - w
<1>5. /\ w = m - b + c /\ b \in 0 .. 1 /\ c \in 0 .. 1 /\ m \in Nat /\ m - b >= 1
  BY <1>1, <1>2 DEF Waiting
<1>6. w \in 0 .. posted /\ sent <= MaxSent + n * MaxMessage
  BY DEF Counted
<1> HIDE DEF b, c, m, w
<1>7. /\ w - 1 \in 0 .. posted /\ n \in Nat /\ n + 1 \in Nat
      /\ n + 1 = posted - (w - 1) /\ n + 1 <= MaxPosts
  BY <1>3, <1>5, <1>6, Bounds
<1> HIDE DEF n
<1>8. /\ n * MaxMessage \in Nat /\ (n + 1) * MaxMessage = n * MaxMessage + MaxMessage
      /\ (n + 1) * MaxMessage <= MaxPosts * MaxMessage
  BY <1>7, Bounds, Times
<1>9. sent + head.len <= MaxSent + (n + 1) * MaxMessage
  BY <1>3, <1>6, <1>8, Bounds
<1>10. sent + head.len <= MaxTotal
  <2>1. MaxPosts * MaxMessage \in Nat /\ (n + 1) * MaxMessage \in Nat
    BY <1>7, Bounds, Times
  <2> QED
    BY <1>3, <1>8, <1>9, <2>1, Bounds DEF MaxTotal
<1>11. ASSUME event' = "created" <=> event = "created",
              rcvQueue' <= arrived', sent' \in Nat, sent' <= sent + head.len
       PROVE  Counted'
  <2>1. Waiting' = w - 1
    <3>1. Waiting' = (m - 1) - b + c
      BY <1>1, <1>3, <1>11 DEF Waiting, m, b, c
    <3> QED
      BY <1>5, <3>1
  <2>2. sent' <= MaxSent + (n + 1) * MaxMessage
    <3>1. (n + 1) * MaxMessage \in Nat
      BY <1>7, Bounds, Times
    <3> QED
      BY <1>3, <1>9, <1>11, <3>1, Bounds
  <2>3. sent' <= MaxSent + (posted' - Waiting') * MaxMessage
    BY <1>3, <1>7, <2>1, <2>2
  <2> QED
    BY <1>3, <1>7, <1>11, <2>1, <2>3 DEF Counted
<1> QED
  BY <1>1, <1>2, <1>3, <1>4, <1>10, <1>11 DEF head


\* A send that was posted, to whatever connection the slot serves by then.
LEMMA RunSendKeeps ==
  ASSUME IInv, fault = "none", RunSend
  PROVE  IInv'
<1> DEFINE head == Head(functors)
<1>1. /\ TypeOK /\ Counted /\ Posts /\ Slot /\ event # "none"
      /\ RunFunctor("send") /\ Send(head.gen, head.len)
  BY DEF IInv, RunSend
<1>2. /\ stack = <<>> /\ head \in Posted /\ head.op = "send"
      /\ head.gen <= Known
      /\ functors' \in Seq(Posted \cup {BindCall})
      /\ app' \in Posted \cup {NoCall} /\ posted' \in 0 .. MaxPosts
      /\ sent + head.len <= MaxTotal
      /\ Known' = Known /\ (event' = "created" <=> event = "created") => Posts'
      /\ (event' = "created" <=> event = "created")
           /\ rcvQueue' <= arrived' /\ sent' \in Nat
           /\ sent' <= sent + head.len
           => Counted'
  BY <1>1, CallRuns
<1> HIDE DEF head
<1>3. stack # <<"write">>
  BY <1>2
<1>4. head.gen \in 1 .. MaxGens /\ head.len \in 0 .. MaxMessage
  BY <1>2 DEF Posted
<1>5. /\ TypeOK' /\ Slot' /\ Order'
      /\ event' = "created" <=> event = "created"
      /\ rcvQueue' <= arrived'
      /\ sent' \in Nat /\ sent' <= sent + head.len
      /\ Known' = Known
  BY <1>1, <1>2, <1>3, <1>4, SendKeeps
<1>6. Counted' /\ Posts'
  BY <1>2, <1>5
<1> QED
  BY <1>5, <1>6 DEF IInv

\* On a free slot the functors do nothing.
LEMMA RunNothingKeeps ==
  ASSUME IInv, fault = "none", RunNothing
  PROVE  IInv'
<1> DEFINE head == Head(functors)
<1>1. /\ TypeOK /\ Counted /\ Posts /\ Slot /\ Order /\ event = "none"
      /\ RunFunctor("send") \/ RunFunctor("close")
      /\ UNCHANGED <<event, writeBuffer, stack, fault, kernel, connection, stream,
                     closedInside>>
  BY DEF IInv, RunNothing
<1>2. /\ head \in Posted
      /\ functors' \in Seq(Posted \cup {BindCall})
      /\ app' \in Posted \cup {NoCall} /\ posted' \in 0 .. MaxPosts
      /\ UNCHANGED modes
      /\ Known' = Known /\ (event' = "created" <=> event = "created") => Posts'
      /\ (event' = "created" <=> event = "created")
           /\ rcvQueue' <= arrived' /\ sent' \in Nat
           /\ sent' <= sent + head.len
           => Counted'
  BY <1>1, CallRuns
<1>3. head.len \in Nat
  BY <1>2, Bounds DEF Posted
<1> HIDE DEF head
<1>4. /\ Known' = Known
      /\ UNCHANGED <<event, writeBuffer, stack, rcvQueue, arrived, greeted, gen,
                     stale, sent, out, mixed, closedInside, fault>>
  BY <1>1 DEF Known, kernel, input, connection, stream
<1>5. Posts'
  BY <1>2, <1>4
<1>6. Counted'
  <2>1. sent \in Nat /\ rcvQueue <= arrived
    BY <1>1, Bounds DEF TypeOK, Counted
  <2>2. sent' <= sent + head.len
    BY <1>3, <1>4, <2>1
  <2> QED
    BY <1>2, <1>4, <2>1, <2>2
<1>7. TypeOK'
  BY <1>1, <1>2
     DEF TypeOK, modes, kernel, input, output, connection, stream
<1>8. Slot' /\ Order'
  BY <1>1, <1>4, SlotStays, OrderStays
<1> QED
  BY <1>5, <1>6, <1>7, <1>8 DEF IInv

\* A close that was posted ends the connection the slot serves by then.
LEMMA RunCloseKeeps ==
  ASSUME IInv, fault = "none", RunClose
  PROVE  IInv'
<1> DEFINE head == Head(functors)
<1>1. /\ TypeOK /\ Counted /\ Posts /\ Slot /\ event # "none"
      /\ RunFunctor("close") /\ HandleCloseEvent
      /\ mixed' = (mixed \/ head.gen # gen)
      /\ UNCHANGED <<stack, connection, closedInside>>
      /\ mixed \in BOOLEAN /\ closedInside \in BOOLEAN /\ gen \in Nat
      /\ event \in {"bound", "created", "reading", "writing"}
  BY Bounds DEF IInv, RunClose, TypeOK
<1>2. /\ stack = <<>> /\ head \in Posted /\ head.gen <= Known
      /\ functors' \in Seq(Posted \cup {BindCall})
      /\ app' \in Posted \cup {NoCall} /\ posted' \in 0 .. MaxPosts
      /\ UNCHANGED modes
      /\ Known' = Known /\ (event' = "created" <=> event = "created") => Posts'
      /\ (event' = "created" <=> event = "created")
           /\ rcvQueue' <= arrived' /\ sent' \in Nat
           /\ sent' <= sent + head.len
           => Counted'
  BY <1>1, CallRuns
<1>3. head.len \in Nat /\ head.gen \in Int
  BY <1>2, Bounds DEF Posted
<1> HIDE DEF head
<1>4. UNCHANGED <<gen, stale, greeted>>
  BY <1>1 DEF connection
<1>5. /\ \/ Registered /\ event' = "none" /\ fault' = fault
         \/ ~Registered /\ event' = event /\ fault' = "removeIOEvent"
      /\ UNCHANGED <<writeBuffer, Known>>
      /\ rcvQueue' \in 0 .. MaxArrived /\ arrived' \in 0 .. MaxArrived
      /\ rcvQueue' <= arrived' /\ room' \in 0 .. SendBuffer
      /\ {fin', rst', starved', ready'} \subseteq BOOLEAN
      /\ sent' \in Nat /\ sent' <= sent /\ sent' \in 0 .. MaxTotal
      /\ out' \in Seq(Bytes)
      /\ Order' /\ HasBacklog' /\ Greeted' /\ BacklogIsAwaited'
  BY <1>1, <1>4, EventCloses
<1>6. event' = "created" <=> event = "created"
  BY <1>5 DEF Registered
<1>7. Posts'
  BY <1>2, <1>5, <1>6
<1>8. Counted'
  <2>1. sent' <= sent + head.len
    BY <1>1, <1>3, <1>5, Bounds DEF TypeOK
  <2> QED
    BY <1>2, <1>5, <1>6, <2>1
<1>9. mixed' \/ (event' = "none" /\ fault' = fault)
  <2>1. CASE Registered
    BY <1>5, <2>1
  <2>2. CASE ~Registered
    <3>1. Known = gen - 1
      BY <1>1, <2>2, KnownProperties DEF Slot, Registered
    <3>2. head.gen # gen
      BY <1>1, <1>2, <1>3, <3>1
    <3> QED
      BY <1>1, <3>2
  <2> QED
    BY <2>1, <2>2
<1>10. Stacked' /\ Orphaned' /\ FaultNeedsCallback'
  BY <1>1, <1>2, <1>9 DEF Stacked, OnTop, Orphaned, FaultNeedsCallback
<1>11. TypeOK'
  <2>1. /\ event' \in {"none", "bound", "created", "reading", "writing"}
        /\ fault' \in {"none", "removeIOEvent"}
        /\ mixed' \in BOOLEAN
    BY <1>1, <1>5
  <2> QED
    BY <1>1, <1>2, <1>4, <1>5, <2>1 DEF TypeOK, modes
<1> QED
  BY <1>5, <1>7, <1>8, <1>10, <1>11 DEF IInv, Slot

\* One write of the backlog: bytes go from its front to the kernel, and the
\* event stops waiting for room with the last one.
LEMMA HandleWriteEventKeeps ==
  ASSUME IInv, fault = "none", HandleWriteEvent
  PROVE  IInv'
<1> DEFINE w == writeBuffer
           n == MinOf(room, Len(w))
           rest == SubSeq(w, n + 1, Len(w))
           complete == w # <<>> /\ rest = <<>>
           frames == IF complete THEN <<"onWriteComplete", "writeTail">>
                                 ELSE <<"writeTail">>
<1>1. /\ TypeOK /\ Counted /\ Posts /\ Slot /\ Order
      /\ Frame = "write"
      /\ out' = out \o SubSeq(w, 1, n) /\ writeBuffer' = rest
      /\ room' = room - n /\ starved' = (rest # <<>>)
      /\ IF complete THEN IgnoreWriting ELSE UNCHANGED <<event, ready>>
      /\ ReturnTo(frames)
      /\ UNCHANGED <<modes, fault, input, connection, sent, mixed, threads>>
  BY DEF IInv, HandleWriteEvent
<1>2. /\ UNCHANGED <<pooled, etMode, rcvQueue, fin, rst, arrived, gen, stale,
                     greeted, functors, app, posted, fault, sent, mixed>>
      /\ w \in Seq(Bytes) /\ out \in Seq(Bytes) /\ room \in Nat
      /\ room \in 0 .. SendBuffer
      /\ {etMode, ready} \subseteq BOOLEAN /\ closedInside \in BOOLEAN
  BY <1>1, Bounds, ConnectionAssumption
     DEF modes, input, connection, threads, TypeOK
<1>3. Len(w) \in Nat
  BY <1>2
<1>4. n \in 0 .. Len(w) /\ n <= room /\ n \in Nat
  <2> DEFINE l == Len(w)
  <2> HIDE DEF l
  <2>1. MinOf(room, l) \in 0 .. l /\ MinOf(room, l) <= room /\ MinOf(room, l) \in Nat
    BY <1>2, <1>3 DEF MinOf, l
  <2> QED
    BY <2>1 DEF l
<1>5. stack = <<"write">> /\ event = "writing" /\ w # <<>>
  <2>1. stack = <<"write">>
    BY <1>1, Alone DEF Slot
  <2>2. 1 \in DOMAIN stack /\ stack[1] = "write"
    BY <2>1
  <2> QED
    BY <1>1, <2>1, <2>2 DEF Slot, Stacked, HasBacklog
<1> HIDE DEF n
<1>6. /\ SubSeq(w, 1, n) \in Seq(Bytes)
      /\ \A i \in DOMAIN SubSeq(w, 1, n) :
           i \in DOMAIN w /\ SubSeq(w, 1, n)[i] = w[i]
      /\ rest \in Seq(Bytes)
      /\ \A i \in DOMAIN rest : n + i \in DOMAIN w /\ rest[i] = w[n + i]
  BY ONLY <1>2, <1>4, Halves
<1>7. (out \o SubSeq(w, 1, n)) \o rest = out \o w
  BY ONLY <1>2, <1>4, Moved
<1> HIDE DEF rest
<1>8. /\ stack' = frames /\ closedInside' = closedInside
      /\ frames \in Seq(Frames) /\ frames # <<>>
      /\ Head(frames) \in {"onWriteComplete", "writeTail"}
  <2>1. <<"onWriteComplete", "writeTail">> \in Seq(Frames)
    <3>1. "onWriteComplete" \in Frames /\ "writeTail" \in Frames
      BY DEF Frames, Callbacks
    <3> QED
      BY <3>1
  <2>2. frames \in Seq(Frames)
    BY <2>1, SingleFrame
  <2>3. stack' = frames /\ closedInside' = (closedInside /\ frames # <<>>)
    BY <1>1, <2>2, ReturnsAlone DEF Slot
  <2> QED
    BY <1>2, <2>2, <2>3
<1>9. /\ complete => rest = <<>> /\ event' = "reading"
      /\ ~complete => rest # <<>> /\ event' = "writing"
      /\ ready' \in BOOLEAN
  <2>1. CASE complete
    <3>1. event' = "reading" /\ ready' = (ready \/ (etMode /\ Readable))
      BY <1>1, <1>5, <2>1 DEF IgnoreWriting
    <3> QED
      BY <1>2, <2>1, <3>1, Zenon
  <2>2. CASE ~complete
    BY <1>1, <1>2, <1>5, <2>2
  <2> QED
    BY <2>1, <2>2
<1>10. TypeOK'
  <2>1. out' \in Seq(Bytes)
    BY <1>1, <1>2, <1>6, ConcatProperties
  <2>2. room' \in 0 .. SendBuffer
    BY <1>1, <1>2, <1>4, Bounds
  <2>3. /\ stack' \in Seq(Callbacks \cup {"read", "write", "writeTail"})
        /\ starved' \in BOOLEAN
    BY <1>1, <1>8 DEF Frames
  <2>4. event' \in {"reading", "writing"} /\ writeBuffer' \in Seq(Bytes)
    BY <1>1, <1>6, <1>9
  <2> QED
    BY <1>1, <1>2, <1>8, <1>9, <2>1, <2>2, <2>3, <2>4 DEF TypeOK
<1>11. Known' = Known /\ Known \in Int
  BY <1>1, <1>2, KnownProperties DEF Slot, Known
<1>12. event' = "created" <=> event = "created"
  BY <1>5, <1>9
<1>13. Posts'
  BY <1>1, <1>2, <1>11, <1>12, PostsStay
<1>14. Counted'
  BY <1>1, <1>2, <1>12, CountedStays, Bounds DEF TypeOK, Counted
<1>15. Slot'
  <2>1. Stacked'
    <3>1. OnTop(frames, "onWriteComplete")
            /\ \A i \in DOMAIN frames : frames[i] # "write"
      BY DEF OnTop
    <3> QED
      BY <1>8, <3>1 DEF Stacked
  <2>2. HasBacklog' /\ BacklogIsAwaited'
    BY <1>1, <1>9 DEF HasBacklog, BacklogIsAwaited
  <2>3. Greeted' /\ Orphaned' /\ FaultNeedsCallback'
    BY <1>1, <1>2, <1>5, <1>9
       DEF Slot, Greeted, Registered, Orphaned, FaultNeedsCallback
  <2> QED
    BY <2>1, <2>2, <2>3 DEF Slot
<1>16. Order'
  <2>1. event' # "none" /\ event # "none"
    BY <1>5, <1>9
  <2>2. /\ \A i \in DOMAIN out : out[i][1] <= gen
        /\ \A i \in DOMAIN w : w[i][1] <= gen
    BY <1>1 DEF Order, Kept
  <2>3. Kept'
    <3>1. \A i \in DOMAIN SubSeq(w, 1, n) : SubSeq(w, 1, n)[i][1] <= gen
      BY <1>6, <2>2
    <3>2. \A i \in DOMAIN out' : out'[i][1] <= gen
      BY ONLY <1>1, <1>2, <1>6, <2>2, <3>1, KnownBytes
    <3>3. \A i \in DOMAIN rest : rest[i][1] <= gen
      BY <1>6, <2>2
    <3> QED
      BY <1>1, <1>2, <2>1, <3>2, <3>3 DEF Kept
  <2>4. OwnGone'
    BY <1>1, <1>9 DEF OwnGone
  <2>5. ASSUME ~mixed'
        PROVE  /\ Carried(out', writeBuffer', gen', sent')
               /\ ~stale' => AllOwn(out', writeBuffer', gen')
    <3>1. ~mixed
      BY <1>2, <2>5
    <3>2. /\ Carried(out, w, gen, sent)
          /\ ~stale => AllOwn(out, w, gen)
      BY <1>1, <2>1, <3>1, OrderIsFaithful
    <3>3. out' \o writeBuffer' = out \o w
      BY <1>1, <1>7
    <3> QED
      BY <1>2, <3>2, <3>3 DEF Carried, AllOwn
  <2> QED
    BY <2>1, <2>3, <2>4, <2>5, OrderFromFaithful
<1> QED
  BY <1>10, <1>13, <1>14, <1>15, <1>16 DEF IInv

-----------------------------------------------------------------------------
(* The theorems.                                                            *)

\* The invariant holds of a free slot that has served nobody.
LEMMA InitKeeps == Init => IInv
<1> SUFFICES ASSUME Init PROVE IInv
  OBVIOUS
<1>1. /\ event = "none" /\ writeBuffer = <<>> /\ out = <<>> /\ stack = <<>>
      /\ functors = <<>> /\ app = NoCall /\ fault = "none"
      /\ rcvQueue = 0 /\ arrived = 0 /\ gen = 0 /\ sent = 0 /\ posted = 0
  BY DEF Init
<1>2. TypeOK
  <2>1. /\ 0 \in 0 .. MaxArrived /\ SendBuffer \in 0 .. SendBuffer
        /\ 0 \in 0 .. MaxGens /\ 0 \in 0 .. MaxTotal /\ 0 \in 0 .. MaxPosts
    BY Bounds
  <2>2. /\ pooled \in PooledModes /\ etMode \in EtModes /\ room = SendBuffer
        /\ {fin, rst, starved, ready, stale, greeted, mixed, closedInside}
             \subseteq BOOLEAN
    BY DEF Init
  <2>3. /\ writeBuffer \in Seq(Bytes) /\ out \in Seq(Bytes)
        /\ stack \in Seq(Callbacks \cup {"read", "write", "writeTail"})
        /\ functors \in Seq(Posted \cup {BindCall})
    BY <1>1
  <2> QED
    BY <1>1, <2>1, <2>2, <2>3 DEF TypeOK
<1>3. Counted
  <2>1. Waiting = 0
    BY <1>1 DEF Waiting
  <2>2. (posted - Waiting) * MaxMessage = 0
    BY <1>1, <2>1, Bounds
  <2> QED
    BY <1>1, <2>1, <2>2, Bounds DEF Counted
<1>4. Posts
  BY <1>1 DEF Posts, BindPending, Once, CallsKnown
<1>5. Slot
  BY <1>1 DEF Slot, Stacked, OnTop, HasBacklog, Greeted, Registered, Orphaned,
     FaultNeedsCallback, BacklogIsAwaited
<1>6. Order
  BY <1>1 DEF Order, Kept, OwnGone, OutputInOrder
<1> QED
  BY <1>2, <1>3, <1>4, <1>5, <1>6 DEF IInv

\* Every step keeps it.
LEMMA NextKeeps == IInv /\ [Next]_vars => IInv'
<1> SUFFICES ASSUME IInv, [Next]_vars PROVE IInv'
  OBVIOUS
<1>1. CASE UNCHANGED vars
  <2>1. UNCHANGED <<event, pooled, etMode, writeBuffer, stack, functors, app,
                    fault, rcvQueue, fin, rst, room, starved, ready, gen, arrived,
                    stale, greeted, sent, out, mixed, closedInside, posted>>
    BY <1>1 DEF vars, modes, kernel, input, output, connection, stream, threads
  <2>2. TypeOK'
    BY <2>1 DEF IInv, TypeOK
  <2>3. Counted'
    BY <2>1, Zenon DEF IInv, Counted, Waiting
  <2>4. Posts'
    BY <2>1 DEF IInv, Posts, BindPending, Once, CallsKnown, Known
  <2>5. Slot'
    BY <2>1, SlotStays DEF IInv
  <2>6. Order'
    BY <2>1 DEF IInv, Order, Kept, OwnGone, OutputInOrder
  <2> QED
    BY <2>2, <2>3, <2>4, <2>5, <2>6 DEF IInv
<1>2. CASE Next
  <2>0. fault = "none"
    BY <1>2 DEF Next
  <2>1. CASE BindSocketInLoop \/ BindSocket \/ BindPost
    BY <2>0, <2>1, BindSocketInLoopKeeps, BindSocketKeeps, BindPostKeeps
  <2>2. CASE LoopStep
    <3>1. CASE HandleIOEvent
      BY <2>0, <3>1, HandleIOEventKeeps
    <3>2. CASE \E n \in 1 .. rcvQueue : ReadSome(n)
      BY <2>0, <3>2, ReadSomeKeeps
    <3>3. CASE ReadNothing \/ MessageReturns
      BY <2>0, <3>3, ReadReturnsKeep
    <3>4. CASE ReadEnd
      BY <2>0, <3>4, ReadEndKeeps
    <3>5. CASE MessageReturnsToNull \/ WriteTailOfNull
      BY <2>0, <3>5, NullKeeps
    <3>6. CASE CallbackReturns
      BY <2>0, <3>6, CallbackReturnsKeeps
    <3>7. CASE HandleWriteEvent
      BY <2>0, <3>7, HandleWriteEventKeeps
    <3>8. CASE HandleWriteFails
      BY <2>0, <3>8, HandleWriteFailsKeeps
    <3>9. CASE WriteTail
      BY <2>0, <3>9, WriteTailKeeps
    <3>10. CASE RunBind
      BY <2>0, <3>10, RunBindKeeps
    <3>11. CASE RunSend
      BY <2>0, <3>11, RunSendKeeps
    <3>12. CASE RunClose
      BY <2>0, <3>12, RunCloseKeeps
    <3>13. CASE RunNothing
      BY <2>0, <3>13, RunNothingKeeps
    <3> QED
      BY <2>2, <3>1, <3>2, <3>3, <3>4, <3>5, <3>6, <3>7, <3>8, <3>9, <3>10,
         <3>11, <3>12, <3>13 DEF LoopStep
  <2>3. CASE CallbackStep
    BY <2>0, <2>3, CloseKeeps, WriteKeeps DEF CallbackStep
  <2>4. CASE AppStep
    BY <2>0, <2>4, AppKeeps
  <2>5. CASE PeerSends \/ PeerCloses \/ PeerReset \/ PeerReadStep
    BY <2>0, <2>5, PeerKeeps
  <2> QED
    BY <1>2, <2>1, <2>2, <2>3, <2>4, <2>5 DEF Next
<1> QED
  BY <1>1, <1>2

\* So it holds always.
LEMMA Invariance == Spec => []IInv
BY InitKeeps, NextKeeps, PTL DEF Spec

\* Every variable of the slot, of its threads and of the kernel's end has its
\* type: no count leaves its range, however the bounds combine.
THEOREM TypeCorrect == Spec => []TypeOK
<1>1. IInv => TypeOK
  BY DEF IInv
<1> QED
  BY <1>1, Invariance, PTL

\* No send from inside a callback or from another thread, no partial write and
\* no backlog loses, repeats or overtakes a byte of the connection (write,
\* handleWriteEvent).
THEOREM BytesInOrder == Spec => []OutputInOrder
<1>1. IInv => OutputInOrder
  BY DEF IInv, Order
<1> QED
  BY <1>1, Invariance, PTL

\* EPOLLOUT is asked for exactly while there is a backlog (expectWriting in
\* write, ignoreWriting in handleWriteEvent).
THEOREM WritingIsBacklog == Spec => []BacklogIsAwaited
<1>1. IInv => BacklogIsAwaited
  BY DEF IInv, Slot
<1> QED
  BY <1>1, Invariance, PTL

\* A null ioEvent_ or an unregistered event is met only after a callback still
\* in progress closed the connection, or by a call meant for an earlier one.
THEOREM FaultsExplained == Spec => []FaultNeedsCallback
<1>1. IInv => FaultNeedsCallback
  BY DEF IInv, Slot
<1> QED
  BY <1>1, Invariance, PTL

\* connectionCallback_ comes first, on whatever thread the slot was bound.
THEOREM GreetedFirst == Spec => []ConnectionCallbackFirst
<1>1. IInv => ConnectionCallbackFirst
  <2> SUFFICES ASSUME IInv,
                      NEW i \in DOMAIN stack,
                      stack[i] \in {"onMessage", "onWriteComplete"}
               PROVE  greeted \/ closedInside \/ mixed
    BY DEF ConnectionCallbackFirst
  <2>1. stack # <<>> /\ stack # <<"writeTail">>
    OBVIOUS
  <2> QED
    BY <2>1 DEF IInv, TypeOK, Slot, Orphaned, Greeted, Registered
<1> QED
  BY <1>1, Invariance, PTL

\* writeCompleteCallback_ is called with nothing left to write.
THEOREM ToldWhenDrained == Spec => CompleteWhenDrained
<1> DEFINE Told == stack' # <<>> /\ Head(stack') = "onWriteComplete"
                     /\ Len(stack') > Len(stack) /\ ~stale
<1>1. ASSUME IInv, [Next]_vars PROVE [Told => writeBuffer' = <<>>]_vars
  <2> SUFFICES ASSUME Next, Told PROVE writeBuffer' = <<>>
    BY <1>1
  <2>0. /\ TypeOK /\ Slot /\ fault = "none" /\ stack \in Seq(Frames)
        /\ stack' # stack
    BY <1>1 DEF IInv, Next, TypeOK, Frames
  <2>1. Len(stack) \in Nat
    BY <2>0
  <2>2. ~\E frames \in {<<>>, <<"read">>, <<"onMessage">>, <<"writeTail">>} :
           ReturnTo(frames) /\ Frame \notin {"idle", "onWriteComplete"}
    <3> SUFFICES ASSUME NEW frames \in {<<>>, <<"read">>, <<"onMessage">>,
                                        <<"writeTail">>},
                        ReturnTo(frames), Frame \notin {"idle", "onWriteComplete"}
                 PROVE  FALSE
      OBVIOUS
    <3>1. frames \in Seq(Frames)
      BY SingleFrame
    <3>2. stack' = frames
      BY <2>0, <3>1, ReturnsAlone DEF Slot
    <3> QED
      BY <3>2
  <2>3. CASE HandleWriteEvent
    BY <2>2, <2>3 DEF HandleWriteEvent
  <2>4. CASE \E from, len : Send(from, len) /\ event # "none"
    <3>1. PICK from, len : Send(from, len) /\ event # "none"
      BY <2>4
    <3>2. SendWhole(from, len)
      BY <2>0, <3>1 DEF Send, SendBehindBacklog, SendPart, SendFails
    <3> QED
      BY <2>0, <3>1, <3>2 DEF SendWhole, Slot, BacklogIsAwaited
  <2>5. CASE CallbackReturns
    <3>1. /\ stack # <<>> /\ ReturnTo(<<>>)
      BY <2>5 DEF CallbackReturns, Frame
    <3>2. Tail(stack) \in Seq(Frames) /\ Len(Tail(stack)) = Len(stack) - 1
      BY <2>0, <3>1, TailElements
    <3>3. stack' = Tail(stack)
      BY <3>1, <3>2, ConcatEmptySeq DEF ReturnTo
    <3> QED
      BY <2>1, <3>2, <3>3
  <2>6. CASE stack' \in {<<"onConnection">>, <<"read">>, <<"write">>, <<>>}
    BY <2>6
  \* The rest, by what becomes of the stack.
  <2>7. CASE BindSocketInLoop \/ BindSocket \/ BindPost \/ RunBind \/ HandleIOEvent
    BY <2>0, <2>6, <2>7
       DEF BindSocketInLoop, BindSocket, BindPost, RunBind, HandleIOEvent
  <2>8. CASE \/ \E n \in 1 .. rcvQueue : ReadSome(n)
             \/ ReadNothing \/ ReadEnd \/ MessageReturns
             \/ HandleWriteFails \/ WriteTail
    BY <2>0, <2>2, <2>8
       DEF ReadSome, ReadNothing, ReadEnd, MessageReturns, HandleWriteFails,
           WriteTail
  <2>9. CASE MessageReturnsToNull \/ WriteTailOfNull \/ RunClose \/ RunNothing
               \/ Close \/ AppStep
    BY <2>0, <2>9
       DEF MessageReturnsToNull, WriteTailOfNull, RunClose, RunNothing, Close,
           AppStep, AppPost, AppCheck
  <2>10. CASE PeerSends \/ PeerCloses \/ PeerReset \/ PeerReadStep
    BY <2>0, <2>10
       DEF PeerSends, PeerCloses, PeerReset, PeerReadStep, PeerReads
  <2>11. CASE RunSend \/ \E len \in 1 .. MaxMessage : Write(len)
    BY <2>4, <2>11 DEF RunSend, Write
  <2> QED
    BY <2>3, <2>5, <2>7, <2>8, <2>9, <2>10, <2>11
       DEF Next, LoopStep, CallbackStep
<1> QED
  BY <1>1, Invariance, PTL DEF Spec, CompleteWhenDrained
=============================================================================
