----------------------------- MODULE StringSlice -----------------------------
(***************************************************************************)
(* potato/utils/StringSlice.h: a slice is the sequence of its characters.   *)
(* Positions count from 0, as in the code.                                  *)
(***************************************************************************)
EXTENDS Integers, Sequences, SequencesExt

npos == -1

\* slice(beginIndex, len), for beginIndex within the slice.
Slice(s, beginIndex, len) ==
  LET res == IF Len(s) - beginIndex < len THEN Len(s) - beginIndex ELSE len
  IN  SubSeq(s, beginIndex + 1, beginIndex + res)

\* trim: what is left between the first and the last character that is not
\* delim.
Trim(s, delim) ==
  LET front == SelectInSeq(s, LAMBDA c : c # delim)
      back == SelectLastInSeq(s, LAMBDA c : c # delim)
  IN  IF front = 0 THEN <<>> ELSE Slice(s, front - 1, back - front + 1)

\* Variant: what follows the last delimiter is forgotten.
SplitWithoutRest(s, delim) ==
  LET done[i \in 0 .. Len(s)] ==
        IF i = 0 THEN [begin |-> 0, ret |-> <<>>]
        ELSE LET a == done[i - 1] IN
             IF s[i] # delim THEN a
             ELSE [begin |-> i,
                   ret |-> Append(a.ret, Slice(s, a.begin, i - 1 - a.begin))]
      all == done[Len(s)]
  IN  IF all.begin = Len(s) THEN all.ret
      ELSE Append(all.ret, Slice(s, all.begin, Len(s) - all.begin))

\* split: a pass over the slice that cuts at each delim, and the rest.
\* done[i] is what the loop has after i characters.
Split(s, delim) ==
  LET done[i \in 0 .. Len(s)] ==
        IF i = 0 THEN [begin |-> 0, ret |-> <<>>]
        ELSE LET a == done[i - 1] IN
             IF s[i] # delim THEN a
             ELSE [begin |-> i,
                   ret |-> Append(a.ret, Slice(s, a.begin, i - 1 - a.begin))]
      all == done[Len(s)]
  IN  IF s = <<>> THEN <<>>
      ELSE Append(all.ret, Slice(s, all.begin, Len(s) - all.begin))

\* Variant: after a mismatch the search starts over.
ExtendFromStart(p, next, j, c) ==
  IF p[j + 1] = c THEN j + 1 ELSE IF p[1] = c THEN 1 ELSE 0

\* The loop both halves of find(slice) have: j characters of p match, the next
\* one is c, and next holds the border of each shorter prefix to fall back to.
Extend(p, next, j, c) ==
  LET from[k \in 0 .. j] == IF p[k + 1] = c THEN k + 1
                            ELSE IF k = 0 THEN 0
                            ELSE from[next[k]]
  IN  from[j]

\* The table of find(slice): next[i] belongs to the prefix of length i.
\* table[i] is what there is of it after i rounds of the loop.
Table(p) ==
  LET table[i \in 0 .. Len(p) - 1] ==
        IF i = 0 THEN <<0>>
        ELSE LET next == table[i - 1] IN
             Append(next, Extend(p, next, next[i], p[i + 1]))
  IN  table[Len(p) - 1]

\* find(slice): Knuth, Morris and Pratt.  scan[i] is what the second loop has
\* after i characters of s.
Find(s, p) ==
  LET next == Table(p)
      scan[i \in 0 .. Len(s)] ==
        IF i = 0 THEN [j |-> 0, found |-> npos]
        ELSE LET a == scan[i - 1] IN
             IF a.found # npos THEN a
             ELSE LET j == Extend(p, next, a.j, s[i]) IN
                  [j |-> j, found |-> IF j = Len(p) THEN i - j ELSE npos]
  IN  IF p = <<>> \/ s = <<>> THEN npos ELSE scan[Len(s)].found

\* find(char).
FindChar(s, c) == SelectInSeq(s, LAMBDA d : d = c) - 1
=============================================================================
