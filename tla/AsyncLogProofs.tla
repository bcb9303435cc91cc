--------------------------- MODULE AsyncLogProofs ---------------------------
(***************************************************************************)
(* The asynchronous log, for every size of the buffers and of the queue    *)
(* and for any number of lines: no assertion of the back thread fails, and *)
(* every line that was appended is where it should be, once and in order.  *)
(***************************************************************************)
EXTENDS AsyncLog, FiniteSetTheorems, SequenceTheorems, TLAPS

-----------------------------------------------------------------------------
(* Lines in order: facts about sequences of numbers, and sequences of them. *)

Buf == Seq(Nat)

Sorted(b) == \A k, l \in DOMAIN b : k < l => b[k] < b[l]

Behind(S, T) == \A x \in S, y \in T : x < y

LEMMA SortedConcat ==
    ASSUME NEW b \in Buf, NEW c \in Buf
    PROVE  Sorted(b \o c) <=>
               Sorted(b) /\ Sorted(c) /\ Behind(Range(b), Range(c))
  <1> DEFINE d == b \o c
  <1>1. /\ Len(b) \in Nat /\ DOMAIN b = 1..Len(b)
        /\ Len(c) \in Nat /\ DOMAIN c = 1..Len(c)
    BY LenProperties DEF Buf
  <1>2. /\ DOMAIN d = 1..Len(b) + Len(c)
        /\ \A i \in 1..Len(b) + Len(c) :
              d[i] = IF i <= Len(b) THEN b[i] ELSE c[i - Len(b)]
    <2>1. d \in Seq(Nat) /\ Len(d) = Len(b) + Len(c)
      BY ConcatProperties DEF Buf
    <2>2. \A i \in 1..Len(b) + Len(c) :
              d[i] = IF i <= Len(b) THEN b[i] ELSE c[i - Len(b)]
      BY ConcatProperties DEF Buf
    <2>3. QED
      BY <2>1, <2>2, LenProperties
  <1> HIDE DEF d
  <1>3. \A i \in 1..Len(b) : i \in DOMAIN d /\ d[i] = b[i]
    BY <1>1, <1>2
  <1>4. \A j \in 1..Len(c) :
           j + Len(b) \in DOMAIN d /\ d[j + Len(b)] = c[j]
    BY <1>1, <1>2
  <1>5. Sorted(d) => Sorted(b) /\ Sorted(c) /\ Behind(Range(b), Range(c))
    <2> SUFFICES ASSUME Sorted(d)
                 PROVE  Sorted(b) /\ Sorted(c) /\ Behind(Range(b), Range(c))
      OBVIOUS
    <2>1. Sorted(b)
      BY <1>1, <1>3 DEF Sorted
    <2>2. Sorted(c)
      <3> SUFFICES ASSUME NEW k \in 1..Len(c), NEW l \in 1..Len(c), k < l
                   PROVE  c[k] < c[l]
        BY <1>1 DEF Sorted
      <3>1. k + Len(b) < l + Len(b)
        BY <1>1
      <3>2. QED
        BY <1>4, <3>1 DEF Sorted
    <2>3. Behind(Range(b), Range(c))
      <3> SUFFICES ASSUME NEW k \in 1..Len(b), NEW l \in 1..Len(c)
                   PROVE  b[k] < c[l]
        BY <1>1 DEF Behind, Range
      <3>1. k < l + Len(b)
        BY <1>1
      <3>2. QED
        BY <1>3, <1>4, <3>1 DEF Sorted
    <2>4. QED
      BY <2>1, <2>2, <2>3
  <1>6. ASSUME Sorted(b), Sorted(c), Behind(Range(b), Range(c))
        PROVE  Sorted(d)
    <2> SUFFICES ASSUME NEW k \in 1..Len(b) + Len(c),
                        NEW l \in 1..Len(b) + Len(c), k < l
                 PROVE  d[k] < d[l]
      BY <1>2 DEF Sorted
    <2>1. CASE l <= Len(b)
      BY <2>1, <1>1, <1>2, <1>6 DEF Sorted
    <2>2. CASE Len(b) < k
      <3>1. /\ k - Len(b) \in 1..Len(c) /\ l - Len(b) \in 1..Len(c)
            /\ k - Len(b) < l - Len(b)
        BY <2>2, <1>1
      <3>2. c[k - Len(b)] < c[l - Len(b)]
        BY <1>1, <1>6, <3>1 DEF Sorted
      <3>3. d[k] = c[k - Len(b)] /\ d[l] = c[l - Len(b)]
        BY <2>2, <1>1, <1>2
      <3>4. QED
        BY <3>2, <3>3
    <2>3. CASE k <= Len(b) /\ Len(b) < l
      <3>1. k \in 1..Len(b) /\ l - Len(b) \in 1..Len(c)
        BY <2>3, <1>1
      <3>2. b[k] < c[l - Len(b)]
        BY <1>1, <1>6, <3>1 DEF Behind, Range
      <3>3. d[k] = b[k] /\ d[l] = c[l - Len(b)]
        BY <2>3, <1>1, <1>2
      <3>4. QED
        BY <3>2, <3>3
    <2>4. QED
      BY <2>1, <2>2, <2>3, <1>1
  <1>7. QED
    BY <1>5, <1>6 DEF d

LEMMA OneLine ==
    ASSUME NEW n \in Nat
    PROVE  <<n>> \in Buf /\ Sorted(<<n>>) /\ Range(<<n>>) = {n}
  BY DEF Buf, Sorted, Range

LEMMA NoLine == <<>> \in Buf /\ Sorted(<<>>) /\ Range(<<>>) = {}
  BY DEF Buf, Sorted, Range

-----------------------------------------------------------------------------
(* Sequences of buffers.                                                    *)

Bufs == Seq(Buf)

LEMMA OneBuffer ==
    ASSUME NEW b \in Buf
    PROVE  /\ <<b>> \in Bufs
           /\ InOrder(<<b>>) <=> Sorted(b)
           /\ LinesIn(<<b>>) = Range(b)
  <1>1. <<b>> \in Bufs
    BY DEF Bufs
  <1>2. DOMAIN <<b>> = {1} /\ <<b>>[1] = b
    OBVIOUS
  <1>3. ~(1 < 1)
    OBVIOUS
  <1>4. InOrder(<<b>>) <=> Sorted(b)
    BY <1>2, <1>3, Zenon DEF InOrder, Sorted
  <1>5. LinesIn(<<b>>) = Range(b)
    BY <1>2 DEF LinesIn
  <1>6. QED
    BY <1>1, <1>4, <1>5

LEMMA NoBuffer == <<>> \in Bufs /\ InOrder(<<>>) /\ LinesIn(<<>>) = {}
  BY DEF Bufs, InOrder, LinesIn

LEMMA ConcatShape ==
    ASSUME NEW s \in Bufs, NEW t \in Bufs
    PROVE  /\ s \o t \in Bufs
           /\ Len(s) \in Nat /\ DOMAIN s = 1..Len(s)
           /\ Len(t) \in Nat /\ DOMAIN t = 1..Len(t)
           /\ DOMAIN (s \o t) = 1..Len(s) + Len(t)
           /\ \A i \in 1..Len(s) : (s \o t)[i] = s[i]
           /\ \A j \in 1..Len(t) :
                 j + Len(s) \in DOMAIN (s \o t) /\ (s \o t)[j + Len(s)] = t[j]
           /\ \A i \in DOMAIN (s \o t) : Len(s) < i =>
                 i - Len(s) \in 1..Len(t) /\ (s \o t)[i] = t[i - Len(s)]
  <1>1. /\ Len(s) \in Nat /\ DOMAIN s = 1..Len(s)
        /\ Len(t) \in Nat /\ DOMAIN t = 1..Len(t)
    BY LenProperties DEF Bufs
  <1>2. s \o t \in Seq(Buf) /\ Len(s \o t) = Len(s) + Len(t)
    BY ConcatProperties DEF Bufs
  <1>3. DOMAIN (s \o t) = 1..Len(s) + Len(t)
    BY <1>2, LenProperties
  <1>4. \A i \in 1..Len(s) + Len(t) :
           (s \o t)[i] = IF i <= Len(s) THEN s[i] ELSE t[i - Len(s)]
    BY ConcatProperties DEF Bufs
  <1> DEFINE u == s \o t
  <1> HIDE DEF u
  <1>5. \A i \in 1..Len(s) + Len(t) :
           u[i] = IF i <= Len(s) THEN s[i] ELSE t[i - Len(s)]
    BY <1>4 DEF u
  <1>6. \A i \in 1..Len(s) : u[i] = s[i]
    BY <1>1, <1>5
  <1>7. \A j \in 1..Len(t) :
           j + Len(s) \in 1..Len(s) + Len(t) /\ u[j + Len(s)] = t[j]
    BY <1>1, <1>5
  <1>8. \A i \in 1..Len(s) + Len(t) : Len(s) < i =>
           i - Len(s) \in 1..Len(t) /\ u[i] = t[i - Len(s)]
    BY <1>1, <1>5
  <1>9. QED
    BY <1>1, <1>2, <1>3, <1>6, <1>7, <1>8 DEF u, Bufs

LEMMA LinesConcat ==
    ASSUME NEW s \in Bufs, NEW t \in Bufs
    PROVE  LinesIn(s \o t) = LinesIn(s) \cup LinesIn(t)
  <1> DEFINE u == s \o t
  <1>1. /\ Len(s) \in Nat /\ DOMAIN s = 1..Len(s) /\ DOMAIN t = 1..Len(t)
        /\ DOMAIN u = 1..Len(s) + Len(t) /\ Len(t) \in Nat
        /\ \A i \in 1..Len(s) : u[i] = s[i]
        /\ \A j \in 1..Len(t) :
              j + Len(s) \in DOMAIN u /\ u[j + Len(s)] = t[j]
        /\ \A i \in DOMAIN u : Len(s) < i =>
              i - Len(s) \in 1..Len(t) /\ u[i] = t[i - Len(s)]
    BY ConcatShape
  <1> HIDE DEF u
  <1>2. \A i \in DOMAIN u : Range(u[i]) \subseteq LinesIn(s) \cup LinesIn(t)
    <2> TAKE i \in DOMAIN u
    <2>1. CASE i <= Len(s)
      <3>1. i \in DOMAIN s /\ u[i] = s[i]
        BY <2>1, <1>1
      <3>2. QED
        BY <3>1 DEF LinesIn
    <2>2. CASE Len(s) < i
      <3>1. i - Len(s) \in DOMAIN t /\ u[i] = t[i - Len(s)]
        BY <2>2, <1>1
      <3>2. QED
        BY <3>1 DEF LinesIn
    <2>3. QED
      BY <2>1, <2>2, <1>1
  <1>3. \A i \in DOMAIN s : Range(s[i]) \subseteq LinesIn(u)
    <2> TAKE i \in DOMAIN s
    <2>1. i \in DOMAIN u /\ u[i] = s[i]
      BY <1>1
    <2>2. QED
      BY <2>1 DEF LinesIn
  <1>4. \A j \in DOMAIN t : Range(t[j]) \subseteq LinesIn(u)
    <2> TAKE j \in DOMAIN t
    <2>1. j + Len(s) \in DOMAIN u /\ u[j + Len(s)] = t[j]
      BY <1>1
    <2>2. QED
      BY <2>1 DEF LinesIn
  <1>5. LinesIn(u) = LinesIn(s) \cup LinesIn(t)
    <2>1. LinesIn(u) \subseteq LinesIn(s) \cup LinesIn(t)
      BY <1>2 DEF LinesIn
    <2>2. LinesIn(s) \subseteq LinesIn(u) /\ LinesIn(t) \subseteq LinesIn(u)
      BY <1>3, <1>4 DEF LinesIn
    <2>3. QED
      BY <2>1, <2>2
  <1>6. QED
    BY <1>5 DEF u

LEMMA InOrderConcat ==
    ASSUME NEW s \in Bufs, NEW t \in Bufs
    PROVE  InOrder(s \o t) <=>
               InOrder(s) /\ InOrder(t) /\ Behind(LinesIn(s), LinesIn(t))
  <1> DEFINE u == s \o t
  <1>1. /\ Len(s) \in Nat /\ DOMAIN s = 1..Len(s) /\ DOMAIN t = 1..Len(t)
        /\ DOMAIN u = 1..Len(s) + Len(t) /\ Len(t) \in Nat
        /\ \A i \in 1..Len(s) : u[i] = s[i]
        /\ \A j \in 1..Len(t) :
              j + Len(s) \in DOMAIN u /\ u[j + Len(s)] = t[j]
        /\ \A i \in DOMAIN u : Len(s) < i =>
              i - Len(s) \in 1..Len(t) /\ u[i] = t[i - Len(s)]
    BY ConcatShape
  <1> HIDE DEF u
  <1>2. ASSUME InOrder(u)
        PROVE  InOrder(s) /\ InOrder(t) /\ Behind(LinesIn(s), LinesIn(t))
    <2>1. InOrder(s)
      <3> SUFFICES ASSUME NEW i \in DOMAIN s, NEW j \in DOMAIN s,
                          NEW k \in DOMAIN s[i], NEW l \in DOMAIN s[j],
                          i < j \/ (i = j /\ k < l)
                   PROVE  s[i][k] < s[j][l]
        BY DEF InOrder
      <3>1. /\ i \in DOMAIN u /\ u[i] = s[i]
            /\ j \in DOMAIN u /\ u[j] = s[j]
        BY <1>1
      <3>2. QED
        BY <1>2, <3>1 DEF InOrder
    <2>2. InOrder(t)
      <3> SUFFICES ASSUME NEW i \in DOMAIN t, NEW j \in DOMAIN t,
                          NEW k \in DOMAIN t[i], NEW l \in DOMAIN t[j],
                          i < j \/ (i = j /\ k < l)
                   PROVE  t[i][k] < t[j][l]
        BY DEF InOrder
      <3> DEFINE x == i + Len(s)
                 y == j + Len(s)
      <3>1. /\ x \in DOMAIN u /\ u[x] = t[i]
            /\ y \in DOMAIN u /\ u[y] = t[j]
        BY <1>1
      <3>2. x < y \/ (x = y /\ k < l)
        BY <1>1
      <3> HIDE DEF x, y
      <3>3. QED
        BY <1>2, <3>1, <3>2 DEF InOrder
    <2>3. Behind(LinesIn(s), LinesIn(t))
      <3> SUFFICES ASSUME NEW i \in DOMAIN s, NEW k \in DOMAIN s[i],
                          NEW j \in DOMAIN t, NEW l \in DOMAIN t[j]
                   PROVE  s[i][k] < t[j][l]
        BY DEF Behind, LinesIn, Range
      <3> DEFINE y == j + Len(s)
      <3>1. /\ i \in DOMAIN u /\ u[i] = s[i]
            /\ y \in DOMAIN u /\ u[y] = t[j]
        BY <1>1
      <3>2. i < y
        BY <1>1
      <3> HIDE DEF y
      <3>3. QED
        BY <1>2, <3>1, <3>2 DEF InOrder
    <2>4. QED
      BY <2>1, <2>2, <2>3
  <1>3. ASSUME InOrder(s), InOrder(t), Behind(LinesIn(s), LinesIn(t))
        PROVE  InOrder(u)
    <2> SUFFICES ASSUME NEW i \in DOMAIN u, NEW j \in DOMAIN u,
                        NEW k \in DOMAIN u[i], NEW l \in DOMAIN u[j],
                        i < j \/ (i = j /\ k < l)
                 PROVE  u[i][k] < u[j][l]
      BY DEF InOrder
    <2>1. CASE j <= Len(s)
      <3>1. i \in DOMAIN s /\ j \in DOMAIN s /\ u[i] = s[i] /\ u[j] = s[j]
        BY <2>1, <1>1
      <3>2. QED
        BY <1>3, <3>1 DEF InOrder
    <2>2. CASE Len(s) < i
      <3> DEFINE x == i - Len(s)
                 y == j - Len(s)
      <3>1. /\ x \in DOMAIN t /\ u[i] = t[x]
            /\ y \in DOMAIN t /\ u[j] = t[y]
        BY <2>2, <1>1
      <3>2. x < y \/ (x = y /\ k < l)
        BY <1>1
      <3> HIDE DEF x, y
      <3>3. QED
        BY <1>3, <3>1, <3>2 DEF InOrder
    <2>3. CASE i <= Len(s) /\ Len(s) < j
      <3> DEFINE y == j - Len(s)
      <3>1. /\ i \in DOMAIN s /\ u[i] = s[i]
            /\ y \in DOMAIN t /\ u[j] = t[y]
        BY <2>3, <1>1
      <3> HIDE DEF y
      <3>2. u[i][k] \in LinesIn(s) /\ u[j][l] \in LinesIn(t)
        BY <3>1 DEF LinesIn, Range
      <3>3. QED
        BY <1>3, <3>2 DEF Behind
    <2>4. QED
      BY <2>1, <2>2, <2>3, <1>1
  <1>4. QED
    BY <1>2, <1>3 DEF u

\* The pipeline taken apart: the file, the buffers to write, the queue and
\* the current buffer.
LEMMA Parts ==
    ASSUME NEW f \in Buf, NEW m \in Bufs, NEW b \in Bufs, NEW c \in Buf
    PROVE  LET p == <<f>> \o m \o b \o <<c>>
           IN  /\ InOrder(p) <=>
                     /\ Sorted(f) /\ InOrder(m) /\ InOrder(b) /\ Sorted(c)
                     /\ Behind(Range(f), LinesIn(m))
                     /\ Behind(Range(f), LinesIn(b))
                     /\ Behind(LinesIn(m), LinesIn(b))
                     /\ Behind(Range(f), Range(c))
                     /\ Behind(LinesIn(m), Range(c))
                     /\ Behind(LinesIn(b), Range(c))
               /\ LinesIn(p) =
                     Range(f) \cup LinesIn(m) \cup LinesIn(b) \cup Range(c)
  <1> DEFINE x == <<f>> \o m
             y == x \o b
             p == y \o <<c>>
  <1>1. /\ <<f>> \in Bufs /\ (InOrder(<<f>>) <=> Sorted(f))
        /\ LinesIn(<<f>>) = Range(f)
        /\ <<c>> \in Bufs /\ (InOrder(<<c>>) <=> Sorted(c))
        /\ LinesIn(<<c>>) = Range(c)
    BY OneBuffer
  <1>2. x \in Bufs
    BY <1>1, ConcatShape
  <1>3. /\ LinesIn(x) = LinesIn(<<f>>) \cup LinesIn(m)
        /\ InOrder(x) <=> /\ InOrder(<<f>>) /\ InOrder(m)
                          /\ Behind(LinesIn(<<f>>), LinesIn(m))
    BY <1>1, LinesConcat, InOrderConcat
  <1> HIDE DEF x
  <1>4. y \in Bufs
    BY <1>2, ConcatShape
  <1>5. /\ LinesIn(y) = LinesIn(x) \cup LinesIn(b)
        /\ InOrder(y) <=> /\ InOrder(x) /\ InOrder(b)
                          /\ Behind(LinesIn(x), LinesIn(b))
    BY <1>2, LinesConcat, InOrderConcat
  <1> HIDE DEF y
  <1>6. /\ LinesIn(p) = LinesIn(y) \cup LinesIn(<<c>>)
        /\ InOrder(p) <=> /\ InOrder(y) /\ InOrder(<<c>>)
                          /\ Behind(LinesIn(y), LinesIn(<<c>>))
    BY <1>1, <1>4, LinesConcat, InOrderConcat
  <1>7. LinesIn(p) =
            Range(f) \cup LinesIn(m) \cup LinesIn(b) \cup Range(c)
    BY <1>1, <1>3, <1>5, <1>6
  <1>8. \A S, T, U : Behind(S \cup T, U) <=> Behind(S, U) /\ Behind(T, U)
    BY DEF Behind
  <1>9. /\ LinesIn(x) = Range(f) \cup LinesIn(m)
        /\ LinesIn(y) = (Range(f) \cup LinesIn(m)) \cup LinesIn(b)
    BY <1>1, <1>3, <1>5
  <1>10. Behind(LinesIn(x), LinesIn(b)) <=>
             Behind(Range(f), LinesIn(b)) /\ Behind(LinesIn(m), LinesIn(b))
    BY <1>8, <1>9, Zenon
  <1>11. Behind(LinesIn(y), Range(c)) <=>
             /\ Behind(Range(f), Range(c)) /\ Behind(LinesIn(m), Range(c))
             /\ Behind(LinesIn(b), Range(c))
    BY <1>8, <1>9, Zenon
  <1> HIDE DEF p
  <1>12. InOrder(p) <=>
            /\ Sorted(f) /\ InOrder(m) /\ InOrder(b) /\ Sorted(c)
            /\ Behind(Range(f), LinesIn(m))
            /\ Behind(Range(f), LinesIn(b))
            /\ Behind(LinesIn(m), LinesIn(b))
            /\ Behind(Range(f), Range(c))
            /\ Behind(LinesIn(m), Range(c))
            /\ Behind(LinesIn(b), Range(c))
    BY <1>1, <1>3, <1>5, <1>6, <1>10, <1>11
  <1>13. p = <<f>> \o m \o b \o <<c>>
    BY DEF p, y, x
  <1>14. QED
    BY <1>7, <1>12, <1>13, Zenon

\* Some of the first buffers are in order when all of them are.
LEMMA FirstBuffers ==
    ASSUME NEW s \in Bufs, NEW n \in 0..Len(s)
    PROVE  LET t == SubSeq(s, 1, n)
           IN  /\ t \in Bufs /\ Len(t) = n
               /\ LinesIn(t) \subseteq LinesIn(s)
               /\ InOrder(s) => InOrder(t)
  <1> DEFINE t == SubSeq(s, 1, n)
  <1>1. Len(s) \in Nat /\ DOMAIN s = 1..Len(s)
    BY LenProperties DEF Bufs
  <1>2. t \in Bufs /\ Len(t) = n /\ \A i \in 1..n : t[i] = s[i]
    <2>1. \A i \in 1..n : s[i] \in Buf
      BY <1>1, ElementOfSeq DEF Bufs
    <2>2. 1 \in Int /\ n \in Int
      BY <1>1
    <2>3. /\ t \in Seq(Buf)
          /\ Len(t) = IF 1 <= n THEN n - 1 + 1 ELSE 0
          /\ \A i \in 1..n - 1 + 1 : t[i] = s[1 + i - 1]
      BY <2>1, <2>2, SubSeqProperties
    <2> HIDE DEF t
    <2>4. Len(t) = n /\ \A i \in 1..n : t[i] = s[i]
      BY <2>3, <1>1
    <2>5. QED
      BY <2>3, <2>4 DEF Bufs
  <1>3. DOMAIN t = 1..n
    BY <1>2, LenProperties DEF Bufs
  <1> HIDE DEF t
  <1>4. \A i \in DOMAIN t : i \in DOMAIN s /\ t[i] = s[i]
    BY <1>1, <1>2, <1>3
  <1>5. LinesIn(t) \subseteq LinesIn(s)
    BY <1>4 DEF LinesIn
  <1>6. InOrder(s) => InOrder(t)
    BY <1>4 DEF InOrder
  <1>7. QED
    BY <1>2, <1>5, <1>6 DEF t

\* The buffers of w from the one after the n-th on.
Left(w, n) == SubSeq(w, n + 1, Len(w))

LEMMA LeftShape ==
    ASSUME NEW w \in Bufs, NEW n \in 0..Len(w)
    PROVE  /\ Left(w, n) \in Bufs
           /\ n = 0 => Left(w, n) = w
           /\ n = Len(w) => Left(w, n) = <<>>
           /\ n < Len(w) => /\ n + 1 \in 0..Len(w)
                            /\ w[n + 1] \in Buf
                            /\ Left(w, n) = <<w[n + 1]>> \o Left(w, n + 1)
  <1>1. Len(w) \in Nat /\ DOMAIN w = 1..Len(w) /\ n \in Nat
    BY LenProperties DEF Bufs
  <1>2. \A i \in 1..Len(w) : w[i] \in Buf
    BY <1>1, ElementOfSeq DEF Bufs
  <1>3. Left(w, n) \in Bufs
    <2>1. n + 1 \in Int /\ Len(w) \in Int
      BY <1>1
    <2>2. \A i \in n + 1..Len(w) : w[i] \in Buf
      BY <1>1, <1>2
    <2>3. QED
      BY <2>1, <2>2, SubSeqProperties DEF Left, Bufs
  <1>4. ASSUME n = 0 PROVE Left(w, n) = w
    <2>1. n + 1 = 1
      BY <1>4
    <2>2. SubSeq(w, 1, Len(w)) = w
      BY SubSeqFull DEF Bufs
    <2>3. QED
      BY <2>1, <2>2, Zenon DEF Left
  <1>5. ASSUME n = Len(w) PROVE Left(w, n) = <<>>
    <2>1. n + 1 \in Int /\ Len(w) \in Int /\ Len(w) < n + 1
      BY <1>1, <1>5
    <2>2. QED
      BY <2>1, SubSeqEmpty DEF Left
  <1>6. ASSUME n < Len(w)
        PROVE  /\ n + 1 \in 0..Len(w)
               /\ w[n + 1] \in Buf
               /\ Left(w, n) = <<w[n + 1]>> \o Left(w, n + 1)
    <2>1. n + 1 \in 1..Len(w) /\ Len(w) \in n + 1..Len(w)
      BY <1>1, <1>6
    <2>2. SubSeq(w, n + 1, Len(w)) =
              <<w[n + 1]>> \o SubSeq(w, n + 1 + 1, Len(w))
      BY <2>1, SubSeqRecursiveFirst DEF Bufs
    <2>3. Left(w, n) = <<w[n + 1]>> \o Left(w, n + 1)
      BY <2>2, Zenon DEF Left
    <2>4. n + 1 \in 0..Len(w)
      BY <1>1, <2>1
    <2>5. QED
      BY <1>2, <2>1, <2>3, <2>4
  <1>7. QED
    BY <1>3, <1>4, <1>5, <1>6

-----------------------------------------------------------------------------
(* The inductive invariant.                                                 *)

\* nextBuffer_ is only missing when append() has used it since the last swap,
\* and then it has queued a buffer.
NextUsed == ~next => buffers # <<>>

\* The back thread is born once, by start(), which waits for it.
BornInStart == /\ owner = "new" <=> back = "none"
               /\ back = "born" => owner = "starting" /\ running

\* Outside of the loop's writing half both spare buffers are there, and
\* nothing is left to write; what is written is written in that half.
Rested == /\ back \notin {"trim", "write"} => spare = Start /\ toWrite = <<>>
          /\ back # "write" => written = 0

\* Buffers enough to make the missing spare ones of are left, also when the
\* others are going to be dropped.
Enough == /\ back = "trim" =>
                toWrite # <<>> /\ Cardinality(Start \ spare) <= Len(Kept)
          /\ back = "write" =>
                toWrite # <<>> /\ Cardinality(Start \ spare) <= Len(toWrite)

Assertions == NextUsed /\ BornInStart /\ Rested /\ Enough

\* Only a line that was appended is dropped.
Ordered == LinesKeptInOrder /\ dropped \subseteq 1..lines

Inv == TypeOK /\ Assertions /\ Ordered

-----------------------------------------------------------------------------
(* The pipeline of a state.                                                 *)

\* The four parts are in order, each before the next.
Chain(f, m, b, c) ==
    /\ Sorted(f) /\ InOrder(m) /\ InOrder(b) /\ Sorted(c)
    /\ Behind(Range(f), LinesIn(m))
    /\ Behind(Range(f), LinesIn(b))
    /\ Behind(LinesIn(m), LinesIn(b))
    /\ Behind(Range(f), Range(c))
    /\ Behind(LinesIn(m), Range(c))
    /\ Behind(LinesIn(b), Range(c))

AllLines(f, m, b, c) == Range(f) \cup LinesIn(m) \cup LinesIn(b) \cup Range(c)

LEMMA Lines == Line \subseteq Nat /\ BufferOf \subseteq Buf
  <1>1. Line \subseteq Nat
    BY LogAssumption DEF Line
  <1>2. QED
    BY <1>1, SeqMonotonic DEF BufferOf, Buf

LEMMA Types ==
    ASSUME NEW f \in Seq(Line), NEW w \in Seq(BufferOf), NEW n \in 0..Len(w)
    PROVE  f \in Buf /\ w \in Bufs /\ Left(w, n) \in Bufs
  <1>1. f \in Buf
    BY Lines, SeqMonotonic DEF Buf
  <1>2. w \in Bufs
    BY Lines, SeqMonotonic DEF Bufs
  <1>3. QED
    BY <1>1, <1>2, LeftShape

LEMMA PipelineNow ==
    ASSUME TypeOK
    PROVE  LinesKeptInOrder <=>
               /\ Chain(file, Left(toWrite, written), buffers, current)
               /\ AllLines(file, Left(toWrite, written), buffers, current)
                     = (1..lines) \ dropped
  <1>1. /\ file \in Buf /\ Left(toWrite, written) \in Bufs
        /\ buffers \in Bufs /\ current \in Buf
    <2>1. file \in Buf /\ Left(toWrite, written) \in Bufs
      BY Types DEF TypeOK
    <2>2. current \in Buf
      BY Lines DEF TypeOK
    <2>3. buffers \in Bufs
      BY Lines, SeqMonotonic DEF TypeOK, Bufs
    <2>4. QED
      BY <2>1, <2>2, <2>3
  <1>2. /\ InOrder(Pipeline) <=>
              Chain(file, Left(toWrite, written), buffers, current)
        /\ LinesIn(Pipeline) =
              AllLines(file, Left(toWrite, written), buffers, current)
    BY <1>1, Parts DEF Pipeline, Chain, AllLines, Left
  <1>3. QED
    BY <1>2 DEF LinesKeptInOrder

LEMMA PipelineThen ==
    ASSUME TypeOK'
    PROVE  LinesKeptInOrder' <=>
               /\ Chain(file', Left(toWrite', written'), buffers', current')
               /\ AllLines(file', Left(toWrite', written'), buffers', current')
                     = (1..lines') \ dropped'
  <1>1. /\ file' \in Buf /\ Left(toWrite', written') \in Bufs
        /\ buffers' \in Bufs /\ current' \in Buf
    <2>1. file' \in Buf /\ Left(toWrite', written') \in Bufs
      BY Types DEF TypeOK
    <2>2. current' \in Buf
      BY Lines DEF TypeOK
    <2>3. buffers' \in Bufs
      BY Lines, SeqMonotonic DEF TypeOK, Bufs
    <2>4. QED
      BY <2>1, <2>2, <2>3
  <1>2. /\ InOrder(Pipeline') <=>
              Chain(file', Left(toWrite', written'), buffers', current')
        /\ LinesIn(Pipeline') =
              AllLines(file', Left(toWrite', written'), buffers', current')
    BY <1>1, Parts DEF Pipeline, Chain, AllLines, Left
  <1>3. QED
    BY <1>2 DEF LinesKeptInOrder, InOrder, LinesIn

-----------------------------------------------------------------------------
(* The parts of the invariant that AppendLine and the owner change.         *)

LEMMA StartSize ==
    /\ Cardinality(Start \ Start) = 0
    /\ Cardinality(Start \ {2}) = 1
    /\ Cardinality(Start \ {}) = 2
  <1>1. Start \ Start = {} /\ Start \ {2} = {1} /\ Start \ {} = {1} \cup {2}
    BY DEF Start
  <1>2. Cardinality({}) = 0
    BY FS_EmptySet
  <1>3. Cardinality({1}) = 1 /\ IsFiniteSet({1})
    BY FS_Singleton
  <1>4. Cardinality({1} \cup {2}) = 2
    BY <1>3, FS_AddElement
  <1>5. QED
    BY <1>1, <1>2, <1>3, <1>4

LEMMA NotifiedStays ==
    /\ \A p \in {"trim", "write", "ended", "none", "born"} :
          Notified = p <=> back = p
    /\ Notified \in {back, "woken"}
  BY DEF Notified

LEMMA AppendLineAsserts == ASSUME Inv, AppendLine PROVE Assertions'
  <1>1. /\ UNCHANGED <<running, owner, spare, toWrite, written>>
        /\ back' = back \/ back' = Notified
    BY DEF AppendLine, local
  <1>2. NextUsed'
    <2>1. CASE Fits
      BY <2>1 DEF AppendLine, Inv, Assertions, NextUsed
    <2>2. CASE ~Fits
      <3>1. buffers \in Seq(BufferOf) /\ current \in BufferOf
        BY DEF Inv, TypeOK
      <3>2. buffers' # <<>>
        BY <2>2, <3>1, AppendProperties DEF AppendLine
      <3>3. QED
        BY <3>2 DEF NextUsed
    <2>3. QED
      BY <2>1, <2>2
  <1>3. BornInStart' /\ Rested'
    BY <1>1, NotifiedStays DEF Inv, Assertions, BornInStart, Rested
  <1>4. Enough'
    BY <1>1, NotifiedStays DEF Inv, Assertions, Enough, Kept
  <1>5. QED
    BY <1>2, <1>3, <1>4 DEF Assertions

LEMMA AppendLineTypes == ASSUME Inv, AppendLine PROVE TypeOK'
  <1>1. /\ UNCHANGED <<running, owner, spare, toWrite, written, file, dropped>>
        /\ lines' = lines + 1 /\ lines < MaxLines
        /\ back' = back \/ back' = Notified
    BY DEF AppendLine, local
  <1>2. /\ lines \in 0..MaxLines /\ current \in BufferOf /\ next \in BOOLEAN
        /\ buffers \in Seq(BufferOf) /\ MaxLines \in Nat /\ Room \in Nat \ {0}
    BY LogAssumption DEF Inv, TypeOK
  <1>3. lines' \in 0..MaxLines /\ lines' \in Line
    BY <1>1, <1>2 DEF Line
  <1>4. current' \in BufferOf /\ buffers' \in Seq(BufferOf) /\ next' \in BOOLEAN
    <2>1. CASE Fits
      <3>1. current' = Append(current, lines') /\ UNCHANGED <<next, buffers>>
        BY <2>1 DEF AppendLine
      <3>2. current \in Seq(Line) /\ Len(current) < Room
        BY <2>1, <1>2 DEF BufferOf, Fits
      <3>3. current' \in Seq(Line) /\ Len(current') = Len(current) + 1
        BY <1>3, <3>1, <3>2, AppendProperties
      <3>4. Len(current) \in Nat
        BY <3>2, LenProperties
      <3>5. Len(current') <= Room
        BY <1>2, <3>2, <3>3, <3>4
      <3>6. QED
        BY <1>2, <3>1, <3>3, <3>5 DEF BufferOf
    <2>2. CASE ~Fits
      <3>1. /\ buffers' = Append(buffers, current)
            /\ current' = <<lines'>> /\ next' = FALSE
        BY <2>2 DEF AppendLine
      <3>2. buffers' \in Seq(BufferOf)
        BY <1>2, <3>1, AppendProperties
      <3>3. current' \in Seq(Line) /\ Len(current') = 1
        BY <1>3, <3>1
      <3>4. 1 <= Room
        BY <1>2
      <3>5. QED
        BY <3>1, <3>2, <3>3, <3>4 DEF BufferOf
    <2>3. QED
      BY <2>1, <2>2
  <1>5. back' \in {"none", "born", "check", "lock", "asleep", "woken", "trim",
                   "write", "ended"}
    BY <1>1, NotifiedStays DEF Inv, TypeOK
  <1>6. QED
    BY <1>1, <1>3, <1>4, <1>5 DEF Inv, TypeOK

\* A line comes after all of those that are on their way.
LEMMA AppendLineOrders == ASSUME Inv, AppendLine, TypeOK' PROVE Ordered'
  <1>1. /\ UNCHANGED <<toWrite, written, file, dropped>> /\ lines' = lines + 1
    BY DEF AppendLine, local
  <1>2. lines \in Nat /\ dropped \subseteq 1..lines /\ lines' \in Nat
    BY <1>1, LogAssumption DEF Inv, TypeOK, Ordered
  <1> DEFINE M == Left(toWrite, written)
  <1>3. /\ Chain(file, M, buffers, current)
        /\ AllLines(file, M, buffers, current) = (1..lines) \ dropped
    BY PipelineNow DEF Inv, Ordered
  <1>4. M' = M
    BY <1>1
  <1>5. /\ current \in Buf /\ buffers \in Bufs
    BY Lines, SeqMonotonic DEF Inv, TypeOK, Bufs
  <1> HIDE DEF M
  <1>6. /\ <<lines'>> \in Buf /\ Sorted(<<lines'>>)
        /\ Range(<<lines'>>) = {lines'}
    BY <1>2, OneLine
  <1>7. \A S : S \subseteq 1..lines => Behind(S, {lines'})
    BY <1>1, <1>2 DEF Behind
  <1>8. /\ Behind(Range(file), {lines'}) /\ Behind(LinesIn(M), {lines'})
        /\ Behind(LinesIn(buffers), {lines'}) /\ Behind(Range(current), {lines'})
    BY <1>3, <1>7 DEF AllLines
  <1>9. (1..lines') \ dropped = ((1..lines) \ dropped) \cup {lines'}
    BY <1>1, <1>2
  <1>10. \A S, T, U : Behind(S, T \cup U) <=> Behind(S, T) /\ Behind(S, U)
    BY DEF Behind
  <1>11. /\ Chain(file, M, buffers', current')
         /\ AllLines(file, M, buffers', current') = (1..lines') \ dropped
    <2>1. CASE Fits
      <3>1. current' = current \o <<lines'>> /\ buffers' = buffers
        BY <1>2, <1>5, <2>1, AppendIsConcat DEF AppendLine, Buf
      <3>2. Range(current') = Range(current) \cup {lines'}
        <4>1. Range(current \o <<lines'>>) = Range(current) \cup Range(<<lines'>>)
          BY <1>5, <1>6, RangeConcatenation DEF Buf
        <4>2. QED
          BY <1>6, <3>1, <4>1
      <3>3. Sorted(current')
        BY <1>3, <1>5, <1>6, <1>8, <3>1, SortedConcat DEF Chain
      <3>4. Chain(file, M, buffers', current')
        BY <1>3, <1>8, <1>10, <3>1, <3>2, <3>3 DEF Chain
      <3>5. QED
        BY <1>3, <1>9, <3>1, <3>2, <3>4 DEF AllLines
    <2>2. CASE ~Fits
      <3>1. buffers' = buffers \o <<current>> /\ current' = <<lines'>>
        BY <1>5, <2>2, AppendIsConcat DEF AppendLine, Bufs
      <3>2. /\ <<current>> \in Bufs /\ LinesIn(<<current>>) = Range(current)
            /\ InOrder(<<current>>) <=> Sorted(current)
        BY <1>5, OneBuffer
      <3>3. LinesIn(buffers') = LinesIn(buffers) \cup Range(current)
        BY <1>5, <3>1, <3>2, LinesConcat
      <3>4. InOrder(buffers')
        BY <1>3, <1>5, <3>1, <3>2, InOrderConcat DEF Chain
      <3>5. \A S, T, U : Behind(S \cup T, U) <=> Behind(S, U) /\ Behind(T, U)
        BY DEF Behind
      <3>6. Chain(file, M, buffers', current')
        BY <1>3, <1>6, <1>8, <1>10, <3>1, <3>3, <3>4, <3>5 DEF Chain
      <3>7. QED
        BY <1>3, <1>6, <1>9, <3>1, <3>3, <3>6 DEF AllLines
    <2>3. QED
      BY <2>1, <2>2
  <1>12. LinesKeptInOrder'
    BY <1>1, <1>4, <1>11, PipelineThen DEF M
  <1>13. dropped' \subseteq 1..lines'
    BY <1>1, <1>2
  <1>14. QED
    BY <1>12, <1>13 DEF Ordered

\* A step that leaves the buffers alone.
LEMMA BuffersStay ==
    ASSUME Inv, UNCHANGED <<front, local>>, BornInStart',
           running' \in BOOLEAN,
           owner' \in {"new", "starting", "up", "stopping", "joining", "gone"},
           back' \in {"none", "born", "check", "lock", "asleep", "woken", "trim",
                      "write", "ended"},
           back' = "trim" <=> back = "trim", back' = "write" <=> back = "write"
    PROVE  Inv'
  <1>1. UNCHANGED <<lines, current, next, buffers, spare, toWrite, written,
                    file, dropped>>
    BY DEF front, local
  <1>2. TypeOK'
    BY <1>1 DEF Inv, TypeOK
  <1>3. Assertions'
    BY <1>1 DEF Inv, Assertions, NextUsed, Rested, Enough, Kept
  <1>4. Ordered'
    BY <1>1 DEF Inv, Ordered, LinesKeptInOrder, Pipeline
  <1>5. QED
    BY <1>2, <1>3, <1>4 DEF Inv

LEMMA OwnerKeeps == ASSUME Inv, Owner PROVE Inv'
  <1>0. /\ running \in BOOLEAN
        /\ owner \in {"new", "starting", "up", "stopping", "joining", "gone"}
        /\ back \in {"none", "born", "check", "lock", "asleep", "woken", "trim",
                     "write", "ended"}
        /\ BornInStart
    BY DEF Inv, TypeOK, Assertions
  <1>1. CASE StartThread
    BY <1>0, <1>1, BuffersStay DEF StartThread, BornInStart
  <1>2. CASE Started
    BY <1>0, <1>2, BuffersStay DEF Started, BornInStart
  <1>3. CASE Stop
    BY <1>0, <1>3, BuffersStay DEF Stop, BornInStart
  <1>4. CASE StopNotifies
    <2>1. BornInStart'
      BY <1>0, <1>4, NotifiedStays DEF StopNotifies, BornInStart
    <2>2. QED
      BY <1>0, <1>4, <2>1, NotifiedStays, BuffersStay DEF StopNotifies
  <1>5. CASE Joined
    BY <1>0, <1>5, BuffersStay DEF Joined, BornInStart
  <1>6. QED
    BY <1>1, <1>2, <1>3, <1>4, <1>5 DEF Owner

-----------------------------------------------------------------------------
(* The steps of the back thread.                                            *)

LEMMA SwapTakes ==
    ASSUME Inv, Swap, back \in {"lock", "woken", "asleep"}
    PROVE  /\ toWrite = <<>> /\ written = 0 /\ spare = Start
           /\ toWrite' = Append(buffers, current) /\ buffers' = <<>>
           /\ current' = <<>> /\ next' = TRUE /\ back' = "trim"
           /\ UNCHANGED <<lines, written, file, dropped, running, owner>>
           /\ toWrite' \in Seq(BufferOf) /\ Len(toWrite') = Len(buffers) + 1
           /\ Len(buffers) \in Nat
  <1>1. /\ toWrite = <<>> /\ written = 0 /\ spare = Start
        /\ current \in BufferOf /\ buffers \in Seq(BufferOf)
    BY DEF Inv, Assertions, Rested, TypeOK
  <1>2. /\ Append(buffers, current) \in Seq(BufferOf)
        /\ Len(Append(buffers, current)) = Len(buffers) + 1
    BY <1>1, AppendProperties
  <1>3. Len(buffers) \in Nat
    BY <1>1, LenProperties
  <1>4. QED
    BY <1>1, <1>2, <1>3 DEF Swap

LEMMA SwapTypes ==
    ASSUME Inv, Swap, back \in {"lock", "woken", "asleep"} PROVE TypeOK'
  <1>1. current' \in BufferOf /\ buffers' \in Seq(BufferOf)
    <2>1. <<>> \in BufferOf
      BY LogAssumption DEF BufferOf
    <2>2. current' = <<>> /\ buffers' = <<>>
      BY SwapTakes
    <2>3. <<>> \in Seq(BufferOf)
      BY EmptySeq
    <2>4. QED
      BY <2>1, <2>2, <2>3, Zenon
  <1>2. /\ toWrite' \in Seq(BufferOf) /\ Len(toWrite') \in Nat
        /\ written' = 0 /\ next' \in BOOLEAN /\ back' = "trim"
        /\ UNCHANGED <<lines, file, dropped, running, owner>>
    <2>1. /\ toWrite' \in Seq(BufferOf)
          /\ written = 0 /\ next' = TRUE /\ back' = "trim"
          /\ UNCHANGED <<lines, written, file, dropped, running, owner>>
      BY SwapTakes
    <2>2. QED
      BY <2>1, LenProperties
  <1>3. spare' \subseteq Start
    BY DEF Swap, Inv, TypeOK
  <1>4. QED
    BY <1>1, <1>2, <1>3 DEF Inv, TypeOK

LEMMA SwapAsserts ==
    ASSUME Inv, Swap, back \in {"lock", "woken", "asleep"} PROVE Assertions'
  <1>1. /\ spare = Start /\ buffers' = <<>> /\ next' = TRUE /\ back' = "trim"
        /\ UNCHANGED <<written, running, owner>> /\ written = 0
        /\ toWrite' \in Seq(BufferOf) /\ Len(toWrite') = Len(buffers) + 1
        /\ Len(buffers) \in Nat
    BY SwapTakes
  <1>2. NextUsed' /\ BornInStart' /\ Rested'
    BY <1>1 DEF Inv, Assertions, NextUsed, BornInStart, Rested
  <1>3. toWrite' # <<>>
    BY <1>1, EmptySeq
  <1>4. Len(Kept') = Len(toWrite') \/ Len(Kept') = 2
    <2>1. CASE Len(toWrite') > MaxQueued
      <3>1. /\ 1 \in Int /\ 2 \in Int
            /\ \A i \in 1..2 : toWrite'[i] \in BufferOf
        BY <1>1, <2>1, ElementOfSeq, LogAssumption
      <3>2. Len(SubSeq(toWrite', 1, 2)) = 2
        BY <3>1, SubSeqProperties
      <3>3. QED
        BY <2>1, <3>2 DEF Kept
    <2>2. CASE ~(Len(toWrite') > MaxQueued)
      BY <2>2 DEF Kept
    <2>3. QED
      BY <2>1, <2>2
  <1>5. Cardinality(Start \ spare') <= Len(Kept')
    <2>1. CASE next
      <3>1. Start \ spare' = Start \ {2}
        BY <1>1, <2>1 DEF Swap, Start
      <3>2. 1 <= Len(toWrite')
        BY <1>1
      <3>3. Cardinality(Start \ spare') = 1
        BY <3>1, StartSize, Zenon
      <3>4. QED
        BY <1>4, <3>2, <3>3
    <2>2. CASE ~next
      <3>1. Start \ spare' = Start \ {}
        BY <1>1, <2>2 DEF Swap, Start
      <3>2. buffers # <<>> /\ buffers \in Seq(BufferOf)
        BY <2>2 DEF Inv, Assertions, NextUsed, TypeOK
      <3>3. 2 <= Len(toWrite')
        BY <1>1, <3>2, EmptySeq
      <3>4. Cardinality(Start \ spare') = 2
        BY <3>1, StartSize, Zenon
      <3>5. QED
        BY <1>4, <3>3, <3>4
    <2>3. QED
      BY <2>1, <2>2
  <1>6. Enough'
    BY <1>1, <1>3, <1>5 DEF Enough
  <1>7. QED
    BY <1>2, <1>6 DEF Assertions

\* The swap moves the queue and the current buffer one place on.
LEMMA SwapOrders ==
    ASSUME Inv, Swap, back \in {"lock", "woken", "asleep"}, TypeOK'
    PROVE  Ordered'
  <1>1. /\ toWrite = <<>> /\ written = 0
        /\ toWrite' = Append(buffers, current) /\ buffers' = <<>>
        /\ current' = <<>>
        /\ UNCHANGED <<lines, written, file, dropped>>
    BY SwapTakes
  <1>2. /\ current \in Buf /\ buffers \in Bufs /\ toWrite \in Bufs
        /\ toWrite' \in Bufs
    BY Lines, SeqMonotonic DEF Inv, TypeOK, Bufs
  <1>3. toWrite' = buffers \o <<current>>
    BY <1>1, <1>2, AppendIsConcat DEF Bufs
  <1>4. Left(toWrite, written) = <<>>
    BY <1>1, <1>2, LeftShape DEF Inv, TypeOK
  <1>5. Left(toWrite', written') = toWrite'
    BY <1>1, <1>2, LeftShape DEF TypeOK
  <1>6. /\ Chain(file, <<>>, buffers, current)
        /\ AllLines(file, <<>>, buffers, current) = (1..lines) \ dropped
    BY <1>4, PipelineNow DEF Inv, Ordered
  <1>7. /\ <<current>> \in Bufs /\ LinesIn(<<current>>) = Range(current)
        /\ InOrder(<<current>>) <=> Sorted(current)
    BY <1>2, OneBuffer
  <1>8. LinesIn(toWrite') = LinesIn(buffers) \cup Range(current)
    BY <1>2, <1>3, <1>7, LinesConcat
  <1>9. InOrder(toWrite')
    BY <1>2, <1>3, <1>6, <1>7, InOrderConcat DEF Chain
  <1>10. /\ \A S, T, U : Behind(S, T \cup U) <=> Behind(S, T) /\ Behind(S, U)
         /\ \A S : Behind(S, {})
         /\ \A S : Behind({}, S)
    BY DEF Behind
  <1>11. /\ LinesIn(<<>>) = {} /\ InOrder(<<>>)
         /\ Range(<<>>) = {} /\ Sorted(<<>>)
    BY NoBuffer, NoLine
  <1>12. Behind(Range(file), LinesIn(toWrite'))
    BY <1>6, <1>8, <1>10 DEF Chain
  <1>13. Chain(file, toWrite', <<>>, <<>>)
    BY <1>6, <1>9, <1>10, <1>11, <1>12 DEF Chain
  <1>14. AllLines(file, toWrite', <<>>, <<>>) = (1..lines) \ dropped
    BY <1>6, <1>8, <1>11 DEF AllLines
  <1>15. LinesKeptInOrder'
    BY <1>1, <1>5, <1>13, <1>14, PipelineThen
  <1>16. QED
    BY <1>1, <1>15 DEF Ordered, Inv

LEMMA SwapKeeps ==
    ASSUME Inv, Swap, back \in {"lock", "woken", "asleep"} PROVE Inv'
  BY SwapTypes, SwapAsserts, SwapOrders DEF Inv

\* What the dropping leaves: some of the first buffers.
LEMMA KeptShape ==
    ASSUME toWrite \in Seq(BufferOf)
    PROVE  \E n \in 0..Len(toWrite) :
              Kept = SubSeq(toWrite, 1, n) /\ Kept \in Seq(BufferOf)
  <1>1. Len(toWrite) \in Nat /\ Len(toWrite) \in 0..Len(toWrite)
    BY LenProperties
  <1>2. CASE Len(toWrite) > MaxQueued
    <2>1. 2 \in 0..Len(toWrite)
      BY <1>1, <1>2, LogAssumption
    <2>2. Kept = SubSeq(toWrite, 1, 2)
      BY <1>2 DEF Kept
    <2>3. /\ 1 \in Int /\ 2 \in Int
          /\ \A i \in 1..2 : toWrite[i] \in BufferOf
      BY <1>1, <2>1, ElementOfSeq
    <2>4. Kept \in Seq(BufferOf)
      BY <2>2, <2>3, SubSeqProperties
    <2>5. QED
      BY <2>1, <2>2, <2>4
  <1>3. CASE ~(Len(toWrite) > MaxQueued)
    BY <1>1, <1>3, SubSeqFull DEF Kept
  <1>4. QED
    BY <1>2, <1>3

LEMMA TrimKeeps == ASSUME Inv, Trim PROVE Inv'
  <1>1. /\ back = "trim" /\ back' = "write" /\ toWrite' = Kept
        /\ dropped' = dropped \cup (LinesIn(toWrite) \ LinesIn(Kept))
        /\ UNCHANGED <<lines, current, next, buffers, spare, written, file,
                      running, owner>>
    BY DEF Trim, front
  <1>2. toWrite \in Seq(BufferOf) /\ written = 0
    BY <1>1 DEF Inv, TypeOK, Assertions, Rested
  <1>3. /\ toWrite \in Bufs /\ buffers \in Bufs /\ current \in Buf
        /\ Left(toWrite, written) = toWrite
    <2>1. toWrite \in Bufs /\ buffers \in Bufs /\ current \in Buf
      BY Lines, SeqMonotonic DEF Inv, TypeOK, Bufs
    <2>2. QED
      BY <1>2, <2>1, LeftShape DEF Inv, TypeOK
  <1>4. PICK n \in 0..Len(toWrite) :
           Kept = SubSeq(toWrite, 1, n) /\ Kept \in Seq(BufferOf)
    BY <1>2, KeptShape
  <1>5. /\ toWrite' \in Bufs /\ LinesIn(toWrite') \subseteq LinesIn(toWrite)
        /\ InOrder(toWrite) => InOrder(toWrite')
    BY <1>1, <1>3, <1>4, FirstBuffers
  <1>6. /\ Chain(file, toWrite, buffers, current)
        /\ AllLines(file, toWrite, buffers, current) = (1..lines) \ dropped
        /\ dropped \subseteq 1..lines /\ 1..lines \subseteq Line
    <2>1. 1..lines \subseteq Line
      BY LogAssumption DEF Inv, TypeOK, Line
    <2>2. QED
      BY <1>3, <2>1, PipelineNow DEF Inv, Ordered
  <1>7. LinesIn(toWrite) \subseteq 1..lines
    BY <1>6 DEF AllLines
  <1>8. dropped' \subseteq 1..lines
    BY <1>1, <1>6, <1>7
  <1>9. TypeOK'
    <2>1. toWrite' \in Seq(BufferOf) /\ Len(toWrite') \in Nat
      BY <1>1, <1>4, LenProperties
    <2>2. written' \in 0..Len(toWrite')
      BY <1>1, <1>2, <2>1
    <2>3. QED
      BY <1>1, <1>6, <1>8, <2>1, <2>2 DEF Inv, TypeOK
  <1>10. Left(toWrite', written') = toWrite'
    BY <1>1, <1>2, <1>5, <1>9, LeftShape DEF TypeOK
  <1>11. Chain(file, toWrite', buffers, current)
    <2>1. \A S, T, U : S \subseteq T /\ Behind(T, U) => Behind(S, U)
      BY DEF Behind
    <2>2. \A S, T, U : S \subseteq T /\ Behind(U, T) => Behind(U, S)
      BY DEF Behind
    <2>3. QED
      BY <1>5, <1>6, <2>1, <2>2 DEF Chain
  <1>12. AllLines(file, toWrite', buffers, current) = (1..lines) \ dropped'
    <2>1. \A S, T : Behind(S, T) /\ S \subseteq Nat => S \cap T = {}
      <3> SUFFICES ASSUME NEW S, NEW T, Behind(S, T), S \subseteq Nat,
                          NEW x \in S, x \in T
                   PROVE  FALSE
        OBVIOUS
      <3>1. x < x /\ x \in Nat
        BY DEF Behind
      <3>2. QED
        BY <3>1
    <2>2. LinesIn(toWrite) \subseteq Nat /\ Range(file) \subseteq Nat
      <3>1. 1..lines \subseteq Nat
        BY LogAssumption DEF Inv, TypeOK
      <3>2. QED
        BY <1>6, <3>1 DEF AllLines
    <2>3. /\ LinesIn(toWrite) \cap LinesIn(buffers) = {}
          /\ LinesIn(toWrite) \cap Range(current) = {}
          /\ Range(file) \cap LinesIn(toWrite) = {}
      BY <1>6, <2>1, <2>2 DEF Chain
    <2>4. QED
      BY <1>1, <1>5, <1>6, <2>3 DEF AllLines
  <1>13. Ordered'
    BY <1>1, <1>8, <1>9, <1>10, <1>11, <1>12, PipelineThen DEF Ordered
  <1>14. Assertions'
    <2>1. NextUsed' /\ BornInStart' /\ Rested'
      BY <1>1, <1>2 DEF Inv, Assertions, NextUsed, BornInStart, Rested
    <2>2. Cardinality(Start \ spare) <= Len(Kept) /\ toWrite # <<>>
      BY <1>1 DEF Inv, Assertions, Enough
    <2>3. Kept # <<>>
      <3>1. CASE Len(toWrite) > MaxQueued
        <4>1. /\ 1 \in Int /\ 2 \in Int
              /\ \A i \in 1..2 : toWrite[i] \in BufferOf
          BY <1>2, <3>1, ElementOfSeq, LogAssumption
        <4>2. Len(SubSeq(toWrite, 1, 2)) = 2
          BY <4>1, SubSeqProperties
        <4>3. SubSeq(toWrite, 1, 2) # <<>>
          <5>1. Len(<<>>) = 0 /\ 0 # 2
            OBVIOUS
          <5>2. QED
            BY <4>2, <5>1, Zenon
        <4>4. QED
          BY <3>1, <4>3 DEF Kept
      <3>2. CASE ~(Len(toWrite) > MaxQueued)
        BY <2>2, <3>2 DEF Kept
      <3>3. QED
        BY <3>1, <3>2
    <2>4. Enough'
      BY <1>1, <2>2, <2>3 DEF Enough
    <2>5. QED
      BY <2>1, <2>4 DEF Assertions
  <1>15. QED
    BY <1>9, <1>13, <1>14 DEF Inv

\* One buffer goes to the end of the file.
LEMMA WriteBufferKeeps == ASSUME Inv, WriteBuffer PROVE Inv'
  <1>1. /\ back = "write" /\ written < Len(toWrite)
        /\ file' = file \o toWrite[written + 1] /\ written' = written + 1
        /\ UNCHANGED <<lines, current, next, buffers, spare, toWrite, dropped,
                      running, owner, back>>
    BY DEF WriteBuffer, front
  <1> DEFINE w == toWrite[written + 1]
  <1>2. /\ toWrite \in Seq(BufferOf) /\ written \in 0..Len(toWrite)
        /\ toWrite \in Bufs /\ file \in Seq(Line) /\ file \in Buf
    BY Types DEF Inv, TypeOK
  <1>3. Len(toWrite) \in Nat
    BY <1>2, LenProperties
  <1>4. /\ w \in Buf /\ written' \in 0..Len(toWrite)
        /\ Left(toWrite, written) = <<w>> \o Left(toWrite, written')
        /\ Left(toWrite, written') \in Bufs
    BY <1>1, <1>2, <1>3, LeftShape
  <1>5. w \in BufferOf
    <2>1. written + 1 \in 1..Len(toWrite)
      BY <1>1, <1>2, <1>3
    <2>2. QED
      BY <1>2, <2>1, ElementOfSeq
  <1> HIDE DEF w
  <1>6. file' = file \o w
    BY <1>1 DEF w
  <1>7. TypeOK'
    <2>1. file' \in Seq(Line)
      BY <1>2, <1>5, <1>6, ConcatProperties DEF BufferOf
    <2>2. QED
      BY <1>1, <1>4, <2>1 DEF Inv, TypeOK
  <1> DEFINE M == Left(toWrite, written')
             O == Left(toWrite, written)
  <1>8. /\ Chain(file, O, buffers, current)
        /\ AllLines(file, O, buffers, current) = (1..lines) \ dropped
    BY PipelineNow DEF Inv, Ordered
  <1>9. /\ <<w>> \in Bufs /\ LinesIn(<<w>>) = Range(w)
        /\ InOrder(<<w>>) <=> Sorted(w)
    BY <1>4, OneBuffer
  <1>10. /\ LinesIn(O) = Range(w) \cup LinesIn(M)
         /\ InOrder(O) <=>
               Sorted(w) /\ InOrder(M) /\ Behind(Range(w), LinesIn(M))
    BY <1>4, <1>9, LinesConcat, InOrderConcat
  <1> HIDE DEF M, O
  <1>11. /\ Range(file') = Range(file) \cup Range(w)
         /\ Sorted(file') <=>
               Sorted(file) /\ Sorted(w) /\ Behind(Range(file), Range(w))
    BY <1>2, <1>4, <1>6, RangeConcatenation, SortedConcat DEF Buf
  <1>12. /\ \A S, T, U : Behind(S \cup T, U) <=> Behind(S, U) /\ Behind(T, U)
         /\ \A S, T, U : Behind(S, T \cup U) <=> Behind(S, T) /\ Behind(S, U)
    BY DEF Behind
  <1>13. Chain(file', M, buffers, current)
    <2>1. /\ Sorted(file) /\ Sorted(w) /\ InOrder(M) /\ InOrder(buffers)
          /\ Sorted(current) /\ Behind(Range(w), LinesIn(M))
          /\ Behind(LinesIn(buffers), Range(current))
      BY <1>8, <1>10 DEF Chain
    <2>2. /\ Behind(Range(file), Range(w)) /\ Behind(Range(file), LinesIn(M))
          /\ Behind(Range(w), LinesIn(buffers))
          /\ Behind(LinesIn(M), LinesIn(buffers))
          /\ Behind(Range(w), Range(current))
          /\ Behind(LinesIn(M), Range(current))
      BY <1>8, <1>10, <1>12, Zenon DEF Chain
    <2>3. /\ Behind(Range(file), LinesIn(buffers))
          /\ Behind(Range(file), Range(current))
      BY <1>8 DEF Chain
    <2>4. /\ Behind(Range(file'), LinesIn(M))
          /\ Behind(Range(file'), LinesIn(buffers))
          /\ Behind(Range(file'), Range(current))
      BY <1>11, <1>12, <2>1, <2>2, <2>3, Zenon
    <2>5. QED
      BY <1>11, <2>1, <2>2, <2>4 DEF Chain
  <1>14. AllLines(file', M, buffers, current) = (1..lines) \ dropped
    BY <1>8, <1>10, <1>11 DEF AllLines
  <1>15. Ordered'
    <2>1. LinesKeptInOrder'
      BY <1>1, <1>7, <1>13, <1>14, PipelineThen DEF M
    <2>2. QED
      BY <1>1, <2>1 DEF Inv, Ordered
  <1>16. Assertions'
    BY <1>1 DEF Inv, Assertions, NextUsed, BornInStart, Rested, Enough
  <1>17. QED
    BY <1>7, <1>15, <1>16 DEF Inv

LEMMA RecycleKeeps == ASSUME Inv, Recycle PROVE Inv'
  <1>1. /\ back = "write" /\ written = Len(toWrite) /\ back' = "check"
        /\ toWrite' = <<>> /\ written' = 0
        /\ UNCHANGED <<lines, current, next, buffers, file, dropped, running,
                      owner>>
    BY DEF Recycle, front
  <1>2. spare' = Start
    BY <1>1 DEF Recycle, Inv, Assertions, Enough
  <1>3. <<>> \in Seq(BufferOf) /\ Len(<<>>) = 0 /\ <<>> \in Bufs
    BY EmptySeq DEF Bufs
  <1>4. TypeOK'
    BY <1>1, <1>2, <1>3 DEF Inv, TypeOK
  <1>5. Left(toWrite, written) = <<>>
    BY <1>1, Types, LeftShape DEF Inv, TypeOK
  <1>6. Left(toWrite', written') = <<>>
    BY <1>1, <1>3, <1>4, LeftShape DEF TypeOK
  <1>7. Ordered'
    <2>1. /\ Chain(file, <<>>, buffers, current)
          /\ AllLines(file, <<>>, buffers, current) = (1..lines) \ dropped
      BY <1>5, PipelineNow DEF Inv, Ordered
    <2>2. LinesKeptInOrder'
      BY <1>1, <1>4, <1>6, <2>1, PipelineThen
    <2>3. QED
      BY <1>1, <2>2 DEF Inv, Ordered
  <1>8. Assertions'
    BY <1>1, <1>2
    DEF Inv, Assertions, NextUsed, BornInStart, Rested, Enough
  <1>9. QED
    BY <1>4, <1>7, <1>8 DEF Inv

LEMMA BackKeeps == ASSUME Inv, Back PROVE Inv'
  <1>0. /\ running \in BOOLEAN
        /\ owner \in {"new", "starting", "up", "stopping", "joining", "gone"}
        /\ BornInStart
    BY DEF Inv, TypeOK, Assertions
  <1>1. CASE CountDown
    BY <1>0, <1>1, BuffersStay DEF CountDown, BornInStart
  <1>2. CASE Check
    BY <1>0, <1>2, BuffersStay DEF Check, BornInStart
  <1>3. CASE back = "lock" /\ back' = "asleep"
                /\ UNCHANGED <<front, local, running, owner>>
    BY <1>0, <1>3, BuffersStay DEF BornInStart
  <1>4. CASE back \in {"lock", "woken", "asleep"} /\ Swap
    BY <1>4, SwapKeeps
  <1>5. CASE Trim \/ WriteBuffer \/ Recycle
    BY <1>5, TrimKeeps, WriteBufferKeeps, RecycleKeeps
  <1>6. QED
    BY <1>1, <1>2, <1>3, <1>4, <1>5 DEF Back, Lock, Wake, Expire

-----------------------------------------------------------------------------
(* The theorems.                                                            *)

LEMMA InitHolds == Init => Inv
  <1> SUFFICES ASSUME Init PROVE Inv
    OBVIOUS
  <1>1. /\ lines = 0 /\ current = <<>> /\ next = TRUE /\ buffers = <<>>
        /\ running = FALSE /\ owner = "new" /\ back = "none"
        /\ spare = Start /\ toWrite = <<>> /\ written = 0 /\ file = <<>>
        /\ dropped = {}
    BY DEF Init
  <1>2. /\ <<>> \in Seq(BufferOf) /\ <<>> \in Seq(Line) /\ <<>> \in BufferOf
        /\ <<>> \in Bufs /\ Len(<<>>) = 0
    BY EmptySeq, LogAssumption DEF BufferOf, Bufs
  <1>3. TypeOK
    <2>1. lines \in 0..MaxLines /\ written \in 0..Len(toWrite)
      BY <1>1, <1>2, LogAssumption
    <2>2. dropped \subseteq Line /\ spare \subseteq Start
      BY <1>1
    <2>3. QED
      BY <1>1, <1>2, <2>1, <2>2 DEF TypeOK
  <1>4. Assertions
    BY <1>1 DEF Assertions, NextUsed, BornInStart, Rested, Enough
  <1>5. Left(toWrite, written) = <<>>
    <2>1. toWrite \in Bufs /\ written \in 0..Len(toWrite)
      BY <1>1, <1>2
    <2>2. QED
      BY <1>1, <2>1, LeftShape
  <1>6. /\ LinesIn(<<>>) = {} /\ InOrder(<<>>)
        /\ Range(<<>>) = {} /\ Sorted(<<>>) /\ 1..0 = {}
    BY NoBuffer, NoLine
  <1>7. Chain(<<>>, <<>>, <<>>, <<>>) /\ AllLines(<<>>, <<>>, <<>>, <<>>) = {}
    BY <1>6 DEF Chain, AllLines, Behind
  <1>8. LinesKeptInOrder
    BY <1>1, <1>3, <1>5, <1>6, <1>7, PipelineNow
  <1>9. QED
    BY <1>1, <1>3, <1>4, <1>8 DEF Inv, Ordered

LEMMA StepKeeps == Inv /\ [Next]_vars => Inv'
  <1> SUFFICES ASSUME Inv, [Next]_vars PROVE Inv'
    OBVIOUS
  <1>1. CASE UNCHANGED vars
    <2>1. BornInStart
      BY DEF Inv, Assertions
    <2>2. BornInStart'
      BY <1>1, <2>1 DEF vars, BornInStart
    <2>3. UNCHANGED <<front, local, running, owner, back>>
      BY <1>1 DEF vars, front, local
    <2>4. QED
      BY <2>2, <2>3, BuffersStay DEF Inv, TypeOK
  <1>2. CASE AppendLine
    BY <1>2, AppendLineTypes, AppendLineAsserts, AppendLineOrders DEF Inv
  <1>3. QED
    BY <1>1, <1>2, OwnerKeeps, BackKeeps DEF Next

\* Every variable is of its type: no buffer holds more than it has room for,
\* and the loop does not write past the buffers it took.
THEOREM TypeCorrect == Spec => []TypeOK
  <1>1. Inv => TypeOK
    BY DEF Inv
  <1>2. QED
    BY <1>1, InitHolds, StepKeeps, PTL DEF Spec

\* No assertion of threadFunc fails: the thread runs only after start() has
\* set running_, both spare buffers are back before every swap, and what the
\* dropping leaves is always enough to make them of.  So currentBuffer_ is
\* never null when append() writes through it.
THEOREM NoAssertionFails == Spec => []AssertionsHold
  <1>1. Inv => AssertionsHold
    BY DEF Inv, Assertions, BornInStart, Rested, Enough, AssertionsHold
  <1>2. QED
    BY <1>1, InitHolds, StepKeeps, PTL DEF Spec

\* However the threads take turns, each line that was appended is in the file,
\* on its way there, or was dropped when the queue was too long, once, and the
\* file and the buffers hold the lines in the order in which they came.
THEOREM LinesStayInOrder == Spec => []LinesKeptInOrder
  <1>1. Inv => LinesKeptInOrder
    BY DEF Inv, Ordered
  <1>2. QED
    BY <1>1, InitHolds, StepKeeps, PTL DEF Spec
=============================================================================
