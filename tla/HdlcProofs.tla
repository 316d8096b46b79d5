----------------------------- MODULE HdlcProofs -----------------------------
(***************************************************************************)
(* Theorems about circ_buf.c and hdlc.c, for every size of the buffer and   *)
(* every sequence of bytes: the ring is a queue of bytes, hdlc_decode_one   *)
(* takes from it what the stream means, wherever it is cut, and undoes      *)
(* hdlc_encode.                                                             *)
(*                                                                         *)
(* The recursive definitions of Hdlc.tla are folds of a step over a         *)
(* sequence, and what holds for all sequences is proved by showing that the *)
(* set of those it holds for is closed under Append.                        *)
(***************************************************************************)
EXTENDS Hdlc, TLAPS, SequenceTheorems, WellFoundedInduction

-----------------------------------------------------------------------------
(* The circular buffer.                                                    *)

N == HDLC_BUF_SIZE

\* The number of bytes between tail and head.
Count(r) == Wrap(N + r.head - r.tail)

\* Indices are below the size, and counts too: the buffer never holds as many
\* bytes as it has places.
LEMMA RingNumbers ==
    ASSUME NEW r \in Ring
    PROVE  /\ N \in Nat /\ N >= 2
           /\ r.head \in 0..(N - 1) /\ r.tail \in 0..(N - 1)
           /\ r.buf \in [0..(N - 1) -> Byte]
           /\ Count(r) \in 0..(N - 1)
           /\ CIRC_SPACE(r) = N - 1 - Count(r)
<1>1. N \in Nat /\ N >= 2
  BY HdlcAssumption DEF N
<1>2. /\ r.head \in 0..(N - 1) /\ r.tail \in 0..(N - 1)
      /\ r.buf \in [0..(N - 1) -> Byte]
  BY DEF Ring, Index, N
<1>3. Count(r) \in 0..(N - 1)
  BY <1>1, <1>2 DEF Count, Wrap, N
<1>4. CIRC_SPACE(r) = N - 1 - Count(r)
  BY <1>1, <1>2 DEF Count, CIRC_SPACE, Wrap, N
<1>5. QED
  BY <1>1, <1>2, <1>3, <1>4

\* The arithmetic of indices: h is a head, t a tail, c the count between them.
LEMMA WrapHead ==
    ASSUME NEW h \in 0..(N - 1), NEW t \in 0..(N - 1), NEW n \in Nat,
           NEW c, c = Wrap(N + h - t), n <= N - 1 - c
    PROVE  Wrap(N + Wrap(h + n) - t) = c + n
<1>1. N \in Nat /\ N >= 2
  BY HdlcAssumption DEF N
<1>2. (h >= t /\ c = h - t) \/ (h < t /\ c = N + h - t)
  BY <1>1 DEF Wrap, N
<1>3. (h + n >= N /\ Wrap(h + n) = h + n - N) \/ (h + n < N /\ Wrap(h + n) = h + n)
  BY <1>1 DEF Wrap, N
<1>4. QED
  BY <1>1, <1>2, <1>3 DEF Wrap, N

LEMMA WrapTail ==
    ASSUME NEW h \in 0..(N - 1), NEW t \in 0..(N - 1), NEW n \in Nat,
           NEW c, c = Wrap(N + h - t), n <= c
    PROVE  Wrap(N + h - Wrap(t + n)) = c - n
<1>1. N \in Nat /\ N >= 2
  BY HdlcAssumption DEF N
<1>2. (h >= t /\ c = h - t) \/ (h < t /\ c = N + h - t)
  BY <1>1 DEF Wrap, N
<1>3. (t + n >= N /\ Wrap(t + n) = t + n - N) \/ (t + n < N /\ Wrap(t + n) = t + n)
  BY <1>1 DEF Wrap, N
<1>4. QED
  BY <1>1, <1>2, <1>3 DEF Wrap, N

LEMMA WrapIndex ==
    ASSUME NEW h \in 0..(N - 1), NEW t \in 0..(N - 1), NEW n \in Nat, NEW i \in Nat,
           n <= N - 1 - Wrap(N + h - t), n <= N - h,
           1 <= i, i <= Wrap(N + h - t) + n
    PROVE  /\ Wrap(t + i - 1) \in 0..(N - 1)
           /\ i <= Wrap(N + h - t) => ~(/\ Wrap(t + i - 1) >= h
                                        /\ Wrap(t + i - 1) < h + n)
           /\ i > Wrap(N + h - t) => /\ Wrap(t + i - 1) >= h
                                     /\ Wrap(t + i - 1) < h + n
                                     /\ Wrap(t + i - 1) - h + 1 = i - Wrap(N + h - t)
<1> DEFINE c == Wrap(N + h - t)
           k == Wrap(t + i - 1)
<1>1. N \in Nat /\ N >= 2
  BY HdlcAssumption DEF N
<1>2. (h >= t /\ c = h - t) \/ (h < t /\ c = N + h - t)
  BY <1>1 DEF Wrap, N
<1>3. (t + i - 1 >= N /\ k = t + i - 1 - N) \/ (t + i - 1 < N /\ k = t + i - 1)
  BY <1>1, <1>2 DEF Wrap, N
<1>4. n <= N - 1 - c /\ i <= c + n
  OBVIOUS
<1> HIDE DEF c, k
<1>5. /\ k \in 0..(N - 1)
      /\ i <= c => ~(k >= h /\ k < h + n)
      /\ i > c => k >= h /\ k < h + n /\ k - h + 1 = i - c
  BY <1>1, <1>2, <1>3, <1>4
<1>6. QED
  BY <1>5 DEF c, k

\* What is unread is a sequence of Count bytes.
LEMMA UnreadType ==
    ASSUME NEW r \in Ring
    PROVE  /\ Unread(r) \in Seq(Byte)
           /\ Len(Unread(r)) = Count(r)
           /\ \A i \in 1..Count(r) : Unread(r)[i] = r.buf[Wrap(r.tail + i - 1)]
<1>1. Unread(r) = [i \in 1..Count(r) |-> r.buf[Wrap(r.tail + i - 1)]]
  BY DEF Unread, Count, N
<1>2. \A i \in 1..Count(r) : Wrap(r.tail + i - 1) \in 0..(N - 1)
  BY RingNumbers DEF Wrap, N
<1>3. \A i \in 1..Count(r) : r.buf[Wrap(r.tail + i - 1)] \in Byte
  BY <1>2, RingNumbers
<1>4. Count(r) \in Nat
  BY RingNumbers
<1>5. QED
  BY <1>1, <1>3, <1>4

\* circ_read puts bytes behind the unread ones, so long as there are no more of
\* them than CIRC_SPACE_TO_END: nothing unread is overwritten, and the buffer is
\* not filled so far that it would be taken for an empty one.
THEOREM RingAppends ==
    ASSUME NEW r \in Ring, NEW bytes \in Seq(Byte),
           Len(bytes) <= CIRC_SPACE_TO_END(r)
    PROVE  /\ Filled(r, bytes) \in Ring
           /\ Unread(Filled(r, bytes)) = Unread(r) \o bytes
<1> DEFINE f == Filled(r, bytes)
           len == Len(bytes)
<1>1. /\ N \in Nat /\ N >= 2
      /\ r.head \in 0..(N - 1) /\ r.tail \in 0..(N - 1)
      /\ r.buf \in [0..(N - 1) -> Byte]
      /\ Count(r) \in 0..(N - 1)
  BY RingNumbers
<1>2. len \in Nat /\ len <= N - 1 - Count(r) /\ len <= N - r.head
  BY <1>1, RingNumbers DEF CIRC_SPACE_TO_END, N
<1> DEFINE buf == [i \in 0..(N - 1) |-> IF i >= r.head /\ i < r.head + len
                                         THEN bytes[i - r.head + 1] ELSE r.buf[i]]
<1>a. f = [r EXCEPT !.buf = buf, !.head = Wrap(r.head + len)]
  BY DEF Filled, Index, N
<1>b. r = [buf |-> r.buf, head |-> r.head, tail |-> r.tail]
  BY DEF Ring
<1> HIDE DEF f, buf
<1>c. f = [buf |-> buf, head |-> Wrap(r.head + len), tail |-> r.tail]
  BY <1>a, <1>b
<1>3. f.head = Wrap(r.head + len) /\ f.tail = r.tail /\ f.buf = buf
  BY <1>c
<1> HIDE DEF len
<1>4. f.head \in 0..(N - 1)
  BY <1>1, <1>2, <1>3 DEF Wrap, N
<1>5. f.buf \in [0..(N - 1) -> Byte]
  <2>1. \A i \in 0..(N - 1) : i >= r.head /\ i < r.head + len
                                  => bytes[i - r.head + 1] \in Byte
    BY <1>1, <1>2 DEF len
  <2>2. QED
    BY <2>1, <1>1, <1>3 DEF buf
<1>6. f \in Ring
  BY <1>1, <1>3, <1>4, <1>5, <1>c DEF Ring, Index, N
<1>7. Count(f) = Count(r) + len
  BY SMTT(30), <1>1, <1>2, <1>3, WrapHead DEF Count
<1>8. /\ Unread(f) \in Seq(Byte) /\ Len(Unread(f)) = Count(r) + len
      /\ Unread(r) \in Seq(Byte) /\ Len(Unread(r)) = Count(r)
  BY <1>6, <1>7, UnreadType
<1>d. Count(r) \in Nat /\ len \in Nat
  BY <1>1, <1>2
<1>9. \A i \in 1..(Count(r) + len) : Unread(f)[i] = (Unread(r) \o bytes)[i]
  <2> SUFFICES ASSUME NEW i \in 1..(Count(r) + len)
               PROVE  Unread(f)[i] = (Unread(r) \o bytes)[i]
    OBVIOUS
  <2> DEFINE k == Wrap(r.tail + i - 1)
  <2>0. Unread(f)[i] = f.buf[k]
    BY <1>3, <1>6, <1>7, UnreadType
  <2>a. Count(r) = Wrap(N + r.head - r.tail)
    BY DEF Count
  <2>b. /\ k \in 0..(N - 1)
        /\ i <= Count(r) => ~(k >= r.head /\ k < r.head + len)
        /\ i > Count(r) => /\ k >= r.head /\ k < r.head + len
                           /\ k - r.head + 1 = i - Count(r)
    <3>1. i \in Nat /\ 1 <= i /\ i <= Wrap(N + r.head - r.tail) + len
      BY <1>d, <2>a
    <3>2. len \in Nat /\ len <= N - 1 - Wrap(N + r.head - r.tail) /\ len <= N - r.head
      BY <1>2, <2>a
    <3>3. r.head \in 0..(N - 1) /\ r.tail \in 0..(N - 1)
      BY <1>1
    <3>4. QED
      BY <2>a, <3>1, <3>2, <3>3, WrapIndex
  <2>c. i <= Count(r) \/ i > Count(r)
    BY <1>d
  <2> HIDE DEF k
  <2>1. CASE i <= Count(r)
    <3>1. (Unread(r) \o bytes)[i] = r.buf[k]
      BY <1>1, <1>2, <1>8, <2>1, UnreadType DEF len, k
    <3>2. QED
      BY <1>3, <2>0, <2>1, <2>b, <3>1 DEF buf
  <2>2. CASE i > Count(r)
    <3>1. (Unread(r) \o bytes)[i] = bytes[i - Count(r)]
      BY SMTT(30), <1>1, <1>2, <1>8, <2>2 DEF len
    <3>2. QED
      BY <1>3, <2>0, <2>2, <2>b, <3>1 DEF buf
  <2>3. QED
    BY <2>c, <2>1, <2>2
<1>10. Unread(f) = Unread(r) \o bytes
  <2>1. Unread(r) \o bytes \in Seq(Byte) /\ Len(Unread(r) \o bytes) = Count(r) + len
    BY <1>8 DEF len
  <2>2. QED
    BY <1>8, <1>9, <2>1
<1>11. QED
  BY <1>6, <1>10 DEF f

\* hdlc_decode_one takes bytes from the front: what it has not looked at stays,
\* in order.
THEOREM RingTakes ==
    ASSUME NEW r \in Ring, NEW k \in 0..Len(Unread(r))
    PROVE  /\ Advanced(r, k) \in Ring
           /\ Unread(Advanced(r, k)) = SubSeq(Unread(r), k + 1, Len(Unread(r)))
<1> DEFINE a == Advanced(r, k)
<1>1. /\ N \in Nat /\ N >= 2
      /\ r.head \in 0..(N - 1) /\ r.tail \in 0..(N - 1)
      /\ r.buf \in [0..(N - 1) -> Byte]
      /\ Count(r) \in 0..(N - 1)
      /\ Unread(r) \in Seq(Byte) /\ Len(Unread(r)) = Count(r)
  BY RingNumbers, UnreadType
<1>2. k \in Nat /\ k <= Count(r)
  BY <1>1
<1>3. /\ a.head = r.head /\ a.buf = r.buf
      /\ a.tail = Wrap(r.tail + k)
      /\ a = [buf |-> a.buf, head |-> a.head, tail |-> a.tail]
  BY DEF Advanced, Ring
<1>4. a.tail \in 0..(N - 1)
  BY <1>1, <1>2, <1>3 DEF Wrap, N
<1>5. a \in Ring
  BY <1>1, <1>3, <1>4 DEF Ring, Index, N
<1> HIDE DEF a
<1>6. Count(a) = Count(r) - k
  BY <1>1, <1>2, <1>3, WrapTail DEF Count
<1>7. Unread(a) \in Seq(Byte) /\ Len(Unread(a)) = Count(r) - k
  BY <1>5, <1>6, UnreadType
<1> DEFINE rest == SubSeq(Unread(r), k + 1, Len(Unread(r)))
<1>8. /\ rest \in Seq(Byte) /\ Len(rest) = Count(r) - k
      /\ \A i \in 1..(Count(r) - k) : rest[i] = Unread(r)[k + i]
  <2>1. k + 1 \in Nat /\ k + 1 <= Len(Unread(r)) + 1
    BY <1>1, <1>2
  <2>2. Len(rest) = Count(r) - k
    BY <1>1, <1>2
  <2>3. \A i \in 1..(Count(r) - k) : rest[i] = Unread(r)[k + i]
    BY <1>1, <1>2
  <2>4. rest \in Seq(Byte)
    BY <1>1, <1>2, <2>1
  <2>5. QED
    BY <2>2, <2>3, <2>4
<1>9. \A i \in 1..(Count(r) - k) : Unread(a)[i] = Unread(r)[k + i]
  <2> SUFFICES ASSUME NEW i \in 1..(Count(r) - k)
               PROVE  Unread(a)[i] = Unread(r)[k + i]
    OBVIOUS
  <2>1. Unread(a)[i] = r.buf[Wrap(Wrap(r.tail + k) + i - 1)]
    BY <1>3, <1>5, <1>6, UnreadType
  <2>2. Unread(r)[k + i] = r.buf[Wrap(r.tail + (k + i) - 1)]
    <3>1. k + i \in 1..Count(r)
      BY <1>1, <1>2
    <3>2. QED
      BY <3>1, UnreadType
  <2>3. Wrap(Wrap(r.tail + k) + i - 1) = Wrap(r.tail + (k + i) - 1)
    BY <1>1, <1>2 DEF Wrap, N
  <2>4. QED
    BY <2>1, <2>2, <2>3
<1> HIDE DEF rest
<1>10. Unread(a) = rest
  BY <1>7, <1>8, <1>9
<1>11. QED
  BY <1>5, <1>10 DEF a, rest

-----------------------------------------------------------------------------
(* Folds over a sequence.                                                  *)

LEMMA LeastExists ==
    ASSUME NEW T \in SUBSET Nat, T # {}
    PROVE  \E x \in T : \A y \in T : x <= y
<1> DEFINE R == {ss \in Nat \X Nat : ss[1] < ss[2]}
<1>1. IsWellFoundedOn(R, Nat)
  BY NatLessThanWellFounded, Zenon DEF OpToRel
<1> HIDE DEF R
<1>2. PICK x \in T : \A y \in T : ~(<<y, x>> \in R)
  BY <1>1, WFMin, Zenon
<1>3. \A y \in T : ~(y < x)
  BY <1>2 DEF R
<1> QED BY <1>3

\* Induction over the length of a sequence, for a set of sequences.
LEMMA SeqGrows ==
    ASSUME NEW A, NEW P \in SUBSET Seq(A), <<>> \in P,
           \A s \in P : \A a \in A : Append(s, a) \in P
    PROVE  \A s \in Seq(A) : s \in P
<1> DEFINE Bad == {n \in Nat : \E s \in Seq(A) : Len(s) = n /\ s \notin P}
<1> SUFFICES ASSUME NEW t \in Seq(A), t \notin P PROVE FALSE
  OBVIOUS
<1>1. Bad \in SUBSET Nat /\ Bad # {}
  <2>1. Len(t) \in Bad
    BY LenProperties
  <2> QED BY <2>1
<1> HIDE DEF Bad
<1>2. PICK n \in Bad : \A m \in Bad : n <= m
  BY <1>1, LeastExists
<1>3. PICK s \in Seq(A) : Len(s) = n /\ s \notin P
  BY <1>2 DEF Bad
<1>4. s # <<>>
  BY <1>3
<1> DEFINE f == SubSeq(s, 1, Len(s) - 1)
<1>5. /\ f \in Seq(A) /\ Len(f) = n - 1 /\ n \in Nat /\ n > 0
      /\ s[n] \in A /\ s = Append(f, s[n])
  <2>1. n \in Nat /\ n > 0
    BY <1>3, <1>4, EmptySeq, LenProperties
  <2>2. f \in Seq(A) /\ Len(f) = n - 1 /\ \A i \in 1..(n-1) : f[i] = s[i]
    BY <1>3, <2>1, SubSeqProperties
  <2>3. s[n] \in A
    BY <1>3, <2>1
  <2> HIDE DEF f
  <2> DEFINE x == s[n]
  <2>x. x \in A
    BY <2>3
  <2> DEFINE u == Append(f, x)
  <2> HIDE DEF x
  <2>a. /\ u \in Seq(A) /\ Len(u) = Len(f) + 1 /\ u[Len(f) + 1] = x
        /\ \A i \in 1..Len(f) : u[i] = f[i]
    BY <2>2, <2>x, AppendProperties
  <2> HIDE DEF u
  <2>b. ASSUME NEW i \in 1..n PROVE u[i] = s[i]
    <3>1. CASE i = n
      BY <2>1, <2>2, <2>a, <3>1 DEF x
    <3>2. CASE i # n
      <4>1. i \in 1..(n - 1)
        BY <2>1, <3>2
      <4> QED BY <2>2, <2>a, <4>1
    <3> QED BY <3>1, <3>2
  <2>4. u \in Seq(A) /\ Len(u) = n /\ \A i \in 1..n : u[i] = s[i]
    BY <2>1, <2>2, <2>a, <2>b
  <2>5. s = Append(f, s[n])
    BY <1>3, <2>4, SeqEqual DEF u, x
  <2> QED BY <2>1, <2>2, <2>3, <2>5
<1> HIDE DEF f
<1>6. f \in P
  <2>1. n - 1 \notin Bad
    BY <1>2, <1>5
  <2> QED BY <1>5, <2>1 DEF Bad
<1> QED BY <1>3, <1>5, <1>6

\* A step function takes a value and an element to a value.
IsStep(g, S, A) == g \in [S -> [A -> S]]

\* A function that a recursive definition describes, step by step.
Unfolds(f, g, b, s) ==
    /\ f[0] = b
    /\ \A i \in 1..Len(s) : f[i] = g[f[i - 1]][s[i]]

LEMMA FoldExists ==
    ASSUME NEW S, NEW A, NEW g, IsStep(g, S, A), NEW b \in S
    PROVE  \A s \in Seq(A) : \E f \in [0..Len(s) -> S] : Unfolds(f, g, b, s)
<1> DEFINE P == {s \in Seq(A) : \E f \in [0..Len(s) -> S] : Unfolds(f, g, b, s)}
<1>1. <<>> \in P
  <2> DEFINE f == [i \in 0..0 |-> b]
  <2>1. f \in [0..Len(<<>>) -> S]
    OBVIOUS
  <2>2. Unfolds(f, g, b, <<>>)
    BY DEF Unfolds
  <2> QED BY <2>1, <2>2
<1>2. ASSUME NEW s \in P, NEW a \in A PROVE Append(s, a) \in P
  <2> DEFINE t == Append(s, a)
             n == Len(s)
  <2>1. /\ n \in Nat /\ t \in Seq(A) /\ Len(t) = n + 1 /\ t[n + 1] = a
        /\ \A i \in 1..n : t[i] = s[i] /\ s[i] \in A
    BY AppendProperties, LenProperties
  <2>2. PICK f \in [0..n -> S] : Unfolds(f, g, b, s)
    OBVIOUS
  <2> DEFINE h == [i \in 0..(n + 1) |-> IF i = n + 1 THEN g[f[n]][a] ELSE f[i]]
  <2>3. g[f[n]][a] \in S
    <3>1. f[n] \in S
      BY <2>1
    <3> QED BY <3>1 DEF IsStep
  <2>4. h \in [0..Len(t) -> S]
    <3>1. \A i \in 0..(n + 1) : i # n + 1 => i \in 0..n
      BY <2>1
    <3>2. \A i \in 0..(n + 1) : h[i] \in S
      BY <2>3, <3>1
    <3> QED BY <2>1, <3>2
  <2> HIDE DEF t, n
  <2>a. \A i \in 1..n : f[i] = g[f[i - 1]][s[i]]
    BY <2>2 DEF Unfolds, n
  <2>5. h[0] = b
    BY <2>1, <2>2 DEF Unfolds
  <2>6. ASSUME NEW i \in 1..(n + 1) PROVE h[i] = g[h[i - 1]][t[i]]
    <3>1. CASE i = n + 1
      <4>1. h[i] = g[f[n]][a] /\ h[i - 1] = f[n] /\ t[i] = a
        BY <2>1, <3>1
      <4> QED BY <4>1
    <3>2. CASE i # n + 1
      <4>1. i \in 1..n /\ i - 1 \in 0..(n + 1) /\ i - 1 # n + 1
        BY <2>1, <3>2
      <4>2. h[i] = f[i] /\ h[i - 1] = f[i - 1]
        BY <3>2, <4>1
      <4>3. t[i] = s[i]
        BY <2>1, <4>1
      <4> QED BY <2>a, <4>1, <4>2, <4>3
    <3> QED BY <3>1, <3>2
  <2>7. Unfolds(h, g, b, t)
    BY <2>1, <2>5, <2>6 DEF Unfolds
  <2> QED BY <2>1, <2>4, <2>7 DEF t
<1> HIDE DEF P
<1>3. \A s \in Seq(A) : s \in P
  <2>1. P \in SUBSET Seq(A)
    BY DEF P
  <2> QED BY <1>1, <1>2, <2>1, SeqGrows
<1> QED BY <1>3 DEF P

\* It is determined by that, and its values have the type of the first.
LEMMA FoldUnique ==
    ASSUME NEW S, NEW A, NEW g, IsStep(g, S, A), NEW b \in S, NEW s \in Seq(A),
           NEW f, Unfolds(f, g, b, s), NEW h, Unfolds(h, g, b, s)
    PROVE  \A i \in 0..Len(s) : f[i] = h[i] /\ f[i] \in S
<1> DEFINE Bad == {i \in 0..Len(s) : ~(f[i] = h[i] /\ f[i] \in S)}
<1>0. Len(s) \in Nat /\ \A i \in 1..Len(s) : s[i] \in A
  BY LenProperties
<1> SUFFICES ASSUME Bad # {} PROVE FALSE
  OBVIOUS
<1>1. Bad \in SUBSET Nat
  BY <1>0
<1> HIDE DEF Bad
<1>2. PICK i \in Bad : \A j \in Bad : i <= j
  BY <1>1, LeastExists
<1>3. i \in 0..Len(s) /\ ~(f[i] = h[i] /\ f[i] \in S)
  BY <1>2 DEF Bad
<1>4. i # 0
  BY <1>3 DEF Unfolds
<1>5. i - 1 \in 0..Len(s) /\ i - 1 \notin Bad /\ i \in 1..Len(s)
  BY <1>0, <1>2, <1>3, <1>4
<1>6. f[i - 1] = h[i - 1] /\ f[i - 1] \in S
  BY <1>5 DEF Bad
<1>7. f[i] = g[f[i - 1]][s[i]] /\ h[i] = g[h[i - 1]][s[i]]
  BY <1>5 DEF Unfolds
<1>8. f[i] \in S
  BY <1>0, <1>5, <1>6, <1>7 DEF IsStep
<1> QED BY <1>3, <1>6, <1>7, <1>8

Fold(g, b, s) ==
    (CHOOSE f : f = [i \in 0..Len(s) |-> IF i = 0 THEN b ELSE g[f[i - 1]][s[i]]])[Len(s)]

LEMMA FoldIs ==
    ASSUME NEW S, NEW A, NEW g, IsStep(g, S, A), NEW b \in S, NEW s \in Seq(A),
           NEW f, Unfolds(f, g, b, s)
    PROVE  Fold(g, b, s) = f[Len(s)] /\ Fold(g, b, s) \in S
<1> DEFINE Is(h) == h = [i \in 0..Len(s) |-> IF i = 0 THEN b ELSE g[h[i - 1]][s[i]]]
           c == CHOOSE h : Is(h)
<1>0. Len(s) \in Nat
  BY LenProperties
<1>1. PICK h \in [0..Len(s) -> S] : Unfolds(h, g, b, s)
  BY FoldExists
<1>2. Is(h)
  <2> DEFINE r == [i \in 0..Len(s) |-> IF i = 0 THEN b ELSE g[h[i - 1]][s[i]]]
  <2>1. \A i \in 0..Len(s) : h[i] = r[i]
    BY <1>0, <1>1 DEF Unfolds
  <2> HIDE DEF r
  <2>2. DOMAIN r = 0..Len(s) /\ r = [i \in 0..Len(s) |-> r[i]]
    BY DEF r
  <2>3. h = r
    BY <1>1, <2>1, <2>2
  <2> QED BY <2>3 DEF r
<1>3. Is(c)
  BY <1>2
<1> HIDE DEF c
<1>4. Unfolds(c, g, b, s)
  <2>1. \A i \in 0..Len(s) : c[i] = IF i = 0 THEN b ELSE g[c[i - 1]][s[i]]
    BY <1>3, Zenon
  <2>2. \A i \in 1..Len(s) : i \in 0..Len(s) /\ i # 0
    BY <1>0
  <2>3. 0 \in 0..Len(s)
    BY <1>0
  <2> QED BY <2>1, <2>2, <2>3, Zenon DEF Unfolds
<1>5. c[Len(s)] = f[Len(s)] /\ f[Len(s)] \in S
  BY <1>0, <1>4, FoldUnique
<1> QED BY <1>5 DEF Fold, c

LEMMA FoldEmpty ==
    ASSUME NEW S, NEW A, NEW g, IsStep(g, S, A), NEW b \in S
    PROVE  Fold(g, b, <<>>) = b
<1> DEFINE f == [i \in 0..0 |-> b]
           e == <<>>
<1>1. Unfolds(f, g, b, e)
  BY DEF Unfolds
<1>2. e \in Seq(A) /\ f[Len(e)] = b
  OBVIOUS
<1> HIDE DEF f, e
<1>3. Fold(g, b, e) = f[Len(e)]
  BY <1>1, <1>2, FoldIs
<1> QED BY <1>2, <1>3 DEF e

LEMMA FoldType ==
    ASSUME NEW S, NEW A, NEW g, IsStep(g, S, A), NEW b \in S, NEW s \in Seq(A)
    PROVE  Fold(g, b, s) \in S
<1>1. PICK h \in [0..Len(s) -> S] : Unfolds(h, g, b, s)
  BY FoldExists
<1> QED BY <1>1, FoldIs

LEMMA FoldConcat ==
    ASSUME NEW S, NEW A, NEW g, IsStep(g, S, A), NEW b \in S, NEW s \in Seq(A),
           NEW t \in Seq(A)
    PROVE  Fold(g, b, s \o t) = Fold(g, Fold(g, b, s), t)
<1> DEFINE m == Len(s)
           n == Len(t)
           c == Fold(g, b, s)
<1>0. /\ m \in Nat /\ n \in Nat /\ s \o t \in Seq(A) /\ Len(s \o t) = m + n
      /\ \A i \in 1..(m + n) : (s \o t)[i] = IF i <= m THEN s[i] ELSE t[i - m]
  BY LenProperties, ConcatProperties
<1>1. PICK f \in [0..m -> S] : Unfolds(f, g, b, s)
  BY FoldExists
<1>2. c = f[m] /\ c \in S
  BY <1>1, FoldIs
<1> HIDE DEF c
<1>3. PICK h \in [0..n -> S] : Unfolds(h, g, c, t)
  BY <1>2, FoldExists
<1>4. Fold(g, c, t) = h[n]
  BY <1>2, <1>3, FoldIs
<1> DEFINE k == [i \in 0..(m + n) |-> IF i <= m THEN f[i] ELSE h[i - m]]
           u == s \o t
<1>a. /\ f[0] = b
      /\ \A i \in 1..m : f[i] = g[f[i - 1]][s[i]]
      /\ h[0] = c
      /\ \A i \in 1..n : h[i] = g[h[i - 1]][t[i]]
  BY <1>1, <1>3, Zenon DEF Unfolds
<1>b. /\ m \in Nat /\ n \in Nat /\ u \in Seq(A) /\ Len(u) = m + n
      /\ \A i \in 1..(m + n) : u[i] = IF i <= m THEN s[i] ELSE t[i - m]
  BY <1>0
<1> HIDE DEF m, n, u
<1>c. \A i \in 0..(m + n) : k[i] = IF i <= m THEN f[i] ELSE h[i - m]
  OBVIOUS
<1> HIDE DEF k
<1>5. k[0] = b
  BY <1>b, <1>c, <1>a
<1>6. ASSUME NEW i \in 1..(m + n) PROVE k[i] = g[k[i - 1]][u[i]]
  <2>0. i \in 0..(m + n) /\ i - 1 \in 0..(m + n)
    BY <1>b
  <2>1. CASE i <= m
    <3>1. i \in 1..m /\ i - 1 <= m
      BY <1>b, <2>1
    <3>2. k[i] = f[i] /\ k[i - 1] = f[i - 1] /\ u[i] = s[i]
      BY <1>b, <1>c, <2>0, <2>1, <3>1
    <3> QED BY <1>a, <3>1, <3>2
  <2>2. CASE i = m + 1
    <3>1. i - m = 1 /\ i - 1 = m /\ 1 \in 1..n /\ ~(i <= m) /\ m <= m /\ 1 - 1 = 0
      BY <1>b, <2>2
    <3>2. k[i] = h[1] /\ k[i - 1] = f[m] /\ u[i] = t[1]
      BY <1>b, <1>c, <2>0, <3>1
    <3>3. h[1] = g[h[0]][t[1]]
      BY <1>a, <3>1
    <3> QED BY <1>2, <1>a, <3>2, <3>3
  <2>3. CASE i > m + 1
    <3>1. i - m \in 1..n /\ (i - 1) - m = (i - m) - 1 /\ ~(i <= m) /\ ~(i - 1 <= m)
      BY <1>b, <2>3
    <3>2. k[i] = h[i - m] /\ k[i - 1] = h[(i - m) - 1] /\ u[i] = t[i - m]
      BY <1>b, <1>c, <2>0, <3>1
    <3>3. h[i - m] = g[h[(i - m) - 1]][t[i - m]]
      BY <1>a, <3>1
    <3> QED BY <3>2, <3>3
  <2>4. i <= m \/ i = m + 1 \/ i > m + 1
    BY <1>b
  <2> QED BY <2>1, <2>2, <2>3, <2>4
<1>7. Unfolds(k, g, b, u)
  BY <1>b, <1>5, <1>6 DEF Unfolds
<1>d. u \in Seq(A)
  BY <1>b
<1>8. Fold(g, b, u) = k[Len(u)]
  BY <1>d, <1>7, FoldIs
<1>9. k[m + n] = h[n]
  <2>1. CASE n = 0
    BY <1>2, <1>a, <1>b, <1>c, <2>1
  <2>2. CASE n # 0
    <3>1. m + n \in 0..(m + n) /\ ~(m + n <= m) /\ (m + n) - m = n
      BY <1>b, <2>2
    <3> QED BY <1>c, <3>1
  <2> QED BY <2>1, <2>2
<1> QED BY <1>4, <1>8, <1>9, <1>b DEF c, u

LEMMA FoldOne ==
    ASSUME NEW S, NEW A, NEW g, IsStep(g, S, A), NEW b \in S, NEW a \in A
    PROVE  Fold(g, b, <<a>>) = g[b][a]
<1> DEFINE f == [i \in 0..1 |-> IF i = 0 THEN b ELSE g[b][a]]
<1>1. f[0] = b /\ f[1] = g[b][a]
  OBVIOUS
<1> HIDE DEF f
<1> DEFINE e == <<a>>
<1>2. e \in Seq(A) /\ Len(e) = 1 /\ e[1] = a
  OBVIOUS
<1> HIDE DEF e
<1>3. Unfolds(f, g, b, e)
  BY <1>1, <1>2 DEF Unfolds
<1>a. e \in Seq(A)
  BY <1>2
<1>4. Fold(g, b, e) = f[Len(e)]
  BY <1>a, <1>3, FoldIs
<1> QED BY <1>1, <1>2, <1>4 DEF e

LEMMA FoldAppend ==
    ASSUME NEW S, NEW A, NEW g, IsStep(g, S, A), NEW b \in S, NEW s \in Seq(A), NEW a \in A
    PROVE  Fold(g, b, Append(s, a)) = g[Fold(g, b, s)][a]
<1> DEFINE e == <<a>>
           c == Fold(g, b, s)
<1>1. e \in Seq(A) /\ Append(s, a) = s \o e
  BY AppendIsConcat
<1>2. c \in S
  BY FoldType
<1>3. ASSUME NEW x \in S PROVE Fold(g, x, <<a>>) = g[x][a]
  BY FoldOne
<1> HIDE DEF e
<1>4. Fold(g, b, s \o e) = Fold(g, c, e)
  BY <1>1, FoldConcat
<1> HIDE DEF c
<1>5. Fold(g, c, e) = g[c][a]
  BY <1>2, <1>3 DEF e
<1> QED BY <1>1, <1>4, <1>5 DEF c

\* A function that is described so as long as its values have that type.
LEMMA FoldAgrees ==
    ASSUME NEW S, NEW A, NEW g, IsStep(g, S, A), NEW b \in S, NEW s \in Seq(A),
           NEW c, c[0] = b, \A i \in 1..Len(s) : c[i - 1] \in S => c[i] = g[c[i - 1]][s[i]]
    PROVE  Fold(g, b, s) = c[Len(s)]
<1> DEFINE Bad == {i \in 0..Len(s) : c[i] \notin S}
<1>0. Len(s) \in Nat /\ \A i \in 1..Len(s) : s[i] \in A
  BY LenProperties
<1>1. Bad = {}
  <2> SUFFICES ASSUME Bad # {} PROVE FALSE
    OBVIOUS
  <2>1. Bad \in SUBSET Nat
    BY <1>0
  <2> HIDE DEF Bad
  <2>2. PICK i \in Bad : \A j \in Bad : i <= j
    BY <2>1, LeastExists
  <2>3. i \in 0..Len(s) /\ c[i] \notin S
    BY <2>2 DEF Bad
  <2>4. i # 0
    BY <2>3
  <2>5. i \in 1..Len(s) /\ i - 1 \in 0..Len(s) /\ i - 1 \notin Bad
    BY <1>0, <2>2, <2>3, <2>4
  <2>6. c[i - 1] \in S
    BY <2>5 DEF Bad
  <2>7. c[i] = g[c[i - 1]][s[i]] /\ s[i] \in A
    BY <1>0, <2>5, <2>6
  <2>8. c[i] \in S
    BY <2>6, <2>7 DEF IsStep
  <2> QED BY <2>3, <2>8
<1>2. \A i \in 1..Len(s) : i - 1 \in 0..Len(s)
  BY <1>0
<1>3. \A i \in 1..Len(s) : c[i - 1] \in S
  BY <1>1, <1>2
<1>4. Unfolds(c, g, b, s)
  BY <1>3 DEF Unfolds
<1> HIDE DEF Bad
<1> QED BY <1>4, FoldIs

-----------------------------------------------------------------------------
(* The decoder.                                                            *)

LEMMA ToggledByte ==
    ASSUME NEW b \in Byte
    PROVE  /\ Toggled(b) \in Byte
           /\ b \in {ESCAPE, NHDLC_CONTROL_CHAR} =>
                 /\ Toggled(b) \notin {ESCAPE, NHDLC_CONTROL_CHAR}
                 /\ Toggled(Toggled(b)) = b
<1>1. Toggled(b) \in Byte
  BY DEF Toggled, Byte
<1>2. Toggled(125) = 93 /\ Toggled(126) = 94 /\ Toggled(93) = 125 /\ Toggled(94) = 126
  BY DEF Toggled
<1>3. ASSUME b = 125 PROVE Toggled(b) \notin {125, 126} /\ Toggled(Toggled(b)) = b
  BY <1>2, <1>3
<1>4. ASSUME b = 126 PROVE Toggled(b) \notin {125, 126} /\ Toggled(Toggled(b)) = b
  BY <1>2, <1>4
<1> QED BY <1>1, <1>3, <1>4 DEF ESCAPE, NHDLC_CONTROL_CHAR

LEMMA TakeType ==
    ASSUME NEW d \in Decoder, NEW b \in Byte
    PROVE  Take(d, b) \in Decoder
<1>1. d.raw \in Seq(Byte)
  BY DEF Decoder
<1>3. Append(d.raw, IF d.escape THEN Toggled(b) ELSE b) \in Seq(Byte)
  <2> DEFINE x == IF d.escape THEN Toggled(b) ELSE b
  <2>1. x \in Byte
    BY ToggledByte
  <2> HIDE DEF x
  <2>2. Append(d.raw, x) \in Seq(Byte)
    BY <1>1, <2>1, AppendProperties
  <2> QED BY <2>2 DEF x
<1>4. [raw |-> d.raw, escape |-> TRUE] \in Decoder
  BY <1>1 DEF Decoder
<1>5. [raw |-> Append(d.raw, IF d.escape THEN Toggled(b) ELSE b), escape |-> FALSE] \in Decoder
  BY <1>3 DEF Decoder
<1> QED BY <1>4, <1>5 DEF Take

LEMMA TakeIsStep ==
    /\ IsStep(TakeStep, Decoder, Byte)
    /\ \A d \in Decoder, b \in Byte : TakeStep[d][b] = Take(d, b)
<1>1. \A d \in Decoder, b \in Byte : Take(d, b) \in Decoder
  BY TakeType
<1> QED BY <1>1, Zenon DEF TakeStep, IsStep

LEMMA FedIsFold ==
    ASSUME NEW d \in Decoder, NEW s \in Seq(Byte)
    PROVE  Fed(d, s) = Fold(TakeStep, d, s)
<1> DEFINE Is(h) == h = [i \in 0..Len(s) |-> IF i = 0 THEN d ELSE TakeStep[h[i - 1]][s[i]]]
           c == CHOOSE h : Is(h)
<1>0. Len(s) \in Nat
  BY LenProperties
<1>1. PICK f \in [0..Len(s) -> Decoder] : Unfolds(f, TakeStep, d, s)
  BY TakeIsStep, FoldExists
<1>2. f[0] = d /\ \A i \in 1..Len(s) : f[i] = TakeStep[f[i - 1]][s[i]]
  BY <1>1 DEF Unfolds
<1>4. Is(f)
  <2> DEFINE r == [i \in 0..Len(s) |-> IF i = 0 THEN d ELSE TakeStep[f[i - 1]][s[i]]]
  <2>1. \A i \in 0..Len(s) : i # 0 => i \in 1..Len(s)
    BY <1>0
  <2>2. \A i \in 0..Len(s) : f[i] = r[i]
    BY <1>2, <2>1, Zenon
  <2>3. r = [i \in 0..Len(s) |-> r[i]]
    OBVIOUS
  <2> HIDE DEF r
  <2>4. f = r
    BY <1>1, <2>2, <2>3
  <2> QED BY <2>4 DEF r
<1>5. Is(c)
  BY <1>4
<1>6. c[0] = d /\ \A i \in 1..Len(s) : c[i] = TakeStep[c[i - 1]][s[i]]
  <2>1. 0 \in 0..Len(s) /\ \A i \in 1..Len(s) : i \in 0..Len(s) /\ i # 0
    BY <1>0
  <2> HIDE DEF c
  <2> QED BY <1>5, <2>1, Zenon
<1>7. Fed(d, s) = c[Len(s)]
  BY DEF Fed
<1> HIDE DEF c, Is
<1>9. Fold(TakeStep, d, s) = c[Len(s)]
  BY <1>6, TakeIsStep, FoldAgrees
<1> QED BY <1>7, <1>9

LEMMA FedStarts ==
    ASSUME NEW d \in Decoder
    PROVE  Fed(d, <<>>) = d
<1>1. <<>> \in Seq(Byte)
  OBVIOUS
<1>2. Fold(TakeStep, d, <<>>) = d
  BY TakeIsStep, FoldEmpty
<1> QED BY <1>1, <1>2, FedIsFold

LEMMA FedGrows ==
    ASSUME NEW d \in Decoder, NEW s \in Seq(Byte), NEW b \in Byte
    PROVE  /\ Fed(d, s) \in Decoder
           /\ Fed(d, Append(s, b)) = Take(Fed(d, s), b)
<1>1. Append(s, b) \in Seq(Byte)
  BY AppendProperties
<1>2. Fed(d, Append(s, b)) = Fold(TakeStep, d, Append(s, b))
  BY <1>1, FedIsFold
<1>3. Fold(TakeStep, d, Append(s, b)) = TakeStep[Fold(TakeStep, d, s)][b]
  BY TakeIsStep, FoldAppend
<1>4. Fold(TakeStep, d, s) \in Decoder
  BY TakeIsStep, FoldType
<1>5. Fed(d, s) = Fold(TakeStep, d, s)
  BY FedIsFold
<1>6. TakeStep[Fold(TakeStep, d, s)][b] = Take(Fold(TakeStep, d, s), b)
  BY <1>4, TakeIsStep
<1> QED BY <1>2, <1>3, <1>4, <1>5, <1>6

LEMMA FedType ==
    ASSUME NEW d \in Decoder, NEW s \in Seq(Byte)
    PROVE  Fed(d, s) \in Decoder
<1>1. 0 \in Byte
  BY DEF Byte
<1> QED BY <1>1, FedGrows

-----------------------------------------------------------------------------
(* The meaning of a stream.                                                *)

RunState == [dec : Decoder, raws : Seq(Seq(Byte))]

EatStep == [r \in RunState |-> [b \in Byte |-> Eaten(r, b)]]

LEMMA FreshType == FreshDecoder \in Decoder
BY DEF FreshDecoder, Decoder

LEMMA EatenType ==
    ASSUME NEW r \in RunState, NEW b \in Byte
    PROVE  Eaten(r, b) \in RunState
<1>1. r.dec \in Decoder /\ r.raws \in Seq(Seq(Byte)) /\ r.dec.raw \in Seq(Byte)
  BY DEF RunState, Decoder
<1>2. [dec |-> Take(r.dec, b), raws |-> r.raws] \in RunState
  BY <1>1, TakeType DEF RunState
<1>3. Append(r.raws, r.dec.raw) \in Seq(Seq(Byte))
  <2> DEFINE x == r.dec.raw
             y == r.raws
  <2>1. x \in Seq(Byte) /\ y \in Seq(Seq(Byte))
    BY <1>1
  <2> HIDE DEF x, y
  <2>2. Append(y, x) \in Seq(Seq(Byte))
    BY <2>1, AppendProperties
  <2> QED BY <2>2 DEF x, y
<1>4. [dec |-> FreshDecoder, raws |-> Append(r.raws, r.dec.raw)] \in RunState
  BY <1>3, FreshType DEF RunState
<1> QED BY <1>2, <1>4 DEF Eaten

LEMMA EatIsStep ==
    /\ IsStep(EatStep, RunState, Byte)
    /\ \A r \in RunState, b \in Byte : EatStep[r][b] = Eaten(r, b)
<1>1. \A r \in RunState, b \in Byte : Eaten(r, b) \in RunState
  BY EatenType
<1> QED BY <1>1, Zenon DEF EatStep, IsStep

Start(d) == [dec |-> d, raws |-> <<>>]

LEMMA StartType ==
    ASSUME NEW d \in Decoder
    PROVE  Start(d) \in RunState
BY DEF Start, RunState

LEMMA RunIsFold ==
    ASSUME NEW d \in Decoder, NEW s \in Seq(Byte)
    PROVE  Run(d, s) = Fold(EatStep, Start(d), s)
<1> DEFINE Is(h) == h = [i \in 0..Len(s) |->
                             IF i = 0 THEN Start(d) ELSE Eaten(h[i - 1], s[i])]
           c == CHOOSE h : Is(h)
<1>0. Len(s) \in Nat /\ (\A i \in 1..Len(s) : s[i] \in Byte) /\ Start(d) \in RunState
  BY LenProperties, StartType
<1>1. PICK f \in [0..Len(s) -> RunState] : Unfolds(f, EatStep, Start(d), s)
  BY <1>0, EatIsStep, FoldExists
<1>2. \A i \in 1..Len(s) : f[i - 1] \in RunState /\ f[i] = Eaten(f[i - 1], s[i])
  <2>1. \A i \in 1..Len(s) : i - 1 \in 0..Len(s)
    BY <1>0
  <2>2. \A i \in 1..Len(s) : f[i] = EatStep[f[i - 1]][s[i]]
    BY <1>1 DEF Unfolds
  <2> QED BY <1>0, <1>1, <2>1, <2>2, EatIsStep
<1>3. f[0] = Start(d)
  BY <1>1 DEF Unfolds
<1>4. Is(f)
  <2> DEFINE r == [i \in 0..Len(s) |-> IF i = 0 THEN Start(d) ELSE Eaten(f[i - 1], s[i])]
  <2>1. \A i \in 0..Len(s) : i # 0 => i \in 1..Len(s)
    BY <1>0
  <2>2. \A i \in 0..Len(s) : f[i] = r[i]
    BY <1>2, <1>3, <2>1, Zenon
  <2>3. r = [i \in 0..Len(s) |-> r[i]]
    OBVIOUS
  <2> HIDE DEF r
  <2>4. f = r
    BY <1>1, <2>2, <2>3
  <2> QED BY <2>4 DEF r
<1>5. Is(c)
  BY <1>4
<1>6. c[0] = Start(d) /\ \A i \in 1..Len(s) : c[i] = Eaten(c[i - 1], s[i])
  <2>1. 0 \in 0..Len(s) /\ \A i \in 1..Len(s) : i \in 0..Len(s) /\ i # 0
    BY <1>0
  <2> HIDE DEF c
  <2> QED BY <1>5, <2>1, Zenon
<1>7. Run(d, s) = c[Len(s)]
  BY DEF Run, Start
<1> HIDE DEF c, Is
<1>8. \A i \in 1..Len(s) : c[i - 1] \in RunState => c[i] = EatStep[c[i - 1]][s[i]]
  BY <1>0, <1>6, EatIsStep
<1>9. Fold(EatStep, Start(d), s) = c[Len(s)]
  BY <1>0, <1>6, <1>8, EatIsStep, FoldAgrees
<1> QED BY <1>7, <1>9

LEMMA RunStarts ==
    ASSUME NEW d \in Decoder
    PROVE  Run(d, <<>>) = Start(d)
<1>1. <<>> \in Seq(Byte)
  OBVIOUS
<1>2. Fold(EatStep, Start(d), <<>>) = Start(d)
  BY EatIsStep, StartType, FoldEmpty
<1> QED BY <1>1, <1>2, RunIsFold

LEMMA RunGrows ==
    ASSUME NEW d \in Decoder, NEW s \in Seq(Byte), NEW b \in Byte
    PROVE  /\ Run(d, s) \in RunState
           /\ Run(d, Append(s, b)) = Eaten(Run(d, s), b)
<1> DEFINE x == Start(d)
<1>0. x \in RunState
  BY StartType
<1>1. Append(s, b) \in Seq(Byte)
  BY AppendProperties
<1>2. Run(d, Append(s, b)) = Fold(EatStep, x, Append(s, b))
  BY <1>1, RunIsFold
<1>5. Run(d, s) = Fold(EatStep, x, s)
  BY RunIsFold
<1> HIDE DEF x
<1>3. Fold(EatStep, x, Append(s, b)) = EatStep[Fold(EatStep, x, s)][b]
  BY <1>0, EatIsStep, FoldAppend
<1>4. Fold(EatStep, x, s) \in RunState
  BY <1>0, EatIsStep, FoldType
<1>6. EatStep[Fold(EatStep, x, s)][b] = Eaten(Fold(EatStep, x, s), b)
  BY <1>4, EatIsStep
<1> QED BY <1>2, <1>3, <1>4, <1>5, <1>6

LEMMA RunType ==
    ASSUME NEW d \in Decoder, NEW s \in Seq(Byte)
    PROVE  /\ Run(d, s) \in RunState
           /\ Run(d, s).dec \in Decoder
           /\ Run(d, s).raws \in Seq(Seq(Byte))
<1>1. 0 \in Byte
  BY DEF Byte
<1>2. Run(d, s) \in RunState
  BY <1>1, RunGrows
<1> QED BY <1>2 DEF RunState

LEMMA AppendConcat ==
    ASSUME NEW X, NEW x \in Seq(X), NEW z \in Seq(X), NEW y \in X
    PROVE  x \o Append(z, y) = Append(x \o z, y)
BY AppendProperties, ConcatProperties

\* Frames that ended before do not matter to a byte.
LEMMA EatenBehind ==
    ASSUME NEW r \in RunState, NEW q \in RunState, NEW x \in Seq(Seq(Byte)), NEW b \in Byte,
           r.dec = q.dec, r.raws = x \o q.raws
    PROVE  /\ Eaten(r, b).dec = Eaten(q, b).dec
           /\ Eaten(r, b).raws = x \o Eaten(q, b).raws
<1>1. q.raws \in Seq(Seq(Byte)) /\ q.dec.raw \in Seq(Byte)
  BY DEF RunState, Decoder
<1>2. CASE b # NHDLC_CONTROL_CHAR
  <2>1. /\ Eaten(r, b) = [dec |-> Take(r.dec, b), raws |-> r.raws]
        /\ Eaten(q, b) = [dec |-> Take(q.dec, b), raws |-> q.raws]
    BY <1>2 DEF Eaten
  <2> QED BY <2>1
<1>3. CASE b = NHDLC_CONTROL_CHAR /\ q.dec.raw = <<>>
  BY <1>3 DEF Eaten
<1>4. CASE b = NHDLC_CONTROL_CHAR /\ q.dec.raw # <<>>
  <2> DEFINE y == q.dec.raw
             z == q.raws
  <2>1. /\ Eaten(r, b).dec = FreshDecoder /\ Eaten(r, b).raws = Append(x \o z, y)
        /\ Eaten(q, b).dec = FreshDecoder /\ Eaten(q, b).raws = Append(z, y)
    BY <1>4 DEF Eaten
  <2>2. y \in Seq(Byte) /\ z \in Seq(Seq(Byte))
    BY <1>1
  <2> HIDE DEF y, z
  <2>3. x \o Append(z, y) = Append(x \o z, y)
    BY <2>2, AppendConcat
  <2> QED BY <2>1, <2>3
<1> QED BY <1>2, <1>3, <1>4

\* The meaning of two stretches is that of the first, followed by what the decoder
\* it leaves makes of the second.
LEMMA RunConcat ==
    ASSUME NEW d \in Decoder, NEW s \in Seq(Byte), NEW t \in Seq(Byte)
    PROVE  /\ Run(d, s \o t).dec = Run(Run(d, s).dec, t).dec
           /\ Run(d, s \o t).raws = Run(d, s).raws \o Run(Run(d, s).dec, t).raws
<1> DEFINE e == Run(d, s).dec
           Same(u) == /\ Run(d, s \o u).dec = Run(e, u).dec
                      /\ Run(d, s \o u).raws = Run(d, s).raws \o Run(e, u).raws
           P == {u \in Seq(Byte) : Same(u)}
<1>0. e \in Decoder /\ Run(d, s).raws \in Seq(Seq(Byte))
  BY RunType
<1>1. <<>> \in P
  <2>1. s \o <<>> = s /\ <<>> \in Seq(Byte)
    BY ConcatEmptySeq
  <2>2. Run(e, <<>>) = Start(e)
    BY <1>0, RunStarts
  <2>3. Run(e, <<>>).dec = e /\ Run(e, <<>>).raws = <<>>
    BY <2>2 DEF Start
  <2>4. Run(d, s).raws \o <<>> = Run(d, s).raws
    BY <1>0, ConcatEmptySeq
  <2> QED BY <2>1, <2>3, <2>4
<1>2. ASSUME NEW u \in P, NEW b \in Byte PROVE Append(u, b) \in P
  <2> DEFINE r == Run(d, s \o u)
             q == Run(e, u)
             x == Run(d, s).raws
  <2>1. u \in Seq(Byte) /\ s \o u \in Seq(Byte) /\ Append(u, b) \in Seq(Byte)
    BY ConcatProperties, AppendProperties
  <2>2. s \o Append(u, b) = Append(s \o u, b)
    BY <2>1
  <2>3. Run(d, s \o Append(u, b)) = Eaten(r, b) /\ r \in RunState
    BY <2>1, <2>2, RunGrows
  <2>4. Run(e, Append(u, b)) = Eaten(q, b) /\ q \in RunState
    BY <1>0, <2>1, RunGrows
  <2>5. r.dec = q.dec /\ r.raws = x \o q.raws
    OBVIOUS
  <2>6. x \in Seq(Seq(Byte)) /\ q.raws \in Seq(Seq(Byte)) /\ q.dec.raw \in Seq(Byte)
    BY <1>0, <2>4 DEF RunState, Decoder
  <2> HIDE DEF r, q, x, e
  <2>7. Eaten(r, b).dec = Eaten(q, b).dec /\ Eaten(r, b).raws = x \o Eaten(q, b).raws
    BY <2>3, <2>4, <2>5, <2>6, EatenBehind
  <2> QED BY <2>1, <2>3, <2>4, <2>7 DEF x
<1>3. P \in SUBSET Seq(Byte)
  OBVIOUS
<1> HIDE DEF P
<1>4. \A u \in Seq(Byte) : u \in P
  BY <1>1, <1>2, <1>3, SeqGrows
<1>5. t \in P
  BY <1>4
<1> QED BY <1>5 DEF P

\* Where no frame ends, the decoder is fed.
LEMMA RunIsFed ==
    ASSUME NEW d \in Decoder, NEW s \in Seq(Byte),
           \A i \in 1..Len(s) : s[i] # NHDLC_CONTROL_CHAR
    PROVE  Run(d, s) = [dec |-> Fed(d, s), raws |-> <<>>]
<1> DEFINE Free(u) == \A i \in 1..Len(u) : u[i] # NHDLC_CONTROL_CHAR
           P == {u \in Seq(Byte) : Free(u) => Run(d, u) = [dec |-> Fed(d, u), raws |-> <<>>]}
<1>1. <<>> \in P
  BY RunStarts, FedStarts DEF Start
<1>2. ASSUME NEW u \in P, NEW b \in Byte PROVE Append(u, b) \in P
  <2>0. u \in Seq(Byte)
    OBVIOUS
  <2> DEFINE v == Append(u, b)
  <2>1. /\ v \in Seq(Byte) /\ Len(v) = Len(u) + 1 /\ v[Len(u) + 1] = b
        /\ \A i \in 1..Len(u) : v[i] = u[i]
    BY <2>0, AppendProperties
  <2>2. Run(d, v) = Eaten(Run(d, u), b) /\ Fed(d, v) = Take(Fed(d, u), b)
    BY <2>0, RunGrows, FedGrows
  <2>3. Len(u) \in Nat
    BY <2>0, LenProperties
  <2> HIDE DEF v
  <2>4. ASSUME Free(v) PROVE Run(d, v) = [dec |-> Fed(d, v), raws |-> <<>>]
    <3>1. b # NHDLC_CONTROL_CHAR
      BY <2>1, <2>3, <2>4
    <3>2. Free(u)
      <4>1. \A i \in 1..Len(u) : i \in 1..Len(v)
        BY <2>1, <2>3
      <4> QED BY <2>1, <2>4, <4>1
    <3>3. Run(d, u) = [dec |-> Fed(d, u), raws |-> <<>>]
      BY <3>2
    <3>4. Run(d, u).dec = Fed(d, u) /\ Run(d, u).raws = <<>>
      BY <3>3
    <3>5. Eaten(Run(d, u), b) = [dec |-> Take(Fed(d, u), b), raws |-> <<>>]
      BY <3>1, <3>4 DEF Eaten
    <3> QED BY <2>2, <3>5
  <2> QED BY <2>1, <2>4 DEF v
<1>3. P \in SUBSET Seq(Byte)
  OBVIOUS
<1> HIDE DEF P
<1>4. \A u \in Seq(Byte) : u \in P
  BY <1>1, <1>2, <1>3, SeqGrows
<1>5. s \in P
  BY <1>4
<1> QED BY <1>5 DEF P

-----------------------------------------------------------------------------
(* Numbers of 16 bits.                                                     *)

Short == {x \in Nat : x <= 65535}

\* The weight of a bit.
LEMMA BitWeight ==
    ASSUME NEW i \in 1..16
    PROVE  2^(i - 1) \in Nat /\ 2^(i - 1) # 0
<1>1. CASE i = 1
  BY <1>1
<1>2. CASE i = 2
  BY <1>2
<1>3. CASE i = 3
  BY <1>3
<1>4. CASE i = 4
  BY <1>4
<1>5. CASE i = 5
  BY <1>5
<1>6. CASE i = 6
  BY <1>6
<1>7. CASE i = 7
  BY <1>7
<1>8. CASE i = 8
  BY <1>8
<1>9. CASE i = 9
  BY <1>9
<1>10. CASE i = 10
  BY <1>10
<1>11. CASE i = 11
  BY <1>11
<1>12. CASE i = 12
  BY <1>12
<1>13. CASE i = 13
  BY <1>13
<1>14. CASE i = 14
  BY <1>14
<1>15. CASE i = 15
  BY <1>15
<1>16. CASE i = 16
  BY <1>16
<1>17. \/ i = 1 \/ i = 2 \/ i = 3 \/ i = 4 \/ i = 5 \/ i = 6 \/ i = 7 \/ i = 8
       \/ i = 9 \/ i = 10 \/ i = 11 \/ i = 12 \/ i = 13 \/ i = 14 \/ i = 15 \/ i = 16
  OBVIOUS
<1> QED
  BY <1>1, <1>2, <1>3, <1>4, <1>5, <1>6, <1>7, <1>8, <1>9, <1>10, <1>11, <1>12, <1>13, <1>14, <1>15, <1>16, <1>17, Zenon

\* The bits of two numbers differ or not.
Differ(a, b, i) == (a \div 2^(i - 1) + b \div 2^(i - 1)) % 2

XorStep(a, b) == [x \in Nat |-> [i \in 1..16 |-> x + 2^(i - 1) * Differ(a, b, i)]]

LEMMA DifferType ==
    ASSUME NEW a \in Nat, NEW b \in Nat, NEW i \in 1..16
    PROVE  Differ(a, b, i) \in 0..1
<1> DEFINE w == 2^(i - 1)
<1>1. w \in Nat /\ w # 0
  BY BitWeight
<1> QED BY <1>1 DEF Differ

LEMMA XorIsStep ==
    ASSUME NEW a \in Nat, NEW b \in Nat
    PROVE  /\ IsStep(XorStep(a, b), Nat, 1..16)
           /\ \A x \in Nat, i \in 1..16 :
                 XorStep(a, b)[x][i] = x + 2^(i - 1) * Differ(a, b, i)
<1>1. \A x \in Nat, i \in 1..16 : x + 2^(i - 1) * Differ(a, b, i) \in Nat
  <2> TAKE x \in Nat, i \in 1..16
  <2> DEFINE w == 2^(i - 1)
             y == Differ(a, b, i)
  <2>1. w \in Nat /\ y \in 0..1
    BY BitWeight, DifferType
  <2> HIDE DEF w, y
  <2>2. y = 0 \/ y = 1
    BY <2>1
  <2>3. x + w * y \in Nat
    BY <2>1, <2>2
  <2> QED BY <2>3 DEF w, y
<1> QED BY <1>1, Zenon DEF XorStep, IsStep

\* The number made of the bits that differ.
LEMMA XorBits ==
    ASSUME NEW a \in Nat, NEW b \in Nat
    PROVE  \E c : /\ Xor(a, b) = c[16] /\ c[0] = 0
                  /\ \A i \in 1..16 : c[i] = c[i - 1] + 2^(i - 1) * Differ(a, b, i)
<1> DEFINE Is(h) == h = [i \in 0..16 |->
                             IF i = 0 THEN 0 ELSE h[i - 1] + 2^(i - 1) * Differ(a, b, i)]
           c == CHOOSE h : Is(h)
           s == [i \in 1..16 |-> i]
<1>0. s \in Seq(1..16) /\ Len(s) = 16 /\ \A i \in 1..16 : s[i] = i
  OBVIOUS
<1> HIDE DEF s
<1>a. s \in Seq(1..16) /\ 0 \in Nat
  BY <1>0
<1>1. PICK f \in [0..Len(s) -> Nat] : Unfolds(f, XorStep(a, b), 0, s)
  BY <1>a, XorIsStep, FoldExists
<1>2. \A i \in 1..16 : f[i] = f[i - 1] + 2^(i - 1) * Differ(a, b, i)
  <2>1. \A i \in 1..16 : i - 1 \in 0..16
    OBVIOUS
  <2>2. \A i \in 1..16 : f[i] = XorStep(a, b)[f[i - 1]][i]
    BY <1>0, <1>1 DEF Unfolds
  <2>3. \A i \in 1..16 : f[i - 1] \in Nat
    BY <1>0, <1>1, <2>1
  <2> QED BY <2>2, <2>3, XorIsStep
<1>3. f[0] = 0 /\ f \in [0..16 -> Nat]
  BY <1>0, <1>1 DEF Unfolds
<1>4. Is(f)
  <2> DEFINE r == [i \in 0..16 |->
                       IF i = 0 THEN 0 ELSE f[i - 1] + 2^(i - 1) * Differ(a, b, i)]
  <2>1. \A i \in 0..16 : i # 0 => i \in 1..16
    OBVIOUS
  <2>2. \A i \in 0..16 : f[i] = r[i]
    BY <1>2, <1>3, <2>1, Zenon
  <2>3. r = [i \in 0..16 |-> r[i]]
    OBVIOUS
  <2> HIDE DEF r
  <2>4. f = r
    BY <1>3, <2>2, <2>3
  <2> QED BY <2>4 DEF r
<1>5. Is(c)
  BY <1>4
<1>6. c[0] = 0 /\ \A i \in 1..16 : c[i] = c[i - 1] + 2^(i - 1) * Differ(a, b, i)
  <2>1. 0 \in 0..16 /\ \A i \in 1..16 : i \in 0..16 /\ i # 0
    OBVIOUS
  <2> HIDE DEF c
  <2> QED BY <1>5, <2>1, Zenon
<1>7. Xor(a, b) = c[16]
  BY DEF Xor, Differ
<1> HIDE DEF c
<1> QED BY <1>6, <1>7

LEMMA XorType ==
    ASSUME NEW a \in Nat, NEW b \in Nat
    PROVE  Xor(a, b) \in Short
<1>1. PICK c : /\ Xor(a, b) = c[16] /\ c[0] = 0
               /\ \A i \in 1..16 : c[i] = c[i - 1] + 2^(i - 1) * Differ(a, b, i)
  BY XorBits
<1>2. c[1] \in Nat /\ c[1] <= 1
  <2>1. Differ(a, b, 1) \in 0..1
    BY DifferType
  <2>2. 1 = 2^(1 - 1)
    OBVIOUS
  <2>3. c[1] = c[0] + 1 * Differ(a, b, 1)
    BY <1>1, <2>2
  <2> QED BY <1>1, <2>1, <2>3
<1>3. c[2] \in Nat /\ c[2] <= 3
  <2>1. Differ(a, b, 2) \in 0..1
    BY DifferType
  <2>2. 2 = 2^(2 - 1)
    OBVIOUS
  <2>3. c[2] = c[1] + 2 * Differ(a, b, 2)
    BY <1>1, <2>2
  <2> QED BY <1>2, <2>1, <2>3
<1>4. c[3] \in Nat /\ c[3] <= 7
  <2>1. Differ(a, b, 3) \in 0..1
    BY DifferType
  <2>2. 4 = 2^(3 - 1)
    OBVIOUS
  <2>3. c[3] = c[2] + 4 * Differ(a, b, 3)
    BY <1>1, <2>2
  <2> QED BY <1>3, <2>1, <2>3
<1>5. c[4] \in Nat /\ c[4] <= 15
  <2>1. Differ(a, b, 4) \in 0..1
    BY DifferType
  <2>2. 8 = 2^(4 - 1)
    OBVIOUS
  <2>3. c[4] = c[3] + 8 * Differ(a, b, 4)
    BY <1>1, <2>2
  <2> QED BY <1>4, <2>1, <2>3
<1>6. c[5] \in Nat /\ c[5] <= 31
  <2>1. Differ(a, b, 5) \in 0..1
    BY DifferType
  <2>2. 16 = 2^(5 - 1)
    OBVIOUS
  <2>3. c[5] = c[4] + 16 * Differ(a, b, 5)
    BY <1>1, <2>2
  <2> QED BY <1>5, <2>1, <2>3
<1>7. c[6] \in Nat /\ c[6] <= 63
  <2>1. Differ(a, b, 6) \in 0..1
    BY DifferType
  <2>2. 32 = 2^(6 - 1)
    OBVIOUS
  <2>3. c[6] = c[5] + 32 * Differ(a, b, 6)
    BY <1>1, <2>2
  <2> QED BY <1>6, <2>1, <2>3
<1>8. c[7] \in Nat /\ c[7] <= 127
  <2>1. Differ(a, b, 7) \in 0..1
    BY DifferType
  <2>2. 64 = 2^(7 - 1)
    OBVIOUS
  <2>3. c[7] = c[6] + 64 * Differ(a, b, 7)
    BY <1>1, <2>2
  <2> QED BY <1>7, <2>1, <2>3
<1>9. c[8] \in Nat /\ c[8] <= 255
  <2>1. Differ(a, b, 8) \in 0..1
    BY DifferType
  <2>2. 128 = 2^(8 - 1)
    OBVIOUS
  <2>3. c[8] = c[7] + 128 * Differ(a, b, 8)
    BY <1>1, <2>2
  <2> QED BY <1>8, <2>1, <2>3
<1>10. c[9] \in Nat /\ c[9] <= 511
  <2>1. Differ(a, b, 9) \in 0..1
    BY DifferType
  <2>2. 256 = 2^(9 - 1)
    OBVIOUS
  <2>3. c[9] = c[8] + 256 * Differ(a, b, 9)
    BY <1>1, <2>2
  <2> QED BY <1>9, <2>1, <2>3
<1>11. c[10] \in Nat /\ c[10] <= 1023
  <2>1. Differ(a, b, 10) \in 0..1
    BY DifferType
  <2>2. 512 = 2^(10 - 1)
    OBVIOUS
  <2>3. c[10] = c[9] + 512 * Differ(a, b, 10)
    BY <1>1, <2>2
  <2> QED BY <1>10, <2>1, <2>3
<1>12. c[11] \in Nat /\ c[11] <= 2047
  <2>1. Differ(a, b, 11) \in 0..1
    BY DifferType
  <2>2. 1024 = 2^(11 - 1)
    OBVIOUS
  <2>3. c[11] = c[10] + 1024 * Differ(a, b, 11)
    BY <1>1, <2>2
  <2> QED BY <1>11, <2>1, <2>3
<1>13. c[12] \in Nat /\ c[12] <= 4095
  <2>1. Differ(a, b, 12) \in 0..1
    BY DifferType
  <2>2. 2048 = 2^(12 - 1)
    OBVIOUS
  <2>3. c[12] = c[11] + 2048 * Differ(a, b, 12)
    BY <1>1, <2>2
  <2> QED BY <1>12, <2>1, <2>3
<1>14. c[13] \in Nat /\ c[13] <= 8191
  <2>1. Differ(a, b, 13) \in 0..1
    BY DifferType
  <2>2. 4096 = 2^(13 - 1)
    OBVIOUS
  <2>3. c[13] = c[12] + 4096 * Differ(a, b, 13)
    BY <1>1, <2>2
  <2> QED BY <1>13, <2>1, <2>3
<1>15. c[14] \in Nat /\ c[14] <= 16383
  <2>1. Differ(a, b, 14) \in 0..1
    BY DifferType
  <2>2. 8192 = 2^(14 - 1)
    OBVIOUS
  <2>3. c[14] = c[13] + 8192 * Differ(a, b, 14)
    BY <1>1, <2>2
  <2> QED BY <1>14, <2>1, <2>3
<1>16. c[15] \in Nat /\ c[15] <= 32767
  <2>1. Differ(a, b, 15) \in 0..1
    BY DifferType
  <2>2. 16384 = 2^(15 - 1)
    OBVIOUS
  <2>3. c[15] = c[14] + 16384 * Differ(a, b, 15)
    BY <1>1, <2>2
  <2> QED BY <1>15, <2>1, <2>3
<1>17. c[16] \in Nat /\ c[16] <= 65535
  <2>1. Differ(a, b, 16) \in 0..1
    BY DifferType
  <2>2. 32768 = 2^(16 - 1)
    OBVIOUS
  <2>3. c[16] = c[15] + 32768 * Differ(a, b, 16)
    BY <1>1, <2>2
  <2> QED BY <1>16, <2>1, <2>3
<1>18. Xor(a, b) = c[16]
  BY <1>1
<1> QED BY <1>17, <1>18 DEF Short

LEMMA ShortNumber ==
    ASSUME NEW x \in Short
    PROVE  /\ x \in Nat /\ x <= 65535
           /\ x % 256 \in Byte /\ x \div 256 \in Byte
           /\ 65535 - x \in Short /\ x \div 2 \in Short
<1>1. x \in Nat /\ x <= 65535
  BY DEF Short
<1>2. x % 256 \in 0..255
  BY <1>1
<1>3. x \div 256 \in Nat /\ x \div 256 <= 255
  BY <1>1
<1>4. 65535 - x \in Nat /\ 65535 - x <= 65535
  BY <1>1
<1>5. x \div 2 \in Nat /\ x \div 2 <= 65535
  BY <1>1
<1> QED BY <1>1, <1>2, <1>3, <1>4, <1>5 DEF Short, Byte

\* One step of the division that makes an entry of the table.
Shifted(x) == IF x % 2 = 1 THEN Xor(x \div 2, 33800) ELSE x \div 2

ShiftStep == [x \in Short |-> [i \in 1..8 |-> Shifted(x)]]

LEMMA ShiftIsStep ==
    /\ IsStep(ShiftStep, Short, 1..8)
    /\ \A x \in Short, i \in 1..8 : ShiftStep[x][i] = Shifted(x)
<1>1. \A x \in Short : Shifted(x) \in Short
  <2> TAKE x \in Short
  <2>1. x \div 2 \in Nat /\ x \div 2 \in Short
    BY ShortNumber
  <2>2. Xor(x \div 2, 33800) \in Short
    BY <2>1, XorType
  <2> QED BY <2>1, <2>2 DEF Shifted
<1> QED BY <1>1, Zenon DEF ShiftStep, IsStep

LEMMA TableType ==
    ASSUME NEW b \in Byte
    PROVE  crc_table[b] \in Short
<1> DEFINE Is(h) == h = [i \in 0..8 |-> IF i = 0 THEN b ELSE Shifted(h[i - 1])]
           c == CHOOSE h : Is(h)
           s == [i \in 1..8 |-> i]
<1>0. s \in Seq(1..8) /\ Len(s) = 8 /\ \A i \in 1..8 : s[i] = i
  OBVIOUS
<1> HIDE DEF s
<1>a. s \in Seq(1..8) /\ b \in Short
  BY <1>0 DEF Byte, Short
<1>1. PICK f \in [0..Len(s) -> Short] : Unfolds(f, ShiftStep, b, s)
  BY <1>a, ShiftIsStep, FoldExists
<1>2. \A i \in 1..8 : f[i] = Shifted(f[i - 1])
  <2>1. \A i \in 1..8 : i - 1 \in 0..8
    OBVIOUS
  <2>2. \A i \in 1..8 : f[i] = ShiftStep[f[i - 1]][i]
    BY <1>0, <1>1 DEF Unfolds
  <2>3. \A i \in 1..8 : f[i - 1] \in Short
    BY <1>0, <1>1, <2>1
  <2> QED BY <2>2, <2>3, ShiftIsStep
<1>3. f[0] = b /\ f \in [0..8 -> Short]
  BY <1>0, <1>1 DEF Unfolds
<1>4. Is(f)
  <2> DEFINE r == [i \in 0..8 |-> IF i = 0 THEN b ELSE Shifted(f[i - 1])]
  <2>1. \A i \in 0..8 : i # 0 => i \in 1..8
    OBVIOUS
  <2>2. \A i \in 0..8 : f[i] = r[i]
    BY <1>2, <1>3, <2>1, Zenon
  <2>3. r = [i \in 0..8 |-> r[i]]
    OBVIOUS
  <2> HIDE DEF r
  <2>4. f = r
    BY <1>3, <2>2, <2>3
  <2> QED BY <2>4 DEF r
<1>5. Is(c)
  BY <1>4
<1>6. c[0] = b /\ \A i \in 1..8 : c[i] = Shifted(c[i - 1])
  <2>1. 0 \in 0..8 /\ \A i \in 1..8 : i \in 0..8 /\ i # 0
    OBVIOUS
  <2> HIDE DEF c
  <2> QED BY <1>5, <2>1, Zenon
<1>7. crc_table[b] = c[8]
  BY DEF crc_table, Shifted
<1> HIDE DEF c, Is
<1>8. \A i \in 1..Len(s) : c[i - 1] \in Short => c[i] = ShiftStep[c[i - 1]][s[i]]
  BY SMTT(30), <1>0, <1>6, ShiftIsStep
<1>9. Fold(ShiftStep, b, s) = c[Len(s)]
  BY <1>6, <1>8, <1>a, ShiftIsStep, FoldAgrees
<1>10. Fold(ShiftStep, b, s) \in Short
  BY <1>a, ShiftIsStep, FoldType
<1> QED BY <1>0, <1>7, <1>9, <1>10

LEMMA CrcByteType ==
    ASSUME NEW crc \in Short, NEW ch \in Byte
    PROVE  hdlc_crc_byte(crc, ch) \in Short
<1>1. crc \in Nat /\ crc \div 256 \in Nat /\ ch \in Nat
  BY ShortNumber DEF Byte
<1>2. Xor(crc, ch) % 256 \in Byte
  <2>1. Xor(crc, ch) \in Short
    BY <1>1, XorType
  <2> QED BY <2>1, ShortNumber
<1>3. crc_table[Xor(crc, ch) % 256] \in Nat
  BY <1>2, TableType, ShortNumber
<1> QED BY <1>1, <1>3, XorType DEF hdlc_crc_byte

CrcStep == [x \in Short |-> [b \in Byte |-> hdlc_crc_byte(x, b)]]

LEMMA CrcIsStep ==
    /\ IsStep(CrcStep, Short, Byte)
    /\ \A x \in Short, b \in Byte : CrcStep[x][b] = hdlc_crc_byte(x, b)
<1>1. \A x \in Short, b \in Byte : hdlc_crc_byte(x, b) \in Short
  BY CrcByteType
<1> QED BY <1>1, Zenon DEF CrcStep, IsStep

\* The remainder a CRC starts with.
Ones == 65535

\* A CRC takes two bytes.
LEMMA CrcType ==
    ASSUME NEW m \in Seq(Byte)
    PROVE  Crc(m) \in Seq(Byte) /\ Len(Crc(m)) = 2
<1> DEFINE Is(h) == h = [i \in 0..Len(m) |->
                             IF i = 0 THEN Ones ELSE hdlc_crc_byte(h[i - 1], m[i])]
           c == CHOOSE h : Is(h)
<1>0. Len(m) \in Nat /\ (\A i \in 1..Len(m) : m[i] \in Byte) /\ Ones \in Short
  BY LenProperties DEF Short, Ones
<1>1. PICK f \in [0..Len(m) -> Short] : Unfolds(f, CrcStep, Ones, m)
  BY <1>0, CrcIsStep, FoldExists
<1>2. \A i \in 1..Len(m) : f[i] = hdlc_crc_byte(f[i - 1], m[i])
  <2>1. \A i \in 1..Len(m) : i - 1 \in 0..Len(m)
    BY <1>0
  <2>2. \A i \in 1..Len(m) : f[i] = CrcStep[f[i - 1]][m[i]]
    BY <1>1 DEF Unfolds
  <2> QED BY <1>0, <1>1, <2>1, <2>2, CrcIsStep
<1>3. f[0] = Ones
  BY <1>1 DEF Unfolds
<1>4. Is(f)
  <2> DEFINE r == [i \in 0..Len(m) |->
                       IF i = 0 THEN Ones ELSE hdlc_crc_byte(f[i - 1], m[i])]
  <2>1. \A i \in 0..Len(m) : i # 0 => i \in 1..Len(m)
    BY <1>0
  <2>2. \A i \in 0..Len(m) : f[i] = r[i]
    BY <1>2, <1>3, <2>1, Zenon
  <2>3. r = [i \in 0..Len(m) |-> r[i]]
    OBVIOUS
  <2> HIDE DEF r
  <2>4. f = r
    BY <1>1, <2>2, <2>3
  <2> QED BY <2>4 DEF r
<1>5. Is(c)
  BY <1>4
<1>6. c[0] = Ones /\ \A i \in 1..Len(m) : c[i] = hdlc_crc_byte(c[i - 1], m[i])
  <2>1. 0 \in 0..Len(m) /\ \A i \in 1..Len(m) : i \in 0..Len(m) /\ i # 0
    BY <1>0
  <2> HIDE DEF c
  <2> QED BY <1>5, <2>1, Zenon
<1> DEFINE inverted == 65535 - c[Len(m)]
<1>7. Crc(m) = <<inverted % 256, inverted \div 256>>
  BY DEF Crc, Ones
<1> HIDE DEF c, Is
<1>8. \A i \in 1..Len(m) : c[i - 1] \in Short => c[i] = CrcStep[c[i - 1]][m[i]]
  BY <1>0, <1>6, CrcIsStep
<1>9. Fold(CrcStep, Ones, m) = c[Len(m)]
  BY <1>0, <1>6, <1>8, CrcIsStep, FoldAgrees
<1>10. Fold(CrcStep, Ones, m) \in Short
  BY <1>0, CrcIsStep, FoldType
<1>11. inverted \in Short
  BY <1>9, <1>10, ShortNumber
<1> HIDE DEF inverted
<1>12. inverted % 256 \in Byte /\ inverted \div 256 \in Byte
  BY <1>11, ShortNumber
<1> QED BY <1>7, <1>12

-----------------------------------------------------------------------------
(* Frames.                                                                 *)

LEMMA ControlByte ==
    ESCAPE \in Byte /\ NHDLC_CONTROL_CHAR \in Byte /\ ESCAPE # NHDLC_CONTROL_CHAR
BY DEF ESCAPE, NHDLC_CONTROL_CHAR, Byte

EscapedByte(b) ==
    IF b \in {ESCAPE, NHDLC_CONTROL_CHAR} THEN <<ESCAPE, Toggled(b)>> ELSE <<b>>

EscapeStep == [o \in Seq(Byte) |-> [b \in Byte |-> o \o EscapedByte(b)]]

LEMMA EscapedByteType ==
    ASSUME NEW b \in Byte
    PROVE  /\ EscapedByte(b) \in Seq(Byte)
           /\ EscapedByte(b) = <<b>> \/ EscapedByte(b) = <<ESCAPE, Toggled(b)>>
           /\ Len(EscapedByte(b)) > 0
<1>1. <<b>> \in Seq(Byte) /\ Len(<<b>>) > 0
  OBVIOUS
<1> DEFINE t == Toggled(b)
<1>2. t \in Byte /\ ESCAPE \in Byte
  BY ToggledByte, ControlByte
<1> HIDE DEF t
<1>3. <<ESCAPE, t>> \in Seq(Byte) /\ Len(<<ESCAPE, t>>) > 0
  BY <1>2
<1> QED BY <1>1, <1>3 DEF EscapedByte, t

LEMMA EscapeIsStep ==
    /\ IsStep(EscapeStep, Seq(Byte), Byte)
    /\ \A o \in Seq(Byte), b \in Byte : EscapeStep[o][b] = o \o EscapedByte(b)
<1>1. \A o \in Seq(Byte), b \in Byte : o \o EscapedByte(b) \in Seq(Byte)
  <2> TAKE o \in Seq(Byte), b \in Byte
  <2>1. EscapedByte(b) \in Seq(Byte)
    BY EscapedByteType
  <2> QED BY <2>1, ConcatProperties
<1> QED BY <1>1, Zenon DEF EscapeStep, IsStep

LEMMA EscapedIsFold ==
    ASSUME NEW s \in Seq(Byte)
    PROVE  Escaped(s) = Fold(EscapeStep, <<>>, s)
<1> DEFINE Is(h) == h = [i \in 0..Len(s) |->
                             IF i = 0 THEN <<>> ELSE h[i - 1] \o EscapedByte(s[i])]
           c == CHOOSE h : Is(h)
<1>0. Len(s) \in Nat /\ (\A i \in 1..Len(s) : s[i] \in Byte) /\ <<>> \in Seq(Byte)
  BY LenProperties
<1>1. PICK f \in [0..Len(s) -> Seq(Byte)] : Unfolds(f, EscapeStep, <<>>, s)
  BY <1>0, EscapeIsStep, FoldExists
<1>2. \A i \in 1..Len(s) : f[i] = f[i - 1] \o EscapedByte(s[i])
  <2>1. \A i \in 1..Len(s) : i - 1 \in 0..Len(s)
    BY <1>0
  <2>2. \A i \in 1..Len(s) : f[i] = EscapeStep[f[i - 1]][s[i]]
    BY <1>1 DEF Unfolds
  <2> QED BY <1>0, <1>1, <2>1, <2>2, EscapeIsStep
<1>3. f[0] = <<>>
  BY <1>1 DEF Unfolds
<1>4. Is(f)
  <2> DEFINE r == [i \in 0..Len(s) |-> IF i = 0 THEN <<>> ELSE f[i - 1] \o EscapedByte(s[i])]
  <2>1. \A i \in 0..Len(s) : i # 0 => i \in 1..Len(s)
    BY <1>0
  <2>2. \A i \in 0..Len(s) : f[i] = r[i]
    BY <1>2, <1>3, <2>1, Zenon
  <2>3. r = [i \in 0..Len(s) |-> r[i]]
    OBVIOUS
  <2> HIDE DEF r
  <2>4. f = r
    BY <1>1, <2>2, <2>3
  <2> QED BY <2>4 DEF r
<1>5. Is(c)
  BY <1>4
<1>6. c[0] = <<>> /\ \A i \in 1..Len(s) : c[i] = c[i - 1] \o EscapedByte(s[i])
  <2>1. 0 \in 0..Len(s) /\ \A i \in 1..Len(s) : i \in 0..Len(s) /\ i # 0
    BY <1>0
  <2> HIDE DEF c
  <2> QED BY <1>5, <2>1, Zenon
<1>7. Escaped(s) = c[Len(s)]
  BY DEF Escaped, EscapedByte
<1> HIDE DEF c, Is
<1>8. \A i \in 1..Len(s) : c[i - 1] \in Seq(Byte) => c[i] = EscapeStep[c[i - 1]][s[i]]
  BY <1>0, <1>6, EscapeIsStep
<1> DEFINE e == <<>>
<1>a. e \in Seq(Byte) /\ c[0] = e
  BY <1>0, <1>6
<1> HIDE DEF e
<1>9. Fold(EscapeStep, e, s) = c[Len(s)]
  BY <1>a, <1>8, EscapeIsStep, FoldAgrees
<1> QED BY <1>7, <1>9 DEF e

LEMMA EscapedStarts == Escaped(<<>>) = <<>>
<1>1. <<>> \in Seq(Byte)
  OBVIOUS
<1>2. Fold(EscapeStep, <<>>, <<>>) = <<>>
  BY <1>1, EscapeIsStep, FoldEmpty
<1> QED BY <1>1, <1>2, EscapedIsFold

LEMMA EscapedGrows ==
    ASSUME NEW s \in Seq(Byte), NEW b \in Byte
    PROVE  /\ Escaped(s) \in Seq(Byte)
           /\ Escaped(Append(s, b)) = Escaped(s) \o EscapedByte(b)
<1> DEFINE v == Append(s, b)
           e == <<>>
<1>1. v \in Seq(Byte) /\ e \in Seq(Byte)
  BY AppendProperties
<1>a. v \in Seq(Byte)
  BY <1>1
<1>2. Escaped(v) = Fold(EscapeStep, e, v) /\ Escaped(s) = Fold(EscapeStep, e, s)
  BY <1>a, EscapedIsFold
<1>3. ASSUME NEW x \in Seq(Byte)
      PROVE  Fold(EscapeStep, x, Append(s, b)) = EscapeStep[Fold(EscapeStep, x, s)][b]
  BY EscapeIsStep, FoldAppend
<1>4. ASSUME NEW x \in Seq(Byte) PROVE Fold(EscapeStep, x, s) \in Seq(Byte)
  BY EscapeIsStep, FoldType
<1> HIDE DEF e
<1>5. Escaped(v) = EscapeStep[Escaped(s)][b] /\ Escaped(s) \in Seq(Byte)
  BY <1>1, <1>2, <1>3, <1>4 DEF v
<1> HIDE DEF v
<1>6. EscapeStep[Escaped(s)][b] = Escaped(s) \o EscapedByte(b)
  BY <1>5, EscapeIsStep
<1>7. Escaped(v) = Escaped(s) \o EscapedByte(b)
  BY <1>5, <1>6
<1> QED BY <1>5, <1>7 DEF v

LEMMA EscapedType ==
    ASSUME NEW s \in Seq(Byte)
    PROVE  Escaped(s) \in Seq(Byte)
<1>1. 0 \in Byte
  BY DEF Byte
<1> QED BY <1>1, EscapedGrows

LEMMA FrameType ==
    ASSUME NEW m \in Seq(Byte)
    PROVE  /\ m \o Crc(m) \in Seq(Byte)
           /\ Len(m \o Crc(m)) = Len(m) + 2
           /\ hdlc_encode(m) \in Seq(Byte)
<1> DEFINE c == Crc(m)
           x == m \o c
           y == Escaped(x)
           e == <<NHDLC_CONTROL_CHAR>>
<1>1. c \in Seq(Byte) /\ Len(c) = 2
  BY CrcType
<1> HIDE DEF c
<1>2. x \in Seq(Byte) /\ Len(x) = Len(m) + 2
  <2>1. c \in Seq(Byte)
    BY <1>1
  <2>2. x \in Seq(Byte) /\ Len(x) = Len(m) + Len(c)
    BY <2>1, ConcatProperties
  <2> QED BY <1>1, <2>2
<1> HIDE DEF x
<1>3. y \in Seq(Byte)
  BY <1>2, EscapedType
<1>4. e \in Seq(Byte)
  BY ControlByte
<1> HIDE DEF y, e
<1>5. y \o e \in Seq(Byte)
  BY <1>3, <1>4, ConcatProperties
<1> QED BY <1>2, <1>5 DEF c, x, y, e, hdlc_encode

LEMMA RunByte ==
    ASSUME NEW d \in Decoder, NEW b \in Byte
    PROVE  Run(d, <<b>>) = Eaten(Start(d), b)
<1> DEFINE e == <<>>
           f == <<b>>
<1>1. e \in Seq(Byte) /\ Append(e, b) = f
  OBVIOUS
<1>2. Run(d, e) = Start(d)
  BY RunStarts
<1> HIDE DEF e, f
<1>3. e \in Seq(Byte)
  BY <1>1
<1>4. Run(d, Append(e, b)) = Eaten(Run(d, e), b)
  BY <1>3, RunGrows
<1>5. Run(d, f) = Eaten(Start(d), b)
  BY <1>1, <1>2, <1>4
<1> QED BY <1>5 DEF f

LEMMA RunTwo ==
    ASSUME NEW d \in Decoder, NEW a \in Byte, NEW b \in Byte
    PROVE  Run(d, <<a, b>>) = Eaten(Eaten(Start(d), a), b)
<1> DEFINE e == <<a>>
           f == <<a, b>>
<1>1. e \in Seq(Byte) /\ Append(e, b) = f
  <2>1. e \in Seq(Byte) /\ Len(e) = 1 /\ e[1] = a
    OBVIOUS
  <2>2. f \in Seq(Byte) /\ Len(f) = 2 /\ f[1] = a /\ f[2] = b
    OBVIOUS
  <2> DEFINE g == Append(e, b)
  <2> HIDE DEF e, f
  <2>3. e \in Seq(Byte)
    BY <2>1
  <2>4. g \in Seq(Byte) /\ Len(g) = Len(e) + 1 /\ g[Len(e) + 1] = b
        /\ \A i \in 1..Len(e) : g[i] = e[i]
    BY <2>3, AppendProperties
  <2> HIDE DEF g
  <2>5. Len(g) = Len(f) /\ \A i \in 1..Len(g) : g[i] = f[i]
    BY <2>1, <2>2, <2>4
  <2>6. g = f
    BY <2>2, <2>4, <2>5, SeqEqual
  <2> QED BY <2>1, <2>6 DEF g
<1>2. Run(d, e) = Eaten(Start(d), a)
  BY RunByte
<1> HIDE DEF e, f
<1>3. e \in Seq(Byte)
  BY <1>1
<1>4. Run(d, Append(e, b)) = Eaten(Run(d, e), b)
  BY <1>3, RunGrows
<1>5. Run(d, f) = Eaten(Eaten(Start(d), a), b)
  BY <1>1, <1>2, <1>4
<1> QED BY <1>5 DEF f

\* What hdlc_encode makes of a byte, the decoder makes that byte of.
LEMMA DecodesByte ==
    ASSUME NEW x \in Seq(Byte), NEW b \in Byte
    PROVE  Run([raw |-> x, escape |-> FALSE], EscapedByte(b))
               = [dec |-> [raw |-> Append(x, b), escape |-> FALSE], raws |-> <<>>]
<1> DEFINE d == [raw |-> x, escape |-> FALSE]
           y == Append(x, b)
           dy == [raw |-> y, escape |-> FALSE]
<1>1. d \in Decoder /\ Start(d).dec = d /\ Start(d).raws = <<>>
  BY DEF Decoder, Start
<1>2. CASE b \in {ESCAPE, NHDLC_CONTROL_CHAR}
  <2> DEFINE t == Toggled(b)
             de == [raw |-> x, escape |-> TRUE]
  <2>1. t \in Byte /\ t # ESCAPE /\ t # NHDLC_CONTROL_CHAR /\ Toggled(t) = b
    BY <1>2, ToggledByte
  <2>2. EscapedByte(b) = <<ESCAPE, t>>
    BY <1>2 DEF EscapedByte
  <2> HIDE DEF t
  <2>3. Run(d, <<ESCAPE, t>>) = Eaten(Eaten(Start(d), ESCAPE), t)
    BY <1>1, <2>1, ControlByte, RunTwo
  <2>4. Eaten(Start(d), ESCAPE) = [dec |-> de, raws |-> <<>>]
    <3>1. Take(d, ESCAPE) = de
      BY DEF Take
    <3> HIDE DEF d, de
    <3> QED BY <1>1, <3>1, ControlByte DEF Eaten
  <2>5. Eaten([dec |-> de, raws |-> <<>>], t) = [dec |-> Take(de, t), raws |-> <<>>]
    BY <2>1 DEF Eaten
  <2>6. Take(de, t) = dy
    BY <2>1 DEF Take
  <2> QED BY <2>2, <2>3, <2>4, <2>5, <2>6
<1>3. CASE b \notin {ESCAPE, NHDLC_CONTROL_CHAR}
  <2>1. EscapedByte(b) = <<b>>
    BY <1>3 DEF EscapedByte
  <2>2. Run(d, <<b>>) = Eaten(Start(d), b)
    BY <1>1, RunByte
  <2>3. Eaten(Start(d), b) = [dec |-> Take(d, b), raws |-> <<>>]
    BY <1>1, <1>3 DEF Eaten
  <2>4. Take(d, b) = dy
    BY <1>3 DEF Take
  <2> QED BY <2>1, <2>2, <2>3, <2>4
<1> QED BY <1>2, <1>3

LEMMA DecodesEscaped ==
    ASSUME NEW s \in Seq(Byte)
    PROVE  Run(FreshDecoder, Escaped(s))
               = [dec |-> [raw |-> s, escape |-> FALSE], raws |-> <<>>]
<1> DEFINE At(x) == [raw |-> x, escape |-> FALSE]
           P == {x \in Seq(Byte) : Run(FreshDecoder, Escaped(x)) = [dec |-> At(x), raws |-> <<>>]}
<1>1. <<>> \in P
  <2> DEFINE e == <<>>
  <2>1. Escaped(e) = e /\ e \in Seq(Byte) /\ At(e) = FreshDecoder
    BY EscapedStarts DEF FreshDecoder
  <2>2. Run(FreshDecoder, e) = [dec |-> FreshDecoder, raws |-> <<>>]
    BY FreshType, RunStarts DEF Start
  <2> HIDE DEF e, At
  <2>3. e \in P
    BY <2>1, <2>2
  <2> QED BY <2>3 DEF e
<1>2. ASSUME NEW x \in P, NEW b \in Byte PROVE Append(x, b) \in P
  <2> DEFINE y == Append(x, b)
             u == Escaped(x)
             v == EscapedByte(b)
  <2>1. x \in Seq(Byte) /\ y \in Seq(Byte) /\ At(x) \in Decoder
    BY AppendProperties DEF Decoder
  <2>2. u \in Seq(Byte) /\ v \in Seq(Byte) /\ Escaped(y) = u \o v
    BY <2>1, EscapedGrows, EscapedByteType
  <2>3. Run(FreshDecoder, u) = [dec |-> At(x), raws |-> <<>>]
    OBVIOUS
  <2>4. Run(At(x), v) = [dec |-> At(y), raws |-> <<>>]
    BY <2>1, DecodesByte
  <2> HIDE DEF u, v, y, At
  <2>a. u \in Seq(Byte) /\ v \in Seq(Byte)
    BY <2>2
  <2>5. /\ Run(FreshDecoder, u \o v).dec = Run(Run(FreshDecoder, u).dec, v).dec
        /\ Run(FreshDecoder, u \o v).raws
               = Run(FreshDecoder, u).raws \o Run(Run(FreshDecoder, u).dec, v).raws
    BY <2>a, FreshType, RunConcat
  <2>6. u \o v \in Seq(Byte)
    BY <2>a, ConcatProperties
  <2>7. Run(FreshDecoder, u \o v) \in RunState
    BY <2>6, FreshType, RunType
  <2>8. Run(FreshDecoder, u \o v).dec = At(y) /\ Run(FreshDecoder, u \o v).raws = <<>>
    BY <2>3, <2>4, <2>5
  <2>9. Run(FreshDecoder, u \o v) = [dec |-> At(y), raws |-> <<>>]
    BY <2>7, <2>8 DEF RunState
  <2> QED BY <2>1, <2>2, <2>9 DEF y
<1>3. P \in SUBSET Seq(Byte)
  OBVIOUS
<1> HIDE DEF P
<1>4. \A x \in Seq(Byte) : x \in P
  BY <1>1, <1>2, <1>3, SeqGrows
<1>5. s \in P
  BY <1>4
<1> QED BY <1>5 DEF P

\* The raw bytes of a message's frame.
RawOf(m) == m \o Crc(m)

\* hdlc_decode_one undoes hdlc_encode: a decoder that starts at a frame finds the
\* message and its CRC in it, and nothing else, and starts anew.
THEOREM DecodesFrame ==
    ASSUME NEW m \in Seq(Byte)
    PROVE  /\ Run(FreshDecoder, hdlc_encode(m))
                  = [dec |-> FreshDecoder, raws |-> <<RawOf(m)>>]
           /\ Run(FreshDecoder, <<NHDLC_CONTROL_CHAR>> \o hdlc_encode(m))
                  = [dec |-> FreshDecoder, raws |-> <<RawOf(m)>>]
           /\ Message(RawOf(m)) = m
<1> DEFINE x == RawOf(m)
           d == [raw |-> x, escape |-> FALSE]
           u == Escaped(x)
           e == <<NHDLC_CONTROL_CHAR>>
           r == [dec |-> FreshDecoder, raws |-> <<x>>]
<1>1. x \in Seq(Byte) /\ Len(x) = Len(m) + 2 /\ x # <<>> /\ Crc(m) \in Seq(Byte)
  <2>1. x \in Seq(Byte) /\ Len(x) = Len(m) + 2 /\ Len(m) \in Nat
    BY FrameType, LenProperties DEF RawOf
  <2>2. x # <<>>
    BY <2>1
  <2> QED BY <2>1, <2>2, CrcType
<1>2. Message(RawOf(m)) = m
  <2>1. Len(m) \in Nat /\ m = [i \in 1..Len(m) |-> m[i]]
    BY LenProperties
  <2> DEFINE c == Crc(m)
             y == m \o c
             k == Len(y) - 2
             z == SubSeq(y, 1, k)
  <2>2. c \in Seq(Byte) /\ Len(c) = 2
    BY CrcType
  <2> HIDE DEF c
  <2>3. /\ y \in Seq(Byte) /\ Len(y) = Len(m) + Len(c)
        /\ \A i \in 1..(Len(m) + Len(c)) : y[i] = IF i <= Len(m) THEN m[i] ELSE c[i - Len(m)]
    <3>1. c \in Seq(Byte)
      BY <2>2
    <3> QED BY <3>1, ConcatProperties
  <2> HIDE DEF y
  <2>4. k = Len(m) /\ \A i \in 1..k : y[i] = m[i] /\ y[i] \in Byte
    BY <2>1, <2>2, <2>3
  <2> HIDE DEF k
  <2>5. /\ z \in Seq(Byte) /\ Len(z) = IF 1 <= k THEN k - 1 + 1 ELSE 0
        /\ \A i \in 1..(k - 1 + 1) : z[i] = y[1 + i - 1]
    <3>1. 1 \in Int /\ k \in Int /\ \A i \in 1..k : y[i] \in Byte
      BY <2>1, <2>4
    <3> QED BY <3>1, SubSeqProperties
  <2> HIDE DEF z
  <2>6. Len(z) = Len(m) /\ \A i \in 1..Len(z) : z[i] = m[i]
    BY <2>1, <2>4, <2>5
  <2>7. z = m
    BY <2>5, <2>6, SeqEqual
  <2> QED BY <2>7 DEF z, k, y, c, RawOf, Message, msglen
<1>3. hdlc_encode(m) = u \o e
  BY DEF hdlc_encode, RawOf
<1> HIDE DEF x
<1>4. d \in Decoder /\ u \in Seq(Byte) /\ e \in Seq(Byte) /\ hdlc_encode(m) \in Seq(Byte)
  BY <1>1, EscapedType, ControlByte, FrameType DEF Decoder
<1>5. Run(FreshDecoder, u) = [dec |-> d, raws |-> <<>>]
  BY <1>1, DecodesEscaped
<1>6. Run(d, e) = r
  <2>1. Run(d, e) = Eaten(Start(d), NHDLC_CONTROL_CHAR)
    BY <1>4, ControlByte, RunByte
  <2>2. Append(<<>>, x) = <<x>>
    OBVIOUS
  <2> QED BY <1>1, <2>1, <2>2 DEF Eaten, Start
<1>7. Run(FreshDecoder, e) = [dec |-> FreshDecoder, raws |-> <<>>]
  BY FreshType, ControlByte, RunByte DEF Eaten, Start, FreshDecoder
<1> DEFINE f == hdlc_encode(m)
<1> HIDE DEF u, e, d, f, r
<1>8. Run(FreshDecoder, f) = r
  <2>1. u \in Seq(Byte) /\ e \in Seq(Byte) /\ f \in Seq(Byte) /\ f = u \o e
    BY <1>3, <1>4 DEF f
  <2>2. /\ Run(FreshDecoder, f).dec = Run(Run(FreshDecoder, u).dec, e).dec
        /\ Run(FreshDecoder, f).raws
               = Run(FreshDecoder, u).raws \o Run(Run(FreshDecoder, u).dec, e).raws
    BY <2>1, FreshType, RunConcat
  <2>3. /\ Run(FreshDecoder, u).dec = d /\ Run(FreshDecoder, u).raws = <<>>
        /\ Run(d, e).dec = FreshDecoder /\ Run(d, e).raws = <<x>>
    BY <1>5, <1>6 DEF r
  <2>4. Run(FreshDecoder, f).dec = FreshDecoder
        /\ Run(FreshDecoder, f).raws = <<x>>
    BY <2>2, <2>3, <1>1
  <2>5. Run(FreshDecoder, f) \in RunState
    BY <2>1, FreshType, RunType
  <2> QED BY <2>4, <2>5 DEF RunState, r
<1>9. Run(FreshDecoder, e \o f) = r
  <2>1. e \in Seq(Byte) /\ f \in Seq(Byte)
    BY <1>4 DEF f
  <2>2. /\ Run(FreshDecoder, e \o f).dec = Run(Run(FreshDecoder, e).dec, f).dec
        /\ Run(FreshDecoder, e \o f).raws
               = Run(FreshDecoder, e).raws \o Run(Run(FreshDecoder, e).dec, f).raws
    BY <2>1, FreshType, RunConcat
  <2>3. Run(FreshDecoder, e).dec = FreshDecoder /\ Run(FreshDecoder, e).raws = <<>>
    BY <1>7
  <2>4. Run(FreshDecoder, f).dec = FreshDecoder /\ Run(FreshDecoder, f).raws = <<x>>
    BY <1>8 DEF r
  <2>5. Run(FreshDecoder, e \o f).dec = FreshDecoder
        /\ Run(FreshDecoder, e \o f).raws = <<x>>
    BY <2>2, <2>3, <2>4, <1>1
  <2>6. e \o f \in Seq(Byte)
    BY <2>1, ConcatProperties
  <2>7. Run(FreshDecoder, e \o f) \in RunState
    BY <2>6, FreshType, RunType
  <2> QED BY <2>5, <2>7 DEF RunState, r
<1> QED BY <1>2, <1>8, <1>9 DEF f, e, r, x

LEMMA FirstEndIs ==
    ASSUME NEW s \in Seq(Byte), Ends(s) # {}
    PROVE  /\ FirstEnd(s) \in 1..Len(s)
           /\ s[FirstEnd(s)] = NHDLC_CONTROL_CHAR
           /\ \A i \in 1..(FirstEnd(s) - 1) : s[i] # NHDLC_CONTROL_CHAR
<1>0. Len(s) \in Nat
  BY LenProperties
<1>1. Ends(s) \in SUBSET Nat
  BY <1>0 DEF Ends
<1>2. \E i \in Ends(s) : \A j \in Ends(s) : i <= j
  BY <1>1, LeastExists
<1>3. FirstEnd(s) \in Ends(s) /\ \A j \in Ends(s) : FirstEnd(s) <= j
  BY <1>2, Zenon DEF FirstEnd
<1> DEFINE k == FirstEnd(s)
<1> HIDE DEF k
<1>4. k \in 1..Len(s) /\ s[k] = NHDLC_CONTROL_CHAR
  BY <1>3 DEF Ends, k
<1>5. ASSUME NEW i \in 1..(k - 1) PROVE s[i] # NHDLC_CONTROL_CHAR
  <2>1. i \in 1..Len(s) /\ ~(k <= i)
    BY <1>0, <1>4
  <2>2. i \notin Ends(s)
    BY <1>3, <2>1 DEF k
  <2> QED BY <2>1, <2>2 DEF Ends
<1> QED BY <1>4, <1>5 DEF k

\* A sequence is what comes before a place, that place, and what follows it.
LEMMA CutAt ==
    ASSUME NEW s \in Seq(Byte), NEW k \in 1..Len(s)
    PROVE  /\ SubSeq(s, 1, k - 1) \in Seq(Byte)
           /\ Len(SubSeq(s, 1, k - 1)) = k - 1
           /\ \A i \in 1..(k - 1) : SubSeq(s, 1, k - 1)[i] = s[i]
           /\ SubSeq(s, k + 1, Len(s)) \in Seq(Byte)
           /\ s = Append(SubSeq(s, 1, k - 1), s[k]) \o SubSeq(s, k + 1, Len(s))
<1> DEFINE p == SubSeq(s, 1, k - 1)
           q == SubSeq(s, k + 1, Len(s))
           n == Len(s)
           b == s[k]
           a == Append(p, b)
           t == a \o q
<1>0. n \in Nat /\ k \in 1..n /\ b \in Byte /\ \A i \in 1..n : s[i] \in Byte
  BY LenProperties
<1>1. p \in Seq(Byte) /\ Len(p) = k - 1 /\ \A i \in 1..(k - 1) : p[i] = s[i]
  <2>1. \A i \in 1..(k - 1) : s[i] \in Byte
    BY <1>0
  <2>2. p \in Seq(Byte) /\ Len(p) = (IF 1 <= k - 1 THEN k - 1 - 1 + 1 ELSE 0)
        /\ \A i \in 1..(k - 1 - 1 + 1) : p[i] = s[1 + i - 1]
    BY <1>0, <2>1, SubSeqProperties
  <2> HIDE DEF p
  <2> QED BY <1>0, <2>2
<1>2. q \in Seq(Byte) /\ Len(q) = n - k /\ \A i \in 1..(n - k) : q[i] = s[k + i]
  <2>1. \A i \in (k + 1)..n : s[i] \in Byte
    BY <1>0
  <2>2. q \in Seq(Byte) /\ Len(q) = (IF k + 1 <= n THEN n - (k + 1) + 1 ELSE 0)
        /\ \A i \in 1..(n - (k + 1) + 1) : q[i] = s[(k + 1) + i - 1]
    BY <1>0, <2>1, SubSeqProperties
  <2> HIDE DEF q
  <2> QED BY <1>0, <2>2
<1> HIDE DEF p, q, b
<1>a. p \in Seq(Byte) /\ q \in Seq(Byte)
  BY <1>1, <1>2
<1>3. a \in Seq(Byte) /\ Len(a) = Len(p) + 1 /\ a[Len(p) + 1] = b
      /\ \A i \in 1..Len(p) : a[i] = p[i]
  BY <1>0, <1>a, AppendProperties
<1> HIDE DEF a
<1>b. a \in Seq(Byte)
  BY <1>3
<1>4. t \in Seq(Byte) /\ Len(t) = Len(a) + Len(q)
      /\ \A i \in 1..(Len(a) + Len(q)) : t[i] = IF i <= Len(a) THEN a[i] ELSE q[i - Len(a)]
  BY <1>a, <1>b, ConcatProperties
<1> HIDE DEF t, n
<1>5. Len(a) = k /\ Len(t) = n
  BY <1>0, <1>1, <1>2, <1>3, <1>4
<1>6. ASSUME NEW i \in 1..n PROVE t[i] = s[i]
  <2>1. CASE i < k
    <3>1. i \in 1..(k - 1) /\ i \in 1..Len(p) /\ i <= Len(a) /\ i \in 1..(Len(a) + Len(q))
      BY <1>0, <1>1, <1>2, <1>5, <2>1
    <3> QED BY <1>1, <1>3, <1>4, <3>1
  <2>2. CASE i = k
    <3>1. i <= Len(a) /\ i \in 1..(Len(a) + Len(q)) /\ i = Len(p) + 1
      BY <1>0, <1>1, <1>2, <1>5, <2>2
    <3> QED BY <1>3, <1>4, <2>2, <3>1 DEF b
  <2>3. CASE i > k
    <3>1. ~(i <= Len(a)) /\ i \in 1..(Len(a) + Len(q)) /\ i - k \in 1..(n - k)
          /\ i - Len(a) = i - k /\ k + (i - k) = i
      BY <1>0, <1>1, <1>2, <1>5, <2>3
    <3> QED BY <1>2, <1>4, <3>1
  <2>4. i < k \/ i = k \/ i > k
    BY <1>0
  <2> QED BY <2>1, <2>2, <2>3, <2>4
<1>7. s = t
  <2>1. Len(s) = Len(t) /\ t \in Seq(Byte)
    BY <1>4, <1>5 DEF n
  <2>2. \A i \in 1..Len(s) : s[i] = t[i]
    BY <1>6 DEF n
  <2> QED BY <2>1, <2>2, SeqEqual
<1> QED BY <1>1, <1>2, <1>7 DEF p, q, a, b, t

\* hdlc_decode_one takes from the ring the bytes up to the first end marker, or
\* all of them, and finds what they mean: what follows means the same to the
\* decoder it leaves.
THEOREM DecodeOneTakes ==
    ASSUME NEW d \in Decoder, NEW r \in Ring, NEW one, one = hdlc_decode_one(d, r)
    PROVE  /\ one.ring \in Ring /\ one.dec \in Decoder /\ one.raw \in Seq(Byte)
           /\ one.found \in BOOLEAN
           /\ Run(d, Unread(r)).dec = Run(one.dec, Unread(one.ring)).dec
           /\ Run(d, Unread(r)).raws
                  = IF one.found THEN <<one.raw>> \o Run(one.dec, Unread(one.ring)).raws
                                 ELSE Run(one.dec, Unread(one.ring)).raws
           /\ ~one.found => Unread(one.ring) = <<>> \/ one.dec.raw = <<>>
           /\ one.found => one.dec = FreshDecoder
<1> DEFINE u == Unread(r)
           ended == Ends(u) # {}
           k == FirstEnd(u)
           p == SubSeq(u, 1, k - 1)
           q == SubSeq(u, k + 1, Len(u))
           after == Fed(d, IF ended THEN p ELSE u)
           found == ended /\ after.raw # <<>>
<1>0. u \in Seq(Byte) /\ Len(u) \in Nat
  <2>1. u \in Seq(Byte)
    BY UnreadType
  <2> HIDE DEF u
  <2> QED BY <2>1, LenProperties
<1>1. /\ one.found = found /\ one.raw = after.raw
      /\ one.dec = (IF found THEN FreshDecoder ELSE after)
      /\ one.ring = Advanced(r, IF ended THEN k ELSE Len(u))
  BY DEF hdlc_decode_one
<1> HIDE DEF u, after, found
<1>2. CASE ~ended
  <2>1. \A i \in 1..Len(u) : u[i] # NHDLC_CONTROL_CHAR
    BY <1>2 DEF Ends
  <2>2. after = Fed(d, u) /\ ~found
    BY <1>2 DEF after, found
  <2>3. after \in Decoder
    BY <1>0, <2>2, FedType
  <2>4. Run(d, u) = [dec |-> after, raws |-> <<>>]
    BY <1>0, <2>1, <2>2, RunIsFed
  <2>5. Advanced(r, Len(u)) \in Ring /\ Unread(Advanced(r, Len(u))) = SubSeq(u, Len(u) + 1, Len(u))
    <3>1. Len(u) \in 0..Len(Unread(r))
      BY <1>0 DEF u
    <3> QED BY <3>1, RingTakes DEF u
  <2>6. SubSeq(u, Len(u) + 1, Len(u)) = <<>>
    BY <1>0, SubSeqEmpty
  <2>7. Run(after, <<>>) = [dec |-> after, raws |-> <<>>]
    BY <2>3, RunStarts DEF Start
  <2>8. after.raw \in Seq(Byte)
    BY <2>3 DEF Decoder
  <2>9. /\ one.ring \in Ring /\ one.dec = after /\ one.raw = after.raw /\ ~one.found
        /\ one.found \in BOOLEAN /\ Unread(one.ring) = <<>>
    BY <1>1, <1>2, <2>2, <2>5, <2>6 DEF found
  <2>10. Run(one.dec, Unread(one.ring)) = [dec |-> after, raws |-> <<>>]
    BY <2>7, <2>9
  <2> QED BY <2>3, <2>4, <2>8, <2>9, <2>10 DEF u
<1>3. CASE ended
  <2>1. k \in 1..Len(u) /\ u[k] = NHDLC_CONTROL_CHAR
        /\ \A i \in 1..(k - 1) : u[i] # NHDLC_CONTROL_CHAR
    BY <1>0, <1>3, FirstEndIs
  <2> HIDE DEF k
  <2> DEFINE a == Append(p, NHDLC_CONTROL_CHAR)
  <2>2. /\ p \in Seq(Byte) /\ Len(p) = k - 1 /\ (\A i \in 1..(k - 1) : p[i] = u[i])
        /\ q \in Seq(Byte) /\ u = a \o q
    BY <1>0, <2>1, CutAt
  <2>3. Advanced(r, k) \in Ring /\ Unread(Advanced(r, k)) = q
    <3>1. k \in 0..Len(Unread(r))
      BY <1>0, <2>1 DEF u
    <3> QED BY <3>1, RingTakes DEF u
  <2> HIDE DEF p, q
  <2>a. p \in Seq(Byte) /\ q \in Seq(Byte)
    BY <2>2
  <2>4. a \in Seq(Byte)
    BY <2>a, ControlByte, AppendProperties
  <2>5. after = Fed(d, p) /\ after \in Decoder
    BY <1>3, <2>a, FedType DEF after
  <2>6. Run(d, p) = [dec |-> after, raws |-> <<>>]
    <3>1. \A i \in 1..Len(p) : p[i] # NHDLC_CONTROL_CHAR
      BY <2>1, <2>2
    <3> QED BY <2>a, <2>5, <3>1, RunIsFed
  <2>7. Run(d, a) = Eaten([dec |-> after, raws |-> <<>>], NHDLC_CONTROL_CHAR)
    BY <2>a, <2>6, ControlByte, RunGrows
  <2>8. after.raw \in Seq(Byte)
    BY <2>5 DEF Decoder
  <2>9. Run(d, a).dec = one.dec
        /\ Run(d, a).raws = IF found THEN <<after.raw>> ELSE <<>>
    <3>1. CASE after.raw = <<>>
      <4>1. ~found /\ one.dec = after
        BY <1>1, <3>1 DEF found
      <4> QED BY <2>7, <3>1, <4>1 DEF Eaten
    <3>2. CASE after.raw # <<>>
      <4>1. found /\ one.dec = FreshDecoder
        BY <1>1, <1>3, <3>2 DEF found
      <4>2. Append(<<>>, after.raw) = <<after.raw>>
        OBVIOUS
      <4> QED BY <2>7, <3>2, <4>1, <4>2 DEF Eaten
    <3> QED BY <3>1, <3>2
  <2>10. /\ Run(d, u).dec = Run(one.dec, q).dec
         /\ Run(d, u).raws = (IF found THEN <<after.raw>> ELSE <<>>) \o Run(one.dec, q).raws
    <3>1. /\ Run(d, a \o q).dec = Run(Run(d, a).dec, q).dec
          /\ Run(d, a \o q).raws = Run(d, a).raws \o Run(Run(d, a).dec, q).raws
      BY <2>a, <2>4, RunConcat
    <3> HIDE DEF a
    <3> QED BY <2>2, <2>9, <3>1
  <2>11. /\ one.ring \in Ring /\ Unread(one.ring) = q /\ one.found = found
         /\ one.raw = after.raw
    BY <1>1, <1>3, <2>3
  <2>12. one.dec \in Decoder /\ (found => one.dec = FreshDecoder)
         /\ (~found => one.dec.raw = <<>>) /\ found \in BOOLEAN
    BY <1>1, <1>3, <2>5, FreshType DEF found
  <2>13. Run(one.dec, q).raws \in Seq(Seq(Byte))
    BY <2>a, <2>12, RunType
  <2> DEFINE z == Run(one.dec, q).raws
  <2>14. Run(d, u).raws = IF found THEN <<after.raw>> \o z ELSE z
    <3>1. <<>> \o z = z
      BY <2>13, ConcatEmptySeq
    <3> HIDE DEF z
    <3>2. Run(d, u).raws = (IF found THEN <<after.raw>> ELSE <<>>) \o z
      BY <2>10 DEF z
    <3> QED BY <3>1, <3>2
  <2> QED BY <2>8, <2>10, <2>11, <2>12, <2>14 DEF u
<1> QED BY <1>2, <1>3

-----------------------------------------------------------------------------
(* Sequences joined.                                                       *)

JoinStep(X) == [o \in Seq(X) |-> [p \in Seq(X) |-> o \o p]]

LEMMA JoinIsStep ==
    ASSUME NEW X
    PROVE  /\ IsStep(JoinStep(X), Seq(X), Seq(X))
           /\ \A o, p \in Seq(X) : JoinStep(X)[o][p] = o \o p
<1>1. \A o, p \in Seq(X) : o \o p \in Seq(X)
  BY ConcatProperties
<1> QED BY <1>1, Zenon DEF JoinStep, IsStep

LEMMA JoinedIsFold ==
    ASSUME NEW X, NEW ss \in Seq(Seq(X))
    PROVE  Joined(ss) = Fold(JoinStep(X), <<>>, ss)
<1> DEFINE Is(h) == h = [i \in 0..Len(ss) |-> IF i = 0 THEN <<>> ELSE h[i - 1] \o ss[i]]
           c == CHOOSE h : Is(h)
<1>0. Len(ss) \in Nat /\ (\A i \in 1..Len(ss) : ss[i] \in Seq(X)) /\ <<>> \in Seq(X)
  BY LenProperties
<1>1. PICK f \in [0..Len(ss) -> Seq(X)] : Unfolds(f, JoinStep(X), <<>>, ss)
  BY <1>0, JoinIsStep, FoldExists
<1>2. \A i \in 1..Len(ss) : f[i] = f[i - 1] \o ss[i]
  <2>1. \A i \in 1..Len(ss) : i - 1 \in 0..Len(ss)
    BY <1>0
  <2>2. \A i \in 1..Len(ss) : f[i] = JoinStep(X)[f[i - 1]][ss[i]]
    BY <1>1 DEF Unfolds
  <2> SUFFICES ASSUME NEW i \in 1..Len(ss) PROVE f[i] = f[i - 1] \o ss[i]
    OBVIOUS
  <2> DEFINE x == f[i - 1]
             y == ss[i]
  <2>3. x \in Seq(X) /\ y \in Seq(X) /\ f[i] = JoinStep(X)[x][y]
    BY <1>0, <1>1, <2>1, <2>2
  <2> HIDE DEF x, y
  <2>4. JoinStep(X)[x][y] = x \o y
    BY <2>3, JoinIsStep
  <2> QED BY <2>3, <2>4 DEF x, y
<1>3. f[0] = <<>>
  BY <1>1 DEF Unfolds
<1>4. Is(f)
  <2> DEFINE r == [i \in 0..Len(ss) |-> IF i = 0 THEN <<>> ELSE f[i - 1] \o ss[i]]
  <2>1. \A i \in 0..Len(ss) : i # 0 => i \in 1..Len(ss)
    BY <1>0
  <2>2. \A i \in 0..Len(ss) : f[i] = r[i]
    BY <1>2, <1>3, <2>1, Zenon
  <2>3. r = [i \in 0..Len(ss) |-> r[i]]
    OBVIOUS
  <2> HIDE DEF r
  <2>4. f = r
    BY <1>1, <2>2, <2>3
  <2> QED BY <2>4 DEF r
<1>5. Is(c)
  BY <1>4
<1>6. c[0] = <<>> /\ \A i \in 1..Len(ss) : c[i] = c[i - 1] \o ss[i]
  <2>1. 0 \in 0..Len(ss) /\ \A i \in 1..Len(ss) : i \in 0..Len(ss) /\ i # 0
    BY <1>0
  <2> HIDE DEF c
  <2> QED BY <1>5, <2>1, Zenon
<1>7. Joined(ss) = c[Len(ss)]
  BY DEF Joined
<1> HIDE DEF c, Is
<1>8. ASSUME NEW i \in 1..Len(ss), c[i - 1] \in Seq(X)
      PROVE  c[i] = JoinStep(X)[c[i - 1]][ss[i]]
  <2> DEFINE x == c[i - 1]
             y == ss[i]
  <2>1. x \in Seq(X) /\ y \in Seq(X) /\ c[i] = x \o y
    BY <1>0, <1>6, <1>8
  <2> HIDE DEF x, y
  <2>2. JoinStep(X)[x][y] = x \o y
    BY <2>1, JoinIsStep
  <2> QED BY <2>1, <2>2 DEF x, y
<1> DEFINE e == <<>>
<1>a. e \in Seq(X) /\ c[0] = e
  BY <1>0, <1>6
<1> HIDE DEF e
<1>9. Fold(JoinStep(X), e, ss) = c[Len(ss)]
  BY <1>a, <1>8, JoinIsStep, FoldAgrees
<1> QED BY <1>7, <1>9 DEF e

LEMMA JoinedType ==
    ASSUME NEW X, NEW ss \in Seq(Seq(X))
    PROVE  Joined(ss) \in Seq(X)
<1> DEFINE e == <<>>
<1>1. e \in Seq(X) /\ Joined(ss) = Fold(JoinStep(X), e, ss)
  BY JoinedIsFold
<1> HIDE DEF e
<1> QED BY <1>1, JoinIsStep, FoldType

LEMMA JoinedNone == Joined(<<>>) = <<>>
<1> DEFINE e == <<>>
           z == <<>>
<1>1. e \in Seq(Seq(Byte)) /\ z \in Seq(Byte)
  OBVIOUS
<1>2. \A y \in Seq(Byte) : Fold(JoinStep(Byte), y, <<>>) = y
  BY JoinIsStep, FoldEmpty
<1>3. \A ss \in Seq(Seq(Byte)) : Joined(ss) = Fold(JoinStep(Byte), <<>>, ss)
  BY JoinedIsFold
<1> HIDE DEF e, z
<1>4. Fold(JoinStep(Byte), z, e) = z
  BY <1>1, <1>2 DEF e
<1>5. Joined(e) = Fold(JoinStep(Byte), z, e)
  BY <1>1, <1>3 DEF z
<1> QED BY <1>4, <1>5 DEF e, z

LEMMA JoinedAppend ==
    ASSUME NEW X, NEW ss \in Seq(Seq(X)), NEW p \in Seq(X)
    PROVE  Joined(Append(ss, p)) = Joined(ss) \o p
<1> DEFINE e == <<>>
           v == Append(ss, p)
<1>1. v \in Seq(Seq(X)) /\ e \in Seq(X)
  BY AppendProperties
<1>a. v \in Seq(Seq(X))
  BY <1>1
<1>2. Joined(v) = Fold(JoinStep(X), e, v) /\ Joined(ss) = Fold(JoinStep(X), e, ss)
  BY <1>a, JoinedIsFold
<1>3. ASSUME NEW x \in Seq(X)
      PROVE  Fold(JoinStep(X), x, Append(ss, p)) = JoinStep(X)[Fold(JoinStep(X), x, ss)][p]
  BY JoinIsStep, FoldAppend
<1> HIDE DEF e
<1>5. Joined(v) = JoinStep(X)[Joined(ss)][p] /\ Joined(ss) \in Seq(X)
  BY <1>1, <1>2, <1>3, JoinedType DEF v
<1> HIDE DEF v
<1>6. JoinStep(X)[Joined(ss)][p] = Joined(ss) \o p
  BY <1>5, JoinIsStep
<1>7. Joined(v) = Joined(ss) \o p
  BY <1>5, <1>6
<1> QED BY <1>7 DEF v

LEMMA JoinedConcat ==
    ASSUME NEW X, NEW ss \in Seq(Seq(X)), NEW tt \in Seq(Seq(X))
    PROVE  Joined(ss \o tt) = Joined(ss) \o Joined(tt)
<1> DEFINE P == {t \in Seq(Seq(X)) : Joined(ss \o t) = Joined(ss) \o Joined(t)}
<1>0. Joined(ss) \in Seq(X)
  BY JoinedType
<1>1. <<>> \in P
  <2>1. ss \o <<>> = ss /\ <<>> \in Seq(Seq(X))
    BY ConcatEmptySeq
  <2>2. Joined(ss) \o <<>> = Joined(ss)
    BY <1>0, ConcatEmptySeq
  <2> QED BY <2>1, <2>2, JoinedNone
<1>2. ASSUME NEW t \in P, NEW p \in Seq(X) PROVE Append(t, p) \in P
  <2> DEFINE v == Append(t, p)
             u == ss \o t
             a == Joined(ss)
             b == Joined(t)
  <2>0. t \in Seq(Seq(X))
    OBVIOUS
  <2>1. v \in Seq(Seq(X))
    BY <2>0, AppendProperties
  <2>2. u \in Seq(Seq(X))
    BY <2>0, ConcatProperties
  <2>3. ss \o Append(t, p) = Append(ss \o t, p)
    BY <2>0, AppendConcat
  <2>4. Joined(Append(t, p)) = b \o p
    BY <2>0, JoinedAppend
  <2>5. b \in Seq(X)
    BY <2>0, JoinedType
  <2>6. Joined(u) = a \o b
    OBVIOUS
  <2> HIDE DEF u, a, b
  <2>7. Joined(Append(u, p)) = Joined(u) \o p
    BY <2>2, JoinedAppend
  <2>8. (a \o b) \o p = a \o (b \o p)
    <3>1. a \in Seq(X)
      BY <1>0 DEF a
    <3> QED BY SMTT(30), <2>5, <3>1, ConcatAssociative
  <2>9. Joined(ss \o v) = a \o Joined(v)
    BY <2>3, <2>4, <2>6, <2>7, <2>8 DEF u
  <2> HIDE DEF v
  <2>10. v \in P
    BY <2>1, <2>9 DEF a
  <2> QED BY <2>10 DEF v
<1>3. P \in SUBSET Seq(Seq(X))
  OBVIOUS
<1> HIDE DEF P
<1>4. \A t \in Seq(Seq(X)) : t \in P
  BY <1>1, <1>2, <1>3, SeqGrows
<1>5. tt \in P
  BY <1>4
<1> QED BY <1>5 DEF P

LEMMA JoinedOne ==
    ASSUME NEW X, NEW p \in Seq(X)
    PROVE  Joined(<<p>>) = p
<1> DEFINE e == <<>>
<1>1. e \in Seq(Seq(X)) /\ Append(e, p) = <<p>>
  OBVIOUS
<1>2. Joined(e) = <<>>
  BY JoinedNone
<1> HIDE DEF e
<1>3. Joined(Append(e, p)) = Joined(e) \o p
  BY <1>1, JoinedAppend
<1>4. <<>> \o p = p
  BY ConcatEmptySeq
<1> QED BY <1>1, <1>2, <1>3, <1>4

LEMMA JoinedFirst ==
    ASSUME NEW X, NEW ss \in Seq(Seq(X)), ss # <<>>
    PROVE  /\ Head(ss) \in Seq(X) /\ Tail(ss) \in Seq(Seq(X))
           /\ ss = <<Head(ss)>> \o Tail(ss)
           /\ Joined(ss) = Head(ss) \o Joined(Tail(ss))
<1> DEFINE p == Head(ss)
           t == Tail(ss)
           e == <<p>>
<1>1. p \in Seq(X) /\ t \in Seq(Seq(X))
  BY HeadTailProperties
<1>2. ss = e \o t
  OBVIOUS
<1>3. Joined(e) = p
  BY <1>1, JoinedOne
<1>4. e \in Seq(Seq(X))
  BY <1>1
<1> HIDE DEF p, t, e
<1>5. Joined(e \o t) = Joined(e) \o Joined(t)
  BY <1>1, <1>4, JoinedConcat
<1>6. Joined(ss) = p \o Joined(t)
  BY <1>2, <1>3, <1>5
<1> QED BY <1>1, <1>2, <1>6 DEF p, t, e

\* A frame only grows until it ends.
LEMMA RawGrows ==
    ASSUME NEW d \in Decoder, NEW s \in Seq(Byte)
    PROVE  IF Run(d, s).raws = <<>> THEN Len(d.raw) <= Len(Run(d, s).dec.raw)
                                    ELSE Len(d.raw) <= Len(Run(d, s).raws[1])
<1> DEFINE Grows(r) == IF r.raws = <<>> THEN Len(d.raw) <= Len(r.dec.raw)
                                        ELSE Len(d.raw) <= Len(r.raws[1])
           P == {u \in Seq(Byte) : Grows(Run(d, u))}
<1>0. Len(d.raw) \in Nat
  <2>1. d.raw \in Seq(Byte)
    BY DEF Decoder
  <2> QED BY <2>1, LenProperties
<1>1. <<>> \in P
  <2>1. Run(d, <<>>).dec = d /\ Run(d, <<>>).raws = <<>>
    BY RunStarts DEF Start
  <2> QED BY <1>0, <2>1
<1>2. ASSUME NEW u \in P, NEW b \in Byte PROVE Append(u, b) \in P
  <2> DEFINE r == Run(d, u)
             x == r.dec.raw
             z == r.raws
  <2>0. u \in Seq(Byte) /\ Grows(r)
    OBVIOUS
  <2>1. r \in RunState /\ Run(d, Append(u, b)) = Eaten(r, b) /\ Append(u, b) \in Seq(Byte)
    BY <2>0, RunGrows, AppendProperties
  <2>2. x \in Seq(Byte) /\ z \in Seq(Seq(Byte))
    BY <2>1 DEF RunState, Decoder
  <2>3. CASE b # NHDLC_CONTROL_CHAR
    <3>1. Eaten(r, b) = [dec |-> Take(r.dec, b), raws |-> z]
      BY <2>3 DEF Eaten
    <3>2. Len(x) <= Len(Take(r.dec, b).raw)
      <4>1. CASE b = ESCAPE
        <5>1. Take(r.dec, b).raw = x
          BY <4>1 DEF Take
        <5>2. Len(x) \in Nat
          BY <2>2, LenProperties
        <5> QED BY <5>1, <5>2
      <4>2. CASE b # ESCAPE
        <5> DEFINE y == IF r.dec.escape THEN Toggled(b) ELSE b
        <5>1. Take(r.dec, b).raw = Append(x, y)
          BY <4>2 DEF Take
        <5>2. y \in Byte
          BY ToggledByte
        <5> HIDE DEF x, y
        <5>3. Len(Append(x, y)) = Len(x) + 1 /\ Len(x) \in Nat
          BY <2>2, <5>2, AppendProperties, LenProperties
        <5> QED BY <5>1, <5>3 DEF x
      <4> QED BY <4>1, <4>2
    <3>3. Take(r.dec, b).raw \in Seq(Byte)
      <4>1. r.dec \in Decoder
        BY <2>1 DEF RunState
      <4>2. Take(r.dec, b) \in Decoder
        BY <4>1, TakeType
      <4> QED BY <4>2 DEF Decoder
    <3> DEFINE y == Take(r.dec, b).raw
    <3>4. Len(x) \in Nat /\ Len(y) \in Nat
      BY <2>2, <3>3, LenProperties
    <3>5. z = <<>> => Len(d.raw) <= Len(y)
      BY <1>0, <2>0, <3>2, <3>4
    <3>6. Eaten(r, b).raws = z /\ Eaten(r, b).dec.raw = y
      BY <3>1
    <3> QED BY <2>0, <2>1, <3>5, <3>6
  <2>4. CASE b = NHDLC_CONTROL_CHAR /\ x = <<>>
    BY <2>0, <2>1, <2>4 DEF Eaten
  <2>5. CASE b = NHDLC_CONTROL_CHAR /\ x # <<>>
    <3> DEFINE y == Append(z, x)
    <3>1. Eaten(r, b).raws = y
      BY <2>5 DEF Eaten
    <3>2. CASE z = <<>>
      <4>1. Append(<<>>, x) = <<x>> /\ <<x>>[1] = x /\ <<x>> # <<>>
        OBVIOUS
      <4>2. y[1] = x /\ y # <<>>
        BY <3>2, <4>1
      <4> QED BY <2>0, <2>1, <3>1, <3>2, <4>2
    <3>3. CASE z # <<>>
      <4>1. Len(z) \in Nat /\ Len(z) > 0
        BY <2>2, <3>3, EmptySeq, LenProperties
      <4> HIDE DEF x, z
      <4>2. y # <<>> /\ \A i \in 1..Len(z) : y[i] = z[i]
        BY <2>2, AppendProperties
      <4>3. y[1] = z[1]
        BY <4>1, <4>2
      <4> HIDE DEF y
      <4> QED BY <2>0, <2>1, <3>1, <3>3, <4>2, <4>3 DEF z
    <3> QED BY <3>2, <3>3
  <2> QED BY <2>3, <2>4, <2>5
<1>3. P \in SUBSET Seq(Byte)
  OBVIOUS
<1> HIDE DEF P
<1>4. \A u \in Seq(Byte) : u \in P
  BY <1>1, <1>2, <1>3, SeqGrows
<1>5. s \in P
  BY <1>4
<1> QED BY <1>5 DEF P

-----------------------------------------------------------------------------
(* Stretches in which no frame ends.                                       *)

Unmarked(s) == \A i \in 1..Len(s) : s[i] # NHDLC_CONTROL_CHAR

LEMMA UnmarkedConcat ==
    ASSUME NEW s \in Seq(Byte), NEW t \in Seq(Byte), Unmarked(s), Unmarked(t)
    PROVE  Unmarked(s \o t)
<1> DEFINE y == s \o t
<1>0. Len(s) \in Nat /\ Len(t) \in Nat
  BY LenProperties
<1>1. /\ y \in Seq(Byte) /\ Len(y) = Len(s) + Len(t)
      /\ \A i \in 1..(Len(s) + Len(t)) : y[i] = IF i <= Len(s) THEN s[i] ELSE t[i - Len(s)]
  BY ConcatProperties
<1> HIDE DEF y
<1>2. ASSUME NEW i \in 1..Len(y) PROVE y[i] # NHDLC_CONTROL_CHAR
  <2>0. i \in 1..(Len(s) + Len(t))
    BY <1>1
  <2>1. CASE i <= Len(s)
    <3>1. i \in 1..Len(s) /\ y[i] = s[i]
      BY <1>0, <1>1, <2>0, <2>1
    <3> QED BY <3>1 DEF Unmarked
  <2>2. CASE ~(i <= Len(s))
    <3>1. i - Len(s) \in 1..Len(t) /\ y[i] = t[i - Len(s)]
      BY <1>0, <1>1, <2>0, <2>2
    <3> QED BY <3>1 DEF Unmarked
  <2> QED BY <2>1, <2>2
<1> QED BY <1>2 DEF Unmarked, y

LEMMA EscapedUnmarked ==
    ASSUME NEW s \in Seq(Byte)
    PROVE  Unmarked(Escaped(s))
<1> DEFINE P == {u \in Seq(Byte) : Unmarked(Escaped(u))}
<1>1. <<>> \in P
  <2>1. Escaped(<<>>) = <<>> /\ <<>> \in Seq(Byte)
    BY EscapedStarts
  <2>2. Unmarked(<<>>)
    BY DEF Unmarked
  <2> QED BY <2>1, <2>2
<1>2. ASSUME NEW u \in P, NEW b \in Byte PROVE Append(u, b) \in P
  <2> DEFINE x == Escaped(u)
             y == EscapedByte(b)
  <2>1. u \in Seq(Byte) /\ Append(u, b) \in Seq(Byte)
    BY AppendProperties
  <2>2. x \in Seq(Byte) /\ y \in Seq(Byte) /\ Escaped(Append(u, b)) = x \o y
    BY <2>1, EscapedGrows, EscapedByteType
  <2>3. Unmarked(y)
    <3>1. CASE b \in {ESCAPE, NHDLC_CONTROL_CHAR}
      <4> DEFINE t == Toggled(b)
                 z == <<ESCAPE, t>>
      <4>1. t # NHDLC_CONTROL_CHAR /\ y = z
        BY <3>1, ToggledByte DEF EscapedByte
      <4> HIDE DEF t
      <4>2. Len(z) = 2 /\ z[1] = ESCAPE /\ z[2] = t
        OBVIOUS
      <4> HIDE DEF z, y
      <4>3. Unmarked(z)
        BY <4>1, <4>2, ControlByte DEF Unmarked
      <4> QED BY <4>1, <4>3
    <3>2. CASE b \notin {ESCAPE, NHDLC_CONTROL_CHAR}
      <4> DEFINE z == <<b>>
      <4>1. y = z /\ b # NHDLC_CONTROL_CHAR
        BY <3>2 DEF EscapedByte
      <4>2. Len(z) = 1 /\ z[1] = b
        OBVIOUS
      <4> HIDE DEF z, y
      <4>3. Unmarked(z)
        BY <4>1, <4>2 DEF Unmarked
      <4> QED BY <4>1, <4>3
    <3> QED BY <3>1, <3>2
  <2>4. Unmarked(x)
    OBVIOUS
  <2> HIDE DEF x, y
  <2>5. Unmarked(x \o y)
    BY <2>2, <2>3, <2>4, UnmarkedConcat
  <2> QED BY <2>1, <2>2, <2>5
<1>3. P \in SUBSET Seq(Byte)
  OBVIOUS
<1> HIDE DEF P
<1>4. \A u \in Seq(Byte) : u \in P
  BY <1>1, <1>2, <1>3, SeqGrows
<1>5. s \in P
  BY <1>4
<1> QED BY <1>5 DEF P

\* The first frame of a stretch ends where its end marker is.
LEMMA FirstEndOf ==
    ASSUME NEW e \in Seq(Byte), Unmarked(e), NEW t \in Seq(Byte), NEW u,
           u = (e \o <<NHDLC_CONTROL_CHAR>>) \o t
    PROVE  /\ u \in Seq(Byte) /\ Ends(u) # {}
           /\ FirstEnd(u) \in 1..Len(u)
           /\ SubSeq(u, 1, FirstEnd(u) - 1) = e
           /\ SubSeq(u, FirstEnd(u) + 1, Len(u)) = t
<1> DEFINE c == <<NHDLC_CONTROL_CHAR>>
           f == e \o c
           k == FirstEnd(u)
           p == SubSeq(u, 1, k - 1)
           q == SubSeq(u, k + 1, Len(u))
<1>0. Len(e) \in Nat /\ Len(t) \in Nat
  BY LenProperties
<1>1. c \in Seq(Byte) /\ Len(c) = 1 /\ c[1] = NHDLC_CONTROL_CHAR
  BY ControlByte
<1> HIDE DEF c
<1>2. /\ f \in Seq(Byte) /\ Len(f) = Len(e) + Len(c)
      /\ \A i \in 1..(Len(e) + Len(c)) : f[i] = IF i <= Len(e) THEN e[i] ELSE c[i - Len(e)]
  BY <1>1, ConcatProperties
<1>3. u = f \o t
  BY DEF c
<1> HIDE DEF f
<1>a. f \in Seq(Byte)
  BY <1>2
<1> DEFINE g == f \o t
<1>4. /\ g \in Seq(Byte) /\ Len(g) = Len(f) + Len(t)
      /\ \A i \in 1..(Len(f) + Len(t)) : g[i] = IF i <= Len(f) THEN f[i] ELSE t[i - Len(f)]
  BY <1>a, ConcatProperties
<1>b. u = g
  BY <1>3
<1> HIDE DEF g
<1>5. /\ u \in Seq(Byte) /\ Len(u) = Len(f) + Len(t)
      /\ \A i \in 1..(Len(f) + Len(t)) : u[i] = IF i <= Len(f) THEN f[i] ELSE t[i - Len(f)]
  BY <1>b, <1>4
<1>6. Len(f) = Len(e) + 1 /\ Len(u) = Len(e) + 1 + Len(t)
  BY <1>0, <1>1, <1>2, <1>5
<1>7. ASSUME NEW i \in 1..Len(e) PROVE u[i] = e[i]
  <2>1. i \in 1..(Len(e) + Len(c)) /\ i <= Len(e) /\ i \in 1..(Len(f) + Len(t)) /\ i <= Len(f)
    BY <1>0, <1>1, <1>6
  <2> QED BY <2>1, <1>2, <1>5
<1>8. u[Len(e) + 1] = NHDLC_CONTROL_CHAR
  <2>1. /\ Len(e) + 1 \in 1..(Len(e) + Len(c)) /\ ~(Len(e) + 1 <= Len(e))
        /\ Len(e) + 1 \in 1..(Len(f) + Len(t)) /\ Len(e) + 1 <= Len(f)
        /\ (Len(e) + 1) - Len(e) = 1
    BY <1>0, <1>1, <1>6
  <2> QED BY <2>1, <1>1, <1>2, <1>5
<1>9. ASSUME NEW i \in 1..Len(t) PROVE u[Len(e) + 1 + i] = t[i]
  <2>1. /\ Len(e) + 1 + i \in 1..(Len(f) + Len(t)) /\ ~(Len(e) + 1 + i <= Len(f))
        /\ (Len(e) + 1 + i) - Len(f) = i
    BY <1>0, <1>6
  <2> QED BY <2>1, <1>5
<1>10. Ends(u) # {}
  <2>1. Len(e) + 1 \in 1..Len(u)
    BY <1>0, <1>6
  <2> QED BY <2>1, <1>8 DEF Ends
<1>11. /\ k \in 1..Len(u) /\ u[k] = NHDLC_CONTROL_CHAR
       /\ \A i \in 1..(k - 1) : u[i] # NHDLC_CONTROL_CHAR
  BY <1>5, <1>10, FirstEndIs
<1> HIDE DEF k
<1>12. k = Len(e) + 1
  <2>1. ASSUME k <= Len(e) PROVE FALSE
    <3>1. k \in 1..Len(e)
      BY <2>1, <1>0, <1>6, <1>11
    <3>2. e[k] = NHDLC_CONTROL_CHAR
      BY <3>1, <1>7, <1>11
    <3> QED BY <3>1, <3>2 DEF Unmarked
  <2>2. ASSUME Len(e) + 1 <= k - 1 PROVE FALSE
    <3>1. Len(e) + 1 \in 1..(k - 1)
      BY <2>2, <1>0, <1>6, <1>11
    <3> QED BY <3>1, <1>8, <1>11
  <2> QED BY <2>1, <2>2, <1>0, <1>6, <1>11
<1>13. p = e
  <2>1. p \in Seq(Byte) /\ Len(p) = k - 1 /\ \A i \in 1..(k - 1) : p[i] = u[i]
    BY <1>5, <1>11, CutAt
  <2> HIDE DEF p
  <2>2. Len(p) = Len(e) /\ \A i \in 1..Len(p) : p[i] = e[i]
    BY <2>1, <1>0, <1>7, <1>12
  <2> QED BY <2>1, <2>2, SeqEqual
<1>14. q = t
  <2>1. q \in Seq(Byte)
    BY <1>5, <1>11, CutAt
  <2>2. Len(q) = Len(t) /\ \A i \in 1..Len(t) : q[i] = u[Len(e) + 1 + i]
    <3>1. Len(u) \in Nat /\ k \in Nat /\ k + 1 <= Len(u) + 1 /\ k + 1 \in 1..(Len(u) + 1)
          /\ Len(u) - (k + 1) + 1 = Len(t)
      BY <1>0, <1>6, <1>12
    <3>2. Len(q) = Len(t) /\ \A i \in 1..Len(t) : q[i] = u[(k + 1) + i - 1]
      <4>1. \A i \in 1..Len(t) : (k + 1) + i - 1 = k + i
        BY <3>1, <1>0
      <4> QED BY <3>1, <4>1, <1>0, <1>5
    <3>3. \A i \in 1..Len(t) : (k + 1) + i - 1 = Len(e) + 1 + i
      BY <1>0, <1>12
    <3> QED BY <3>2, <3>3
  <2> HIDE DEF q
  <2>3. \A i \in 1..Len(q) : q[i] = t[i]
    BY <2>2, <1>9
  <2> QED BY <2>1, <2>2, <2>3, SeqEqual
<1> QED BY <1>5, <1>10, <1>11, <1>13, <1>14 DEF k

\* A call that finds whole frames in the ring takes the first of them, and is
\* ready for the next.
LEMMA DecodesFirst ==
    ASSUME NEW r \in Ring, NEW m \in Seq(Byte), NEW t \in Seq(Byte),
           Unread(r) = hdlc_encode(m) \o t,
           NEW one, one = hdlc_decode_one(FreshDecoder, r)
    PROVE  /\ one.found /\ one.raw = RawOf(m) /\ one.dec = FreshDecoder
           /\ one.ring \in Ring /\ Unread(one.ring) = t
<1> DEFINE x == RawOf(m)
           e == Escaped(x)
           u == Unread(r)
           k == FirstEnd(u)
           p == SubSeq(u, 1, k - 1)
<1>1. x \in Seq(Byte) /\ x # <<>>
  <2>1. x \in Seq(Byte) /\ Len(x) = Len(m) + 2 /\ Len(m) \in Nat
    BY FrameType, LenProperties DEF RawOf
  <2> QED BY <2>1
<1>2. e \in Seq(Byte) /\ Unmarked(e)
  BY <1>1, EscapedType, EscapedUnmarked
<1>3. Run(FreshDecoder, e) = [dec |-> [raw |-> x, escape |-> FALSE], raws |-> <<>>]
  BY <1>1, DecodesEscaped
<1>4. u = (e \o <<NHDLC_CONTROL_CHAR>>) \o t
  BY DEF hdlc_encode, RawOf
<1>5. Fed(FreshDecoder, e) = [raw |-> x, escape |-> FALSE]
  <2>1. Run(FreshDecoder, e) = [dec |-> Fed(FreshDecoder, e), raws |-> <<>>]
    BY <1>2, FreshType, RunIsFed DEF Unmarked
  <2> QED BY <2>1, <1>3
<1> HIDE DEF x, e
<1>6. /\ u \in Seq(Byte) /\ Ends(u) # {} /\ k \in 1..Len(u) /\ p = e
      /\ SubSeq(u, k + 1, Len(u)) = t
  BY ZenonT(30), <1>2, <1>4, FirstEndOf
<1>7. /\ one.found = (Ends(u) # {} /\ Fed(FreshDecoder, p).raw # <<>>)
      /\ one.raw = Fed(FreshDecoder, p).raw
      /\ one.found => one.dec = FreshDecoder
      /\ one.ring = Advanced(r, k)
  BY <1>6 DEF hdlc_decode_one
<1> HIDE DEF u, k, p
<1>8. one.found /\ one.raw = x /\ one.dec = FreshDecoder
  <2>1. Fed(FreshDecoder, p).raw = x
    BY <1>5, <1>6
  <2>2. Ends(u) # {} /\ Fed(FreshDecoder, p).raw # <<>>
    BY <2>1, <1>1, <1>6
  <2>3. one.found
    BY <2>2, <1>7
  <2> QED BY <2>1, <2>3, <1>7
<1>9. Advanced(r, k) \in Ring /\ Unread(Advanced(r, k)) = SubSeq(u, k + 1, Len(u))
  <2>1. k \in 0..Len(Unread(r))
    BY <1>6 DEF u
  <2> QED BY <2>1, RingTakes DEF u
<1> QED BY <1>6, <1>7, <1>8, <1>9 DEF x

\* Where a ring is empty there is nothing to find.
LEMMA DecodesNothing ==
    ASSUME NEW r \in Ring, Unread(r) = <<>>, NEW d \in Decoder,
           NEW one, one = hdlc_decode_one(d, r)
    PROVE  ~one.found /\ one.ring \in Ring /\ Unread(one.ring) = <<>>
<1>1. Ends(Unread(r)) = {} /\ Len(Unread(r)) = 0
  BY DEF Ends
<1>2. ~one.found /\ one.ring = Advanced(r, 0)
  BY <1>1 DEF hdlc_decode_one
<1>3. Advanced(r, 0) \in Ring /\ Unread(Advanced(r, 0)) = SubSeq(Unread(r), 1, 0)
  BY <1>1, RingTakes
<1>4. SubSeq(Unread(r), 1, 0) = <<>>
  BY <1>1, SubSeqEmpty
<1> QED BY <1>2, <1>3, <1>4

-----------------------------------------------------------------------------
(* Bytes, rings and sequences as the channels use them.                    *)

LEMMA ByteNat == \A b \in Byte : b \in Nat
BY DEF Byte

LEMMA SpaceType ==
    ASSUME NEW r \in Ring
    PROVE  CIRC_SPACE_TO_END(r) \in Nat
<1>1. /\ N \in Nat /\ r.head \in 0..(N - 1)
      /\ Count(r) \in 0..(N - 1) /\ CIRC_SPACE(r) = N - 1 - Count(r)
  BY RingNumbers
<1> QED BY <1>1 DEF CIRC_SPACE_TO_END, N

LEMMA FreshRingIs == FreshRing \in Ring /\ Unread(FreshRing) = <<>>
<1>1. HDLC_BUF_SIZE \in Nat /\ HDLC_BUF_SIZE >= 2
  BY HdlcAssumption
<1>2. 0 \in Index /\ 0 \in Byte
  BY <1>1 DEF Index, Byte
<1>3. FreshRing \in Ring
  BY <1>2 DEF FreshRing, Ring
<1>4. Count(FreshRing) = 0
  BY <1>1 DEF FreshRing, Count, Wrap, N
<1>5. Unread(FreshRing) \in Seq(Byte) /\ Len(Unread(FreshRing)) = 0
  BY <1>3, <1>4, UnreadType
<1>6. Unread(FreshRing) = <<>>
  BY <1>5, EmptySeq
<1> QED BY <1>3, <1>6

\* A packet is cut off the front of what is to be sent.
LEMMA CutOff ==
    ASSUME NEW s \in Seq(Byte), NEW n \in 1..Len(s)
    PROVE  /\ SubSeq(s, 1, n) \in Seq(Byte) /\ SubSeq(s, n + 1, Len(s)) \in Seq(Byte)
           /\ SubSeq(s, 1, n) \o SubSeq(s, n + 1, Len(s)) = s
<1>0. Len(s) \in Nat /\ n \in Nat /\ \A i \in 1..Len(s) : s[i] \in Byte
  BY LenProperties
<1>1. SubSeq(s, 1, n) \in Seq(Byte)
  <2>1. \A i \in 1..n : s[i] \in Byte
    BY <1>0
  <2> QED BY <1>0, <2>1, SubSeqProperties
<1>2. SubSeq(s, n + 1, Len(s)) \in Seq(Byte)
  <2>1. \A i \in (n + 1)..Len(s) : s[i] \in Byte
    BY <1>0
  <2> QED BY <1>0, <2>1, SubSeqProperties
<1>3. SubSeq(s, 1, n) \o SubSeq(s, n + 1, Len(s)) = SubSeq(s, 1, Len(s))
  <2>1. 1 \in 1..(Len(s) + 1) /\ n \in (1 - 1)..Len(s) /\ Len(s) \in n..Len(s)
    BY <1>0
  <2> QED BY <2>1, ConcatAdjacentSubSeq
<1>4. SubSeq(s, 1, Len(s)) = s
  BY SubSeqFull
<1> QED BY <1>1, <1>2, <1>3, <1>4

LEMMA MessageType ==
    ASSUME NEW raw \in Seq(Byte)
    PROVE  Message(raw) \in Seq(Byte)
<1>0. Len(raw) \in Nat /\ \A i \in 1..Len(raw) : raw[i] \in Byte
  BY LenProperties
<1> DEFINE k == Len(raw) - 2
<1>1. k \in Int /\ \A i \in 1..k : raw[i] \in Byte
  BY <1>0
<1> HIDE DEF k
<1>2. SubSeq(raw, 1, k) \in Seq(Byte)
  BY <1>1, SubSeqProperties
<1> QED BY <1>2 DEF k, Message, msglen

LEMMA Associates ==
    ASSUME NEW A, NEW s \in Seq(A), NEW t \in Seq(A), NEW u \in Seq(A)
    PROVE  s \o (t \o u) = (s \o t) \o u
BY SMTT(30), ConcatAssociative

LEMMA Regroup ==
    /\ \A s, t, u \in Seq(Byte) : s \o (t \o u) = (s \o t) \o u
    /\ \A s, t, u \in Seq(Seq(Byte)) : s \o (t \o u) = (s \o t) \o u
<1>1. \A s, t, u \in Seq(Byte) : s \o (t \o u) = (s \o t) \o u
  BY Associates
<1>2. \A s, t, u \in Seq(Seq(Byte)) : s \o (t \o u) = (s \o t) \o u
  BY Associates
<1> QED BY <1>1, <1>2
=============================================================================
