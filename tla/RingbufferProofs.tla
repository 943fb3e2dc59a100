-------------------------- MODULE RingbufferProofs --------------------------
(***************************************************************************)
(* Proofs about Ringbuffer, for every size of the three buffers, every     *)
(* number of formats and every size of an entry: the ring is the bytes of  *)
(* the newest entries, whole, and of as many as fit; and only an entry     *)
(* larger than the ring empties the queue of entries.                      *)
(***************************************************************************)
EXTENDS Ringbuffer, SequenceTheorems, TLAPS

\* What is left of a sequence after its first n elements.
After(s, n) == SubSeq(s, n + 1, Len(s))

\* The offsets in st grow and stay within sm.
Ascending(st, sm) ==
  /\ \A n \in 1 .. Len(st) : st[n] <= Len(sm)
  /\ \A m, n \in 1 .. Len(st) : m <= n => st[m] <= st[n]

\* The buffer and the queue are what is left of the stream sm and of the
\* entries st after g of them were dropped, and those had to be.
Positioned(buf, q, st, sm, g) ==
  /\ g \in 0 .. Len(st) - 1
  /\ q = After(st, g)
  /\ buf = After(sm, st[g + 1])
  /\ g > 0 => Len(sm) - st[g] >= LogBufferSize

\* An entry that is complete fits the ring.
Complete(st) ==
  \A n \in 1 .. Len(st) - 1 : st[n + 1] - st[n] < LogBufferSize

\* Nothing was logged.
Fresh ==
  /\ m_buffer = <<>> /\ log_buffer_indices = <<>> /\ stream = <<>>
  /\ m_runlength_index = 0 /\ m_current_runlength = 0
  /\ state # "logging" /\ state # "undefined"

\* The call in progress, or the last one, belongs to the current run.
InCurrentRun == calls[Len(calls)] = m_runlength_index

\* The inductive invariant.
IInv ==
  /\ TypeOK
  /\ m_buffer_index = Len(stream)
  /\ Len(calls) = Len(starts)
  /\ Ascending(starts, stream)
  /\ Complete(starts)
  /\ starts = <<>> => Fresh
  /\ starts # <<>> => InCurrentRun
  /\ Alive /\ starts # <<>> =>
       Positioned(m_buffer, log_buffer_indices, starts, stream, Gone)
         /\ Len(m_buffer) < LogBufferSize
  /\ OnlyOversizedEntriesOverflow

-----------------------------------------------------------------------------

\* The length and the elements of what is left.
LEMMA AfterFacts ==
  ASSUME NEW S, NEW s \in Seq(S), NEW n \in 0 .. Len(s)
  PROVE  /\ After(s, n) \in Seq(S)
         /\ Len(After(s, n)) = Len(s) - n
         /\ \A i \in 1 .. Len(s) - n : After(s, n)[i] = s[n + i]
<1>1. Len(s) \in Nat
  BY LenProperties
<1>2. \A i \in n + 1 .. Len(s) : s[i] \in S
  BY <1>1, ElementOfSeq
<1>3. n + 1 \in Int /\ Len(s) \in Int
  BY <1>1
<1>4. /\ SubSeq(s, n + 1, Len(s)) \in Seq(S)
      /\ Len(SubSeq(s, n + 1, Len(s))) = IF n + 1 <= Len(s) THEN Len(s) - (n + 1) + 1 ELSE 0
      /\ \A i \in 1 .. Len(s) - (n + 1) + 1 :
           SubSeq(s, n + 1, Len(s))[i] = s[n + 1 + i - 1]
  BY <1>2, <1>3, SubSeqProperties
<1>5. Len(s) - (n + 1) + 1 = Len(s) - n /\ \A i \in Int : n + 1 + i - 1 = n + i
  BY <1>1
<1>6. Len(SubSeq(s, n + 1, Len(s))) = Len(s) - n
  BY <1>1, <1>4
<1>7. ASSUME NEW i \in 1 .. Len(s) - n
      PROVE  SubSeq(s, n + 1, Len(s))[i] = s[n + i]
  BY <1>4, <1>5
<1> QED BY <1>4, <1>6, <1>7 DEF After

\* Dropping nothing.
LEMMA AfterNothing ==
  ASSUME NEW S, NEW s \in Seq(S)
  PROVE  After(s, 0) = s
<1> DEFINE a == After(s, 0)
<1>1. Len(s) \in Nat /\ 0 \in 0 .. Len(s)
  BY LenProperties
<1>2. a \in Seq(S) /\ Len(a) = Len(s) - 0 /\ \A i \in 1 .. Len(s) - 0 : a[i] = s[0 + i]
  BY <1>1, AfterFacts
<1> HIDE DEF a
<1>3. Len(a) = Len(s) /\ \A i \in 1 .. Len(a) : a[i] = s[i]
  BY <1>1, <1>2
<1>4. a = s
  BY <1>2, <1>3, SeqEqual
<1> QED BY <1>4 DEF a

\* Dropping twice.
LEMMA AfterAfter ==
  ASSUME NEW S, NEW s \in Seq(S), NEW m \in 0 .. Len(s), NEW n \in 0 .. Len(s) - m
  PROVE  After(After(s, m), n) = After(s, m + n)
<1> DEFINE a == After(s, m)
           b == After(s, m + n)
<1>1. Len(s) \in Nat /\ m + n \in 0 .. Len(s)
  BY LenProperties
<1>2. a \in Seq(S) /\ Len(a) = Len(s) - m /\ \A i \in 1 .. Len(s) - m : a[i] = s[m + i]
  BY AfterFacts
<1>3. b \in Seq(S) /\ Len(b) = Len(s) - (m + n)
      /\ \A i \in 1 .. Len(s) - (m + n) : b[i] = s[m + n + i]
  BY <1>1, AfterFacts
<1> HIDE DEF a, b
<1>4. n \in 0 .. Len(a) /\ a \in Seq(S)
  BY <1>2
<1>5. After(a, n) \in Seq(S) /\ Len(After(a, n)) = Len(a) - n
      /\ \A i \in 1 .. Len(a) - n : After(a, n)[i] = a[n + i]
  BY <1>4, AfterFacts
<1>6. Len(After(a, n)) = Len(b)
  BY <1>1, <1>2, <1>3, <1>5
<1>7. ASSUME NEW i \in 1 .. Len(After(a, n))
      PROVE  After(a, n)[i] = b[i]
  <2>1. i \in 1 .. Len(a) - n /\ i \in 1 .. Len(s) - (m + n) /\ n + i \in 1 .. Len(s) - m
    BY <1>1, <1>2, <1>5
  <2>2. m + (n + i) = m + n + i
    BY <1>1
  <2> QED BY <2>1, <2>2, <1>2, <1>3, <1>5
<1>8. After(a, n) = b
  BY <1>3, <1>5, <1>6, <1>7, SeqEqual
<1> QED BY <1>8 DEF a, b

\* Appending to what is left.
LEMMA AfterConcat ==
  ASSUME NEW S, NEW s \in Seq(S), NEW t \in Seq(S), NEW n \in 0 .. Len(s)
  PROVE  After(s \o t, n) = After(s, n) \o t
<1> DEFINE a == After(s, n)
           u == s \o t
<1>1. Len(s) \in Nat /\ Len(t) \in Nat
  BY LenProperties
<1>2. a \in Seq(S) /\ Len(a) = Len(s) - n /\ \A i \in 1 .. Len(s) - n : a[i] = s[n + i]
  BY AfterFacts
<1>3. u \in Seq(S) /\ Len(u) = Len(s) + Len(t)
      /\ \A i \in 1 .. Len(s) + Len(t) : u[i] = IF i <= Len(s) THEN s[i] ELSE t[i - Len(s)]
  BY ConcatProperties
<1> HIDE DEF a, u
<1>4. n \in 0 .. Len(u) /\ u \in Seq(S)
  BY <1>1, <1>3
<1>5. After(u, n) \in Seq(S) /\ Len(After(u, n)) = Len(u) - n
      /\ \A i \in 1 .. Len(u) - n : After(u, n)[i] = u[n + i]
  BY <1>4, AfterFacts
<1>6. a \o t \in Seq(S) /\ Len(a \o t) = Len(a) + Len(t)
      /\ \A i \in 1 .. Len(a) + Len(t) : (a \o t)[i] = IF i <= Len(a) THEN a[i] ELSE t[i - Len(a)]
  BY <1>2, ConcatProperties
<1>7. Len(After(u, n)) = Len(a \o t)
  BY <1>1, <1>2, <1>3, <1>5, <1>6
<1>8. ASSUME NEW i \in 1 .. Len(After(u, n))
      PROVE  After(u, n)[i] = (a \o t)[i]
  <2>1. /\ i \in 1 .. Len(u) - n /\ n + i \in 1 .. Len(s) + Len(t)
        /\ i \in 1 .. Len(a) + Len(t)
    BY <1>1, <1>2, <1>3, <1>5
  <2>2. CASE i <= Len(a)
    <3>1. n + i <= Len(s) /\ i \in 1 .. Len(s) - n
      BY <2>1, <2>2, <1>1, <1>2
    <3>2. After(u, n)[i] = u[n + i]
      BY <2>1, <1>5
    <3>3. u[n + i] = s[n + i]
      BY <2>1, <3>1, <1>3
    <3>4. (a \o t)[i] = a[i]
      BY <2>1, <2>2, <1>6
    <3>5. a[i] = s[n + i]
      BY <3>1, <1>2
    <3> QED BY <3>2, <3>3, <3>4, <3>5
  <2>3. CASE ~ (i <= Len(a))
    <3>1. ~ (n + i <= Len(s)) /\ n + i - Len(s) = i - Len(a)
      BY <2>1, <2>3, <1>1, <1>2
    <3>2. After(u, n)[i] = u[n + i]
      BY <2>1, <1>5
    <3>3. u[n + i] = t[n + i - Len(s)]
      BY <2>1, <3>1, <1>3
    <3>4. (a \o t)[i] = t[i - Len(a)]
      BY <2>1, <2>3, <1>6
    <3> QED BY <3>1, <3>2, <3>3, <3>4
  <2> QED BY <2>2, <2>3
<1>9. After(u, n) = a \o t
  BY <1>5, <1>6, <1>7, <1>8, SeqEqual
<1> QED BY <1>9 DEF a, u

-----------------------------------------------------------------------------

\* An entry is pushed: the queue and the history of starts grow alike.
LEMMA PushPositions ==
  ASSUME NEW st \in Seq(Nat), NEW sm \in Seq(Byte), NEW buf, NEW q, NEW g,
         Positioned(buf, q, st, sm, g), Ascending(st, sm)
  PROVE  /\ Positioned(buf, Append(q, Len(sm)), Append(st, Len(sm)), sm, g)
         /\ Ascending(Append(st, Len(sm)), sm)
<1> DEFINE e == Len(sm)
           st2 == Append(st, e)
<1>1. e \in Nat /\ Len(st) \in Nat
  BY LenProperties
<1>2. st2 \in Seq(Nat) /\ Len(st2) = Len(st) + 1 /\ st2[Len(st) + 1] = e
      /\ \A n \in 1 .. Len(st) : st2[n] = st[n]
  BY <1>1, AppendProperties
<1>3. g \in 0 .. Len(st) - 1 /\ q = After(st, g)
  BY DEF Positioned
<1>4. Append(q, e) = After(st2, g)
  <2>1. st2 = st \o <<e>>
    BY <1>1, AppendIsConcat
  <2>2. <<e>> \in Seq(Nat) /\ g \in 0 .. Len(st)
    BY <1>1, <1>3
  <2>3. After(st \o <<e>>, g) = After(st, g) \o <<e>>
    BY <2>2, AfterConcat
  <2>4. After(st, g) \in Seq(Nat)
    BY <2>2, AfterFacts
  <2>5. Append(After(st, g), e) = After(st, g) \o <<e>>
    BY <1>1, <2>4, AppendIsConcat
  <2> QED BY <1>3, <2>1, <2>3, <2>5
<1>5. st2[g + 1] = st[g + 1] /\ (g > 0 => st2[g] = st[g])
  BY <1>1, <1>2, <1>3
<1>6. g \in 0 .. Len(st2) - 1
  BY <1>1, <1>2, <1>3
<1>7. Positioned(buf, Append(q, e), st2, sm, g)
  BY <1>4, <1>5, <1>6 DEF Positioned
<1>8. Ascending(st2, sm)
  <2>1. ASSUME NEW n \in 1 .. Len(st2)
        PROVE  st2[n] <= e
    <3>1. CASE n \in 1 .. Len(st)
      BY <3>1, <1>2 DEF Ascending
    <3>2. CASE n = Len(st) + 1
      BY <3>2, <1>1, <1>2
    <3>3. n \in 1 .. Len(st) \/ n = Len(st) + 1
      BY <1>1, <1>2
    <3> QED BY <3>1, <3>2, <3>3
  <2>2. ASSUME NEW m \in 1 .. Len(st2), NEW n \in 1 .. Len(st2), m <= n
        PROVE  st2[m] <= st2[n]
    <3>1. CASE n = Len(st) + 1
      BY <3>1, <2>1, <1>2
    <3>2. CASE n # Len(st) + 1
      <4>1. m \in 1 .. Len(st) /\ n \in 1 .. Len(st)
        BY <3>2, <2>2, <1>1, <1>2
      <4>2. st[m] <= st[n]
        BY <4>1, <2>2 DEF Ascending
      <4> QED BY <4>1, <4>2, <1>2
    <3> QED BY <3>1, <3>2
  <2> QED BY <2>1, <2>2 DEF Ascending
<1> QED BY <1>7, <1>8

\* The bytes dropped with the first k entries are those between two starts.
LEMMA DroppedBytes ==
  ASSUME NEW st \in Seq(Nat), NEW sm \in Seq(Byte), NEW q, NEW g,
         Positioned(m_buffer, q, st, sm, g), Ascending(st, sm)
  PROVE  /\ Len(q) = Len(st) - g /\ Len(q) \in Nat \ {0}
         /\ Len(m_buffer) = Len(sm) - st[g + 1]
         /\ \A k \in 0 .. Len(q) - 1 :
              /\ g + k + 1 \in 1 .. Len(st)
              /\ Dropped(q, k) = st[g + k + 1] - st[g + 1]
              /\ Dropped(q, k) \in 0 .. Len(m_buffer)
<1>1. Len(sm) \in Nat /\ Len(st) \in Nat /\ g \in 0 .. Len(st) - 1 /\ g \in 0 .. Len(st)
      /\ g + 1 \in 1 .. Len(st)
  <2>1. Len(sm) \in Nat /\ Len(st) \in Nat
    BY LenProperties
  <2> QED BY <2>1 DEF Positioned
<1>2. \A n \in 1 .. Len(st) : st[n] \in Nat /\ st[n] <= Len(sm)
  BY ElementOfSeq DEF Ascending
<1>3. q = After(st, g) /\ m_buffer = After(sm, st[g + 1])
  BY DEF Positioned
<1>4. Len(q) = Len(st) - g /\ \A i \in 1 .. Len(st) - g : q[i] = st[g + i]
  BY <1>1, <1>3, AfterFacts
<1>5. st[g + 1] \in 0 .. Len(sm)
  BY <1>1, <1>2
<1>6. Len(m_buffer) = Len(sm) - st[g + 1]
  BY <1>3, <1>5, AfterFacts
<1>7. Len(q) \in Nat \ {0}
  BY <1>1, <1>4
<1>8. ASSUME NEW k \in 0 .. Len(q) - 1
      PROVE  /\ g + k + 1 \in 1 .. Len(st)
             /\ Dropped(q, k) = st[g + k + 1] - st[g + 1]
             /\ Dropped(q, k) \in 0 .. Len(m_buffer)
  <2>1. g + k + 1 \in 1 .. Len(st) /\ k + 1 \in 1 .. Len(st) - g /\ g + 1 <= g + k + 1
        /\ g + (k + 1) = g + k + 1 /\ 1 \in 1 .. Len(st) - g
    <3> DEFINE N == Len(st)
               n == Len(q)
    <3>1. N \in Nat /\ g \in 0 .. N - 1 /\ n = N - g /\ k \in 0 .. n - 1
      BY <1>1, <1>4
    <3> HIDE DEF N, n
    <3>2. /\ g + k + 1 \in 1 .. N /\ k + 1 \in 1 .. N - g /\ g + 1 <= g + k + 1
          /\ g + (k + 1) = g + k + 1 /\ 1 \in 1 .. N - g
      BY <3>1
    <3> QED BY <3>2 DEF N
  <2>2. q[k + 1] = st[g + k + 1] /\ q[1] = st[g + 1]
    BY <2>1, <1>4
  <2>3. st[g + 1] <= st[g + k + 1]
    BY <2>1, <1>1 DEF Ascending
  <2>4. st[g + k + 1] \in Nat /\ st[g + k + 1] <= Len(sm)
    BY <2>1, <1>2
  <2>5. Dropped(q, k) = st[g + k + 1] - st[g + 1]
    BY <2>2 DEF Dropped
  <2> DEFINE a == st[g + 1]
             b == st[g + k + 1]
  <2>6. a \in Nat /\ b \in Nat /\ a <= b /\ b <= Len(sm) /\ Len(m_buffer) = Len(sm) - a
    BY <2>3, <2>4, <1>5, <1>6, <1>1
  <2> HIDE DEF a, b
  <2>7. b - a \in 0 .. Len(m_buffer)
    BY <2>6, <1>1
  <2> QED BY <2>1, <2>5, <2>7 DEF a, b
<1> QED BY <1>4, <1>6, <1>7, <1>8

\* The buffer when k entries were dropped and the bytes added.
NextBuffer(q, k, bytes) ==
  SubSeq(m_buffer, Dropped(q, k) + 1, Len(m_buffer)) \o bytes

\* The loop of buffer_or_write: k entries are dropped, the least number that
\* makes room, and the bytes are added.
LEMMA WritePositions ==
  ASSUME NEW st \in Seq(Nat), NEW sm \in Seq(Byte), NEW q, NEW g,
         m_buffer \in Seq(Byte), NEW bytes \in Seq(Byte),
         Positioned(m_buffer, q, st, sm, g), Ascending(st, sm),
         NEW k \in 0 .. Len(q) - 1, FirstFit(q, k, Len(bytes)),
         NEW buf2, buf2 = NextBuffer(q, k, bytes)
  PROVE  /\ Positioned(buf2, SubSeq(q, k + 1, Len(q)), st, sm \o bytes, g + k)
         /\ Ascending(st, sm \o bytes)
         /\ buf2 \in Seq(Byte)
         /\ Len(buf2) < LogBufferSize
         /\ Len(buf2) = Len(sm \o bytes) - st[g + k + 1]
<1> DEFINE sm2 == sm \o bytes
           N == Len(st)
           L == Len(sm)
           B == Len(bytes)
<1>1. N \in Nat /\ L \in Nat /\ B \in Nat /\ sm2 \in Seq(Byte) /\ Len(sm2) = L + B
  BY LenProperties, ConcatProperties
<1>2. g \in 0 .. N - 1 /\ q = After(st, g) /\ m_buffer = After(sm, st[g + 1])
      /\ (g > 0 => L - st[g] >= LogBufferSize)
  BY DEF Positioned
<1>3. /\ Len(q) = N - g /\ Len(q) \in Nat \ {0}
      /\ Len(m_buffer) = L - st[g + 1]
      /\ \A j \in 0 .. Len(q) - 1 :
           /\ g + j + 1 \in 1 .. N
           /\ Dropped(q, j) = st[g + j + 1] - st[g + 1]
           /\ Dropped(q, j) \in 0 .. Len(m_buffer)
  BY DroppedBytes
<1>4. \A n \in 1 .. N : st[n] \in Nat /\ st[n] <= L
  BY ElementOfSeq DEF Ascending
<1> HIDE DEF sm2, N, L, B
<1>5. g + 1 \in 1 .. N /\ g + k + 1 \in 1 .. N /\ g + k \in 0 .. N - 1 /\ k \in 0 .. N - g
      /\ g \in 0 .. N /\ k \in Nat
  BY <1>1, <1>2, <1>3
<1>6. st[g + 1] \in 0 .. L /\ st[g + k + 1] \in 0 .. L
  BY <1>1, <1>4, <1>5
<1>7. SubSeq(q, k + 1, Len(q)) = After(st, g + k)
  <2>1. After(After(st, g), k) = After(st, g + k)
    BY <1>5, AfterAfter DEF N
  <2> QED BY <2>1, <1>2 DEF After
<1>8. buf2 = After(sm2, st[g + k + 1])
  <2> DEFINE a == st[g + 1]
             b == st[g + k + 1]
             d == Dropped(q, k)
  <2>1. a \in 0 .. L /\ b \in 0 .. L /\ d = b - a /\ d \in 0 .. L - a
    BY <1>3, <1>6
  <2>2. SubSeq(m_buffer, d + 1, Len(m_buffer)) = After(After(sm, a), d)
    BY <1>2 DEF After
  <2> HIDE DEF a, b, d
  <2>3. After(After(sm, a), d) = After(sm, a + d)
    BY <2>1, AfterAfter DEF L
  <2>4. a + d = b
    BY <2>1, <1>1
  <2>5. After(sm, b) \o bytes = After(sm2, b)
    BY <2>1, AfterConcat DEF sm2, L
  <2> QED BY <2>2, <2>3, <2>4, <2>5 DEF b, d, NextBuffer
<1>9. Len(buf2) = L + B - st[g + k + 1] /\ buf2 \in Seq(Byte)
  <2> DEFINE b == st[g + k + 1]
  <2>1. b \in 0 .. L /\ buf2 = After(sm2, b)
    BY <1>6, <1>8
  <2> HIDE DEF b
  <2>2. b \in 0 .. Len(sm2)
    BY <2>1, <1>1
  <2>3. After(sm2, b) \in Seq(Byte) /\ Len(After(sm2, b)) = Len(sm2) - b
    BY <2>2, <1>1, AfterFacts
  <2>4. Len(buf2) = Len(sm2) - b /\ buf2 \in Seq(Byte)
    BY <2>1, <2>3
  <2>5. Len(buf2) = L + B - b
    BY <2>1, <2>4, <1>1
  <2> QED BY <2>4, <2>5 DEF b
<1>10. Len(buf2) < LogBufferSize
  <2>1. Len(m_buffer) - Dropped(q, k) + B < LogBufferSize
    BY DEF FirstFit, Fits, B
  <2>2. Len(m_buffer) - Dropped(q, k) + B = L + B - st[g + k + 1]
    <3> DEFINE a == st[g + 1]
               b == st[g + k + 1]
    <3>1. a \in Nat /\ b \in Nat /\ Len(m_buffer) = L - a /\ Dropped(q, k) = b - a
      BY <1>3, <1>6
    <3> HIDE DEF a, b
    <3>2. L - a - (b - a) + B = L + B - b
      BY <3>1, <1>1
    <3> QED BY <3>1, <3>2 DEF b
  <2> QED BY <2>1, <2>2, <1>9
<1>11. g + k > 0 => Len(sm2) - st[g + k] >= LogBufferSize
  <2>1. CASE k = 0 /\ g > 0
    <3>1. g + k = g /\ g \in 1 .. N
      BY <2>1, <1>5
    <3> DEFINE b == st[g]
    <3>2. b \in Nat /\ L - b >= LogBufferSize
      BY <2>1, <3>1, <1>2, <1>4
    <3>3. st[g + k] = b
      BY <3>1
    <3> HIDE DEF b
    <3>4. L \in Nat /\ B \in Nat /\ LogBufferSize \in Nat /\ Len(sm2) = L + B
      BY <1>1, RingAssumption
    <3>5. Len(sm2) - b >= LogBufferSize
      BY <3>2, <3>4
    <3> QED BY <3>3, <3>5
  <2>2. CASE k > 0
    <3>1. k - 1 \in 0 .. Len(q) - 1 /\ k - 1 \in 0 .. k - 1 /\ g + (k - 1) + 1 = g + k
      BY <2>2, <1>3, <1>5
    <3>2. ~ (Len(m_buffer) - Dropped(q, k - 1) + B < LogBufferSize)
      BY <3>1 DEF FirstFit, Fits, B
    <3>3. Dropped(q, k - 1) = st[g + k] - st[g + 1] /\ g + k \in 1 .. N
      BY <3>1, <1>3
    <3> DEFINE a == st[g + 1]
               b == st[g + k]
    <3>4. a \in Nat /\ b \in Nat
      BY <3>3, <1>4, <1>5
    <3>5. Len(m_buffer) = L - a /\ Dropped(q, k - 1) = b - a
      BY <3>3, <1>3
    <3> HIDE DEF a, b
    <3>6. L \in Nat /\ B \in Nat /\ LogBufferSize \in Nat /\ Len(sm2) = L + B
      BY <1>1, RingAssumption
    <3>7. ~ (L - a - (b - a) + B < LogBufferSize)
      BY <3>2, <3>5
    <3>8. Len(sm2) - b >= LogBufferSize
      BY <3>4, <3>6, <3>7
    <3> QED BY <3>8 DEF b
  <2> QED BY <2>1, <2>2, <1>5
<1>12. Positioned(buf2, SubSeq(q, k + 1, Len(q)), st, sm2, g + k)
  BY <1>5, <1>7, <1>8, <1>11 DEF Positioned, N
<1>13. Ascending(st, sm2)
  <2>1. \A n \in 1 .. N : st[n] <= Len(sm2)
    BY <1>1, <1>4
  <2> QED BY <2>1 DEF Ascending, N
<1>14. Len(buf2) = Len(sm2) - st[g + k + 1]
  <2> DEFINE b == st[g + k + 1]
  <2>1. b \in 0 .. L /\ Len(buf2) = L + B - b
    BY <1>6, <1>9
  <2> HIDE DEF b
  <2>2. Len(buf2) = Len(sm2) - b
    BY <2>1, <1>1
  <2> QED BY <2>2 DEF b
<1> QED BY <1>9, <1>10, <1>12, <1>13, <1>14 DEF sm2

\* The bytes of one write.
LEMMA BytesTyped ==
  ASSUME NEW kind \in {"index", "args"}, NEW i \in Index, NEW n \in Nat, NEW size \in Nat
  PROVE  Bytes(kind, i, n, size) \in Seq(Byte) /\ Len(Bytes(kind, i, n, size)) = size
<1> DEFINE e == [kind |-> kind, index |-> i, call |-> n]
<1>1. e \in Byte
  BY DEF Byte
<1> HIDE DEF e
<1>2. [k \in 1 .. size |-> e] \in Seq(Byte) /\ Len([k \in 1 .. size |-> e]) = size
  BY <1>1
<1> QED BY <1>2 DEF Bytes, e

\* Offsets that stay within the stream have the type TypeOK gives them.
LEMMA OffsetsTyped ==
  ASSUME NEW st \in Seq(Nat), NEW sm \in Seq(Byte), Ascending(st, sm)
  PROVE  st \in Seq(0 .. Len(sm))
<1>1. Len(st) \in Nat /\ Len(sm) \in Nat /\ st \in [1 .. Len(st) -> Nat]
  BY LenProperties
<1>2. \A n \in 1 .. Len(st) : st[n] \in 0 .. Len(sm)
  BY <1>1 DEF Ascending
<1>3. SubSeq(st, 1, Len(st)) \in Seq(0 .. Len(sm))
  BY <1>1, <1>2, SubSeqProperties
<1>4. After(st, 0) = st
  BY AfterNothing
<1> QED BY <1>3, <1>4 DEF After

\* The entry in progress is in the ring, so it is no larger than the ring.
LEMMA LastEntryFits ==
  ASSUME NEW st \in Seq(Nat), NEW sm \in Seq(Byte), NEW buf, NEW q, NEW g,
         Positioned(buf, q, st, sm, g), Ascending(st, sm), Len(buf) < LogBufferSize
  PROVE  /\ Len(st) \in Nat \ {0}
         /\ st[Len(st)] \in Nat
         /\ Len(sm) - st[Len(st)] < LogBufferSize
<1>1. Len(st) \in Nat /\ Len(sm) \in Nat /\ g \in 0 .. Len(st) - 1
  BY LenProperties DEF Positioned
<1>2. g + 1 \in 1 .. Len(st) /\ Len(st) \in 1 .. Len(st)
  BY <1>1
<1> DEFINE a == st[g + 1]
           b == st[Len(st)]
<1>3. a \in Nat /\ b \in Nat /\ a <= b /\ b <= Len(sm)
  BY <1>2, ElementOfSeq DEF Ascending
<1>4. Len(buf) = Len(sm) - a
  <2>1. buf = After(sm, a)
    BY DEF Positioned
  <2> HIDE DEF a, b
  <2>2. a \in 0 .. Len(sm)
    BY <1>1, <1>3
  <2> QED BY <2>1, <2>2, AfterFacts
<1> HIDE DEF a, b
<1>5. Len(sm) - b < LogBufferSize
  BY <1>1, <1>3, <1>4, RingAssumption
<1> QED BY <1>2, <1>3, <1>5 DEF b

\* buffer_or_write: either the ring stays as the invariant says, or the entry
\* in progress is too large for it.
LEMMA BufferOrWriteKeepsRing ==
  ASSUME NEW st \in Seq(Nat), NEW q, NEW g, NEW bytes \in Seq(Byte), NEW next,
         m_buffer \in Seq(Byte), stream \in Seq(Byte), m_buffer_index = Len(stream),
         Positioned(m_buffer, q, st, stream, g), Ascending(st, stream),
         BufferOrWrite(q, bytes, next)
  PROVE  \/ /\ state' = next
            /\ m_buffer' \in Seq(Byte) /\ stream' \in Seq(Byte)
            /\ m_buffer_index' = Len(stream')
            /\ Ascending(st, stream')
            /\ Positioned(m_buffer', log_buffer_indices', st, stream',
                          Len(st) - Len(log_buffer_indices'))
            /\ Len(m_buffer') < LogBufferSize
         \/ /\ state' = "undefined"
            /\ log_buffer_indices' = <<>>
            /\ UNCHANGED <<m_buffer, m_buffer_index, stream>>
            /\ Len(stream) - st[Len(st)] + Len(bytes) >= LogBufferSize
<1>1. CASE /\ MakeRoomAndWrite(q, bytes)
           /\ m_buffer_index' = m_buffer_index + Len(bytes)
           /\ stream' = stream \o bytes
           /\ state' = next
  <2>1. PICK k \in 0 .. Len(q) - 1 :
          /\ FirstFit(q, k, Len(bytes))
          /\ m_buffer' = NextBuffer(q, k, bytes)
          /\ log_buffer_indices' = SubSeq(q, k + 1, Len(q))
    BY <1>1 DEF MakeRoomAndWrite, NextBuffer
  <2>2. /\ Positioned(m_buffer', log_buffer_indices', st, stream', g + k)
        /\ Ascending(st, stream')
        /\ m_buffer' \in Seq(Byte)
        /\ Len(m_buffer') < LogBufferSize
    BY <2>1, <1>1, WritePositions
  <2>3. stream' \in Seq(Byte) /\ m_buffer_index' = Len(stream')
    BY <1>1, ConcatProperties
  <2>4. Len(st) - Len(log_buffer_indices') = g + k
    <3>1. g + k \in 0 .. Len(st) - 1 /\ log_buffer_indices' = After(st, g + k)
      BY <2>2 DEF Positioned
    <3>2. Len(st) \in Nat
      BY LenProperties
    <3>3. g + k \in 0 .. Len(st)
      BY <3>1, <3>2
    <3>4. Len(log_buffer_indices') = Len(st) - (g + k)
      BY <3>1, <3>3, AfterFacts
    <3> QED BY <3>2, <3>3, <3>4
  <2> QED BY <1>1, <2>2, <2>3, <2>4
<1>2. CASE /\ \A k \in 0 .. Len(q) - 1 : ~ Fits(q, k, Len(bytes))
           /\ state' = "undefined"
           /\ log_buffer_indices' = <<>>
           /\ UNCHANGED <<m_buffer, m_buffer_index, stream>>
  <2> DEFINE N == Len(st)
             L == Len(stream)
             B == Len(bytes)
             a == st[g + 1]
             b == st[N]
             k == Len(q) - 1
             d == Dropped(q, k)
  <2>1. N \in Nat /\ L \in Nat /\ B \in Nat /\ g \in 0 .. N - 1
    BY LenProperties DEF Positioned
  <2>2. /\ Len(q) = N - g /\ Len(q) \in Nat \ {0} /\ Len(m_buffer) = L - a
        /\ \A j \in 0 .. Len(q) - 1 : Dropped(q, j) = st[g + j + 1] - a
    BY DroppedBytes
  <2>3. k \in 0 .. Len(q) - 1 /\ g + k + 1 = N /\ g + 1 \in 1 .. N /\ N \in 1 .. N
    BY <2>1, <2>2
  <2>4. d = b - a
    BY <2>2, <2>3
  <2>5. a \in Nat /\ b \in Nat
    BY <2>3, ElementOfSeq
  <2>6. ~ (Len(m_buffer) - d + B < LogBufferSize)
    BY <1>2, <2>3 DEF Fits
  <2> HIDE DEF N, L, B, a, b, k, d
  <2>7. L - b + B >= LogBufferSize
    BY <2>1, <2>2, <2>4, <2>5, <2>6, RingAssumption
  <2> QED BY <1>2, <2>7 DEF N, L, B, b
<1> QED BY <1>1, <1>2 DEF BufferOrWrite
-----------------------------------------------------------------------------

\* The offsets in the queue are offsets of the stream.
LEMMA QueueTyped ==
  ASSUME NEW st \in Seq(Nat), NEW sm \in Seq(Byte), NEW buf, NEW q, NEW g,
         Positioned(buf, q, st, sm, g), Ascending(st, sm)
  PROVE  /\ q \in Seq(0 .. Len(sm))
         /\ Len(st) - Len(q) = g
<1>1. st \in Seq(0 .. Len(sm))
  BY OffsetsTyped
<1>2. Len(st) \in Nat /\ g \in 0 .. Len(st) - 1 /\ q = After(st, g)
  BY LenProperties DEF Positioned
<1>3. g \in 0 .. Len(st)
  BY <1>2
<1>4. q \in Seq(0 .. Len(sm)) /\ Len(q) = Len(st) - g
  BY <1>1, <1>2, <1>3, AfterFacts
<1> QED BY <1>2, <1>4

\* The entries stay complete when one is started at the end of the last.
LEMMA CompleteAppended ==
  ASSUME NEW st \in Seq(Nat), NEW e \in Nat, Complete(st),
         st # <<>> => e - st[Len(st)] < LogBufferSize
  PROVE  Complete(Append(st, e))
<1> DEFINE st2 == Append(st, e)
           N == Len(st)
<1>1. N \in Nat /\ st2 \in Seq(Nat) /\ Len(st2) = N + 1 /\ st2[N + 1] = e
      /\ \A n \in 1 .. N : st2[n] = st[n]
  BY LenProperties, AppendProperties
<1>2. N > 0 => e - st[N] < LogBufferSize
  BY EmptySeq, LenProperties
<1>3. \A n \in 1 .. N - 1 : st[n + 1] - st[n] < LogBufferSize
  BY DEF Complete
<1> HIDE DEF st2, N
<1>4. ASSUME NEW n \in 1 .. Len(st2) - 1
      PROVE  st2[n + 1] - st2[n] < LogBufferSize
  <2>1. n \in 1 .. N
    BY <1>1
  <2>2. CASE n = N
    BY <2>1, <2>2, <1>1, <1>2
  <2>3. CASE n # N
    <3>1. n \in 1 .. N - 1 /\ n + 1 \in 1 .. N
      BY <2>1, <2>3, <1>1
    <3> QED BY <2>1, <3>1, <1>1, <1>3
  <2> QED BY <2>2, <2>3
<1> QED BY <1>4 DEF Complete, st2

\* Between two calls the next entry may be pushed, the first one of all too.
LEMMA PushKeepsInvariant ==
  ASSUME IInv, state = "idle"
  PROVE  LET st == Append(starts, Len(stream))
         IN  /\ starts \in Seq(Nat) /\ st \in Seq(Nat)
             /\ Append(starts, m_buffer_index) = st
             /\ st # <<>> /\ Len(st) = Len(starts) + 1 /\ Len(st) \in Nat
             /\ Complete(st)
             /\ Ascending(st, stream)
             /\ \E g : Positioned(m_buffer, Pushed, st, stream, g)
<1> DEFINE e == Len(stream)
           st == Append(starts, e)
<1>1. TypeOK /\ m_buffer_index = e
  BY DEF IInv
<1>2. e \in Nat /\ stream \in Seq(Byte) /\ starts \in Seq(0 .. m_buffer_index)
  BY <1>1, LenProperties DEF TypeOK
<1>3. starts \in Seq(Nat)
  <2>1. 0 .. m_buffer_index \subseteq Nat
    BY <1>1, <1>2
  <2> QED BY <2>1, <1>2, SeqMonotonic
<1>4. Len(starts) \in Nat /\ st \in Seq(Nat) /\ Len(st) = Len(starts) + 1 /\ st # <<>>
  BY <1>2, <1>3, LenProperties, AppendProperties
<1>5. Complete(st)
  <2>1. starts # <<>> => e - starts[Len(starts)] < LogBufferSize
    <3> SUFFICES ASSUME starts # <<>>
                 PROVE  e - starts[Len(starts)] < LogBufferSize
      OBVIOUS
    <3>1. Len(starts) \in 1 .. Len(starts)
      BY <1>3, <1>4, EmptySeq
    <3>2. EndOf(Len(starts)) - starts[Len(starts)] < LogBufferSize
      BY <3>1 DEF IInv, OnlyOversizedEntriesOverflow
    <3> QED BY <3>2 DEF EndOf
  <2> QED BY <2>1, <1>2, <1>3, CompleteAppended DEF IInv
<1>6. Ascending(st, stream) /\ \E g : Positioned(m_buffer, Pushed, st, stream, g)
  <2>1. Pushed = Append(log_buffer_indices, e)
    BY <1>1 DEF Pushed
  <2>2. CASE starts # <<>>
    <3>1. Positioned(m_buffer, log_buffer_indices, starts, stream, Gone)
          /\ Ascending(starts, stream)
      BY <2>2 DEF IInv, Alive
    <3> QED BY <2>1, <3>1, <1>2, <1>3, PushPositions
  <2>3. CASE starts = <<>>
    <3>1. m_buffer = <<>> /\ log_buffer_indices = <<>> /\ stream = <<>>
      BY <2>3 DEF IInv, Fresh
    <3>2. e = 0 /\ st = <<0>> /\ Pushed = <<0>> /\ <<0>> \in Seq(Nat)
      BY <2>1, <2>3, <3>1
    <3>3. Len(<<0>>) = 1 /\ <<0>>[1] = 0
      OBVIOUS
    <3>4. After(<<0>>, 0) = <<0>>
      BY <3>2, AfterNothing
    <3>5. After(stream, 0) = <<>>
      BY <3>1, <1>2, AfterNothing
    <3>6. Positioned(m_buffer, Pushed, st, stream, 0)
      <4>1. 0 \in 0 .. Len(st) - 1 /\ st[0 + 1] = 0
        BY <3>2, <3>3
      <4>2. Pushed = After(st, 0) /\ m_buffer = After(stream, st[0 + 1])
        BY <4>1, <3>1, <3>2, <3>4, <3>5
      <4>3. ~ (0 > 0)
        OBVIOUS
      <4> HIDE DEF st
      <4> QED BY <4>1, <4>2, <4>3 DEF Positioned
    <3>7. Ascending(st, stream)
      BY <3>2, <3>3 DEF Ascending
    <3> QED BY <3>6, <3>7
  <2> QED BY <2>2, <2>3
<1>7. Append(starts, m_buffer_index) = st
  BY <1>1
<1> QED BY <1>3, <1>4, <1>5, <1>6, <1>7

-----------------------------------------------------------------------------

\* A call that starts a run: the index is written after making room for it, or
\* the ring is too small for an index.
LEMMA StartRunPreserves ==
  ASSUME IInv, NEW i \in Index, StartRun(i)
  PROVE  IInv'
<1> DEFINE st == Append(starts, Len(stream))
           bytes == Bytes("index", i, Len(calls) + 1, IndexBytes)
<1>1. TypeOK /\ state = "idle" /\ m_buffer_index = Len(stream) /\ Len(calls) = Len(starts)
  BY DEF IInv, StartRun, Callable
<1>2. m_buffer \in Seq(Byte) /\ stream \in Seq(Byte) /\ calls \in Seq(Index)
  BY <1>1 DEF TypeOK
<1>3. /\ starts' = st /\ st \in Seq(Nat) /\ st # <<>>
      /\ Len(st) = Len(starts) + 1 /\ Len(st) \in Nat
      /\ Complete(st) /\ Ascending(st, stream)
      /\ \E g : Positioned(m_buffer, Pushed, st, stream, g)
  BY <1>1, PushKeepsInvariant DEF StartRun, Remember
<1>4. /\ calls' \in Seq(Index) /\ Len(calls') = Len(calls) + 1
      /\ calls'[Len(calls')] = i /\ m_runlength_index' = i
  BY <1>2, AppendProperties DEF StartRun, Remember
<1>5. /\ m_index_buffer_index' \in Nat /\ sites' \in 0 .. NumFormats
      /\ m_runlength_index' \in Index
      /\ m_current_runlength' \in Nat /\ records' \in Nat
  <2>1. m_index_buffer_index' \in Nat /\ sites' \in 0 .. NumFormats
    <3>1. m_index_buffer_index \in Nat /\ sites \in 0 .. NumFormats
          /\ NumFormats \in Nat /\ i \in 0 .. NumFormats - 1
      BY <1>1, RingAssumption DEF TypeOK, Index
    <3>2. CASE i = sites
      <4>1. sites' = sites + 1 /\ m_index_buffer_index' = m_index_buffer_index + EntryBytes[i]
        BY <3>2 DEF StartRun, Register
      <4>2. EntryBytes[i] \in Nat
        BY RingAssumption
      <4> QED BY <3>1, <3>2, <4>1, <4>2
    <3>3. CASE i # sites
      BY <3>1, <3>3 DEF StartRun, Register, registry
    <3> QED BY <3>2, <3>3
  <2>2. m_current_runlength' \in Nat /\ records' \in Nat
    BY <1>1 DEF StartRun, TypeOK
  <2> QED BY <2>1, <2>2, <1>4
<1>6. bytes \in Seq(Byte) /\ Len(bytes) = IndexBytes
  <2>1. Len(calls) + 1 \in Nat /\ IndexBytes \in Nat
    BY <1>2, LenProperties, RingAssumption
  <2> QED BY <2>1, BytesTyped
<1>7. BufferOrWrite(Pushed, bytes, "logging")
  BY DEF StartRun
<1> HIDE DEF st, bytes
<1>8. PICK g : Positioned(m_buffer, Pushed, st, stream, g)
  BY <1>3
<1>9. \/ /\ state' = "logging"
         /\ m_buffer' \in Seq(Byte) /\ stream' \in Seq(Byte)
         /\ m_buffer_index' = Len(stream')
         /\ Ascending(st, stream')
         /\ Positioned(m_buffer', log_buffer_indices', st, stream',
                       Len(st) - Len(log_buffer_indices'))
         /\ Len(m_buffer') < LogBufferSize
      \/ /\ state' = "undefined"
         /\ log_buffer_indices' = <<>>
         /\ UNCHANGED <<m_buffer, m_buffer_index, stream>>
         /\ Len(stream) - st[Len(st)] + Len(bytes) >= LogBufferSize
  BY <1>1, <1>2, <1>3, <1>6, <1>7, <1>8, BufferOrWriteKeepsRing
<1>10. CASE state' = "logging"
  <2>1. /\ m_buffer' \in Seq(Byte) /\ stream' \in Seq(Byte)
        /\ m_buffer_index' = Len(stream') /\ Ascending(st, stream')
        /\ Positioned(m_buffer', log_buffer_indices', st, stream',
                      Len(st) - Len(log_buffer_indices'))
        /\ Len(m_buffer') < LogBufferSize
    BY <1>9, <1>10
  <2>2. st \in Seq(0 .. Len(stream')) /\ log_buffer_indices' \in Seq(0 .. Len(stream'))
    BY <2>1, <1>3, OffsetsTyped, QueueTyped
  <2>3. m_buffer_index' \in Nat
    BY <2>1, LenProperties
  <2>4. TypeOK'
    BY <2>1, <2>2, <2>3, <1>3, <1>4, <1>5, <1>10 DEF TypeOK
  <2>5. OnlyOversizedEntriesOverflow'
    BY <1>10 DEF OnlyOversizedEntriesOverflow
  <2>6. InCurrentRun' /\ Len(calls') = Len(starts')
    BY <1>1, <1>3, <1>4 DEF InCurrentRun
  <2> QED BY <2>1, <2>4, <2>5, <2>6, <1>3 DEF IInv, Gone
<1>11. CASE state' = "undefined"
  <2>1. /\ log_buffer_indices' = <<>>
        /\ m_buffer' = m_buffer /\ m_buffer_index' = m_buffer_index /\ stream' = stream
        /\ Len(stream) - st[Len(st)] + Len(bytes) >= LogBufferSize
    BY <1>9, <1>11
  <2>2. st \in Seq(0 .. Len(stream)) /\ <<>> \in Seq(0 .. Len(stream))
    BY <1>2, <1>3, OffsetsTyped, EmptySeq
  <2>3. TypeOK'
    <3>1. log_buffer_indices' \in Seq(0 .. m_buffer_index')
          /\ starts' \in Seq(0 .. m_buffer_index')
      BY <2>1, <2>2, <1>1, <1>3
    <3>2. m_buffer' \in Seq(Byte) /\ m_buffer_index' \in Nat /\ stream' \in Seq(Byte)
      BY <2>1, <1>1, <1>2 DEF TypeOK
    <3> QED BY <3>1, <3>2, <1>4, <1>5, <1>11 DEF TypeOK
  <2>4. OnlyOversizedEntriesOverflow'
    BY <2>1, <1>3, <1>6, <1>11 DEF OnlyOversizedEntriesOverflow
  <2>5. InCurrentRun' /\ Len(calls') = Len(starts')
    BY <1>1, <1>3, <1>4 DEF InCurrentRun
  <2>6. m_buffer_index' = Len(stream') /\ Ascending(starts', stream') /\ Complete(starts')
        /\ starts' # <<>> /\ ~ Alive'
    BY <2>1, <1>1, <1>3, <1>11 DEF Alive
  <2> QED BY <2>3, <2>4, <2>5, <2>6 DEF IInv
<1> QED BY <1>9, <1>10, <1>11

\* A call that goes on with the run: only the queue grows.
LEMMA ContinueRunPreserves ==
  ASSUME IInv, NEW i \in Index, ContinueRun(i)
  PROVE  IInv'
<1> DEFINE st == Append(starts, Len(stream))
<1>1. TypeOK /\ state = "idle" /\ m_buffer_index = Len(stream) /\ Len(calls) = Len(starts)
  BY DEF IInv, ContinueRun, Callable
<1>2. /\ m_buffer' = m_buffer /\ m_buffer_index' = m_buffer_index /\ stream' = stream
      /\ m_runlength_index' = m_runlength_index /\ records' = records
      /\ sites' = sites /\ m_index_buffer_index' = m_index_buffer_index
      /\ log_buffer_indices' = Pushed /\ state' = "logging"
  BY DEF ContinueRun, registry
<1>3. /\ starts' = st /\ st \in Seq(Nat) /\ st # <<>>
      /\ Len(st) = Len(starts) + 1 /\ Len(st) \in Nat
      /\ Complete(st) /\ Ascending(st, stream)
      /\ \E g : Positioned(m_buffer, Pushed, st, stream, g)
  BY <1>1, PushKeepsInvariant DEF ContinueRun, Remember
<1>4. starts # <<>>
  <2>1. m_runlength_index = 0 /\ m_current_runlength = 0 => WritesIndex(i)
    BY DEF WritesIndex, Index
  <2> QED BY <2>1 DEF IInv, Fresh, ContinueRun
<1>5. i = m_runlength_index
  BY DEF ContinueRun, WritesIndex
<1>6. calls' \in Seq(Index) /\ Len(calls') = Len(calls) + 1 /\ calls'[Len(calls')] = i
  BY <1>1, AppendProperties DEF ContinueRun, Remember, TypeOK
<1> HIDE DEF st
<1>7. PICK g : Positioned(m_buffer, Pushed, st, stream, g)
  BY <1>3
<1>8. /\ Pushed \in Seq(0 .. Len(stream)) /\ Len(st) - Len(Pushed) = g
      /\ st \in Seq(0 .. Len(stream))
  BY <1>1, <1>3, <1>7, QueueTyped, OffsetsTyped DEF TypeOK
<1>9. TypeOK'
  <2>1. m_current_runlength' \in Nat
    BY <1>1 DEF ContinueRun, TypeOK
  <2> QED BY <2>1, <1>1, <1>2, <1>3, <1>6, <1>8 DEF TypeOK
<1>10. Positioned(m_buffer', log_buffer_indices', starts', stream', Gone')
       /\ Len(m_buffer') < LogBufferSize
  BY <1>1, <1>2, <1>3, <1>4, <1>7, <1>8 DEF Gone, IInv, Alive
<1>11. OnlyOversizedEntriesOverflow'
  BY <1>2 DEF OnlyOversizedEntriesOverflow
<1>12. InCurrentRun' /\ Len(calls') = Len(starts')
  BY <1>1, <1>2, <1>3, <1>5, <1>6 DEF InCurrentRun
<1>13. m_buffer_index' = Len(stream') /\ Ascending(starts', stream') /\ Complete(starts')
       /\ starts' # <<>>
  BY <1>1, <1>2, <1>3
<1> QED BY <1>9, <1>10, <1>11, <1>12, <1>13 DEF IInv

\* The values of a call: room is made for them, or they are too long for the
\* ring.  An entry is complete only when its values were written.
LEMMA UpdateLogFilePreserves ==
  ASSUME IInv, UpdateLogFile
  PROVE  IInv'
<1>1. TypeOK /\ state = "logging" /\ m_buffer_index = Len(stream)
      /\ Len(calls) = Len(starts) /\ Ascending(starts, stream) /\ Complete(starts)
  BY DEF IInv, UpdateLogFile
<1>2. starts # <<>> /\ InCurrentRun
  BY <1>1 DEF IInv, Fresh
<1>3. Positioned(m_buffer, log_buffer_indices, starts, stream, Gone)
      /\ Len(m_buffer) < LogBufferSize
  BY <1>1, <1>2 DEF IInv, Alive
<1>4. /\ m_buffer \in Seq(Byte) /\ stream \in Seq(Byte) /\ calls \in Seq(Index)
      /\ m_runlength_index \in Index /\ m_buffer_index \in Nat
  BY <1>1 DEF TypeOK
<1>5. starts \in Seq(Nat)
  <2>1. starts \in Seq(0 .. m_buffer_index) /\ 0 .. m_buffer_index \subseteq Nat
    BY <1>1, <1>4 DEF TypeOK
  <2> QED BY <2>1, SeqMonotonic
<1>6. /\ m_runlength_index' = m_runlength_index /\ m_current_runlength' = m_current_runlength
      /\ records' = records /\ sites' = sites
      /\ m_index_buffer_index' = m_index_buffer_index
      /\ calls' = calls /\ starts' = starts
  BY DEF UpdateLogFile, encoding, registry, history
<1>7. PICK size \in ArgBytes[m_runlength_index] :
        IF size = 0
        THEN state' = "idle" /\ UNCHANGED ring
        ELSE BufferOrWrite(log_buffer_indices,
                           Bytes("args", m_runlength_index, Len(calls), size), "idle")
  BY DEF UpdateLogFile
<1>8. size \in Nat
  BY <1>4, RingAssumption
<1> DEFINE bytes == Bytes("args", m_runlength_index, Len(calls), size)
<1>9. bytes \in Seq(Byte) /\ Len(bytes) = size
  BY <1>4, <1>8, LenProperties, BytesTyped
<1> HIDE DEF bytes
<1>10. \/ /\ state' = "idle"
          /\ m_buffer' \in Seq(Byte) /\ stream' \in Seq(Byte)
          /\ m_buffer_index' = Len(stream')
          /\ Ascending(starts, stream')
          /\ Positioned(m_buffer', log_buffer_indices', starts, stream',
                        Len(starts) - Len(log_buffer_indices'))
          /\ Len(m_buffer') < LogBufferSize
       \/ /\ state' = "undefined"
          /\ log_buffer_indices' = <<>>
          /\ UNCHANGED <<m_buffer, m_buffer_index, stream>>
          /\ Len(stream) - starts[Len(starts)] + Len(bytes) >= LogBufferSize
  <2>1. CASE size = 0
    <3>1. state' = "idle" /\ m_buffer' = m_buffer /\ m_buffer_index' = m_buffer_index
          /\ log_buffer_indices' = log_buffer_indices /\ stream' = stream
      BY <2>1, <1>7 DEF ring
    <3> QED BY <3>1, <1>1, <1>3, <1>4 DEF Gone
  <2>2. CASE size # 0
    <3>1. BufferOrWrite(log_buffer_indices, bytes, "idle")
      BY <2>2, <1>7 DEF bytes
    <3> QED BY <3>1, <1>1, <1>3, <1>4, <1>5, <1>9, BufferOrWriteKeepsRing
  <2> QED BY <2>1, <2>2
<1>11. CASE state' = "idle"
  <2>1. /\ m_buffer' \in Seq(Byte) /\ stream' \in Seq(Byte)
        /\ m_buffer_index' = Len(stream') /\ Ascending(starts, stream')
        /\ Positioned(m_buffer', log_buffer_indices', starts, stream',
                      Len(starts) - Len(log_buffer_indices'))
        /\ Len(m_buffer') < LogBufferSize
    BY <1>10, <1>11
  <2>2. starts \in Seq(0 .. Len(stream')) /\ log_buffer_indices' \in Seq(0 .. Len(stream'))
    BY <2>1, <1>5, OffsetsTyped, QueueTyped
  <2>3. m_buffer_index' \in Nat
    BY <2>1, LenProperties
  <2>4. TypeOK'
    BY <2>1, <2>2, <2>3, <1>1, <1>6, <1>11 DEF TypeOK
  <2>5. \A n \in 1 .. Len(starts) : EndOf(n)' - starts[n] < LogBufferSize
    <3> SUFFICES ASSUME NEW n \in 1 .. Len(starts)
                 PROVE  EndOf(n)' - starts[n] < LogBufferSize
      OBVIOUS
    <3>1. CASE n = Len(starts)
      <4>1. EndOf(n)' = Len(stream')
        BY <3>1, <1>6 DEF EndOf
      <4> QED BY <4>1, <3>1, <2>1, <1>5, LastEntryFits
    <3>2. CASE n # Len(starts)
      <4>1. EndOf(n)' = starts[n + 1] /\ n \in 1 .. Len(starts) - 1
        BY <3>2, <1>5, <1>6, LenProperties DEF EndOf
      <4> QED BY <4>1, <1>1 DEF Complete
    <3> QED BY <3>1, <3>2
  <2>6. OnlyOversizedEntriesOverflow'
    BY <2>5, <1>6, <1>11 DEF OnlyOversizedEntriesOverflow
  <2>7. InCurrentRun' /\ Len(calls') = Len(starts') /\ starts' # <<>>
        /\ Ascending(starts', stream') /\ Complete(starts')
    BY <2>1, <1>1, <1>2, <1>6 DEF InCurrentRun
  <2> QED BY <2>1, <2>4, <2>6, <2>7, <1>6 DEF IInv, Gone
<1>12. CASE state' = "undefined"
  <2>1. /\ log_buffer_indices' = <<>>
        /\ m_buffer' = m_buffer /\ m_buffer_index' = m_buffer_index /\ stream' = stream
        /\ Len(stream) - starts[Len(starts)] + size >= LogBufferSize
    BY <1>9, <1>10, <1>12
  <2>2. <<>> \in Seq(0 .. m_buffer_index)
    BY EmptySeq
  <2>3. TypeOK'
    BY <2>1, <2>2, <1>1, <1>6, <1>12 DEF TypeOK
  <2>4. OnlyOversizedEntriesOverflow'
    <3>1. size \in ArgBytes[calls[Len(calls)]] \cup {IndexBytes}
      BY <1>2 DEF InCurrentRun
    <3> QED BY <3>1, <2>1, <1>6, <1>12 DEF OnlyOversizedEntriesOverflow
  <2>5. InCurrentRun' /\ Len(calls') = Len(starts') /\ starts' # <<>>
        /\ Ascending(starts', stream') /\ Complete(starts')
        /\ m_buffer_index' = Len(stream') /\ ~ Alive'
    BY <2>1, <1>1, <1>2, <1>6, <1>12 DEF InCurrentRun, Alive
  <2> QED BY <2>3, <2>4, <2>5 DEF IInv
<1> QED BY <1>10, <1>11, <1>12

\* Flushing and aborting leave the ring alone.
LEMMA OthersPreserve ==
  ASSUME IInv,
         \/ \E i \in Index : Abort(i)
         \/ \E next \in {"idle", "closed"} : Flush(next)
         \/ UNCHANGED vars
  PROVE  IInv'
<1>1. UNCHANGED <<ring, registry, history>> /\ m_runlength_index' = m_runlength_index
  BY DEF Abort, Flush, vars, encoding, WriteRecord
<1>2. /\ m_buffer' = m_buffer /\ m_buffer_index' = m_buffer_index
      /\ log_buffer_indices' = log_buffer_indices /\ stream' = stream
      /\ sites' = sites /\ m_index_buffer_index' = m_index_buffer_index
      /\ calls' = calls /\ starts' = starts
  BY <1>1 DEF ring, registry, history
<1>3. \/ state = "idle" /\ state' \in {"idle", "closed", "aborted"}
      \/ state' = state
  BY DEF Abort, Flush, Callable, vars
<1>4. TypeOK
  BY DEF IInv
<1>5. m_current_runlength' \in Nat /\ records' \in Nat
      /\ (m_current_runlength = 0 => m_current_runlength' = 0)
  BY <1>4 DEF Abort, Flush, vars, encoding, WriteRecord, TypeOK
<1>6. TypeOK'
  BY <1>1, <1>2, <1>3, <1>4, <1>5 DEF TypeOK
<1>7. OnlyOversizedEntriesOverflow'
  <2>1. \A n : EndOf(n)' = EndOf(n)
    BY <1>2 DEF EndOf
  <2> QED BY <2>1, <1>2, <1>3 DEF IInv, OnlyOversizedEntriesOverflow
<1>8. starts' = <<>> => Fresh'
  BY <1>1, <1>2, <1>3, <1>5 DEF IInv, Fresh
<1>9. starts' # <<>> => InCurrentRun'
  BY <1>1, <1>2 DEF IInv, InCurrentRun
<1>10. Alive' => Alive
  BY <1>3 DEF Alive
<1>11. Gone' = Gone
  BY <1>2 DEF Gone
<1> QED BY <1>2, <1>6, <1>7, <1>8, <1>9, <1>10, <1>11 DEF IInv

-----------------------------------------------------------------------------

\* A new logger has written nothing.
LEMMA InitEstablishes == Init => IInv
<1> SUFFICES ASSUME Init PROVE IInv
  OBVIOUS
<1>1. /\ m_buffer = <<>> /\ m_buffer_index = 0 /\ log_buffer_indices = <<>>
      /\ m_index_buffer_index = 0 /\ sites = 0 /\ m_runlength_index = 0
      /\ m_current_runlength = 0 /\ records = 0 /\ state = "idle"
      /\ stream = <<>> /\ calls = <<>> /\ starts = <<>>
  BY DEF Init
<1>2. Len(<<>>) = 0 /\ 1 .. 0 = {} /\ 1 .. 0 - 1 = {}
  OBVIOUS
<1>3. TypeOK
  <2>1. 0 \in Index /\ 0 \in 0 .. NumFormats
    BY RingAssumption DEF Index
  <2>2. <<>> \in Seq(Byte) /\ <<>> \in Seq(0 .. 0) /\ <<>> \in Seq(Index)
    BY EmptySeq
  <2> QED BY <1>1, <2>1, <2>2 DEF TypeOK
<1>4. Ascending(starts, stream) /\ Complete(starts)
  BY <1>1, <1>2 DEF Ascending, Complete
<1>5. Fresh
  BY <1>1 DEF Fresh
<1>6. OnlyOversizedEntriesOverflow
  BY <1>1, <1>2 DEF OnlyOversizedEntriesOverflow
<1> QED BY <1>1, <1>2, <1>3, <1>4, <1>5, <1>6 DEF IInv

\* IInv is an invariant of every ring.
THEOREM InductiveInvariant == Spec => []IInv
<1>1. Init => IInv
  BY InitEstablishes
<1>2. IInv /\ [Next]_vars => IInv'
  <2> SUFFICES ASSUME IInv, [Next]_vars
               PROVE  IInv'
    OBVIOUS
  <2>1. ASSUME NEW i \in Index, StartRun(i)
        PROVE  IInv'
    BY <2>1, StartRunPreserves
  <2>2. ASSUME NEW i \in Index, ContinueRun(i)
        PROVE  IInv'
    BY <2>2, ContinueRunPreserves
  <2>3. CASE UpdateLogFile
    BY <2>3, UpdateLogFilePreserves
  <2>4. CASE \/ \E i \in Index : Abort(i)
             \/ \E next \in {"idle", "closed"} : Flush(next)
             \/ UNCHANGED vars
    BY <2>4, OthersPreserve
  <2> QED BY <2>1, <2>2, <2>3, <2>4 DEF Next, Terminated
<1> QED BY <1>1, <1>2, PTL DEF Spec

\* Every variable keeps its type; the offsets in the queue never pass the
\* number of bytes written.
THEOREM TypeCorrect == Spec => []TypeOK
<1>1. IInv => TypeOK
  BY DEF IInv
<1> QED BY <1>1, InductiveInvariant, PTL

\* buffer_or_write and the queue agree: the ring is the newest entries, whole,
\* and it drops no entry that would still fit.
THEOREM KeepsNewestEntries == Spec => []RingHoldsNewestEntries
<1>1. IInv => RingHoldsNewestEntries
  BY DEF IInv, RingHoldsNewestEntries, Positioned, After
<1> QED BY <1>1, InductiveInvariant, PTL

\* The loop of buffer_or_write takes the front of an empty queue only for an
\* entry as large as the ring, and every entry completed is smaller.
THEOREM OnlyOversizedOverflow == Spec => []OnlyOversizedEntriesOverflow
<1>1. IInv => OnlyOversizedEntriesOverflow
  BY DEF IInv
<1> QED BY <1>1, InductiveInvariant, PTL
=============================================================================
