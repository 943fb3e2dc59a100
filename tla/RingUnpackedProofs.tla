------------------------- MODULE RingUnpackedProofs -------------------------
(***************************************************************************)
(* Saving the ring to files and unpacking it leaves the ring as it is: what *)
(* is proved of module Ringbuffer holds of the program of RingUnpacked too. *)
(*                                                                         *)
(* What is printed of a saved ring is proved in two parts.  ProgramInv is  *)
(* about the program: its calls fall into runs of one format, the records  *)
(* are those that are due, and the stream is the entries of the calls, one *)
(* behind the other, so that what is left of it in the ring are the tokens *)
(* of the kept calls.  (That the records are those due also tells when the *)
(* program aborts: AbortInv.)                                              *)
(*                                                                         *)
(* Deflating is about the unpacker: it is on track as long as every run    *)
(* has found its length.  Once a run takes a wrong one, it is behind a     *)
(* wrong number of lines of the right format (Strayed), is about to print  *)
(* a line of the wrong format (Astray) or has printed one (Wrong), until   *)
(* it derails or ends, and never gets back on track.                       *)
(***************************************************************************)
EXTENDS RingUnpacked, RingbufferProofs, SequenceInduction

\* The program of examples/ringbuffer uses the ring as module Ringbuffer says.
THEOREM SavedRingIsARing == RingSpec => Spec
<1>1. RingInit => Init
  BY DEF RingInit
<1>2. [RingNext]_ringVars => [Next]_vars
  <2> SUFFICES ASSUME [RingNext]_ringVars PROVE [Next]_vars
    OBVIOUS
  <2>1. ASSUME NEW i \in Index, BeginRun(i) \/ GoOn(i) PROVE Next
    BY <2>1 DEF BeginRun, GoOn, Next
  <2>2. Other => Next
    BY DEF Other, Next
  <2>3. CASE Logging
    BY <2>1, <2>2, <2>3 DEF Logging
  <2>4. CASE Save \/ Unpacking \/ Ended \/ UNCHANGED ringVars
    BY <2>4 DEF Save, Unpacking, Ended, ringVars
  <2> QED BY <2>3, <2>4 DEF RingNext
<1> QED BY <1>1, <1>2, PTL DEF RingSpec, Spec

\* So what is saved is whole entries, the newest: buffer_or_write and the queue
\* of offsets agree whenever the program chooses to save.
THEOREM SavedRingHoldsNewest == RingSpec => []RingHoldsNewestEntries
BY SavedRingIsARing, KeepsNewestEntries, PTL

-----------------------------------------------------------------------------

\* What each byte of a buffer adds to its tokens.
TokenAt(bytes, k) == IF k = 1 \/ bytes[k] # bytes[k - 1] THEN <<bytes[k]>> ELSE <<>>

Pieces(bytes) == [k \in DOMAIN bytes |-> TokenAt(bytes, k)]

\* The tokens of a sequence are its pieces put together.
LEMMA PiecesFacts ==
  ASSUME NEW S, NEW bytes \in Seq(S)
  PROVE  /\ Pieces(bytes) \in Seq(Seq(S))
         /\ Len(Pieces(bytes)) = Len(bytes)
         /\ \A k \in 1 .. Len(bytes) : Pieces(bytes)[k] = TokenAt(bytes, k)
         /\ TokensOf(bytes) = FlattenSeq(Pieces(bytes))
         /\ TokensOf(bytes) \in Seq(S)
<1>1. Len(bytes) \in Nat /\ DOMAIN bytes = 1 .. Len(bytes)
  BY LenProperties
<1>2. ASSUME NEW k \in 1 .. Len(bytes) PROVE TokenAt(bytes, k) \in Seq(S)
  <2>1. bytes[k] \in S
    BY <1>1, ElementOfSeq
  <2>2. <<bytes[k]>> \in Seq(S) /\ <<>> \in Seq(S)
    BY <2>1
  <2> QED BY <2>2 DEF TokenAt
<1>3. Pieces(bytes) = [k \in 1 .. Len(bytes) |-> TokenAt(bytes, k)]
  BY <1>1 DEF Pieces
<1>4. Pieces(bytes) \in [1 .. Len(bytes) -> Seq(S)]
  BY <1>2, <1>3
<1>5. Pieces(bytes) \in Seq(Seq(S)) /\ Len(Pieces(bytes)) = Len(bytes)
  <2>1. Pieces(bytes) \in Seq(Seq(S))
    BY <1>1, <1>4, SeqDef
  <2>2. DOMAIN Pieces(bytes) = 1 .. Len(bytes)
    BY <1>3
  <2> QED BY <1>1, <2>1, <2>2, LenProperties
<1>6. TokensOf(bytes) = FlattenSeq(Pieces(bytes))
  BY DEF TokensOf, Pieces, TokenAt
<1>7. TokensOf(bytes) \in Seq(S)
  BY <1>5, <1>6, FlattenType
<1> QED BY <1>3, <1>5, <1>6, <1>7

\* Nothing has no tokens.
LEMMA TokensOfNothing == TokensOf(<<>>) = <<>>
<1>1. Pieces(<<>>) = <<>>
  <2>1. <<>> \in Seq({}) /\ Len(<<>>) = 0
    OBVIOUS
  <2>2. Pieces(<<>>) \in Seq(Seq({})) /\ Len(Pieces(<<>>)) = 0
    BY <2>1, PiecesFacts
  <2> QED BY <2>2, EmptySeq
<1>2. TokensOf(<<>>) = FlattenSeq(Pieces(<<>>))
  BY DEF TokensOf, Pieces, TokenAt
<1> QED BY <1>1, <1>2, FlattenNothing

\* Where two different bytes meet one token ends and one begins.
LEMMA TokensOfConcat ==
  ASSUME NEW S, NEW a \in Seq(S), NEW b \in Seq(S),
         a # <<>> /\ b # <<>> => a[Len(a)] # b[1]
  PROVE  TokensOf(a \o b) = TokensOf(a) \o TokensOf(b)
<1> DEFINE c == a \o b
           m == Len(a)
           n == Len(b)
<1>1. m \in Nat /\ n \in Nat
  BY LenProperties
<1>2. /\ c \in Seq(S) /\ Len(c) = m + n
      /\ \A k \in 1 .. m + n : c[k] = IF k <= m THEN a[k] ELSE b[k - m]
  BY ConcatProperties
<1>3. /\ Pieces(a) \in Seq(Seq(S)) /\ Len(Pieces(a)) = m
      /\ \A k \in 1 .. m : Pieces(a)[k] = TokenAt(a, k)
      /\ TokensOf(a) = FlattenSeq(Pieces(a))
  BY PiecesFacts
<1>4. /\ Pieces(b) \in Seq(Seq(S)) /\ Len(Pieces(b)) = n
      /\ \A k \in 1 .. n : Pieces(b)[k] = TokenAt(b, k)
      /\ TokensOf(b) = FlattenSeq(Pieces(b))
  BY PiecesFacts
<1>5. /\ Pieces(c) \in Seq(Seq(S)) /\ Len(Pieces(c)) = m + n
      /\ \A k \in 1 .. m + n : Pieces(c)[k] = TokenAt(c, k)
      /\ TokensOf(c) = FlattenSeq(Pieces(c))
  <2> HIDE DEF c, m, n
  <2> QED BY <1>2, PiecesFacts
<1>6. m # 0 /\ n # 0 => a[m] # b[1]
  BY EmptySeq
<1>7. /\ Pieces(a) \o Pieces(b) \in Seq(Seq(S))
      /\ Len(Pieces(a) \o Pieces(b)) = m + n
      /\ \A k \in 1 .. m + n :
           (Pieces(a) \o Pieces(b))[k] = IF k <= m THEN Pieces(a)[k] ELSE Pieces(b)[k - m]
  <2> DEFINE pa == Pieces(a)
             pb == Pieces(b)
             T == Seq(S)
  <2>1. pa \in Seq(T) /\ pb \in Seq(T) /\ Len(pa) = m /\ Len(pb) = n
    BY <1>3, <1>4
  <2> HIDE DEF pa, pb, T, m, n
  <2>2. /\ pa \o pb \in Seq(T) /\ Len(pa \o pb) = Len(pa) + Len(pb)
        /\ \A k \in 1 .. Len(pa) + Len(pb) :
             (pa \o pb)[k] = IF k <= Len(pa) THEN pa[k] ELSE pb[k - Len(pa)]
    BY <2>1, ConcatProperties
  <2> QED BY <2>1, <2>2 DEF pa, pb, T
<1> HIDE DEF c, m, n
<1>8. ASSUME NEW k \in 1 .. m + n
      PROVE  Pieces(c)[k] = (Pieces(a) \o Pieces(b))[k]
  <2>1. CASE k <= m
    <3>1. c[k] = a[k] /\ (k # 1 => c[k - 1] = a[k - 1])
      BY <1>1, <1>2, <2>1
    <3>2. TokenAt(c, k) = TokenAt(a, k)
      BY <3>1 DEF TokenAt
    <3>3. k \in 1 .. m
      BY <1>1, <2>1
    <3> QED BY <1>3, <1>5, <1>7, <2>1, <3>2, <3>3
  <2>2. CASE ~ (k <= m)
    <3>1. k - m \in 1 .. n
      BY <1>1, <2>2
    <3>2. c[k] = b[k - m]
      BY <1>2, <2>2
    <3>3. TokenAt(c, k) = TokenAt(b, k - m)
      <4>1. CASE k = m + 1
        <5>1. k - m = 1 /\ n # 0
          BY <1>1, <3>1, <4>1
        <5>2. m # 0 => k - 1 = m /\ k - 1 \in 1 .. m + n /\ k - 1 <= m
          BY <1>1, <4>1
        <5>3. m # 0 => c[k - 1] = a[m]
          BY <1>2, <5>2
        <5>4. k = 1 \/ c[k] # c[k - 1]
          BY <1>1, <1>6, <3>2, <4>1, <5>1, <5>3
        <5> QED BY <3>2, <5>1, <5>4 DEF TokenAt
      <4>2. CASE k # m + 1
        <5>1. k # 1 /\ k - m # 1 /\ k - 1 \in 1 .. m + n /\ ~ (k - 1 <= m)
          BY <1>1, <2>2, <4>2
        <5>2. c[k - 1] = b[(k - 1) - m]
          BY <1>2, <5>1
        <5>3. (k - 1) - m = (k - m) - 1
          BY <1>1
        <5> QED BY <3>2, <5>1, <5>2, <5>3 DEF TokenAt
      <4> QED BY <4>1, <4>2
    <3> QED BY <1>4, <1>5, <1>7, <2>2, <3>1, <3>3
  <2> QED BY <2>1, <2>2
<1>9. Pieces(c) = Pieces(a) \o Pieces(b)
  <2> DEFINE u == Pieces(c)
             v == Pieces(a) \o Pieces(b)
             T == Seq(S)
  <2>1. u \in Seq(T) /\ v \in Seq(T) /\ Len(u) = Len(v) /\ \A k \in 1 .. Len(u) : u[k] = v[k]
    BY <1>5, <1>7, <1>8
  <2> HIDE DEF u, v, T
  <2>2. u = v
    BY <2>1, SeqEqual
  <2> QED BY <2>2 DEF u, v
<1>10. FlattenSeq(Pieces(a) \o Pieces(b)) = FlattenSeq(Pieces(a)) \o FlattenSeq(Pieces(b))
  BY <1>3, <1>4, FlattenConcat
<1> QED BY <1>3, <1>4, <1>5, <1>9, <1>10 DEF c

\* The bytes of an index, or of the values of a call, are one token.
LEMMA TokensOfBytes ==
  ASSUME NEW kind \in {"index", "args"}, NEW i \in Index, NEW n \in Nat, NEW size \in Nat \ {0}
  PROVE  TokensOf(Bytes(kind, i, n, size)) = <<[kind |-> kind, index |-> i, call |-> n]>>
<1> DEFINE e == [kind |-> kind, index |-> i, call |-> n]
           b(k) == Bytes(kind, i, n, k)
           A == {k \in Nat : TokensOf(b(k + 1)) = <<e>>}
<1>1. e \in Byte
  BY DEF Byte
<1>2. ASSUME NEW k \in Nat
      PROVE  /\ b(k) \in Seq(Byte) /\ Len(b(k)) = k
             /\ \A m \in 1 .. k : b(k)[m] = e
  <2>1. b(k) \in Seq(Byte) /\ Len(b(k)) = k
    BY BytesTyped
  <2>2. \A m \in 1 .. k : b(k)[m] = e
    BY DEF Bytes
  <2> QED BY <2>1, <2>2
<1>3. ASSUME NEW k \in Nat
      PROVE  /\ Pieces(b(k)) \in Seq(Seq(Byte)) /\ Len(Pieces(b(k))) = k
             /\ \A m \in 1 .. k : Pieces(b(k))[m] = IF m = 1 THEN <<e>> ELSE <<>>
             /\ TokensOf(b(k)) = FlattenSeq(Pieces(b(k)))
  <2>1. /\ Pieces(b(k)) \in Seq(Seq(Byte)) /\ Len(Pieces(b(k))) = k
        /\ \A m \in 1 .. k : Pieces(b(k))[m] = TokenAt(b(k), m)
        /\ TokensOf(b(k)) = FlattenSeq(Pieces(b(k)))
    <3> HIDE DEF b
    <3> QED BY <1>2, PiecesFacts
  <2>2. ASSUME NEW m \in 1 .. k
        PROVE  TokenAt(b(k), m) = IF m = 1 THEN <<e>> ELSE <<>>
    <3>1. b(k)[m] = e /\ (m # 1 => b(k)[m - 1] = e)
      <4> HIDE DEF b, e
      <4> QED BY <1>2
    <3> HIDE DEF b, e
    <3> QED BY <3>1 DEF TokenAt
  <2> HIDE DEF b, e
  <2> QED BY <2>1, <2>2
<1> HIDE DEF b, e
<1>4. 0 \in A
  <2>1. /\ Pieces(b(1)) \in Seq(Seq(Byte)) /\ Len(Pieces(b(1))) = 1
        /\ Pieces(b(1))[1] = <<e>>
        /\ TokensOf(b(1)) = FlattenSeq(Pieces(b(1)))
    BY <1>3
  <2>2. Pieces(b(1)) = <<Pieces(b(1))[1]>>
    BY <2>1
  <2>3. <<e>> \in Seq(Byte)
    BY <1>1
  <2>4. FlattenSeq(<<<<e>>>>) = <<e>>
    BY <2>3, FlattenOne
  <2>5. 0 + 1 = 1
    OBVIOUS
  <2> QED BY <2>1, <2>2, <2>4, <2>5
<1>5. ASSUME NEW k \in Nat, k \in A PROVE k + 1 \in A
  <2> DEFINE p == Pieces(b(k + 1))
             q == Pieces(b((k + 1) + 1))
  <2>1. /\ p \in Seq(Seq(Byte)) /\ Len(p) = k + 1
        /\ \A m \in 1 .. k + 1 : p[m] = IF m = 1 THEN <<e>> ELSE <<>>
        /\ TokensOf(b(k + 1)) = FlattenSeq(p)
    BY <1>3
  <2>2. /\ q \in Seq(Seq(Byte)) /\ Len(q) = (k + 1) + 1
        /\ \A m \in 1 .. (k + 1) + 1 : q[m] = IF m = 1 THEN <<e>> ELSE <<>>
        /\ TokensOf(b((k + 1) + 1)) = FlattenSeq(q)
    BY <1>3
  <2>3. <<>> \in Seq(Byte)
    OBVIOUS
  <2> HIDE DEF p, q
  <2>4. /\ Append(p, <<>>) \in Seq(Seq(Byte)) /\ Len(Append(p, <<>>)) = (k + 1) + 1
        /\ \A m \in 1 .. k + 1 : Append(p, <<>>)[m] = p[m]
        /\ Append(p, <<>>)[(k + 1) + 1] = <<>>
    BY <2>1, <2>3, AppendProperties
  <2>5. ASSUME NEW m \in 1 .. (k + 1) + 1 PROVE q[m] = Append(p, <<>>)[m]
    <3>1. CASE m = (k + 1) + 1
      BY <2>2, <2>4, <3>1
    <3>2. CASE m # (k + 1) + 1
      <4>1. m \in 1 .. k + 1
        BY <3>2
      <4> QED BY <2>1, <2>2, <2>4, <4>1
    <3> QED BY <3>1, <3>2
  <2>6. q = Append(p, <<>>)
    BY <2>2, <2>4, <2>5, SeqEqual
  <2>7. FlattenSeq(q) = FlattenSeq(p) \o <<>>
    BY <2>1, <2>3, <2>6, FlattenAppend
  <2>8. FlattenSeq(p) = <<e>>
    BY <1>5, <2>1
  <2>9. <<e>> \o <<>> = <<e>>
    BY <1>1
  <2> QED BY <2>2, <2>7, <2>8, <2>9
<1> HIDE DEF A
<1>6. Nat \subseteq A
  BY <1>4, <1>5, NatSetInduction
<1>7. size - 1 \in A /\ (size - 1) + 1 = size
  BY <1>6
<1> QED BY <1>7 DEF A, b, e

-----------------------------------------------------------------------------

\* The calls logged with their index begin the runs, and a run is of one format;
\* only two runs of format 0 can follow each other.
RunsAreFound ==
  /\ begins \in Seq(1 .. Len(calls))
  /\ calls # <<>> => begins # <<>> /\ begins[1] = 1
  /\ \A j, k \in 1 .. Len(begins) : j < k => begins[j] < begins[k]
  /\ \A j \in 1 .. Len(begins) - 1 : Format(j) # Format(j + 1) \/ Format(j) = 0
  /\ \A n \in 1 .. Len(calls) : \E j \in 1 .. Len(begins) :
       begins[j] <= n /\ n <= LastOf(j)
  /\ \A j \in 1 .. Len(begins) : \A n \in begins[j] .. LastOf(j) : calls[n] = Format(j)

\* Every call's format is in the index file.
Registered == \A n \in 1 .. Len(calls) : calls[n] < sites

\* A record of the runlength buffer, and the one that is being counted.
Record == [index : Index, count : Nat]

CurrentRun == [index |-> m_runlength_index, count |-> m_current_runlength]

\* The records are those that are due, the last of them not yet written.
RecordsAreDue ==
  /\ runlengths \in Seq(Record)
  /\ due = IF Repeated THEN Append(runlengths, CurrentRun) ELSE runlengths

-----------------------------------------------------------------------------

\* The types of the histories of calls, and the call logged last.
LEMMA RunFacts ==
  ASSUME IInv, RunsAreFound
  PROVE  /\ calls \in Seq(Index) /\ Len(calls) \in Nat /\ Len(begins) \in Nat
         /\ \A n \in 1 .. Len(calls) : calls[n] \in Index
         /\ \A j \in 1 .. Len(begins) :
              /\ begins[j] \in 1 .. Len(calls)
              /\ LastOf(j) \in begins[j] .. Len(calls)
              /\ j < Len(begins) => LastOf(j) = begins[j + 1] - 1
              /\ Format(j) \in Index
         /\ calls # <<>> =>
              /\ Len(begins) # 0 /\ Len(calls) # 0
              /\ Format(Len(begins)) = m_runlength_index
              /\ calls[Len(calls)] = m_runlength_index
<1> DEFINE N == Len(calls)
           R == Len(begins)
<1>1. calls \in Seq(Index) /\ N \in Nat /\ R \in Nat /\ begins \in Seq(1 .. N)
  BY LenProperties DEF IInv, TypeOK, RunsAreFound
<1>2. \A n \in 1 .. N : calls[n] \in Index
  BY <1>1, ElementOfSeq
<1>3. \A j \in 1 .. R : begins[j] \in 1 .. N
  BY <1>1, ElementOfSeq
<1>4. \A j, k \in 1 .. R : j < k => begins[j] < begins[k]
  BY DEF RunsAreFound
<1> HIDE DEF N, R
<1>5. ASSUME NEW j \in 1 .. R
      PROVE  LastOf(j) \in begins[j] .. N /\ (j < R => LastOf(j) = begins[j + 1] - 1)
  <2>1. LastOf(j) = IF j = R THEN N ELSE begins[j + 1] - 1
    BY DEF LastOf, N, R
  <2>2. CASE j = R
    BY <1>1, <1>3, <2>1, <2>2
  <2>3. CASE j # R
    <3>1. j + 1 \in 1 .. R /\ j < j + 1
      BY <1>1, <2>3
    <3>2. begins[j] < begins[j + 1]
      BY <1>4, <3>1
    <3> QED BY <1>1, <1>3, <2>1, <2>3, <3>1, <3>2
  <2> QED BY <2>2, <2>3
<1>6. \A j \in 1 .. R : Format(j) \in Index
  BY <1>2, <1>3 DEF Format
<1>7. ASSUME calls # <<>>
      PROVE  R # 0 /\ N # 0 /\ Format(R) = m_runlength_index /\ calls[N] = m_runlength_index
  <2>1. N # 0
    BY <1>1, <1>7, EmptySeq DEF N
  <2>2. R # 0
    BY <1>1, <1>7, EmptySeq DEF R, RunsAreFound
  <2>3. calls[N] = m_runlength_index
    <3>1. starts # <<>>
      BY <2>1, EmptySeq DEF IInv, N
    <3> QED BY <3>1 DEF IInv, InCurrentRun, N
  <2>4. R \in 1 .. R /\ N \in begins[R] .. LastOf(R)
    <3>1. R \in 1 .. R
      BY <1>1, <2>2
    <3>2. LastOf(R) = N
      BY DEF LastOf, N, R
    <3> QED BY <1>1, <1>3, <3>1, <3>2
  <2>5. calls[N] = Format(R)
    BY <2>4 DEF RunsAreFound, R
  <2> QED BY <2>1, <2>2, <2>3, <2>5
<1> QED BY <1>1, <1>2, <1>3, <1>5, <1>6, <1>7 DEF N, R

\* A run lies between its own index and the next.
LEMMA BeginRunKeepsRuns ==
  ASSUME IInv, RunsAreFound, NEW i \in Index, BeginRun(i)
  PROVE  RunsAreFound'
<1>a. PICK N \in Nat, R \in Nat : N = Len(calls) /\ R = Len(begins)
  BY RunFacts
<1>1. /\ calls \in Seq(Index) /\ N \in Nat /\ R \in Nat
      /\ \A j \in 1 .. R : begins[j] \in 1 .. N /\ LastOf(j) \in begins[j] .. N
      /\ \A j \in 1 .. R : j < R => LastOf(j) = begins[j + 1] - 1
      /\ calls # <<>> => R # 0 /\ N # 0 /\ Format(R) = m_runlength_index
  BY <1>a, RunFacts
<1>2. calls' = Append(calls, i) /\ begins' = Append(begins, N + 1)
  BY <1>a DEF BeginRun, StartRun, Remember
<1>3. begins \in Seq(1 .. N)
  BY <1>a DEF RunsAreFound
<1>4. Len(calls') = N + 1 /\ calls'[N + 1] = i /\ \A n \in 1 .. N : calls'[n] = calls[n]
  BY <1>a, <1>1, <1>2, AppendProperties
<1>5. /\ begins' \in Seq(1 .. N + 1)
      /\ Len(begins') = R + 1 /\ begins'[R + 1] = N + 1
      /\ \A j \in 1 .. R : begins'[j] = begins[j]
  <2>1. begins \in Seq(1 .. N + 1) /\ N + 1 \in 1 .. N + 1
    <3>1. \A j \in 1 .. R : begins[j] \in 1 .. N + 1
      BY <1>a, <1>1
    <3> QED BY <1>a, <1>1, <1>3, <3>1, SeqDef, LenProperties
  <2> QED BY <1>a, <1>2, <2>1, AppendProperties
<1>6. calls = <<>> <=> R = 0
  BY <1>a, <1>1, <1>3, EmptySeq DEF RunsAreFound
<1>7. i = 0 \/ m_runlength_index # i
  BY <1>a DEF BeginRun, StartRun, WritesIndex
<1>8. /\ R # 0 => begins[1] = 1
      /\ \A j, k \in 1 .. R : j < k => begins[j] < begins[k]
      /\ \A j \in 1 .. R - 1 : Format(j) # Format(j + 1) \/ Format(j) = 0
      /\ \A n \in 1 .. N : \E j \in 1 .. R : begins[j] <= n /\ n <= LastOf(j)
      /\ \A j \in 1 .. R : \A n \in begins[j] .. LastOf(j) : calls[n] = Format(j)
  BY <1>a, <1>6 DEF RunsAreFound
<1>9. \A j \in 1 .. R + 1 : LastOf(j)' = IF j = R + 1 THEN N + 1 ELSE begins'[j + 1] - 1
  BY <1>a, <1>4, <1>5 DEF LastOf
<1>10. ASSUME NEW j \in 1 .. R PROVE LastOf(j)' = LastOf(j)
  <2>1. LastOf(j)' = begins'[j + 1] - 1
    BY <1>a, <1>1, <1>9
  <2>2. LastOf(j) = IF j = R THEN N ELSE begins[j + 1] - 1
    BY <1>a DEF LastOf
  <2>3. CASE j = R
    BY <1>a, <1>1, <1>5, <2>1, <2>2, <2>3
  <2>4. CASE j # R
    <3>1. j + 1 \in 1 .. R
      BY <1>a, <1>1, <2>4
    <3> QED BY <1>a, <1>5, <2>1, <2>2, <2>4, <3>1
  <2> QED BY <1>a, <2>3, <2>4
<1>11. LastOf(R + 1)' = N + 1
  BY <1>a, <1>1, <1>9
<1>12. \A j \in 1 .. R : Format(j)' = Format(j)
  BY <1>a, <1>1, <1>4, <1>5 DEF Format
<1>13. Format(R + 1)' = i
  BY <1>a, <1>4, <1>5 DEF Format
<1>14. begins' # <<>> /\ begins'[1] = 1
  <2>1. begins' # <<>>
    BY <1>a, <1>1, <1>5, EmptySeq
  <2>2. begins'[1] = 1
    <3>1. CASE R = 0
      BY <1>a, <1>1, <1>5, <1>6, <3>1, EmptySeq
    <3>2. CASE R # 0
      <4>1. 1 \in 1 .. R
        BY <1>a, <1>1, <3>2
      <4> QED BY <1>a, <1>5, <1>8, <3>2, <4>1
    <3> QED BY <1>a, <3>1, <3>2
  <2> QED BY <1>a, <2>1, <2>2
<1>15. ASSUME NEW j \in 1 .. R + 1, NEW k \in 1 .. R + 1, j < k
       PROVE  begins'[j] < begins'[k]
  <2>1. j \in 1 .. R
    BY <1>a, <1>1, <1>15
  <2>2. CASE k = R + 1
    BY <1>a, <1>1, <1>5, <2>1, <2>2
  <2>3. CASE k # R + 1
    <3>1. k \in 1 .. R
      BY <1>a, <1>1, <2>3
    <3> QED BY <1>a, <1>5, <1>8, <1>15, <2>1, <3>1
  <2> QED BY <1>a, <2>2, <2>3
<1>16. ASSUME NEW j \in 1 .. R
       PROVE  Format(j)' # Format(j + 1)' \/ Format(j)' = 0
  <2>1. CASE j = R
    <3>1. Format(j)' = m_runlength_index
      BY <1>a, <1>1, <1>6, <1>12, <2>1
    <3>2. Format(j + 1)' = i
      BY <1>a, <1>13, <2>1
    <3> QED BY <1>a, <1>7, <3>1, <3>2
  <2>2. CASE j # R
    <3>1. j + 1 \in 1 .. R /\ j \in 1 .. R - 1
      BY <1>a, <1>1, <2>2
    <3> QED BY <1>a, <1>8, <1>12, <3>1
  <2> QED BY <1>a, <2>1, <2>2
<1>17. ASSUME NEW n \in 1 .. N + 1
       PROVE  \E j \in 1 .. R + 1 : begins'[j] <= n /\ n <= LastOf(j)'
  <2>1. CASE n = N + 1
    <3>1. R + 1 \in 1 .. R + 1
      BY <1>a, <1>1
    <3> QED BY <1>a, <1>1, <1>5, <1>11, <2>1, <3>1
  <2>2. CASE n # N + 1
    <3>1. n \in 1 .. N
      BY <1>a, <1>1, <2>2
    <3>2. PICK j \in 1 .. R : begins[j] <= n /\ n <= LastOf(j)
      BY <1>a, <1>8, <3>1
    <3>3. j \in 1 .. R + 1 /\ begins'[j] <= n /\ n <= LastOf(j)'
      BY <1>a, <1>1, <1>5, <1>10, <3>2
    <3> QED BY <1>a, <3>3
  <2> QED BY <1>a, <2>1, <2>2
<1>18. ASSUME NEW j \in 1 .. R + 1, NEW n \in begins'[j] .. LastOf(j)'
       PROVE  calls'[n] = Format(j)'
  <2>1. CASE j = R + 1
    <3>1. n = N + 1
      BY <1>a, <1>1, <1>5, <1>11, <2>1
    <3> QED BY <1>a, <1>4, <1>13, <2>1, <3>1
  <2>2. CASE j # R + 1
    <3>1. j \in 1 .. R
      BY <1>a, <1>1, <2>2
    <3>2. n \in begins[j] .. LastOf(j)
      BY <1>a, <1>5, <1>10, <3>1
    <3>3. calls[n] = Format(j)
      BY <1>8, <3>1, <3>2
    <3>4. n \in 1 .. N
      BY <1>1, <3>1, <3>2
    <3> QED BY <1>a, <1>4, <1>12, <3>1, <3>3, <3>4
  <2> QED BY <1>a, <2>1, <2>2
<1>19. (R + 1) - 1 = R
  BY <1>a, <1>1
<1> QED BY <1>a, <1>4, <1>5, <1>14, <1>15, <1>16, <1>17, <1>18, <1>19 DEF RunsAreFound

\* A call without an index goes on with the last run.
LEMMA GoOnKeepsRuns ==
  ASSUME IInv, RunsAreFound, NEW i \in Index, GoOn(i)
  PROVE  RunsAreFound' /\ calls # <<>> /\ i = m_runlength_index
<1>a. PICK N \in Nat, R \in Nat : N = Len(calls) /\ R = Len(begins)
  BY RunFacts
<1>0. calls # <<>> /\ i = m_runlength_index
  <2>1. i = m_runlength_index /\ (i = 0 => m_current_runlength # 0)
    BY <1>a DEF GoOn, ContinueRun, WritesIndex
  <2>2. SUFFICES ASSUME calls = <<>> PROVE FALSE
    BY <1>a, <2>1
  <2>3. starts = <<>>
    BY <1>a, <2>2, EmptySeq, LenProperties DEF IInv, TypeOK
  <2> QED BY <1>a, <2>1, <2>3 DEF IInv, Fresh
<1>1. /\ calls \in Seq(Index) /\ N \in Nat /\ R \in Nat
      /\ \A j \in 1 .. R : begins[j] \in 1 .. N /\ LastOf(j) \in begins[j] .. N
      /\ \A j \in 1 .. R : j < R => LastOf(j) = begins[j + 1] - 1
      /\ R # 0 /\ N # 0 /\ Format(R) = i
  BY <1>a, <1>0, RunFacts
<1>2. calls' = Append(calls, i) /\ begins' = begins
  BY <1>a DEF GoOn, ContinueRun, Remember
<1>3. begins \in Seq(1 .. N)
  BY <1>a DEF RunsAreFound
<1>4. Len(calls') = N + 1 /\ calls'[N + 1] = i /\ \A n \in 1 .. N : calls'[n] = calls[n]
  BY <1>a, <1>1, <1>2, AppendProperties
<1>5. begins' \in Seq(1 .. N + 1)
  <2>1. \A j \in 1 .. R : begins[j] \in 1 .. N + 1
    BY <1>a, <1>1
  <2> QED BY <1>a, <1>1, <1>2, <1>3, <2>1, SeqDef, LenProperties
<1>8. /\ begins # <<>> /\ begins[1] = 1
      /\ \A j, k \in 1 .. R : j < k => begins[j] < begins[k]
      /\ \A j \in 1 .. R - 1 : Format(j) # Format(j + 1) \/ Format(j) = 0
      /\ \A n \in 1 .. N : \E j \in 1 .. R : begins[j] <= n /\ n <= LastOf(j)
      /\ \A j \in 1 .. R : \A n \in begins[j] .. LastOf(j) : calls[n] = Format(j)
  BY <1>a, <1>0 DEF RunsAreFound
<1>9. \A j \in 1 .. R : LastOf(j)' = IF j = R THEN N + 1 ELSE LastOf(j)
  BY <1>a, <1>2, <1>4 DEF LastOf
<1>10. LastOf(R) = N
  BY <1>a DEF LastOf
<1>12. \A j \in 1 .. R : Format(j)' = Format(j)
  BY <1>a, <1>1, <1>2, <1>4 DEF Format
<1>17. ASSUME NEW n \in 1 .. N + 1
       PROVE  \E j \in 1 .. R : begins[j] <= n /\ n <= LastOf(j)'
  <2>1. CASE n = N + 1
    <3>1. R \in 1 .. R
      BY <1>a, <1>1
    <3>2. begins[R] <= n /\ n <= LastOf(R)'
      BY <1>a, <1>1, <1>9, <2>1, <3>1
    <3> QED BY <1>a, <3>1, <3>2
  <2>2. CASE n # N + 1
    <3>1. n \in 1 .. N
      BY <1>a, <1>1, <2>2
    <3>2. PICK j \in 1 .. R : begins[j] <= n /\ n <= LastOf(j)
      BY <1>a, <1>8, <3>1
    <3>3. LastOf(j)' \in Nat /\ LastOf(j) <= LastOf(j)'
      BY <1>a, <1>1, <1>9, <1>10
    <3>4. n <= LastOf(j)'
      BY <1>a, <1>1, <3>2, <3>3
    <3> QED BY <1>a, <3>2, <3>4
  <2> QED BY <1>a, <2>1, <2>2
<1>18. ASSUME NEW j \in 1 .. R, NEW n \in begins[j] .. LastOf(j)'
       PROVE  calls'[n] = Format(j)'
  <2>1. CASE n = N + 1
    <3>1. j = R
      BY <1>a, <1>1, <1>9, <2>1
    <3> QED BY <1>a, <1>1, <1>4, <1>12, <2>1, <3>1
  <2>2. CASE n # N + 1
    <3>1. begins[j] \in 1 .. N /\ LastOf(j) \in begins[j] .. N
      BY <1>1
    <3>2. n \in begins[j] .. LastOf(j)
      <4>1. CASE j = R
        <5>1. LastOf(j)' = N + 1 /\ LastOf(j) = N
          BY <1>9, <1>10, <4>1
        <5> QED BY <1>a, <2>2, <3>1, <5>1
      <4>2. CASE j # R
        <5>1. LastOf(j)' = LastOf(j)
          BY <1>9, <4>2
        <5> QED BY <5>1
      <4> QED BY <4>1, <4>2
    <3>3. calls[n] = Format(j)
      BY <1>8, <3>2
    <3>4. n \in 1 .. N
      BY <1>a, <3>1, <3>2
    <3> QED BY <1>a, <1>4, <1>12, <3>3, <3>4
  <2> QED BY <1>a, <2>1, <2>2
<1>19. \A j \in 1 .. R - 1 : Format(j)' # Format(j + 1)' \/ Format(j)' = 0
  <2> SUFFICES ASSUME NEW j \in 1 .. R - 1
               PROVE  Format(j)' # Format(j + 1)' \/ Format(j)' = 0
    OBVIOUS
  <2>1. j \in 1 .. R /\ j + 1 \in 1 .. R
    BY <1>a, <1>1
  <2> QED BY <1>a, <1>8, <1>12, <2>1
<1>20. RunsAreFound'
  BY <1>a, <1>2, <1>4, <1>5, <1>8, <1>17, <1>18, <1>19 DEF RunsAreFound
<1> QED BY <1>a, <1>0, <1>20

\* Sites are registered before their first call is.
LEMMA CallsKeepRegistered ==
  ASSUME IInv, RunsAreFound, Registered, NEW i \in Index, BeginRun(i) \/ GoOn(i)
  PROVE  Registered'
<1> DEFINE N == Len(calls)
<1>1. /\ calls \in Seq(Index) /\ N \in Nat /\ sites \in Nat
      /\ \A n \in 1 .. N : calls[n] \in Index
  BY RunFacts, RingAssumption DEF IInv, TypeOK
<1>2. calls' = Append(calls, i)
  BY DEF BeginRun, GoOn, StartRun, ContinueRun, Remember
<1>3. Len(calls') = N + 1 /\ calls'[N + 1] = i /\ \A n \in 1 .. N : calls'[n] = calls[n]
  BY <1>1, <1>2, AppendProperties
<1>4. i < sites' /\ sites <= sites' /\ sites' \in Nat
  <2>1. i \in Nat
    BY RingAssumption DEF Index
  <2>2. CASE BeginRun(i)
    <3>1. i <= sites /\ Register(i)
      BY <2>2 DEF BeginRun, StartRun, Callable
    <3>2. sites' = IF i = sites THEN sites + 1 ELSE sites
      BY <3>1 DEF Register, registry
    <3> QED BY <1>1, <2>1, <3>1, <3>2
  <2>3. CASE GoOn(i)
    <3>1. sites' = sites
      BY <2>3 DEF GoOn, ContinueRun, registry
    <3>2. calls # <<>> /\ i = m_runlength_index
      BY <2>3, GoOnKeepsRuns
    <3>3. N \in 1 .. N /\ calls[N] = i
      BY <3>2, RunFacts
    <3>4. i < sites
      BY <3>3 DEF Registered
    <3> QED BY <1>1, <3>1, <3>4
  <2> QED BY <2>2, <2>3
<1>5. ASSUME NEW n \in 1 .. N + 1 PROVE calls'[n] < sites'
  <2>1. CASE n = N + 1
    BY <1>3, <1>4, <2>1
  <2>2. CASE n # N + 1
    <3>1. n \in 1 .. N
      BY <1>1, <2>2
    <3>2. calls[n] < sites /\ calls[n] \in Nat
      BY <1>1, <3>1, RingAssumption DEF Registered, Index
    <3> QED BY <1>1, <1>3, <1>4, <3>1, <3>2
  <2> QED BY <2>1, <2>2
<1> QED BY <1>3, <1>5 DEF Registered

\* A record is written when the run it is of ends, or at a flush.
LEMMA LoggingKeepsRecords ==
  ASSUME IInv, RunsAreFound, RecordsAreDue,
         (\E i \in Index : BeginRun(i) \/ GoOn(i)) \/ Other, Runlengths
  PROVE  RecordsAreDue'
<1> DEFINE rec == [index |-> m_runlength_index, count |-> m_current_runlength]
           DueAgain == due' = IF Repeated' THEN Append(runlengths', CurrentRun') ELSE runlengths'
<1>1. /\ m_runlength_index \in Index /\ m_current_runlength \in Nat /\ records \in Nat
      /\ runlengths \in Seq(Record)
      /\ due = IF Repeated THEN Append(runlengths, rec) ELSE runlengths
  BY DEF IInv, TypeOK, RecordsAreDue, CurrentRun
<1>2. rec \in Record
  BY <1>1 DEF Record
<1>3. Append(runlengths, rec) \in Seq(Record)
  BY <1>1, <1>2, AppendProperties
<1>4. runlengths' = IF records' = records THEN runlengths ELSE Append(runlengths, rec)
  BY DEF Runlengths
<1>5. runlengths' \in Seq(Record)
  BY <1>1, <1>3, <1>4
<1>6. DueAgain
  <2>1. ASSUME NEW i \in Index, BeginRun(i) PROVE DueAgain
    <3>1. /\ due' = due
          /\ IF m_runlength_index # i
             THEN /\ records' = IF Repeated THEN records + 1 ELSE records
                  /\ m_current_runlength' = 1
             ELSE /\ records' = records
                  /\ m_current_runlength' = m_current_runlength + 1
          /\ WritesIndex(i)
      BY <2>1 DEF BeginRun, StartRun
    <3>2. records + 1 # records
      BY <1>1
    <3>3. CASE m_runlength_index # i
      <4>1. ~ Repeated'
        BY <3>1, <3>3 DEF Repeated
      <4>2. runlengths' = IF Repeated THEN Append(runlengths, rec) ELSE runlengths
        BY <1>4, <3>1, <3>2, <3>3
      <4> QED BY <1>1, <3>1, <4>1, <4>2
    <3>4. CASE m_runlength_index = i
      <4>1. m_current_runlength = 0
        BY <3>1, <3>4 DEF WritesIndex
      <4>2. m_current_runlength' = 1 /\ records' = records
        BY <3>1, <3>4, <4>1
      <4>3. ~ Repeated' /\ ~ Repeated
        BY <4>1, <4>2 DEF Repeated
      <4> QED BY <1>1, <1>4, <3>1, <4>2, <4>3
    <3> QED BY <3>3, <3>4
  <2>2. ASSUME NEW i \in Index, GoOn(i) PROVE DueAgain
    <3>1. /\ due' = CASE m_current_runlength = 0 -> due
                      [] m_current_runlength = 1 -> Append(due, [index |-> i, count |-> 2])
                      [] OTHER -> [due EXCEPT ![Len(due)].count = @ + 1]
          /\ m_current_runlength' = m_current_runlength + 1
          /\ m_runlength_index' = m_runlength_index /\ records' = records
      BY <2>2 DEF GoOn, ContinueRun
    <3>2. i = m_runlength_index
      BY <2>2, GoOnKeepsRuns
    <3>3. runlengths' = runlengths
      BY <1>4, <3>1
    <3>4. CurrentRun' = [index |-> m_runlength_index, count |-> m_current_runlength + 1]
      BY <3>1 DEF CurrentRun
    <3>5. CASE m_current_runlength = 0
      <4>1. ~ Repeated' /\ ~ Repeated
        BY <3>1, <3>5 DEF Repeated
      <4> QED BY <1>1, <3>1, <3>3, <3>5, <4>1
    <3>6. CASE m_current_runlength = 1
      <4>1. Repeated' /\ ~ Repeated
        BY <3>1, <3>6 DEF Repeated
      <4>2. due' = Append(due, [index |-> i, count |-> 2])
        BY <3>1, <3>6
      <4>3. CurrentRun' = [index |-> i, count |-> 2]
        BY <3>2, <3>4, <3>6
      <4> QED BY <1>1, <3>3, <4>1, <4>2, <4>3
    <3>7. CASE m_current_runlength \notin {0, 1}
      <4>1. Repeated' /\ Repeated
        BY <1>1, <3>1, <3>7 DEF Repeated
      <4>2. due' = [due EXCEPT ![Len(due)].count = @ + 1]
        BY <3>1, <3>7
      <4>3. due = Append(runlengths, rec)
        BY <1>1, <4>1
      <4> DEFINE R == Len(runlengths)
                 more == [index |-> m_runlength_index, count |-> m_current_runlength + 1]
                 b == Append(runlengths, more)
      <4>4. /\ R \in Nat /\ due \in Seq(Record) /\ Len(due) = R + 1 /\ due[R + 1] = rec
            /\ \A k \in 1 .. R : due[k] = runlengths[k]
        BY <1>1, <1>2, <4>3, AppendProperties, LenProperties
      <4>5. more \in Record
        BY <1>1 DEF Record
      <4>6. /\ b \in Seq(Record) /\ Len(b) = R + 1 /\ b[R + 1] = more
            /\ \A k \in 1 .. R : b[k] = runlengths[k]
        <5> HIDE DEF more
        <5> QED BY <1>1, <4>5, AppendProperties
      <4>7. DOMAIN due = 1 .. R + 1 /\ DOMAIN b = 1 .. R + 1
        <5> HIDE DEF b, R
        <5> QED BY <4>4, <4>6, LenProperties
      <4>8. due' = [k \in 1 .. R + 1 |->
                       IF k = R + 1 THEN [due[k] EXCEPT !.count = @ + 1] ELSE due[k]]
        BY <4>2, <4>4, <4>7
      <4>9. [due[R + 1] EXCEPT !.count = @ + 1] = more
        BY <4>4
      <4> HIDE DEF b, more, rec, R
      <4>10. b = [k \in 1 .. R + 1 |-> b[k]]
        BY <4>6, <4>7, SeqDef
      <4>11. ASSUME NEW k \in 1 .. R + 1
             PROVE  b[k] = IF k = R + 1 THEN [due[k] EXCEPT !.count = @ + 1] ELSE due[k]
        <5>1. CASE k = R + 1
          BY <4>6, <4>9, <5>1
        <5>2. CASE k # R + 1
          <6>1. k \in 1 .. R
            BY <4>4, <5>2
          <6> QED BY <4>4, <4>6, <5>2, <6>1
        <5> QED BY <5>1, <5>2
      <4>12. due' = b
        BY <4>8, <4>10, <4>11
      <4> QED BY <3>3, <3>4, <4>1, <4>12 DEF b, more
    <3> QED BY <3>5, <3>6, <3>7
  <2>3. ASSUME Other PROVE DueAgain
    <3>1. due' = due
      BY <2>3 DEF Other
    <3>2. CASE UNCHANGED encoding
      <4>1. (Repeated' <=> Repeated) /\ runlengths' = runlengths /\ CurrentRun' = rec
        BY <1>4, <3>2 DEF Repeated, CurrentRun, encoding
      <4> QED BY <1>1, <3>1, <4>1
    <3>3. CASE WriteRecord /\ UNCHANGED m_runlength_index
      <4>1. /\ records' = IF Repeated THEN records + 1 ELSE records
            /\ m_current_runlength' = IF Repeated THEN 0 ELSE m_current_runlength
        BY <3>3 DEF WriteRecord
      <4>2. records + 1 # records
        BY <1>1
      <4>3. ~ Repeated'
        <5>1. CASE Repeated
          BY <4>1, <5>1 DEF Repeated
        <5>2. CASE ~ Repeated
          BY <4>1, <5>2 DEF Repeated
        <5> QED BY <5>1, <5>2
      <4>4. runlengths' = IF Repeated THEN Append(runlengths, rec) ELSE runlengths
        BY <1>4, <4>1, <4>2
      <4> QED BY <1>1, <3>1, <4>3, <4>4
    <3>4. (UNCHANGED encoding) \/ (WriteRecord /\ UNCHANGED m_runlength_index)
      BY <2>3 DEF Other, UpdateLogFile, Abort, Flush
    <3> QED BY <3>2, <3>3, <3>4
  <2> QED BY <2>1, <2>2, <2>3
<1> QED BY <1>5, <1>6 DEF RecordsAreDue

-----------------------------------------------------------------------------

\* Did this call write its index?
Begun(n) == \E j \in 1 .. Len(begins) : begins[j] = n

\* The bytes of a call: its index if it has one, and its values.
Lead(n) == IF Begun(n) THEN Bytes("index", calls[n], n, IndexBytes) ELSE <<>>

ValuesOf(n, size) == Bytes("args", calls[n], n, size)

\* The sizes its values may have: those of the last call may not be written yet.
Sizes(n) == IF n = Len(starts) /\ state = "logging" THEN {0} ELSE ArgBytes[calls[n]]

\* The stream from a call on, and behind it.
StreamFrom(n) == After(stream, starts[n])

Behind(n) == IF n = Len(starts) THEN <<>> ELSE StreamFrom(n + 1)

\* The entry of a call and behind it those of the calls that follow.
EntryWritten(n, size) == StreamFrom(n) = Lead(n) \o (ValuesOf(n, size) \o Behind(n))

\* The stream is the entries of the calls, one behind the other.
EntriesWritten ==
  state # "undefined" =>
    \A n \in 1 .. Len(starts) : \E size \in Sizes(n) : EntryWritten(n, size)

\* From a call's entry on there are no bytes of an earlier call.
Stamped ==
  \A n \in 1 .. Len(starts) :
    \A k \in starts[n] + 1 .. Len(stream) : stream[k].call >= n

-----------------------------------------------------------------------------

\* Concatenation under a name the solvers leave alone: they reason about \o
\* element by element, and only its algebra is needed here.
Cat(s, t) == s \o t

\* It is associative.
LEMMA CatFacts ==
  ASSUME NEW S
  PROVE  /\ \A a, b \in Seq(S) : Cat(a, b) \in Seq(S)
         /\ \A a, b, c \in Seq(S) : Cat(Cat(a, b), c) = Cat(a, Cat(b, c))
<1>1. \A a, b \in Seq(S) : a \o b \in Seq(S)
  BY ConcatProperties
<1>2. \A a, b, c \in Seq(S) : (a \o b) \o c = a \o (b \o c)
  BY ConcatAssociative, SMT
<1> QED BY <1>1, <1>2, Zenon DEF Cat

\* What is written behind the entries comes behind the last part of each.
ComesBehind(l, a, b, c) == (l \o (a \o b)) \o c = l \o (a \o (b \o c))

\* Whatever the sequences are.
LEMMA AddedBehind == \A l, a, b, c \in Seq(Byte) : ComesBehind(l, a, b, c)
<1> TAKE l, a, b, c \in Seq(Byte)
<1>1. Cat(Cat(l, Cat(a, b)), c) = Cat(l, Cat(a, Cat(b, c)))
  <2>1. Cat(a, b) \in Seq(Byte)
    BY CatFacts
  <2>2. Cat(Cat(l, Cat(a, b)), c) = Cat(l, Cat(Cat(a, b), c))
    BY <2>1, CatFacts
  <2> QED BY <2>2, CatFacts
<1> QED BY <1>1, Zenon DEF Cat, ComesBehind

\* The types of the parts of an entry.
LEMMA EntryFacts ==
  ASSUME IInv, RunsAreFound
  PROVE  /\ Len(starts) \in Nat /\ Len(calls) = Len(starts) /\ Len(stream) \in Nat
         /\ stream \in Seq(Byte) /\ m_buffer_index = Len(stream)
         /\ \A n \in 1 .. Len(starts) :
              /\ starts[n] \in 0 .. Len(stream)
              /\ StreamFrom(n) \in Seq(Byte)
              /\ Behind(n) \in Seq(Byte)
              /\ Lead(n) \in Seq(Byte)
              /\ calls[n] \in Index
              /\ \A size \in Sizes(n) : size \in Nat /\ ValuesOf(n, size) \in Seq(Byte)
<1> DEFINE N == Len(starts)
<1>1. /\ stream \in Seq(Byte) /\ Len(stream) \in Nat /\ m_buffer_index = Len(stream)
      /\ Len(calls) = N /\ calls \in Seq(Index) /\ starts \in Seq(0 .. m_buffer_index)
      /\ N \in Nat
  BY LenProperties DEF IInv, TypeOK
<1> HIDE DEF N
<1>2. ASSUME NEW n \in 1 .. N
      PROVE  starts[n] \in 0 .. Len(stream) /\ calls[n] \in Index
  BY <1>1, ElementOfSeq DEF N
<1>3. ASSUME NEW n \in 1 .. N PROVE StreamFrom(n) \in Seq(Byte)
  BY <1>1, <1>2, AfterFacts DEF StreamFrom
<1>4. ASSUME NEW n \in 1 .. N PROVE Behind(n) \in Seq(Byte)
  <2>1. CASE n = N
    BY <2>1 DEF Behind, N
  <2>2. CASE n # N
    <3>1. n + 1 \in 1 .. N
      BY <1>1, <2>2
    <3> QED BY <1>3, <2>2, <3>1 DEF Behind, N
  <2> QED BY <2>1, <2>2
<1>5. ASSUME NEW n \in 1 .. N PROVE Lead(n) \in Seq(Byte)
  <2>1. Bytes("index", calls[n], n, IndexBytes) \in Seq(Byte)
    BY <1>1, <1>2, BytesTyped, RingAssumption
  <2> QED BY <2>1 DEF Lead
<1>6. ASSUME NEW n \in 1 .. N, NEW size \in Sizes(n)
      PROVE  size \in Nat /\ ValuesOf(n, size) \in Seq(Byte)
  <2>1. size \in Nat
    BY <1>2, RingAssumption DEF Sizes
  <2>2. n \in Nat
    BY <1>1
  <2> QED BY <1>2, <2>1, <2>2, BytesTyped DEF ValuesOf
<1> QED BY <1>1, <1>2, <1>3, <1>4, <1>5, <1>6 DEF N

\* A new call's entry starts at the end of the stream, with its index or with
\* nothing.
LEMMA CallsKeepEntries ==
  ASSUME IInv, RunsAreFound, EntriesWritten, Stamped,
         NEW i \in Index, BeginRun(i) \/ GoOn(i)
  PROVE  EntriesWritten' /\ Stamped'
<1>a. PICK N \in Nat, L \in Nat : N = Len(starts) /\ L = Len(stream)
  BY EntryFacts
<1>1. /\ Len(calls) = N /\ stream \in Seq(Byte) /\ m_buffer_index = L
      /\ \A n \in 1 .. N :
           /\ starts[n] \in 0 .. L
           /\ StreamFrom(n) \in Seq(Byte) /\ Behind(n) \in Seq(Byte) /\ Lead(n) \in Seq(Byte)
           /\ \A size \in Sizes(n) : ValuesOf(n, size) \in Seq(Byte)
  BY <1>a, EntryFacts
<1>2. /\ calls \in Seq(Index) /\ starts \in Seq(Nat)
      /\ calls' = Append(calls, i) /\ starts' = Append(starts, L)
      /\ state = "idle"
  <2>1. starts \in Seq(Nat)
    <3>1. starts \in Seq(0 .. L)
      BY <1>1 DEF IInv, TypeOK
    <3>2. \A n \in 1 .. N : starts[n] \in Nat
      BY <1>1
    <3> QED BY <1>a, <3>1, <3>2, SeqDef, LenProperties
  <2> QED BY <1>1, <2>1 DEF BeginRun, GoOn, StartRun, ContinueRun, Callable, Remember,
       IInv, TypeOK
<1>3. /\ Len(calls') = N + 1 /\ calls'[N + 1] = i /\ \A n \in 1 .. N : calls'[n] = calls[n]
      /\ Len(starts') = N + 1 /\ starts'[N + 1] = L /\ \A n \in 1 .. N : starts'[n] = starts[n]
  BY <1>a, <1>1, <1>2, AppendProperties
<1>4. PICK bytes \in Seq(Byte) :
        /\ \A k \in 1 .. Len(bytes) : bytes[k].call = N + 1
        /\ \/ state' = "undefined" /\ stream' = stream
           \/ state' = "logging" /\ stream' = stream \o bytes /\ bytes = Lead(N + 1)'
  <2>1. CASE BeginRun(i)
    <3> DEFINE b == Bytes("index", i, N + 1, IndexBytes)
    <3>1. b \in Seq(Byte)
      BY BytesTyped, RingAssumption
    <3>2. \A k \in 1 .. Len(b) : b[k].call = N + 1
      <4>1. Len(b) = IndexBytes
        BY BytesTyped, RingAssumption
      <4> QED BY <4>1 DEF Bytes
    <3>3. \/ state' = "undefined" /\ stream' = stream
          \/ state' = "logging" /\ stream' = stream \o b
      BY <1>1, <2>1 DEF BeginRun, StartRun, BufferOrWrite
    <3>4. Begun(N + 1)'
      <4>1. begins' = Append(begins, N + 1) /\ begins \in Seq(1 .. N)
        BY <1>1, <2>1 DEF BeginRun, RunsAreFound
      <4>2. begins \in Seq(Nat)
        BY <4>1, SeqDef, LenProperties
      <4>3. /\ Len(begins) \in Nat /\ Len(begins') = Len(begins) + 1
            /\ begins'[Len(begins) + 1] = N + 1
        BY <4>1, <4>2, AppendProperties, LenProperties
      <4>4. Len(begins) + 1 \in 1 .. Len(begins')
        BY <4>3
      <4> QED BY <1>a, <4>3, <4>4 DEF Begun
    <3>5. Lead(N + 1)' = b
      BY <1>3, <3>4 DEF Lead
    <3> QED BY <3>1, <3>2, <3>3, <3>5
  <2>2. CASE GoOn(i)
    <3>1. state' = "logging" /\ stream' = stream /\ begins' = begins
      BY <2>2 DEF GoOn, ContinueRun
    <3> DEFINE b == <<>>
    <3>2. stream \o b = stream /\ b \in Seq(Byte) /\ Len(b) = 0
      BY <1>1, ConcatEmptySeq
    <3>3. ~ Begun(N + 1)'
      <4>1. \A j \in 1 .. Len(begins) : begins[j] \in 1 .. N
        BY <1>1, RunFacts
      <4> QED BY <3>1, <4>1 DEF Begun
    <3>4. Lead(N + 1)' = b
      BY <3>3 DEF Lead
    <3>5. \A k \in 1 .. Len(b) : b[k].call = N + 1
      BY <3>2
    <3> HIDE DEF b
    <3> QED BY <3>1, <3>2, <3>4, <3>5
  <2> QED BY <2>1, <2>2
<1>5. PICK more \in Seq(Byte) :
        /\ \A k \in 1 .. Len(more) : more[k].call = N + 1
        /\ stream' = stream \o more
        /\ state' # "undefined" => state' = "logging" /\ more = Lead(N + 1)'
  <2>1. CASE state' = "undefined" /\ stream' = stream
    <3> DEFINE b == <<>>
    <3>1. stream \o b = stream /\ b \in Seq(Byte) /\ Len(b) = 0
      BY <1>1, ConcatEmptySeq
    <3>2. \A k \in 1 .. Len(b) : b[k].call = N + 1
      BY <3>1
    <3> HIDE DEF b
    <3> QED BY <2>1, <3>1, <3>2
  <2>2. CASE state' = "logging" /\ stream' = stream \o bytes /\ bytes = Lead(N + 1)'
    BY <1>4, <2>2
  <2> QED BY <1>4, <2>1, <2>2
<1>6. /\ stream' \in Seq(Byte) /\ Len(more) \in Nat /\ Len(stream') = L + Len(more)
      /\ \A k \in 1 .. L : stream'[k] = stream[k]
      /\ \A k \in L + 1 .. L + Len(more) : stream'[k] = more[k - L]
  <2>1. Len(more) \in Nat
    BY LenProperties
  <2>2. /\ stream \o more \in Seq(Byte) /\ Len(stream \o more) = L + Len(more)
        /\ \A k \in 1 .. L + Len(more) :
             (stream \o more)[k] = IF k <= L THEN stream[k] ELSE more[k - L]
    BY <1>a, <1>1, ConcatProperties
  <2> QED BY <1>a, <1>5, <2>1, <2>2
<1>7. Stamped'
  <2>1. SUFFICES ASSUME NEW n \in 1 .. N + 1, NEW k \in starts'[n] + 1 .. L + Len(more)
                 PROVE  stream'[k].call >= n
    BY <1>3, <1>6 DEF Stamped
  <2>2. starts'[n] \in 0 .. L
    <3>1. CASE n = N + 1
      BY <1>a, <1>3, <3>1
    <3>2. CASE n # N + 1
      <4>1. n \in 1 .. N
        BY <1>a, <3>2
      <4> QED BY <1>1, <1>3, <4>1
    <3> QED BY <3>1, <3>2
  <2>3. CASE k > L
    <3>1. k \in L + 1 .. L + Len(more) /\ k - L \in 1 .. Len(more)
      BY <1>a, <1>6, <2>2, <2>3
    <3>2. stream'[k].call = N + 1
      BY <1>5, <1>6, <3>1
    <3> QED BY <1>a, <3>2
  <2>4. CASE ~ (k > L)
    <3>1. n # N + 1
      BY <1>a, <1>3, <1>6, <2>2, <2>4
    <3>2. n \in 1 .. N
      BY <1>a, <3>1
    <3>3. starts'[n] = starts[n]
      BY <1>3, <3>2
    <3>4. k \in starts[n] + 1 .. L /\ k \in 1 .. L
      BY <1>a, <2>2, <2>4, <3>3, <1>6
    <3> QED BY <1>a, <1>6, <3>2, <3>4 DEF Stamped
  <2> QED BY <2>3, <2>4
<1>8. ASSUME NEW n \in 1 .. N PROVE StreamFrom(n)' = StreamFrom(n) \o more
  <2>1. After(stream \o more, starts[n]) = After(stream, starts[n]) \o more
    BY <1>a, <1>1, AfterConcat
  <2> QED BY <1>3, <1>5, <2>1 DEF StreamFrom
<1>9. StreamFrom(N + 1)' = more
  <2>0. L \in 0 .. Len(stream)
    BY <1>a
  <2>1. After(stream \o more, L) = After(stream, L) \o more
    BY <1>1, <2>0, AfterConcat
  <2>2. After(stream, L) = <<>>
    <3>1. After(stream, L) \in Seq(Byte) /\ Len(After(stream, L)) = 0
      <4>1. After(stream, L) \in Seq(Byte) /\ Len(After(stream, L)) = L - L
        BY <1>a, <1>1, AfterFacts
      <4> QED BY <1>a, <4>1
    <3> QED BY <3>1, EmptySeq
  <2> QED BY <1>3, <1>5, <2>1, <2>2, ConcatEmptySeq DEF StreamFrom
<1>10. ASSUME NEW n \in 1 .. N
       PROVE  Behind(n)' = Behind(n) \o more
  <2>1. n # N + 1
    BY <1>a
  <2>2. Behind(n)' = StreamFrom(n + 1)'
    BY <1>3, <2>1 DEF Behind
  <2>3. CASE n = N
    <3>1. Behind(n) = <<>>
      BY <1>a, <2>3 DEF Behind
    <3>2. <<>> \o more = more
      BY ConcatEmptySeq
    <3> QED BY <1>9, <2>2, <2>3, <3>1, <3>2
  <2>4. CASE n # N
    <3>1. n + 1 \in 1 .. N
      BY <1>a, <2>4
    <3>2. Behind(n) = StreamFrom(n + 1)
      BY <1>a, <2>4 DEF Behind
    <3> QED BY <1>8, <2>2, <3>1, <3>2
  <2> QED BY <2>3, <2>4
<1>11. ASSUME NEW n \in 1 .. N PROVE Lead(n)' = Lead(n)
  <2>1. Begun(n)' <=> Begun(n)
    <3>1. CASE GoOn(i)
      BY <3>1 DEF GoOn, Begun
    <3>2. CASE BeginRun(i)
      <4>1. begins' = Append(begins, N + 1) /\ begins \in Seq(1 .. N)
        BY <1>1, <3>2 DEF BeginRun, RunsAreFound
      <4>2. begins \in Seq(Nat)
        BY <4>1, SeqDef, LenProperties
      <4>3. /\ Len(begins) \in Nat /\ Len(begins') = Len(begins) + 1
            /\ begins'[Len(begins) + 1] = N + 1
            /\ \A j \in 1 .. Len(begins) : begins'[j] = begins[j]
        BY <4>1, <4>2, AppendProperties, LenProperties
      <4>4. N + 1 # n
        BY <1>a
      <4>5. 1 .. Len(begins') = (1 .. Len(begins)) \cup {Len(begins) + 1}
        BY <4>3
      <4> QED BY <4>3, <4>4, <4>5 DEF Begun
    <3> QED BY <3>1, <3>2
  <2> QED BY <1>3, <2>1 DEF Lead
<1>12. ASSUME state' # "undefined", NEW n \in 1 .. N + 1
       PROVE  \E size \in Sizes(n)' : EntryWritten(n, size)'
  <2>1. state' = "logging" /\ more = Lead(N + 1)'
    BY <1>5, <1>12
  <2>2. CASE n = N + 1
    <3>1. 0 \in Sizes(n)'
      BY <1>3, <2>1, <2>2 DEF Sizes
    <3>2. ValuesOf(n, 0)' = <<>>
      BY DEF ValuesOf, Bytes
    <3>3. Behind(n)' = <<>>
      BY <1>3, <2>2 DEF Behind
    <3>4. <<>> \o <<>> = <<>> /\ more \o <<>> = more
      BY ConcatEmptySeq
    <3>5. EntryWritten(n, 0)'
      BY <1>9, <2>1, <2>2, <3>2, <3>3, <3>4 DEF EntryWritten
    <3> QED BY <3>1, <3>5
  <2>3. CASE n # N + 1
    <3>1. n \in 1 .. N
      BY <1>a, <2>3
    <3>2. PICK size \in Sizes(n) : EntryWritten(n, size)
      BY <1>a, <1>2, <3>1 DEF EntriesWritten
    <3>3. size \in Sizes(n)'
      BY <1>2, <1>3, <2>3, <3>1, <3>2 DEF Sizes
    <3>4. ValuesOf(n, size)' = ValuesOf(n, size)
      BY <1>3, <3>1 DEF ValuesOf
    <3>5. /\ Lead(n) \in Seq(Byte) /\ ValuesOf(n, size) \in Seq(Byte) /\ Behind(n) \in Seq(Byte)
      BY <1>1, <3>1, <3>2
    <3>6. (Lead(n) \o (ValuesOf(n, size) \o Behind(n))) \o more
            = Lead(n) \o (ValuesOf(n, size) \o (Behind(n) \o more))
      <4>1. ComesBehind(Lead(n), ValuesOf(n, size), Behind(n), more)
        BY <1>5, <3>5, AddedBehind
      <4> QED BY <4>1 DEF ComesBehind
    <3>7. EntryWritten(n, size)'
      BY <1>8, <1>10, <1>11, <3>1, <3>2, <3>4, <3>6 DEF EntryWritten
    <3> QED BY <3>3, <3>7
  <2> QED BY <2>2, <2>3
<1>13. EntriesWritten'
  BY <1>3, <1>12 DEF EntriesWritten
<1> QED BY <1>7, <1>13

-----------------------------------------------------------------------------

\* The values of a call come behind its index.
LEMMA UpdateKeepsEntries ==
  ASSUME IInv, RunsAreFound, EntriesWritten, Stamped, UpdateLogFile,
         begins' = begins
  PROVE  EntriesWritten' /\ Stamped'
<1>a. PICK N \in Nat, L \in Nat : N = Len(starts) /\ L = Len(stream)
  BY EntryFacts
<1>1. /\ Len(calls) = N /\ stream \in Seq(Byte) /\ m_buffer_index = L
      /\ \A n \in 1 .. N :
           /\ starts[n] \in 0 .. L
           /\ StreamFrom(n) \in Seq(Byte) /\ Behind(n) \in Seq(Byte) /\ Lead(n) \in Seq(Byte)
           /\ calls[n] \in Index
           /\ \A size \in Sizes(n) : ValuesOf(n, size) \in Seq(Byte)
  BY <1>a, EntryFacts
<1>2. calls' = calls /\ starts' = starts /\ state = "logging"
  BY DEF UpdateLogFile, history
<1>3. calls # <<>> /\ N \in 1 .. N /\ calls[N] = m_runlength_index
  <2>1. starts # <<>>
    BY <1>2 DEF IInv, Fresh
  <2>2. N # 0 /\ N \in 1 .. N
    BY <1>a, <2>1, EmptySeq DEF IInv, TypeOK
  <2>3. calls # <<>>
    BY <1>1, <2>2
  <2> QED BY <1>1, <2>1, <2>2, <2>3 DEF IInv, InCurrentRun
<1>4. PICK size \in ArgBytes[m_runlength_index] :
        \/ state' = "undefined" /\ stream' = stream
        \/ state' = "idle" /\ stream' = stream \o ValuesOf(N, size)
  <2>1. PICK size \in ArgBytes[m_runlength_index] :
          IF size = 0
          THEN state' = "idle" /\ UNCHANGED ring
          ELSE BufferOrWrite(log_buffer_indices,
                             Bytes("args", m_runlength_index, Len(calls), size), "idle")
    BY DEF UpdateLogFile
  <2>2. CASE size = 0
    <3>1. state' = "idle" /\ stream' = stream
      BY <2>1, <2>2 DEF ring
    <3>2. ValuesOf(N, size) = <<>>
      BY <2>2 DEF ValuesOf, Bytes
    <3>3. stream \o <<>> = stream
      BY <1>1, ConcatEmptySeq
    <3> QED BY <3>1, <3>2, <3>3
  <2>3. CASE size # 0
    BY <1>1, <1>3, <2>1, <2>3 DEF BufferOrWrite, ValuesOf
  <2> QED BY <2>2, <2>3
<1>5. size \in Nat /\ ValuesOf(N, size) \in Seq(Byte) /\ Len(ValuesOf(N, size)) = size
  <2>1. size \in Nat
    BY <1>1, <1>3, <1>4, RingAssumption
  <2> QED BY <1>a, <1>1, <1>3, <2>1, BytesTyped DEF ValuesOf
<1>6. PICK more \in Seq(Byte) :
        /\ \A k \in 1 .. Len(more) : more[k].call = N
        /\ stream' = stream \o more
        /\ state' # "undefined" => state' = "idle" /\ more = ValuesOf(N, size)
  <2>1. CASE state' = "undefined" /\ stream' = stream
    <3> DEFINE b == <<>>
    <3>1. stream \o b = stream /\ b \in Seq(Byte) /\ Len(b) = 0
      BY <1>1, ConcatEmptySeq
    <3>2. \A k \in 1 .. Len(b) : b[k].call = N
      BY <3>1
    <3> HIDE DEF b
    <3> QED BY <2>1, <3>1, <3>2
  <2>2. CASE state' = "idle" /\ stream' = stream \o ValuesOf(N, size)
    <3>1. \A k \in 1 .. Len(ValuesOf(N, size)) : ValuesOf(N, size)[k].call = N
      BY <1>5 DEF ValuesOf, Bytes
    <3> QED BY <1>5, <2>2, <3>1
  <2> QED BY <1>4, <2>1, <2>2
<1>7. /\ stream' \in Seq(Byte) /\ Len(more) \in Nat /\ Len(stream') = L + Len(more)
      /\ \A k \in 1 .. L : stream'[k] = stream[k]
      /\ \A k \in L + 1 .. L + Len(more) : stream'[k] = more[k - L]
  <2>1. Len(more) \in Nat
    BY LenProperties
  <2>2. /\ stream \o more \in Seq(Byte) /\ Len(stream \o more) = L + Len(more)
        /\ \A k \in 1 .. L + Len(more) :
             (stream \o more)[k] = IF k <= L THEN stream[k] ELSE more[k - L]
    BY <1>a, <1>1, <1>6, ConcatProperties
  <2> QED BY <1>a, <1>6, <2>1, <2>2
<1>8. Stamped'
  <2>1. SUFFICES ASSUME NEW n \in 1 .. N, NEW k \in starts[n] + 1 .. L + Len(more)
                 PROVE  stream'[k].call >= n
    BY <1>a, <1>2, <1>7 DEF Stamped
  <2>2. starts[n] \in 0 .. L
    BY <1>1
  <2>3. CASE k > L
    <3>1. k \in L + 1 .. L + Len(more) /\ k - L \in 1 .. Len(more)
      BY <1>a, <1>7, <2>2, <2>3
    <3>2. stream'[k].call = N
      BY <1>6, <1>7, <3>1
    <3> QED BY <1>a, <3>2
  <2>4. CASE ~ (k > L)
    <3>1. k \in starts[n] + 1 .. L /\ k \in 1 .. L
      BY <1>a, <1>7, <2>2, <2>4
    <3> QED BY <1>a, <1>7, <3>1 DEF Stamped
  <2> QED BY <2>3, <2>4
<1>9. ASSUME NEW n \in 1 .. N PROVE StreamFrom(n)' = StreamFrom(n) \o more
  <2>1. After(stream \o more, starts[n]) = After(stream, starts[n]) \o more
    BY <1>a, <1>1, <1>6, AfterConcat
  <2> QED BY <1>2, <1>6, <2>1 DEF StreamFrom
<1>10. ASSUME NEW n \in 1 .. N PROVE Lead(n)' = Lead(n)
  BY <1>2 DEF Lead, Begun
<1>11. ASSUME NEW n \in 1 .. N, n # N PROVE Behind(n)' = Behind(n) \o more
  <2>1. n + 1 \in 1 .. N
    BY <1>a, <1>11
  <2>2. Behind(n)' = StreamFrom(n + 1)' /\ Behind(n) = StreamFrom(n + 1)
    BY <1>a, <1>2, <1>11 DEF Behind
  <2> QED BY <1>9, <2>1, <2>2
<1>12. ASSUME state' # "undefined", NEW n \in 1 .. N
       PROVE  \E k \in Sizes(n)' : EntryWritten(n, k)'
  <2>1. state' = "idle" /\ more = ValuesOf(N, size)
    BY <1>6, <1>12
  <2>2. PICK k \in Sizes(n) : EntryWritten(n, k)
    BY <1>a, <1>2 DEF EntriesWritten
  <2>3. \A m \in Nat : ValuesOf(n, m)' = ValuesOf(n, m)
    BY <1>2 DEF ValuesOf
  <2>4. CASE n = N
    <3>1. size \in Sizes(n)'
      BY <1>a, <1>2, <1>3, <1>4, <2>1, <2>4 DEF Sizes
    <3>2. k = 0
      BY <1>a, <1>2, <2>2, <2>4 DEF Sizes
    <3>3. ValuesOf(n, k) = <<>>
      BY <3>2 DEF ValuesOf, Bytes
    <3>4. Behind(n) = <<>> /\ Behind(n)' = <<>>
      BY <1>a, <1>2, <2>4 DEF Behind
    <3>5. <<>> \o <<>> = <<>> /\ Lead(n) \o <<>> = Lead(n) /\ more \o <<>> = more
      BY <1>1, <1>6, ConcatEmptySeq
    <3>6. StreamFrom(n) = Lead(n)
      BY <2>2, <3>3, <3>4, <3>5 DEF EntryWritten
    <3>7. StreamFrom(n)' = Lead(n) \o more
      BY <1>9, <3>6
    <3>8. ValuesOf(n, size)' = more
      BY <1>5, <2>1, <2>3, <2>4
    <3>9. EntryWritten(n, size)'
      BY <1>10, <3>4, <3>5, <3>7, <3>8 DEF EntryWritten
    <3> QED BY <3>1, <3>9
  <2>5. CASE n # N
    <3>1. k \in Sizes(n)' /\ k \in Nat
      BY <1>a, <1>1, <1>2, <2>2, <2>5, RingAssumption DEF Sizes
    <3>2. Lead(n) \in Seq(Byte) /\ ValuesOf(n, k) \in Seq(Byte) /\ Behind(n) \in Seq(Byte)
      BY <1>1, <2>2
    <3>3. ComesBehind(Lead(n), ValuesOf(n, k), Behind(n), more)
      BY <1>6, <3>2, AddedBehind
    <3>4. EntryWritten(n, k)'
      BY <1>9, <1>10, <1>11, <2>2, <2>3, <2>5, <3>1, <3>3 DEF EntryWritten, ComesBehind
    <3> QED BY <3>1, <3>4
  <2> QED BY <2>4, <2>5
<1>13. EntriesWritten'
  BY <1>a, <1>2, <1>12 DEF EntriesWritten
<1> QED BY <1>8, <1>13

\* What is true of the program: its runs, its records and its entries.
ProgramInv ==
  /\ IInv
  /\ RunsAreFound
  /\ Registered
  /\ RecordsAreDue
  /\ EntriesWritten
  /\ Stamped
  /\ saved => state = "idle" /\ ~ Repeated /\ calls # <<>>

\* Nothing is logged yet.
LEMMA InitEstablishesProgram == RingInit => ProgramInv
<1> SUFFICES ASSUME RingInit PROVE ProgramInv
  OBVIOUS
<1>1. Init /\ runlengths = <<>> /\ saved = FALSE /\ begins = <<>> /\ due = <<>>
  BY DEF RingInit
<1>2. IInv
  BY <1>1, InitEstablishes
<1>3. /\ calls = <<>> /\ starts = <<>> /\ stream = <<>> /\ m_current_runlength = 0
      /\ Len(calls) = 0 /\ Len(starts) = 0 /\ Len(begins) = 0
  BY <1>1 DEF Init
<1>4. RunsAreFound
  <2>1. begins \in Seq(1 .. Len(calls))
    BY <1>1, EmptySeq
  <2> QED BY <1>3, <2>1 DEF RunsAreFound
<1>5. RecordsAreDue
  <2>1. ~ Repeated
    BY <1>3 DEF Repeated
  <2> QED BY <1>1, <2>1 DEF RecordsAreDue
<1>6. Registered /\ EntriesWritten /\ Stamped
  BY <1>3 DEF Registered, EntriesWritten, Stamped
<1> QED BY <1>1, <1>2, <1>4, <1>5, <1>6 DEF ProgramInv

\* Neither flush() nor an abort, nor anything that happens after the program
\* has saved its buffers, touches them.
LEMMA OthersKeepEntries ==
  ASSUME ProgramInv,
         UNCHANGED <<calls, starts, stream, begins, sites>>,
         \/ state' = state
         \/ state = "idle" /\ state' \in {"idle", "closed", "aborted"}
  PROVE  RunsAreFound' /\ Registered' /\ EntriesWritten' /\ Stamped'
<1>1. RunsAreFound'
  BY DEF ProgramInv, RunsAreFound, Format, LastOf
<1>2. Registered'
  BY DEF ProgramInv, Registered
<1>3. Stamped'
  BY DEF ProgramInv, Stamped
<1>4. EntriesWritten'
  <2>1. SUFFICES ASSUME state' # "undefined", NEW n \in 1 .. Len(starts)
                 PROVE  \E size \in Sizes(n)' : EntryWritten(n, size)'
    BY DEF EntriesWritten
  <2>2. PICK size \in Sizes(n) : EntryWritten(n, size)
    BY <2>1 DEF ProgramInv, EntriesWritten
  <2>3. Sizes(n)' = Sizes(n)
    BY DEF Sizes
  <2>4. EntryWritten(n, size)' <=> EntryWritten(n, size)
    BY DEF EntryWritten, StreamFrom, Lead, Behind, ValuesOf, Begun
  <2> QED BY <2>2, <2>3, <2>4
<1> QED BY <1>1, <1>2, <1>3, <1>4

\* Every step of the program and of the unpacker.
LEMMA StepKeepsProgram ==
  ASSUME ProgramInv, [RingNext]_ringVars
  PROVE  ProgramInv'
<1>1. IInv /\ RunsAreFound /\ Registered /\ RecordsAreDue /\ EntriesWritten /\ Stamped
  BY DEF ProgramInv
<1>2. CASE Logging
  <2>1. (\E i \in Index : BeginRun(i) \/ GoOn(i)) \/ Other
    BY <1>2 DEF Logging
  <2>2. Runlengths /\ ~ saved /\ saved' = saved
    BY <1>2 DEF Logging
  <2>3. RecordsAreDue'
    BY <1>1, <2>1, <2>2, LoggingKeepsRecords
  <2>4. ASSUME NEW i \in Index, BeginRun(i) \/ GoOn(i) PROVE ProgramInv'
    <3>1. IInv'
      BY <1>1, <2>4, StartRunPreserves, ContinueRunPreserves DEF BeginRun, GoOn
    <3>2. RunsAreFound'
      BY <1>1, <2>4, BeginRunKeepsRuns, GoOnKeepsRuns
    <3>3. Registered'
      BY <1>1, <2>4, CallsKeepRegistered
    <3>4. EntriesWritten' /\ Stamped'
      BY <1>1, <2>4, CallsKeepEntries
    <3> QED BY <2>2, <2>3, <3>1, <3>2, <3>3, <3>4 DEF ProgramInv
  <2>5. CASE Other /\ UpdateLogFile
    <3>1. /\ begins' = begins /\ calls' = calls /\ sites' = sites
      BY <2>5 DEF Other, UpdateLogFile, history, registry
    <3>2. IInv'
      BY <1>1, <2>5, UpdateLogFilePreserves
    <3>3. EntriesWritten' /\ Stamped'
      BY <1>1, <2>5, <3>1, UpdateKeepsEntries
    <3>4. RunsAreFound' /\ Registered'
      BY <1>1, <3>1 DEF RunsAreFound, Registered, Format, LastOf
    <3> QED BY <2>2, <2>3, <3>2, <3>3, <3>4 DEF ProgramInv
  <2>6. CASE /\ Other
             /\ \/ \E i \in Index : Abort(i)
                \/ \E next \in {"idle", "closed"} : Flush(next)
    <3>1. IInv'
      BY <1>1, <2>6, OthersPreserve
    <3>2. UNCHANGED <<calls, starts, stream, begins, sites>>
      BY <2>6 DEF Other, Abort, Flush, ring, registry, history
    <3>3. state = "idle" /\ state' \in {"idle", "closed", "aborted"}
      BY <2>6 DEF Abort, Flush, Callable
    <3>4. RunsAreFound' /\ Registered' /\ EntriesWritten' /\ Stamped'
      BY <3>2, <3>3, OthersKeepEntries
    <3> QED BY <2>2, <2>3, <3>1, <3>4 DEF ProgramInv
  <2> QED BY <2>1, <2>4, <2>5, <2>6 DEF Other
<1>3. CASE Save \/ Unpacking \/ Ended \/ UNCHANGED ringVars
  <2>1. UNCHANGED <<vars, runlengths, begins, due>>
    BY <1>3 DEF Save, Unpacking, Ended, ringVars, files
  <2>2. UNCHANGED <<calls, starts, stream, begins, sites, state,
                    m_current_runlength, m_runlength_index>>
    BY <2>1 DEF vars, ring, encoding, registry, history
  <2>3. IInv'
    BY <1>1, <2>1, OthersPreserve
  <2>4. RunsAreFound' /\ Registered' /\ EntriesWritten' /\ Stamped'
    <3>1. UNCHANGED <<calls, starts, stream, begins, sites>>
      BY <2>2
    <3>2. state' = state
      BY <2>2
    <3> QED BY <3>1, <3>2, OthersKeepEntries
  <2>5. RecordsAreDue'
    BY <1>1, <2>1, <2>2 DEF RecordsAreDue, CurrentRun, Repeated
  <2>6. saved' => state' = "idle" /\ ~ Repeated' /\ calls' # <<>>
    BY <1>3, <2>2 DEF ProgramInv, Save, Unpacking, Ended, ringVars, files, Repeated
  <2> QED BY <2>3, <2>4, <2>5, <2>6 DEF ProgramInv
<1> QED BY <1>2, <1>3 DEF RingNext

\* In every state the calls fall into runs of one format, the runlength buffer
\* holds the records that are due, and the stream is the entries of the calls.
THEOREM ProgramInvariant == RingSpec => []ProgramInv
<1>1. RingInit => ProgramInv
  BY InitEstablishesProgram
<1>2. ProgramInv /\ [RingNext]_ringVars => ProgramInv'
  BY StepKeepsProgram
<1> QED BY <1>1, <1>2, PTL DEF RingSpec

-----------------------------------------------------------------------------

(***************************************************************************)
(* The aborts.  The records that are written found room when they were;    *)
(* what may find none is the record that is due now and the entry of a     *)
(* call site that runs for the first time.                                 *)
(***************************************************************************)
AbortInv ==
  /\ records = Len(runlengths)
  /\ records # 0 => records * RecordBytes < RunlengthBufferSize
  /\ AbortsExactlyWhenFull

\* The records written, and the one being counted, are as many as are due.
LEMMA DueCounted ==
  ASSUME ProgramInv, records = Len(runlengths)
  PROVE  /\ Len(due) = IF Repeated THEN records + 1 ELSE records
         /\ due # <<>> <=> Len(due) # 0
         /\ Repeated => calls[Len(calls)] = m_runlength_index
<1>1. /\ runlengths \in Seq(Record)
      /\ due = IF Repeated THEN Append(runlengths, CurrentRun) ELSE runlengths
  BY DEF ProgramInv, RecordsAreDue
<1>2. CurrentRun \in Record
  BY DEF ProgramInv, IInv, TypeOK, CurrentRun, Record
<1>3. /\ Append(runlengths, CurrentRun) \in Seq(Record)
      /\ Len(Append(runlengths, CurrentRun)) = Len(runlengths) + 1
  BY <1>1, <1>2, AppendProperties
<1>4. due \in Seq(Record)
  BY <1>1, <1>3
<1>5. ASSUME Repeated PROVE calls[Len(calls)] = m_runlength_index
  <2>1. starts # <<>>
    BY <1>5 DEF ProgramInv, IInv, Fresh, Repeated
  <2> QED BY <2>1 DEF ProgramInv, IInv, InCurrentRun
<1> QED BY <1>1, <1>3, <1>4, <1>5, EmptySeq

\* Every record is written where there is room for it.
LEMMA RecordsFit ==
  ASSUME ProgramInv, AbortInv, Runlengths,
         records' = records \/ (records' = records + 1 /\ RecordFits)
  PROVE  /\ records' = Len(runlengths')
         /\ records' # 0 => records' * RecordBytes < RunlengthBufferSize
<1> DEFINE rec == [index |-> m_runlength_index, count |-> m_current_runlength]
<1>1. /\ records \in Nat /\ m_runlength_index \in Index /\ m_current_runlength \in Nat
      /\ RecordBytes \in Nat /\ RunlengthBufferSize \in Nat
  BY RingAssumption DEF ProgramInv, IInv, TypeOK
<1>2. /\ runlengths \in Seq(Record) /\ records = Len(runlengths)
      /\ records # 0 => records * RecordBytes < RunlengthBufferSize
  BY DEF ProgramInv, RecordsAreDue, AbortInv
<1>3. runlengths' = IF records' = records THEN runlengths ELSE Append(runlengths, rec)
  BY DEF Runlengths
<1>4. rec \in Record
  BY <1>1 DEF Record
<1>5. Len(Append(runlengths, rec)) = Len(runlengths) + 1
  <2> HIDE DEF rec
  <2> QED BY <1>2, <1>4, AppendProperties
<1> HIDE DEF rec
<1>6. CASE records' = records
  BY <1>2, <1>3, <1>6
<1>7. CASE records' = records + 1 /\ RecordFits
  <2>1. records' = Len(runlengths')
    BY <1>1, <1>2, <1>3, <1>5, <1>7
  <2>2. (records + 1) * RecordBytes = records * RecordBytes + RecordBytes
    BY <1>1
  <2> QED BY <1>7, <2>1, <2>2 DEF RecordFits
<1> QED BY <1>6, <1>7

\* A call that is logged has found room for all it asked for.
LEMMA CallsKeepAbortInv ==
  ASSUME ProgramInv, AbortInv, NEW i \in Index, BeginRun(i) \/ GoOn(i), Runlengths
  PROVE  AbortInv'
<1>1. /\ calls \in Seq(Index) /\ sites \in Nat /\ i \in Nat
  BY RingAssumption DEF ProgramInv, IInv, TypeOK, Index
<1>2. calls' = Append(calls, i) /\ asked' = {i} /\ state' # "aborted"
  BY DEF BeginRun, GoOn, StartRun, ContinueRun, Remember, BufferOrWrite
<1>3. Len(calls') \in 1 .. Len(calls') /\ calls'[Len(calls')] = i
  BY <1>1, <1>2, AppendProperties, LenProperties
<1>4. asked' # {sites'}
  <2>1. Registered'
    BY CallsKeepRegistered DEF ProgramInv
  <2>2. i < sites'
    BY <1>3, <2>1 DEF Registered
  <2> QED BY <1>1, <1>2, <2>2
<1>5. AbortsExactlyWhenFull'
  BY <1>2, <1>3, <1>4 DEF AbortsExactlyWhenFull
<1>6. records' = records \/ (records' = records + 1 /\ RecordFits)
  BY DEF BeginRun, GoOn, StartRun, ContinueRun, RunlengthBufferFull
<1> QED BY <1>5, <1>6, RecordsFit DEF AbortInv

\* A record that finds no room is one too many of those due.
LEMMA NoRoomForDue ==
  ASSUME ProgramInv, AbortInv, Repeated
  PROVE  /\ due # <<>>
         /\ ~ RecordFits <=> Len(due) * RecordBytes >= RunlengthBufferSize
<1>1. records \in Nat /\ RecordBytes \in Nat /\ RunlengthBufferSize \in Nat
  BY RingAssumption DEF ProgramInv, IInv, TypeOK
<1>2. Len(due) = records + 1 /\ (due # <<>> <=> Len(due) # 0)
  BY DueCounted DEF AbortInv
<1>3. (records + 1) * RecordBytes = records * RecordBytes + RecordBytes
  BY <1>1
<1>4. records * RecordBytes \in Nat
  BY <1>1
<1> QED BY <1>1, <1>2, <1>3, <1>4 DEF RecordFits

\* The values of a call abort nothing, a call or a flush() that aborts has met a
\* full buffer, and a flush() that returns has met none.
LEMMA OthersKeepAbortInv ==
  ASSUME ProgramInv, AbortInv, Other, Runlengths
  PROVE  AbortInv'
<1>1. UNCHANGED <<calls, due, sites, m_index_buffer_index>>
  BY DEF Other, UpdateLogFile, Abort, Flush, history, registry
<1>2. records' = records \/ (records' = records + 1 /\ RecordFits)
  BY DEF Other, UpdateLogFile, Abort, Flush, WriteRecord, encoding
<1>3. AbortsExactlyWhenFull'
  <2>1. CASE UpdateLogFile /\ UNCHANGED asked
    <3>1. state # "aborted" /\ state' # "aborted" /\ asked' = asked
      BY <2>1 DEF UpdateLogFile, BufferOrWrite
    <3> QED BY <1>1, <3>1 DEF AbortInv, AbortsExactlyWhenFull, EntryFits
  <2>2. ASSUME NEW i \in Index, Abort(i), asked' = {i} PROVE AbortsExactlyWhenFull'
    <3>1. state' = "aborted"
      BY <2>2 DEF Abort
    <3>2. CASE IndexBufferFull(i)
      BY <1>1, <2>2, <3>1, <3>2 DEF IndexBufferFull, AbortsExactlyWhenFull, EntryFits
    <3>3. CASE RunlengthBufferFull(i)
      <4>1. m_runlength_index # i /\ Repeated /\ ~ RecordFits
        BY <3>3 DEF RunlengthBufferFull
      <4>2. calls[Len(calls)] = m_runlength_index
        BY <4>1, DueCounted DEF AbortInv
      <4>3. due # <<>> /\ Len(due) * RecordBytes >= RunlengthBufferSize
        BY <4>1, NoRoomForDue
      <4> QED BY <1>1, <2>2, <3>1, <4>1, <4>2, <4>3 DEF AbortsExactlyWhenFull
    <3> QED BY <2>2, <3>2, <3>3 DEF Abort
  <2>3. ASSUME NEW next \in {"idle", "closed"}, Flush(next), asked' = {}
        PROVE  AbortsExactlyWhenFull'
    <3>1. asked' # {sites'} /\ asked' # {calls'[Len(calls')]}
      BY <2>3
    <3>2. state' = "aborted" <=> Repeated /\ ~ RecordFits
      BY <2>3 DEF Flush
    <3>3. CASE Repeated
      BY <1>1, <3>1, <3>2, <3>3, NoRoomForDue DEF AbortsExactlyWhenFull
    <3>4. CASE ~ Repeated
      <4>1. Len(due) = records /\ (due # <<>> <=> Len(due) # 0)
        BY <3>4, DueCounted DEF AbortInv
      <4>2. due # <<>> => Len(due) * RecordBytes < RunlengthBufferSize
        BY <4>1 DEF AbortInv
      <4>3. records \in Nat /\ RecordBytes \in Nat /\ RunlengthBufferSize \in Nat
        BY RingAssumption DEF ProgramInv, IInv, TypeOK
      <4>4. ~ (due # <<>> /\ Len(due) * RecordBytes >= RunlengthBufferSize)
        BY <4>1, <4>2, <4>3
      <4> QED BY <1>1, <3>1, <3>2, <3>4, <4>4 DEF AbortsExactlyWhenFull
    <3> QED BY <3>3, <3>4
  <2> QED BY <2>1, <2>2, <2>3 DEF Other
<1> QED BY <1>2, <1>3, RecordsFit DEF AbortInv

\* abort() is called exactly when a call or a flush() needs room for a new
\* entry in the index buffer, or for the record of the calls counted together
\* until then in the runlength buffer, and there is none: for every size of
\* the buffers, whatever was dropped from the ring and whenever it was flushed.
THEOREM AbortsExact == RingSpec => []AbortsExactlyWhenFull
<1>1. RingInit => AbortInv
  <2> SUFFICES ASSUME RingInit PROVE AbortInv
    OBVIOUS
  <2>1. /\ records = 0 /\ runlengths = <<>> /\ due = <<>> /\ asked = {} /\ state = "idle"
    BY DEF RingInit, Init
  <2> QED BY <2>1 DEF AbortInv, AbortsExactlyWhenFull
<1>2. ProgramInv /\ AbortInv /\ [RingNext]_ringVars => AbortInv'
  <2> SUFFICES ASSUME ProgramInv, AbortInv, [RingNext]_ringVars PROVE AbortInv'
    OBVIOUS
  <2>1. CASE Logging
    BY <2>1, CallsKeepAbortInv, OthersKeepAbortInv DEF Logging
  <2>2. CASE Save \/ Unpacking \/ Ended \/ UNCHANGED ringVars
    <3>1. UNCHANGED <<vars, runlengths, due, asked>>
      BY <2>2 DEF Save, Unpacking, Ended, ringVars, files
    <3>2. UNCHANGED <<calls, sites, m_index_buffer_index, records, state>>
      BY <3>1 DEF vars, encoding, registry, history
    <3> QED BY <3>1, <3>2 DEF AbortInv, AbortsExactlyWhenFull, EntryFits
  <2> QED BY <2>1, <2>2 DEF RingNext
<1>3. AbortInv => AbortsExactlyWhenFull
  BY DEF AbortInv
<1> QED BY <1>1, <1>2, <1>3, ProgramInvariant, PTL DEF RingSpec

-----------------------------------------------------------------------------

\* The tokens of the index and of the values of a call.
Token(kind, n) == [kind |-> kind, index |-> calls[n], call |-> n]

\* What a parser has not read yet when the entry of a call, or its values, are
\* what comes next.
Unread(n) == IF n \in 1 .. Len(calls) THEN TokensOf(StreamFrom(n)) ELSE <<>>

UnreadValues(n) ==
  IF calls[n] \in NoArgs THEN Unread(n + 1) ELSE <<Token("args", n)>> \o Unread(n + 1)

\* The program has saved its buffers, or could.
Saveable == ProgramInv /\ state = "idle" /\ calls # <<>>

\* An entry is its index, if it has one, and its values, if it has any.
LEMMA EntryTokens ==
  ASSUME Saveable, NEW n \in 1 .. Len(calls)
  PROVE  /\ Unread(n) \in Seq(Byte) /\ Unread(n + 1) \in Seq(Byte)
         /\ UnreadValues(n) \in Seq(Byte)
         /\ Token("index", n) \in Byte /\ Token("args", n) \in Byte
         /\ Unread(n) = IF Begun(n) THEN <<Token("index", n)>> \o UnreadValues(n)
                        ELSE UnreadValues(n)
<1>a. PICK N \in Nat, L \in Nat : N = Len(starts) /\ L = Len(stream)
  BY EntryFacts DEF Saveable, ProgramInv
<1>1. /\ Len(calls) = N /\ stream \in Seq(Byte) /\ n \in 1 .. N /\ calls[n] \in Index
      /\ \A m \in 1 .. N :
           /\ starts[m] \in 0 .. L
           /\ StreamFrom(m) \in Seq(Byte)
      /\ Behind(n) \in Seq(Byte) /\ Lead(n) \in Seq(Byte)
      /\ \A size \in Sizes(n) : size \in Nat /\ ValuesOf(n, size) \in Seq(Byte)
  BY <1>a, EntryFacts DEF Saveable, ProgramInv
<1>2. PICK size \in Sizes(n) : EntryWritten(n, size)
  BY <1>a, <1>1 DEF Saveable, ProgramInv, EntriesWritten
<1>3. size \in ArgBytes[calls[n]] /\ size \in Nat
  BY <1>1, <1>2 DEF Sizes, Saveable
<1>4. size = 0 <=> calls[n] \in NoArgs
  BY <1>1, <1>3, ValuesAssumption DEF NoArgs
<1> DEFINE b == Behind(n)
           v == ValuesOf(n, size)
           l == Lead(n)
<1>5. b \in Seq(Byte) /\ v \in Seq(Byte) /\ l \in Seq(Byte)
  BY <1>1, <1>2
<1>6. Token("index", n) \in Byte /\ Token("args", n) \in Byte
  BY <1>a, <1>1 DEF Token, Byte
<1>7. Unread(n + 1) = TokensOf(b) /\ Unread(n + 1) \in Seq(Byte)
  <2>1. CASE n = N
    <3>1. b = <<>> /\ n + 1 \notin 1 .. N
      BY <1>a, <2>1 DEF Behind
    <3> QED BY <1>1, <3>1, TokensOfNothing DEF Unread
  <2>2. CASE n # N
    <3>1. n + 1 \in 1 .. N /\ b = StreamFrom(n + 1)
      BY <1>a, <1>1, <2>2 DEF Behind
    <3> QED BY <1>1, <3>1, PiecesFacts DEF Unread
  <2> QED BY <2>1, <2>2
<1>8. UnreadValues(n) \in Seq(Byte)
  <2>1. <<Token("args", n)>> \in Seq(Byte)
    BY <1>6
  <2> QED BY <1>7, <2>1, ConcatProperties DEF UnreadValues
<1>9. b # <<>> => b[1].call >= n + 1
  <2> SUFFICES ASSUME b # <<>> PROVE b[1].call >= n + 1
    OBVIOUS
  <2>1. n # N
    BY <1>a DEF Behind
  <2>2. n + 1 \in 1 .. N /\ b = After(stream, starts[n + 1])
    BY <1>a, <1>1, <2>1 DEF Behind, StreamFrom
  <2>3. starts[n + 1] \in 0 .. L
    BY <1>1, <2>2
  <2>4. /\ Len(b) = L - starts[n + 1]
        /\ \A i \in 1 .. L - starts[n + 1] : b[i] = stream[starts[n + 1] + i]
    <3>1. starts[n + 1] \in 0 .. Len(stream)
      BY <1>a, <2>3
    <3> DEFINE p == starts[n + 1]
    <3>2. p \in 0 .. Len(stream) /\ b = After(stream, p)
      BY <2>2, <3>1
    <3> HIDE DEF p, b
    <3>3. /\ Len(b) = Len(stream) - p
          /\ \A i \in 1 .. Len(stream) - p : b[i] = stream[p + i]
      BY <1>1, <3>2, AfterFacts
    <3> QED BY <1>a, <3>3 DEF p
  <2>5. Len(b) # 0
    BY <1>5, EmptySeq
  <2>6. 1 \in 1 .. L - starts[n + 1] /\ starts[n + 1] + 1 \in starts[n + 1] + 1 .. L
    BY <1>a, <2>3, <2>4, <2>5
  <2>7. b[1] = stream[starts[n + 1] + 1]
    BY <2>4, <2>6
  <2> QED BY <1>a, <2>2, <2>6, <2>7 DEF Saveable, ProgramInv, Stamped
<1>10. size # 0 =>
         /\ v # <<>> /\ Len(v) = size
         /\ v[Len(v)] = Token("args", n) /\ v[1] = Token("args", n)
  <2>1. Len(v) = size
    BY <1>1, <1>3, BytesTyped DEF ValuesOf
  <2>2. \A k \in 1 .. size : v[k] = Token("args", n)
    BY DEF ValuesOf, Bytes, Token
  <2>3. size # 0 => size \in 1 .. size /\ 1 \in 1 .. size /\ v # <<>>
    BY <1>3, <2>1
  <2> HIDE DEF v
  <2> QED BY <2>1, <2>2, <2>3
<1>11. size = 0 => v = <<>>
  BY DEF ValuesOf, Bytes
<1>12. TokensOf(v) = IF size = 0 THEN <<>> ELSE <<Token("args", n)>>
  <2>1. CASE size = 0
    BY <1>11, <2>1, TokensOfNothing
  <2>2. CASE size # 0
    <3>1. size \in Nat \ {0} /\ n \in Nat
      BY <1>3, <2>2
    <3> QED BY <1>1, <2>2, <3>1, TokensOfBytes DEF ValuesOf, Token
  <2> QED BY <2>1, <2>2
<1> DEFINE vb == v \o b
<1>13. TokensOf(vb) = UnreadValues(n) /\ vb \in Seq(Byte)
       /\ (vb # <<>> => vb[1] # Token("index", n))
  <2>1. CASE size = 0
    <3>1. <<>> \o b = b
      BY <1>5, ConcatEmptySeq
    <3>2. vb = b
      BY <1>11, <2>1, <3>1
    <3>3. b # <<>> => b[1] # Token("index", n)
      BY <1>a, <1>1, <1>9 DEF Token
    <3> HIDE DEF b, vb
    <3> QED BY <1>4, <1>5, <1>7, <2>1, <3>2, <3>3 DEF UnreadValues
  <2>2. CASE size # 0
    <3>1. v # <<>> /\ Len(v) = size /\ v[Len(v)] = Token("args", n) /\ v[1] = Token("args", n)
      BY <1>10, <2>2
    <3>2. Token("args", n).call = n /\ Token("args", n).kind = "args"
          /\ Token("index", n).kind = "index"
      BY DEF Token
    <3>3. b # <<>> => v[Len(v)] # b[1]
      BY <1>a, <1>1, <1>9, <3>1, <3>2
    <3> HIDE DEF b, v
    <3>4. TokensOf(v \o b) = TokensOf(v) \o TokensOf(b)
      BY <1>5, <3>3, TokensOfConcat
    <3>5. v \o b \in Seq(Byte) /\ (v \o b)[1] = v[1]
      <4>1. Len(v) \in Nat /\ 1 <= Len(v) /\ Len(b) \in Nat
        BY <1>3, <1>5, <2>2, <3>1, LenProperties
      <4>2. /\ v \o b \in Seq(Byte)
            /\ \A i \in 1 .. Len(v) + Len(b) :
                 (v \o b)[i] = IF i <= Len(v) THEN v[i] ELSE b[i - Len(v)]
        BY <1>5, ConcatProperties
      <4>3. 1 \in 1 .. Len(v) + Len(b)
        BY <4>1
      <4> QED BY <4>1, <4>2, <4>3
    <3>6. TokensOf(vb) = <<Token("args", n)>> \o Unread(n + 1)
      BY <1>7, <1>12, <2>2, <3>4
    <3>7. (v \o b)[1] # Token("index", n)
      BY <3>1, <3>2, <3>5
    <3> QED BY <1>4, <2>2, <3>5, <3>6, <3>7 DEF UnreadValues
  <2> QED BY <2>1, <2>2
<1>14. StreamFrom(n) = l \o vb
  BY <1>2 DEF EntryWritten
<1>15. Unread(n) = TokensOf(l \o vb)
  BY <1>1, <1>14 DEF Unread
<1> HIDE DEF vb
<1>16. CASE Begun(n)
  <2>1. l = Bytes("index", calls[n], n, IndexBytes)
    BY <1>16 DEF Lead
  <2>2. Len(l) = IndexBytes /\ l[Len(l)] = Token("index", n)
    BY <2>1, RingAssumption DEF Bytes, Token
  <2>3. TokensOf(l) = <<Token("index", n)>>
    <3>1. n \in Nat /\ calls[n] \in Index /\ IndexBytes \in Nat \ {0}
      BY <1>a, <1>1, RingAssumption
    <3>2. TokensOf(Bytes("index", calls[n], n, IndexBytes))
            = <<[kind |-> "index", index |-> calls[n], call |-> n]>>
      BY <3>1, TokensOfBytes
    <3> HIDE DEF l
    <3> QED BY <2>1, <3>2, Zenon DEF Token
  <2>4. TokensOf(l \o vb) = TokensOf(l) \o TokensOf(vb)
    <3>1. vb # <<>> => l[Len(l)] # vb[1]
      BY <1>13, <2>2
    <3>2. vb \in Seq(Byte)
      BY <1>13
    <3> HIDE DEF l
    <3> QED BY <1>5, <3>1, <3>2, TokensOfConcat
  <2> QED BY <1>6, <1>7, <1>8, <1>13, <1>15, <1>16, <2>3, <2>4, ConcatProperties
<1>17. CASE ~ Begun(n)
  <2>1. l = <<>>
    BY <1>17 DEF Lead
  <2>2. <<>> \o vb = vb
    BY <1>13, ConcatEmptySeq
  <2> QED BY <1>6, <1>7, <1>8, <1>13, <1>15, <1>17, <2>1, <2>2
<1> QED BY <1>16, <1>17

\* The buffer is the entries of the calls that are not gone.
LEMMA SavedLog ==
  ASSUME Saveable
  PROVE  /\ Gone \in 0 .. Len(calls) - 1
         /\ LogFile = Unread(Gone + 1) /\ LogFile \in Seq(Byte)
<1>1. Len(starts) \in Nat /\ Len(calls) = Len(starts) /\ m_buffer \in Seq(Byte)
  BY LenProperties DEF Saveable, ProgramInv, IInv, TypeOK
<1>2. starts # <<>>
  BY <1>1, EmptySeq DEF Saveable, ProgramInv, IInv, TypeOK
<1>3. Positioned(m_buffer, log_buffer_indices, starts, stream, Gone)
  BY <1>2 DEF Saveable, ProgramInv, IInv, Alive
<1>4. Gone \in 0 .. Len(starts) - 1 /\ m_buffer = StreamFrom(Gone + 1)
  BY <1>3 DEF Positioned, StreamFrom
<1>5. Gone + 1 \in 1 .. Len(calls)
  BY <1>1, <1>4
<1>6. LogFile = Unread(Gone + 1)
  BY <1>4, <1>5 DEF LogFile, Unread
<1>7. LogFile \in Seq(Byte)
  BY <1>1, PiecesFacts DEF LogFile
<1> QED BY <1>1, <1>4, <1>6, <1>7

-----------------------------------------------------------------------------

\* Within a run there is no other index; behind it comes that of the next.
LEMMA RunBounds ==
  ASSUME IInv, RunsAreFound, NEW j \in 1 .. Len(begins)
  PROVE  /\ Begun(begins[j])
         /\ \A n \in begins[j] + 1 .. LastOf(j) : ~ Begun(n)
         /\ \A n \in begins[j] .. LastOf(j) : n \in 1 .. Len(calls) /\ calls[n] = Format(j)
         /\ j < Len(begins) => LastOf(j) + 1 = begins[j + 1] /\ LastOf(j) < Len(calls)
         /\ j = Len(begins) => LastOf(j) = Len(calls)
         /\ begins[j] \in Nat \ {0} /\ LastOf(j) \in Nat /\ begins[j] <= LastOf(j)
<1>a. PICK N \in Nat, R \in Nat : N = Len(calls) /\ R = Len(begins)
  BY RunFacts
<1>1. /\ j \in 1 .. R
      /\ \A k \in 1 .. R :
           /\ begins[k] \in 1 .. N
           /\ LastOf(k) \in begins[k] .. N
           /\ k < R => LastOf(k) = begins[k + 1] - 1
  BY <1>a, RunFacts
<1>2. \A i, k \in 1 .. R : i < k => begins[i] < begins[k]
  BY <1>a DEF RunsAreFound
<1>3. /\ begins[j] \in 1 .. N /\ LastOf(j) \in begins[j] .. N
      /\ j < R => LastOf(j) = begins[j + 1] - 1
  BY <1>1
<1>4. ASSUME NEW n \in begins[j] + 1 .. LastOf(j), Begun(n) PROVE FALSE
  <2>1. PICK k \in 1 .. R : begins[k] = n
    BY <1>a, <1>4 DEF Begun
  <2>2. CASE k <= j
    <3>1. k = j \/ begins[k] < begins[j]
      BY <1>1, <1>2, <2>2
    <3> QED BY <1>1, <1>3, <2>1, <3>1
  <2>3. CASE j < k
    <3>1. j < R /\ j + 1 \in 1 .. R
      BY <1>a, <1>1, <2>3
    <3>2. j + 1 = k \/ begins[j + 1] < begins[k]
      BY <1>1, <1>2, <2>3, <3>1
    <3>3. begins[j + 1] \in 1 .. N
      BY <1>1, <3>1
    <3> QED BY <1>1, <1>3, <2>1, <3>1, <3>2, <3>3
  <2> QED BY <1>1, <2>2, <2>3
<1>5. j < R => begins[j + 1] \in 1 .. N
  <2> SUFFICES ASSUME j < R PROVE begins[j + 1] \in 1 .. N
    OBVIOUS
  <2>1. j + 1 \in 1 .. R
    BY <1>a, <1>1
  <2> QED BY <1>1, <2>1
<1>6. j < R => LastOf(j) + 1 = begins[j + 1] /\ LastOf(j) < N
  BY <1>3, <1>5
<1>7. j = R => LastOf(j) = N
  BY <1>a DEF LastOf
<1>8. \A n \in begins[j] .. LastOf(j) : n \in 1 .. N /\ calls[n] = Format(j)
  <2>1. \A n \in begins[j] .. LastOf(j) : calls[n] = Format(j)
    BY DEF RunsAreFound
  <2> QED BY <1>3, <2>1
<1>9. Begun(begins[j])
  BY DEF Begun
<1> QED BY <1>a, <1>3, <1>4, <1>6, <1>7, <1>8, <1>9

\* Two runs without values do not follow each other with the same format.
LEMMA FormatsDiffer ==
  ASSUME RunsAreFound, NEW j \in 1 .. Len(begins), j < Len(begins), Format(j) # 0
  PROVE  Format(j + 1) # Format(j)
<1>1. Len(begins) \in Nat
  BY LenProperties DEF RunsAreFound
<1>2. j \in 1 .. Len(begins) - 1
  BY <1>1
<1> QED BY <1>2 DEF RunsAreFound

\* Calls without values leave nothing behind their run's index.
LEMMA NothingInRun ==
  ASSUME Saveable, NEW j \in 1 .. Len(begins), Format(j) \in NoArgs,
         NEW n \in begins[j] .. LastOf(j)
  PROVE  UnreadValues(n) = Unread(LastOf(j) + 1)
<1>1. IInv /\ RunsAreFound
  BY DEF Saveable, ProgramInv
<1>a. PICK f \in Nat, e \in Nat : f = begins[j] /\ e = LastOf(j)
  BY <1>1, RunBounds
<1>2. /\ \A m \in f + 1 .. e : ~ Begun(m)
      /\ \A m \in f .. e : m \in 1 .. Len(calls) /\ calls[m] = Format(j)
  BY <1>1, <1>a, RunBounds
<1>3. \A m \in f .. e : UnreadValues(m) = Unread(m + 1)
  BY <1>2 DEF UnreadValues
<1>4. \A m \in f + 1 .. e : Unread(m) = UnreadValues(m)
  <2> TAKE m \in f + 1 .. e
  <2>1. m \in f .. e
    BY <1>a
  <2>2. m \in 1 .. Len(calls) /\ ~ Begun(m)
    BY <1>2, <2>1
  <2> QED BY <2>2, EntryTokens
<1> DEFINE D == {d \in Nat : f <= e - d => UnreadValues(e - d) = Unread(e + 1)}
<1>5. 0 \in D
  <2>1. e - 0 = e
    BY <1>a
  <2>2. f <= e => e \in f .. e
    BY <1>a
  <2> QED BY <1>3, <2>1, <2>2
<1>6. ASSUME NEW d \in Nat, d \in D PROVE d + 1 \in D
  <2>1. SUFFICES ASSUME f <= e - (d + 1) PROVE UnreadValues(e - (d + 1)) = Unread(e + 1)
    OBVIOUS
  <2>2. /\ e - (d + 1) \in f .. e /\ (e - (d + 1)) + 1 = e - d
        /\ e - d \in f + 1 .. e /\ f <= e - d
    <3>1. f \in Nat /\ e \in Nat /\ d \in Nat
      OBVIOUS
    <3>2. e - (d + 1) = (e - d) - 1 /\ e - d \in Int
      BY <3>1
    <3>3. f <= (e - d) - 1
      BY <2>1, <3>2
    <3> QED BY <3>1, <3>2, <3>3
  <2>3. UnreadValues(e - (d + 1)) = Unread(e - d)
    BY <1>3, <2>2
  <2>4. Unread(e - d) = UnreadValues(e - d)
    BY <1>4, <2>2
  <2> QED BY <1>6, <2>2, <2>3, <2>4
<1> HIDE DEF D
<1>7. Nat \subseteq D
  BY <1>5, <1>6, NatSetInduction
<1>8. e - n \in Nat /\ e - (e - n) = n /\ f <= n
  BY <1>a
<1>9. e - n \in D
  BY <1>7, <1>8
<1> QED BY <1>a, <1>8, <1>9 DEF D

-----------------------------------------------------------------------------

\* The definitions of Oldest and RecordsTaken as predicates.
OldestIs(o) ==
  o \in 1 .. Len(begins) /\ begins[o] <= Gone + 1 /\ Gone + 1 <= LastOf(o)

TakenIs(o, f) ==
  \A j \in o - 1 .. Len(begins) :
    f[j] = IF j = o - 1 THEN 0 ELSE f[j - 1] + IF Takes(j, f[j - 1]) THEN 1 ELSE 0

\* The length that the j-th run is told.
Told(f, j) == IF Takes(j, f[j - 1]) THEN due[f[j - 1] + 1].count ELSE 1

\* StartsWithRun and LengthsAgree.
Agree(o, f) ==
  /\ begins[o] = Gone + 1
  /\ \A j \in o .. Len(begins) : Told(f, j) = LengthOf(j)

\* Some run has the oldest call that is kept.
LEMMA OldestExists ==
  ASSUME Saveable
  PROVE  OldestIs(Oldest)
<1>1. IInv /\ RunsAreFound /\ Gone \in 0 .. Len(calls) - 1
  BY SavedLog DEF Saveable, ProgramInv
<1>2. Gone + 1 \in 1 .. Len(calls)
  BY <1>1, RunFacts
<1>3. PICK o \in 1 .. Len(begins) : begins[o] <= Gone + 1 /\ Gone + 1 <= LastOf(o)
  BY <1>1, <1>2 DEF RunsAreFound
<1>4. DOMAIN begins = 1 .. Len(begins)
  BY <1>1, LenProperties DEF RunsAreFound
<1> QED BY <1>3, <1>4, Zenon DEF OldestIs, Oldest

\* And no other has.
LEMMA OldestUnique ==
  ASSUME Saveable, NEW o, NEW p, OldestIs(o), OldestIs(p)
  PROVE  o = p
<1>1. IInv /\ RunsAreFound /\ Gone \in Nat
  BY SavedLog DEF Saveable, ProgramInv
<1>a. PICK R \in Nat, g \in Nat : R = Len(begins) /\ g = Gone
  BY <1>1, RunFacts
<1>2. ASSUME NEW i \in 1 .. R, NEW k \in 1 .. R, i < k, OldestIs(i), OldestIs(k)
      PROVE  FALSE
  <2>1. i < R /\ i + 1 \in 1 .. R
    BY <1>a, <1>2
  <2>2. /\ LastOf(i) = begins[i + 1] - 1 /\ begins[i + 1] \in Nat
        /\ begins[k] \in Nat /\ begins[i + 1] <= begins[k]
    <3>1. i + 1 = k \/ i + 1 < k
      BY <1>a, <1>2
    <3>2. i + 1 = k \/ begins[i + 1] < begins[k]
      BY <1>a, <1>2, <2>1, <3>1 DEF RunsAreFound, Saveable, ProgramInv
    <3>3. begins[i + 1] \in Nat /\ begins[k] \in Nat /\ LastOf(i) = begins[i + 1] - 1
      BY <1>a, <1>1, <2>1, RunFacts
    <3> QED BY <3>2, <3>3
  <2>3. begins[k] <= g + 1 /\ g + 1 <= LastOf(i)
    BY <1>a, <1>2 DEF OldestIs
  <2> QED BY <1>a, <2>2, <2>3
<1>3. o \in 1 .. R /\ p \in 1 .. R
  BY <1>a DEF OldestIs
<1>4. o < p \/ p < o \/ o = p
  BY <1>3
<1> QED BY <1>2, <1>3, <1>4

-----------------------------------------------------------------------------

\* RecordsTaken is defined: each of its values is made from the one before.
TakesUpTo(o, f, n) ==
  f = [j \in o - 1 .. n |->
         IF j = o - 1 THEN 0 ELSE f[j - 1] + IF Takes(j, f[j - 1]) THEN 1 ELSE 0]

\* Its value at one run.
LEMMA TakesUpToAt ==
  ASSUME NEW o, NEW f, NEW n, TakesUpTo(o, f, n), NEW j \in o - 1 .. n
  PROVE  f[j] = IF j = o - 1 THEN 0 ELSE f[j - 1] + IF Takes(j, f[j - 1]) THEN 1 ELSE 0
BY Zenon DEF TakesUpTo

\* There is such a function up to any run, by induction on their number.
LEMMA TakesExists ==
  ASSUME NEW o \in Nat \ {0}
  PROVE  \A d \in Nat : \E f : TakesUpTo(o, f, (o - 1) + d)
<1> DEFINE S == {d \in Nat : \E f : TakesUpTo(o, f, (o - 1) + d)}
<1>1. 0 \in S
  <2> DEFINE f == [j \in o - 1 .. o - 1 |-> 0]
  <2>1. \A j \in o - 1 .. o - 1 : j = o - 1
    OBVIOUS
  <2>2. TakesUpTo(o, f, o - 1)
    BY <2>1 DEF TakesUpTo
  <2>3. (o - 1) + 0 = o - 1
    OBVIOUS
  <2> HIDE DEF f
  <2> QED BY <2>2, <2>3
<1>2. ASSUME NEW d \in Nat, d \in S PROVE d + 1 \in S
  <2> DEFINE n == (o - 1) + d
             D(h, j) == IF j = o - 1 THEN 0 ELSE h[j - 1] + IF Takes(j, h[j - 1]) THEN 1 ELSE 0
  <2>0. n \in Nat /\ o - 1 <= n /\ (o - 1) + (d + 1) = n + 1
    OBVIOUS
  <2>1. PICK f : TakesUpTo(o, f, n)
    BY <1>2
  <2> HIDE DEF n
  <2> DEFINE g == [j \in o - 1 .. n + 1 |-> IF j = n + 1 THEN D(f, j) ELSE f[j]]
  <2>2. ASSUME NEW j \in o - 1 .. n + 1 PROVE g[j] = D(g, j)
    <3>1. j # o - 1 => j - 1 \in o - 1 .. n /\ j - 1 \in o - 1 .. n + 1 /\ j - 1 # n + 1
      BY <2>0
    <3>2. j # o - 1 => g[j - 1] = f[j - 1]
      BY <3>1
    <3>3. g[j] = D(f, j)
      <4>1. CASE j = n + 1
        BY <4>1
      <4>2. CASE j # n + 1
        <5>1. j \in o - 1 .. n
          BY <2>0, <4>2
        <5>2. f[j] = D(f, j)
          BY <2>1, <5>1, TakesUpToAt
        <5> QED BY <4>2, <5>2
      <4> QED BY <4>1, <4>2
    <3>4. D(g, j) = D(f, j)
      <4> HIDE DEF g
      <4> QED BY <3>2
    <3> QED BY <3>3, <3>4
  <2>3. g = [j \in o - 1 .. n + 1 |-> D(g, j)]
    <3> HIDE DEF D
    <3> SUFFICES g = [j \in o - 1 .. n + 1 |-> g[j]]
      BY <2>2, Zenon
    <3> QED OBVIOUS
  <2>4. TakesUpTo(o, g, n + 1)
    BY <2>3 DEF TakesUpTo
  <2> HIDE DEF g
  <2> QED BY <2>0, <2>4
<1> HIDE DEF S
<1>3. Nat \subseteq S
  BY <1>1, <1>2, NatSetInduction
<1> QED BY <1>3 DEF S

\* So RecordsTaken is one.
LEMMA RecordsTakenIs ==
  ASSUME Saveable
  PROVE  TakenIs(Oldest, RecordsTaken)
<1> DEFINE P(f) == f = [j \in Oldest - 1 .. Len(begins) |->
                          IF j = Oldest - 1 THEN 0
                          ELSE f[j - 1] + IF Takes(j, f[j - 1]) THEN 1 ELSE 0]
<1>1. Oldest \in 1 .. Len(begins) /\ Len(begins) \in Nat
  BY OldestExists, RunFacts DEF OldestIs, Saveable, ProgramInv
<1>2. \E f : P(f)
  <2>1. PICK o \in Nat \ {0}, R \in Nat : o = Oldest /\ R = Len(begins) /\ o <= R
    BY <1>1
  <2>2. R - (o - 1) \in Nat /\ (o - 1) + (R - (o - 1)) = R
    BY <2>1
  <2>3. PICK f : TakesUpTo(o, f, R)
    BY <2>1, <2>2, TakesExists
  <2>4. P(f)
    BY <2>1, <2>3 DEF TakesUpTo
  <2> QED BY <2>4
<1>3. P(CHOOSE f : P(f))
  <2> HIDE DEF P
  <2> QED BY <1>2, Zenon
<1>4. RecordsTaken = CHOOSE f : P(f)
  BY DEF RecordsTaken
<1>5. P(RecordsTaken)
  BY <1>3, <1>4
<1>6. TakesUpTo(Oldest, RecordsTaken, Len(begins))
  BY <1>5, Zenon DEF TakesUpTo
<1> HIDE DEF P
<1> QED BY <1>6, TakesUpToAt DEF TakenIs

\* It counts records.
LEMMA TakenCounts ==
  ASSUME NEW o, NEW f, o \in 1 .. Len(begins), Len(begins) \in Nat, TakenIs(o, f)
  PROVE  \A j \in o - 1 .. Len(begins) : f[j] \in Nat
<1>a. PICK R \in Nat : R = Len(begins)
  OBVIOUS
<1> DEFINE S == {d \in Nat : (o - 1) + d <= R => f[(o - 1) + d] \in Nat}
<1>1. 0 \in S
  <2>1. o - 1 \in o - 1 .. R /\ (o - 1) + 0 = o - 1
    BY <1>a
  <2> QED BY <1>a, <2>1 DEF TakenIs
<1>2. ASSUME NEW d \in Nat, d \in S PROVE d + 1 \in S
  <2>1. SUFFICES ASSUME (o - 1) + (d + 1) <= R PROVE f[(o - 1) + (d + 1)] \in Nat
    OBVIOUS
  <2>2. PICK j \in Nat : j = (o - 1) + (d + 1)
    BY <1>a
  <2>3. j \in o - 1 .. R /\ j # o - 1 /\ j - 1 = (o - 1) + d /\ j - 1 <= R
    BY <1>a, <2>1, <2>2
  <2>4. f[j] = f[j - 1] + IF Takes(j, f[j - 1]) THEN 1 ELSE 0
    BY <1>a, <2>3 DEF TakenIs
  <2>5. f[j - 1] \in Nat
    BY <1>2, <2>3
  <2> QED BY <2>2, <2>4, <2>5
<1> HIDE DEF S
<1>3. Nat \subseteq S
  BY <1>1, <1>2, NatSetInduction
<1>4. ASSUME NEW j \in o - 1 .. R PROVE f[j] \in Nat
  <2>1. j - (o - 1) \in Nat /\ (o - 1) + (j - (o - 1)) = j /\ j <= R
    BY <1>a
  <2>2. j - (o - 1) \in S
    BY <1>3, <2>1
  <2> QED BY <2>1, <2>2 DEF S
<1> QED BY <1>a, <1>4

\* There is one such count.
LEMMA TakenUnique ==
  ASSUME NEW o, NEW f, NEW g, o \in 1 .. Len(begins), Len(begins) \in Nat,
         TakenIs(o, f), TakenIs(o, g)
  PROVE  \A j \in o - 1 .. Len(begins) : f[j] = g[j]
<1>a. PICK R \in Nat : R = Len(begins)
  OBVIOUS
<1> DEFINE S == {d \in Nat : (o - 1) + d <= R => f[(o - 1) + d] = g[(o - 1) + d]}
<1>1. 0 \in S
  <2>1. o - 1 \in o - 1 .. R /\ (o - 1) + 0 = o - 1
    BY <1>a
  <2> QED BY <1>a, <2>1 DEF TakenIs
<1>2. ASSUME NEW d \in Nat, d \in S PROVE d + 1 \in S
  <2>1. SUFFICES ASSUME (o - 1) + (d + 1) <= R
                 PROVE  f[(o - 1) + (d + 1)] = g[(o - 1) + (d + 1)]
    OBVIOUS
  <2>2. PICK j \in Nat : j = (o - 1) + (d + 1)
    BY <1>a
  <2>3. j \in o - 1 .. R /\ j # o - 1 /\ j - 1 = (o - 1) + d /\ j - 1 <= R
    BY <1>a, <2>1, <2>2
  <2>4. /\ f[j] = f[j - 1] + IF Takes(j, f[j - 1]) THEN 1 ELSE 0
        /\ g[j] = g[j - 1] + IF Takes(j, g[j - 1]) THEN 1 ELSE 0
    BY <1>a, <2>3 DEF TakenIs
  <2>5. f[j - 1] = g[j - 1]
    BY <1>2, <2>3
  <2> QED BY <2>2, <2>4, <2>5
<1> HIDE DEF S
<1>3. Nat \subseteq S
  BY <1>1, <1>2, NatSetInduction
<1>4. ASSUME NEW j \in o - 1 .. R PROVE f[j] = g[j]
  <2>1. j - (o - 1) \in Nat /\ (o - 1) + (j - (o - 1)) = j /\ j <= R
    BY <1>a
  <2>2. j - (o - 1) \in S
    BY <1>3, <2>1
  <2> QED BY <2>1, <2>2 DEF S
<1> QED BY <1>a, <1>4

\* So the predicates say what the property says.
LEMMA AgreeMeans ==
  ASSUME Saveable, NEW o, NEW f, OldestIs(o), TakenIs(o, f)
  PROVE  Agree(o, f) <=> StartsWithRun /\ LengthsAgree
<1>1. o = Oldest /\ o \in 1 .. Len(begins) /\ Len(begins) \in Nat
  BY OldestExists, OldestUnique, RunFacts DEF OldestIs, Saveable, ProgramInv
<1>2. TakenIs(o, RecordsTaken)
  BY <1>1, RecordsTakenIs
<1>3. \A j \in o - 1 .. Len(begins) : f[j] = RecordsTaken[j]
  BY <1>1, <1>2, TakenUnique
<1>4. \A j \in o .. Len(begins) : Told(f, j) = LengthTold(j)
  <2> TAKE j \in o .. Len(begins)
  <2>1. f[j - 1] = RecordsTaken[j - 1]
    BY <1>1, <1>3
  <2> QED BY <2>1 DEF Told, LengthTold
<1> QED BY <1>1, <1>4 DEF Agree, StartsWithRun, LengthsAgree

-----------------------------------------------------------------------------

\* The line of a call.
LineOf(n) == [index |-> calls[n], call |-> IF calls[n] \in NoArgs THEN 0 ELSE n]

\* The types of the lines and of what the parser keeps.
Lines == [index : Index, call : Nat]

ParserTyped ==
  /\ m_logfile_index \in Nat
  /\ m_runlengthfile_index \in Nat
  /\ left \in Nat
  /\ current \in Index
  /\ printed \in Seq(Lines)

\* The lines so far are those of the kept calls up to number n.
RightUpTo(n) ==
  /\ Len(printed) = n - Gone
  /\ \A k \in 1 .. n - Gone : printed[k] = LineOf(Gone + k)

\* They are, call n is of run j or the one before it, and the parser stands
\* behind call n, past the index if the next call is of the run.
InRun(j, n) ==
  /\ n \in Gone .. LastOf(j)
  /\ n < LastOf(j) => j \in 1 .. Len(begins) /\ begins[j] <= n + 1
  /\ RightUpTo(n)
  /\ left > 0 => current = Format(j)
  /\ Ahead(LogFile, m_logfile_index,
           IF n < LastOf(j) THEN UnreadValues(n + 1) ELSE Unread(n + 1))

\* It will print the rest of the run, and all runs so far found their lengths.
OnTrack(o, f, j, n) ==
  /\ begins[o] = Gone + 1
  /\ j \in o - 1 .. Len(begins)
  /\ \A q \in o .. j : Told(f, q) = LengthOf(q)
  /\ m_runlengthfile_index = f[j]
  /\ InRun(j, n)
  /\ left = LastOf(j) - n

\* It will print too few lines for the run, or too many.
Strayed(o, j, n) ==
  /\ j \in o .. Len(begins)
  /\ InRun(j, n)
  /\ left # LastOf(j) - n

\* It is about to print a line under a format that is not that of the call.
Astray ==
  /\ left > 0
  /\ \/ Gone + Len(printed) + 1 > Len(calls)
     \/ calls[Gone + Len(printed) + 1] # current

\* It has printed one.
Wrong ==
  \E k \in 1 .. Len(printed) : Gone + k > Len(calls) \/ printed[k] # LineOf(Gone + k)

\* It will never print what it should.
Lost(o) == (\E j, n : Strayed(o, j, n)) \/ Astray \/ Wrong

\* It may still do so.
Follows(o, f) == \E j, n : OnTrack(o, f, j, n)

\* The states a parser can be in when the first run is o and its records are
\* counted by f: it is done right exactly when the lengths agree.
Parsed(o, f) ==
  /\ parser = "waiting" => Unpacker!ParserInit
  /\ parser = "parsing" => Follows(o, f) \/ (~ Agree(o, f) /\ Lost(o))
  /\ parser = "done" => (Agree(o, f) <=> printed = KeptLines)
  /\ parser \in {"failed", "derailed"} => ~ Agree(o, f)

-----------------------------------------------------------------------------

\* The program does nothing while the unpacker runs.
LEMMA Frozen ==
  ASSUME UNCHANGED <<vars, files>>, NEW j, NEW n
  PROVE  /\ Gone' = Gone /\ LogFile' = LogFile /\ KeptLines' = KeptLines
         /\ LastOf(j)' = LastOf(j) /\ Format(j)' = Format(j) /\ LengthOf(j)' = LengthOf(j)
         /\ LineOf(n)' = LineOf(n)
         /\ Unread(n)' = Unread(n) /\ UnreadValues(n)' = UnreadValues(n)
         /\ calls' = calls /\ begins' = begins /\ due' = due /\ runlengths' = runlengths
<1>1. /\ calls' = calls /\ begins' = begins /\ starts' = starts /\ stream' = stream
      /\ log_buffer_indices' = log_buffer_indices /\ m_buffer' = m_buffer
      /\ due' = due /\ runlengths' = runlengths
  BY DEF vars, files, ring, history
<1>2. Gone' = Gone
  BY <1>1 DEF Gone
<1>3. LogFile' = LogFile
  BY <1>1 DEF LogFile
<1>4. LastOf(j)' = LastOf(j) /\ Format(j)' = Format(j) /\ LengthOf(j)' = LengthOf(j)
  BY <1>1 DEF LastOf, Format, LengthOf
<1>5. LineOf(n)' = LineOf(n)
  BY <1>1 DEF LineOf
<1>6. KeptLines' = KeptLines
  BY <1>1, <1>2 DEF KeptLines, Unpacker!Line
<1>7. Unread(n)' = Unread(n) /\ Unread(n + 1)' = Unread(n + 1)
  BY <1>1 DEF Unread, StreamFrom
<1>8. UnreadValues(n)' = UnreadValues(n)
  BY <1>1, <1>7 DEF UnreadValues, Token
<1> QED BY <1>1, <1>2, <1>3, <1>4, <1>5, <1>6, <1>7, <1>8

\* Nor do the lengths its runs are told change.
LEMMA FrozenLengths ==
  ASSUME UNCHANGED <<vars, files>>, NEW o, NEW f
  PROVE  /\ Agree(o, f)' <=> Agree(o, f)
         /\ TakenIs(o, f)' <=> TakenIs(o, f)
         /\ OldestIs(o)' <=> OldestIs(o)
         /\ \A q : Told(f, q)' = Told(f, q)
         /\ \A q, n : Takes(q, n)' <=> Takes(q, n)
<1>1. begins' = begins /\ due' = due /\ calls' = calls /\ Gone' = Gone
  BY Frozen
<1>2. \A q : LengthOf(q)' = LengthOf(q) /\ LastOf(q)' = LastOf(q) /\ Format(q)' = Format(q)
  BY Frozen
<1>3. \A q, n : Takes(q, n)' <=> Takes(q, n)
  BY <1>1, <1>2 DEF Takes
<1>4. \A q : Told(f, q)' = Told(f, q)
  BY <1>1, <1>3 DEF Told
<1>5. Agree(o, f)' <=> Agree(o, f)
  BY <1>1, <1>2, <1>4 DEF Agree
<1>6. TakenIs(o, f)' <=> TakenIs(o, f)
  BY <1>1, <1>3 DEF TakenIs
<1>7. OldestIs(o)' <=> OldestIs(o)
  BY <1>1, <1>2 DEF OldestIs
<1> QED BY <1>3, <1>4, <1>5, <1>6, <1>7

\* The lines of the calls that are kept.
LEMMA KeptLinesFacts ==
  ASSUME Saveable
  PROVE  /\ KeptLines \in Seq(Lines) /\ Len(KeptLines) = Len(calls) - Gone
         /\ \A k \in 1 .. Len(calls) - Gone : KeptLines[k] = LineOf(Gone + k)
<1>1. /\ Gone \in 0 .. Len(calls) - 1 /\ Len(calls) \in Nat
      /\ \A n \in 1 .. Len(calls) : calls[n] \in Index
  BY SavedLog, RunFacts DEF Saveable, ProgramInv
<1>a. PICK K \in Nat, G \in Nat : G = Gone /\ K = Len(calls) - Gone /\ G + K = Len(calls)
  <2>1. PICK G \in Nat, N \in Nat : G = Gone /\ N = Len(calls) /\ G <= N
    BY <1>1
  <2>2. N - G \in Nat /\ G + (N - G) = N
    BY <2>1
  <2> QED BY <2>1, <2>2
<1>2. KeptLines = [k \in 1 .. K |-> LineOf(G + k)]
  BY <1>a DEF KeptLines, LineOf, Unpacker!Line
<1>3. ASSUME NEW k \in 1 .. K PROVE LineOf(G + k) \in Lines
  <2>1. G + k \in 1 .. Len(calls) /\ G + k \in Nat
    BY <1>a
  <2> QED BY <1>1, <2>1 DEF LineOf, Lines
<1>4. KeptLines \in [1 .. K -> Lines]
  BY <1>2, <1>3
<1>5. KeptLines \in Seq(Lines) /\ Len(KeptLines) = K
  <2>1. KeptLines \in Seq(Lines)
    BY <1>a, <1>4, SeqDef
  <2>2. DOMAIN KeptLines = 1 .. K
    BY <1>2
  <2> QED BY <1>a, <2>1, <2>2, LenProperties
<1> QED BY <1>a, <1>2, <1>5

\* A file that has one more token ahead.
LEMMA TokenAhead ==
  ASSUME NEW file \in Seq(Byte), NEW pos \in Nat, NEW t \in Byte, NEW rest \in Seq(Byte),
         Ahead(file, pos, <<t>> \o rest)
  PROVE  file[pos + 1] = t /\ pos < Len(file) /\ Ahead(file, pos + 1, rest)
<1> DEFINE s == <<t>>
<1>1. s \in Seq(Byte) /\ Len(s) = 1 /\ s[1] = t
  OBVIOUS
<1>2. Ahead(file, pos, s \o rest)
  OBVIOUS
<1> HIDE DEF s
<1>3. /\ Ahead(file, pos + Len(s), rest)
      /\ \A k \in 1 .. Len(s) : file[pos + k] = s[k]
      /\ pos + Len(s) <= Len(file)
  BY <1>1, <1>2, AheadConcat
<1>4. Len(file) \in Nat
  BY LenProperties
<1> QED BY <1>1, <1>3, <1>4

\* Where a parser stands behind a run is the index of the next, or the end.
LEMMA BehindRun ==
  ASSUME Saveable, ParserTyped, NEW j \in 0 .. Len(begins),
         Ahead(LogFile, m_logfile_index, Unread(LastOf(j) + 1))
  PROVE  /\ j = Len(begins) => m_logfile_index = Len(LogFile)
         /\ j < Len(begins) =>
              /\ m_logfile_index < Len(LogFile)
              /\ LogFile[m_logfile_index + 1] = Token("index", begins[j + 1])
              /\ Ahead(LogFile, m_logfile_index + 1, UnreadValues(begins[j + 1]))
              /\ LastOf(j) + 1 = begins[j + 1]
<1>1. /\ IInv /\ RunsAreFound /\ LogFile \in Seq(Byte) /\ m_logfile_index \in Nat
      /\ Len(begins) \in Nat /\ Len(calls) \in Nat
  BY SavedLog, RunFacts DEF Saveable, ProgramInv, ParserTyped
<1>2. ASSUME j = Len(begins) PROVE m_logfile_index = Len(LogFile)
  <2>1. LastOf(j) = Len(calls)
    BY <1>2 DEF LastOf
  <2>2. Unread(LastOf(j) + 1) = <<>>
    BY <1>1, <2>1 DEF Unread
  <2> QED BY <1>1, <2>2, AheadNone
<1>3. ASSUME j < Len(begins)
      PROVE  /\ m_logfile_index < Len(LogFile)
             /\ LogFile[m_logfile_index + 1] = Token("index", begins[j + 1])
             /\ Ahead(LogFile, m_logfile_index + 1, UnreadValues(begins[j + 1]))
             /\ LastOf(j) + 1 = begins[j + 1]
  <2>1. j + 1 \in 1 .. Len(begins)
    BY <1>1, <1>3
  <2>2. PICK b \in 1 .. Len(calls) : b = begins[j + 1] /\ Begun(b)
    <3>1. begins[j + 1] \in 1 .. Len(calls)
      BY <1>1, <2>1, RunFacts
    <3>2. Begun(begins[j + 1])
      BY <2>1 DEF Begun
    <3> QED BY <3>1, <3>2
  <2>3. LastOf(j) + 1 = b
    <3>1. LastOf(j) = b - 1
      BY <1>3, <2>2 DEF LastOf
    <3> QED BY <1>1, <2>2, <3>1
  <2>4. /\ Unread(b) = <<Token("index", b)>> \o UnreadValues(b)
        /\ Token("index", b) \in Byte /\ UnreadValues(b) \in Seq(Byte)
    BY <2>2, EntryTokens
  <2>5. Ahead(LogFile, m_logfile_index, <<Token("index", b)>> \o UnreadValues(b))
    BY <2>3, <2>4
  <2>6. /\ LogFile[m_logfile_index + 1] = Token("index", b)
        /\ m_logfile_index < Len(LogFile)
        /\ Ahead(LogFile, m_logfile_index + 1, UnreadValues(b))
    BY <1>1, <2>4, <2>5, TokenAhead
  <2> QED BY <2>2, <2>3, <2>6
<1> QED BY <1>2, <1>3

\* Where a parser stands in a run of calls with values are the next of them.
LEMMA InsideRun ==
  ASSUME Saveable, ParserTyped, NEW n \in Nat, n + 1 \in 1 .. Len(calls),
         calls[n + 1] \notin NoArgs,
         Ahead(LogFile, m_logfile_index, UnreadValues(n + 1))
  PROVE  /\ m_logfile_index < Len(LogFile)
         /\ LogFile[m_logfile_index + 1] = Token("args", n + 1)
         /\ Ahead(LogFile, m_logfile_index + 1, Unread(n + 2))
<1>1. LogFile \in Seq(Byte) /\ m_logfile_index \in Nat
  BY SavedLog DEF ParserTyped
<1>a. PICK m \in 1 .. Len(calls) : m = n + 1
  OBVIOUS
<1>2. /\ Unread(m + 1) \in Seq(Byte) /\ Token("args", m) \in Byte
      /\ UnreadValues(m) = <<Token("args", m)>> \o Unread(m + 1)
  BY <1>a, EntryTokens DEF UnreadValues
<1>3. Ahead(LogFile, m_logfile_index, <<Token("args", m)>> \o Unread(m + 1))
  BY <1>a, <1>2
<1>4. /\ m_logfile_index < Len(LogFile)
      /\ LogFile[m_logfile_index + 1] = Token("args", m)
      /\ Ahead(LogFile, m_logfile_index + 1, Unread(m + 1))
  BY <1>1, <1>2, <1>3, TokenAhead
<1>5. m + 1 = n + 2
  BY <1>a
<1> QED BY <1>a, <1>4, <1>5

\* The types of the parser's position and lines.
LEMMA ParserKeepsTypes ==
  ASSUME Saveable, ParserTyped, UNCHANGED <<vars, files>>,
         Unpacker!ParserNext \/ UNCHANGED parserVars
  PROVE  ParserTyped'
<1>1. /\ m_logfile_index \in Nat /\ m_runlengthfile_index \in Nat
      /\ left \in Nat /\ current \in Index
      /\ printed \in Seq(Lines)
      /\ LogFile \in Seq(Byte)
  BY SavedLog DEF ParserTyped
<1>2. CASE Unpacker!Open \/ Unpacker!Derail \/ Unpacker!Finish \/ UNCHANGED parserVars
  BY <1>1, <1>2 DEF ParserTyped, Unpacker!Open, Unpacker!Derail, Unpacker!Finish,
       Unpacker!positions, parserVars
<1>3. ASSUME m_logfile_index < Len(LogFile)
      PROVE  LogFile[m_logfile_index + 1] \in Byte
  <2>1. m_logfile_index + 1 \in 1 .. Len(LogFile)
    BY <1>1, <1>3, LenProperties
  <2> QED BY <1>1, <2>1, ElementOfSeq
<1>4. CASE Unpacker!ParseIndex
  <2>1. /\ m_logfile_index < Len(LogFile)
        /\ current' = LogFile[m_logfile_index + 1].index
        /\ left' = Unpacker!Runlength /\ Unpacker!Runlength > 0
        /\ m_logfile_index' = m_logfile_index + 1
        /\ m_runlengthfile_index' = m_runlengthfile_index + IF Unpacker!TakesRecord THEN 1 ELSE 0
        /\ printed' = printed
    BY <1>4 DEF Unpacker!ParseIndex, Unpacker!CurrentToken, Unpacker!OnIndex
  <2>2. current' \in Index
    BY <1>3, <2>1 DEF Byte
  <2>3. Unpacker!Runlength \in Nat
    <3>1. runlengths \in Seq(Record) /\ m_runlengthfile_index \in Nat
      BY DEF Saveable, ProgramInv, RecordsAreDue, ParserTyped
    <3>2. ASSUME Unpacker!TakesRecord PROVE runlengths[m_runlengthfile_index + 1].count \in Nat
      <4>1. m_runlengthfile_index + 1 \in 1 .. Len(runlengths)
        BY <3>1, <3>2, LenProperties DEF Unpacker!TakesRecord
      <4>2. runlengths[m_runlengthfile_index + 1] \in Record
        BY <3>1, <4>1, ElementOfSeq
      <4> QED BY <4>2 DEF Record
    <3> QED BY <3>2 DEF Unpacker!Runlength, Unpacker!CurrentRecord
  <2> QED BY <1>1, <2>1, <2>2, <2>3 DEF ParserTyped
<1>5. CASE Unpacker!PrintLine
  <2>1. /\ left > 0 /\ left' = left - 1 /\ current' = current
        /\ m_runlengthfile_index' = m_runlengthfile_index
    BY <1>5 DEF Unpacker!PrintLine
  <2>2. PICK k \in Nat :
          /\ printed' = Append(printed, [index |-> current, call |-> k])
          /\ m_logfile_index' \in Nat
    <3>1. CASE /\ current \in NoArgs
               /\ printed' = Append(printed, Unpacker!Line(current, 0))
               /\ UNCHANGED m_logfile_index
      BY <1>1, <3>1 DEF Unpacker!Line
    <3>2. CASE /\ Unpacker!OnValues
               /\ printed' = Append(printed, Unpacker!Line(current, Unpacker!CurrentToken.call))
               /\ m_logfile_index' = m_logfile_index + 1
      <4>1. m_logfile_index < Len(LogFile)
        BY <3>2 DEF Unpacker!OnValues
      <4>2. LogFile[m_logfile_index + 1].call \in Nat
        BY <1>3, <4>1 DEF Byte
      <4>3. PICK k \in Nat : k = LogFile[m_logfile_index + 1].call
        BY <4>2
      <4>4. printed' = Append(printed, [index |-> current, call |-> k])
        BY <3>2, <4>3 DEF Unpacker!Line, Unpacker!CurrentToken
      <4>5. m_logfile_index' \in Nat
        BY <1>1, <3>2
      <4> QED BY <4>4, <4>5
    <3> QED BY <1>5, <3>1, <3>2 DEF Unpacker!PrintLine
  <2>3. [index |-> current, call |-> k] \in Lines
    BY <1>1, <2>2 DEF Lines
  <2>4. printed' \in Seq(Lines)
    BY <1>1, <2>2, <2>3, AppendProperties
  <2> QED BY <1>1, <2>1, <2>2, <2>4 DEF ParserTyped
<1> QED BY <1>2, <1>4, <1>5 DEF Unpacker!ParserNext

\* One more line of the run.
LEMMA LineInRun ==
  ASSUME Saveable, ParserTyped, UNCHANGED <<vars, files>>, NEW j, NEW n,
         InRun(j, n), n < LastOf(j), left > 0, Unpacker!PrintLine
  PROVE  /\ InRun(j, n + 1)' /\ left' = left - 1
         /\ parser' = parser /\ m_runlengthfile_index' = m_runlengthfile_index
<1>1. /\ IInv /\ RunsAreFound /\ Len(begins) \in Nat /\ Len(calls) \in Nat
      /\ Gone \in 0 .. Len(calls) - 1 /\ left \in Nat /\ printed \in Seq(Lines)
  BY SavedLog, RunFacts DEF Saveable, ProgramInv, ParserTyped
<1>2. /\ j \in 1 .. Len(begins) /\ begins[j] <= n + 1 /\ n \in Gone .. LastOf(j)
      /\ RightUpTo(n) /\ current = Format(j)
      /\ Ahead(LogFile, m_logfile_index, UnreadValues(n + 1))
  BY DEF InRun
<1>3. /\ \A m \in begins[j] + 1 .. LastOf(j) : ~ Begun(m)
      /\ \A m \in begins[j] .. LastOf(j) : m \in 1 .. Len(calls) /\ calls[m] = Format(j)
      /\ begins[j] \in Nat \ {0} /\ LastOf(j) \in Nat
  BY <1>1, <1>2, RunBounds
<1>4. n \in Nat /\ n + 1 \in begins[j] .. LastOf(j)
  BY <1>1, <1>2, <1>3
<1>5. n + 1 \in 1 .. Len(calls) /\ calls[n + 1] = Format(j)
  BY <1>3, <1>4
<1>6. left' = left - 1 /\ parser' = parser /\ current' = current
      /\ m_runlengthfile_index' = m_runlengthfile_index
  BY DEF Unpacker!PrintLine
<1>7. printed' = Append(printed, LineOf(n + 1)) /\ Ahead(LogFile, m_logfile_index', Unread(n + 2))
  <2>1. CASE current \in NoArgs
    <3>1. UnreadValues(n + 1) = Unread((n + 1) + 1)
      BY <1>2, <1>5, <2>1 DEF UnreadValues
    <3>2. (n + 1) + 1 = n + 2
      BY <1>4
    <3>3. /\ printed' = Append(printed, [index |-> current, call |-> 0])
          /\ m_logfile_index' = m_logfile_index
      BY <2>1 DEF Unpacker!PrintLine, Unpacker!Line
    <3>4. LineOf(n + 1) = [index |-> current, call |-> 0]
      BY <1>2, <1>5, <2>1 DEF LineOf
    <3> QED BY <1>2, <3>1, <3>2, <3>3, <3>4
  <2>2. CASE current \notin NoArgs
    <3>1. /\ LogFile[m_logfile_index + 1] = Token("args", n + 1)
          /\ Ahead(LogFile, m_logfile_index + 1, Unread(n + 2))
      BY <1>2, <1>4, <1>5, <2>2, InsideRun
    <3>2. /\ printed' =
               Append(printed, [index |-> current, call |-> LogFile[m_logfile_index + 1].call])
          /\ m_logfile_index' = m_logfile_index + 1
      BY <2>2 DEF Unpacker!PrintLine, Unpacker!Line, Unpacker!CurrentToken
    <3>3. LineOf(n + 1) = [index |-> current, call |-> LogFile[m_logfile_index + 1].call]
      BY <1>2, <1>5, <2>2, <3>1 DEF LineOf, Token
    <3> QED BY <3>1, <3>2, <3>3
  <2> QED BY <2>1, <2>2
<1>8. RightUpTo(n + 1)'
  <2>1. PICK P \in Nat, G \in Nat : P = n - Gone /\ G = Gone /\ n = G + P
    BY <1>1, <1>2, <1>4
  <2>2. Len(printed) = P /\ \A k \in 1 .. P : printed[k] = LineOf(G + k)
    BY <1>2, <2>1 DEF RightUpTo
  <2>3. LineOf(n + 1) \in Lines
    <3>1. calls[n + 1] \in Index
      BY <1>1, <1>5, RunFacts
    <3> QED BY <1>4, <3>1 DEF LineOf, Lines
  <2>4. /\ Len(printed') = P + 1 /\ printed'[P + 1] = LineOf(n + 1)
        /\ \A k \in 1 .. P : printed'[k] = printed[k]
    BY <1>1, <1>7, <2>2, <2>3, AppendProperties
  <2>5. \A k \in 1 .. P + 1 : printed'[k] = LineOf(G + k)
    <3> TAKE k \in 1 .. P + 1
    <3>1. CASE k = P + 1
      <4>1. n + 1 = G + k
        BY <2>1, <3>1
      <4> QED BY <2>4, <3>1, <4>1
    <3>2. CASE k # P + 1
      <4>1. k \in 1 .. P
        BY <2>1, <3>2
      <4> QED BY <2>2, <2>4, <4>1
    <3> QED BY <3>1, <3>2
  <2>6. Gone' = G /\ \A m : LineOf(m)' = LineOf(m)
    BY <2>1, Frozen
  <2>7. (n + 1) - G = P + 1
    BY <2>1
  <2> QED BY <2>4, <2>5, <2>6, <2>7 DEF RightUpTo
<1>9. n + 1 < LastOf(j) => Unread(n + 2) = UnreadValues(n + 2)
  <2> SUFFICES ASSUME n + 1 < LastOf(j) PROVE Unread(n + 2) = UnreadValues(n + 2)
    OBVIOUS
  <2>1. n + 2 \in begins[j] + 1 .. LastOf(j) /\ n + 2 \in begins[j] .. LastOf(j)
    BY <1>1, <1>2, <1>3, <1>4
  <2>2. ~ Begun(n + 2) /\ n + 2 \in 1 .. Len(calls)
    BY <1>3, <2>1
  <2> QED BY <2>2, EntryTokens
<1>10. /\ LastOf(j)' = LastOf(j) /\ Gone' = Gone /\ LogFile' = LogFile /\ begins' = begins
       /\ Format(j)' = Format(j)
       /\ \A m : Unread(m)' = Unread(m) /\ UnreadValues(m)' = UnreadValues(m)
  BY Frozen
<1>11. /\ n + 1 \in Gone .. LastOf(j) /\ (n + 1) + 1 = n + 2
       /\ begins[j] <= n + 2
  BY <1>1, <1>2, <1>3, <1>4
<1>12. Ahead(LogFile', m_logfile_index',
             IF n + 1 < LastOf(j) THEN UnreadValues(n + 2) ELSE Unread(n + 2))
  BY <1>7, <1>9, <1>10
<1>13. InRun(j, n + 1)'
  BY <1>2, <1>6, <1>8, <1>10, <1>11, <1>12 DEF InRun
<1> QED BY <1>6, <1>13

\* The index of the next run.
LEMMA IndexOfRun ==
  ASSUME Saveable, ParserTyped, UNCHANGED <<vars, files>>, NEW j \in 0 .. Len(begins),
         j < Len(begins), InRun(j, LastOf(j)), left = 0, parser = "parsing"
  PROVE  /\ ~ Unpacker!Finish /\ ~ Unpacker!PrintLine /\ ~ Unpacker!Open
         /\ Unpacker!TakesRecord <=>
              /\ m_runlengthfile_index < Len(runlengths)
              /\ runlengths[m_runlengthfile_index + 1].index = Format(j + 1)
         /\ Unpacker!Derail => ~ (Unpacker!Runlength > 0)
         /\ Unpacker!ParseIndex => InRun(j + 1, LastOf(j))' /\ left' = Unpacker!Runlength
<1>1. /\ IInv /\ RunsAreFound /\ Len(begins) \in Nat /\ Len(calls) \in Nat
      /\ Gone \in 0 .. Len(calls) - 1 /\ Registered
  BY SavedLog, RunFacts DEF Saveable, ProgramInv
<1>2. /\ RightUpTo(LastOf(j)) /\ LastOf(j) \in Gone .. LastOf(j)
      /\ Ahead(LogFile, m_logfile_index, Unread(LastOf(j) + 1))
  <2>1. ~ (LastOf(j) < LastOf(j))
    BY DEF InRun
  <2> QED BY <2>1 DEF InRun
<1>3. j + 1 \in 1 .. Len(begins)
  BY <1>1
<1>4. PICK b \in 1 .. Len(calls) : b = begins[j + 1]
  BY <1>1, <1>3, RunFacts
<1>5. /\ m_logfile_index < Len(LogFile)
      /\ LogFile[m_logfile_index + 1] = Token("index", b)
      /\ Ahead(LogFile, m_logfile_index + 1, UnreadValues(b))
      /\ LastOf(j) + 1 = b
  BY <1>2, <1>4, BehindRun
<1>6. calls[b] = Format(j + 1) /\ calls[b] < sites /\ calls[b] \in Index /\ sites \in Nat
  <2>1. calls[b] = Format(j + 1)
    BY <1>4 DEF Format
  <2>2. calls[b] < sites
    BY <1>1 DEF Registered
  <2>3. calls[b] \in Index
    BY <1>1, RunFacts
  <2>4. sites \in Nat
    BY <1>1, RingAssumption DEF IInv, TypeOK
  <2> QED BY <2>1, <2>2, <2>3, <2>4
<1>7. /\ Unpacker!CurrentToken.kind = "index" /\ Unpacker!CurrentToken.index = Format(j + 1)
  BY <1>5, <1>6 DEF Unpacker!CurrentToken, Token
<1>8. /\ Format(j + 1) < Len(IndexFile) /\ IndexFile[Format(j + 1) + 1] = "whole"
  <2>1. Format(j + 1) \in Nat /\ Format(j + 1) + 1 \in 1 .. sites
    BY <1>6, RingAssumption DEF Index
  <2>2. Len(IndexFile) = sites
    BY <1>6 DEF IndexFile
  <2> QED BY <1>6, <2>1, <2>2 DEF IndexFile
<1>9. Unpacker!OnIndex <=> Unpacker!Runlength > 0
  BY <1>7, <1>8 DEF Unpacker!OnIndex
<1>10. ~ Unpacker!Finish /\ ~ Unpacker!PrintLine /\ ~ Unpacker!Open
  <2>1. Len(LogFile) \in Nat /\ m_logfile_index \in Nat
    BY SavedLog, LenProperties DEF ParserTyped
  <2> QED BY <1>5, <2>1 DEF Unpacker!Finish, Unpacker!PrintLine, Unpacker!Open
<1>11. Unpacker!Derail => ~ (Unpacker!Runlength > 0)
  BY <1>9 DEF Unpacker!Derail
<1>12. Unpacker!TakesRecord <=>
              /\ m_runlengthfile_index < Len(runlengths)
              /\ runlengths[m_runlengthfile_index + 1].index = Format(j + 1)
  BY <1>7 DEF Unpacker!TakesRecord, Unpacker!CurrentRecord
<1>13. ASSUME Unpacker!ParseIndex
       PROVE  InRun(j + 1, LastOf(j))' /\ left' = Unpacker!Runlength
  <2>1. /\ current' = Format(j + 1) /\ left' = Unpacker!Runlength
        /\ m_logfile_index' = m_logfile_index + 1 /\ printed' = printed
    BY <1>7, <1>13 DEF Unpacker!ParseIndex
  <2>2. /\ LastOf(j)' = LastOf(j) /\ LastOf(j + 1)' = LastOf(j + 1) /\ Gone' = Gone
        /\ LogFile' = LogFile /\ begins' = begins /\ Format(j + 1)' = Format(j + 1)
        /\ \A m : Unread(m)' = Unread(m) /\ UnreadValues(m)' = UnreadValues(m)
        /\ \A m : LineOf(m)' = LineOf(m)
    BY Frozen
  <2>3. PICK n \in Nat : n = LastOf(j) /\ n >= Gone /\ n + 1 = b
    BY <1>1, <1>2, <1>4, <1>5
  <2>4. b <= LastOf(j + 1) /\ LastOf(j + 1) \in Nat
    BY <1>1, <1>3, <1>4, RunBounds
  <2>5. n < LastOf(j + 1) /\ n \in Gone .. LastOf(j + 1)
    BY <1>1, <2>3, <2>4
  <2>6. RightUpTo(n)'
    BY <1>2, <2>1, <2>2, <2>3 DEF RightUpTo
  <2>7. Ahead(LogFile', m_logfile_index', UnreadValues(n + 1)')
    BY <1>5, <2>1, <2>2, <2>3
  <2>8. InRun(j + 1, n)'
    BY <1>3, <1>4, <2>1, <2>2, <2>3, <2>5, <2>6, <2>7 DEF InRun
  <2> QED BY <2>1, <2>2, <2>3, <2>8
<1> QED BY <1>10, <1>11, <1>12, <1>13

-----------------------------------------------------------------------------

\* The lines of a parser that prints one more.
LEMMA PrintedLine ==
  ASSUME ParserTyped', printed \in Seq(Lines), Unpacker!PrintLine
  PROVE  /\ Len(printed) \in Nat /\ Len(printed') = Len(printed) + 1
         /\ \A k \in 1 .. Len(printed) : printed'[k] = printed[k]
         /\ printed'[Len(printed) + 1].index = current
<1>1. PICK k : printed' = Append(printed, [index |-> current, call |-> k])
  BY DEF Unpacker!PrintLine, Unpacker!Line
<1> DEFINE line == [index |-> current, call |-> k]
<1>2. Len(printed) \in Nat
  BY LenProperties
<1>3. line.index = current
  OBVIOUS
<1>4. printed' = Append(printed, line)
  BY <1>1
<1> HIDE DEF line
<1>5. printed \in Seq(Lines \cup {line}) /\ line \in Lines \cup {line}
  <2>1. Lines \subseteq Lines \cup {line}
    OBVIOUS
  <2> QED BY <2>1, SeqMonotonic
<1>6. /\ Len(printed') = Len(printed) + 1
      /\ printed'[Len(printed) + 1] = line
      /\ \A i \in 1 .. Len(printed) : printed'[i] = printed[i]
  BY <1>4, <1>5, AppendProperties
<1> QED BY <1>2, <1>3, <1>6

\* A wrong line is not taken back.
LEMMA WrongStays ==
  ASSUME ParserTyped, ParserTyped', UNCHANGED <<vars, files>>, Wrong, Unpacker!ParserNext
  PROVE  Wrong'
<1>1. PICK k \in 1 .. Len(printed) : Gone + k > Len(calls) \/ printed[k] # LineOf(Gone + k)
  BY DEF Wrong
<1>2. Gone' = Gone /\ calls' = calls /\ LineOf(Gone + k)' = LineOf(Gone' + k)
  BY Frozen DEF LineOf
<1>3. k \in 1 .. Len(printed') /\ printed'[k] = printed[k]
  <2>1. CASE Unpacker!PrintLine
    <3>1. /\ Len(printed) \in Nat /\ Len(printed') = Len(printed) + 1
          /\ printed'[k] = printed[k]
      BY <2>1, PrintedLine DEF ParserTyped
    <3> QED BY <3>1
  <2>2. CASE ~ Unpacker!PrintLine
    <3>1. printed' = printed
      BY <2>2 DEF Unpacker!ParserNext, Unpacker!Open, Unpacker!ParseIndex,
           Unpacker!Derail, Unpacker!Finish
    <3> QED BY <3>1
  <2> QED BY <2>1, <2>2
<1>4. LineOf(Gone + k)' = LineOf(Gone + k)
  BY <1>2 DEF LineOf
<1> QED BY <1>1, <1>2, <1>3, <1>4 DEF Wrong

\* A line under another format than the call's is wrong.
LEMMA AstrayPrints ==
  ASSUME Saveable, ParserTyped, ParserTyped', UNCHANGED <<vars, files>>,
         Astray, Unpacker!PrintLine
  PROVE  Wrong'
<1>1. /\ Len(printed) \in Nat /\ Len(printed') = Len(printed) + 1
      /\ printed'[Len(printed) + 1].index = current
  BY PrintedLine DEF ParserTyped
<1>a. PICK k \in Nat : k = Len(printed) + 1
  BY <1>1
<1>2. PICK m \in Nat : m = Gone + k /\ m = Gone + Len(printed) + 1
  <2>1. Gone \in Nat
    BY SavedLog
  <2> QED BY <1>1, <1>a, <2>1
<1>3. Gone' + k = m /\ calls' = calls /\ LineOf(m)' = LineOf(m)
  BY <1>2, Frozen
<1>4. m > Len(calls) \/ calls[m] # current
  BY <1>2 DEF Astray
<1>5. LineOf(m).index = calls[m]
  BY DEF LineOf
<1>6. m > Len(calls) \/ printed'[k] # LineOf(m)
  BY <1>1, <1>a, <1>4, <1>5
<1>7. k \in 1 .. Len(printed')
  BY <1>1, <1>a
<1> QED BY <1>3, <1>6, <1>7 DEF Wrong

\* The lines of a parser that has printed a wrong one are not those to be.
LEMMA WrongLines ==
  ASSUME Saveable, Wrong
  PROVE  printed # KeptLines
<1> SUFFICES ASSUME printed = KeptLines PROVE FALSE
  OBVIOUS
<1>1. PICK k \in 1 .. Len(printed) : Gone + k > Len(calls) \/ printed[k] # LineOf(Gone + k)
  BY DEF Wrong
<1>2. /\ Len(KeptLines) = Len(calls) - Gone
      /\ \A m \in 1 .. Len(calls) - Gone : KeptLines[m] = LineOf(Gone + m)
  BY KeptLinesFacts
<1>3. Gone \in Nat /\ Len(calls) \in Nat
  BY SavedLog, RunFacts DEF Saveable, ProgramInv
<1>4. k \in 1 .. Len(calls) - Gone
  BY <1>1, <1>2
<1>5. Gone + k <= Len(calls)
  BY <1>3, <1>4
<1> QED BY <1>1, <1>2, <1>3, <1>4, <1>5

\* A parser that has taken a wrong length never gets the lines right.
LEMMA StrayedStep ==
  ASSUME Saveable, ParserTyped, ParserTyped', UNCHANGED <<vars, files>>,
         parser = "parsing", 0 \notin NoArgs,
         NEW o \in 1 .. Len(begins), NEW j, NEW n, Strayed(o, j, n),
         Unpacker!ParserNext
  PROVE  \/ parser' = "derailed"
         \/ parser' = "done" /\ printed' # KeptLines'
         \/ parser' = "parsing" /\ Lost(o)'
<1>1. /\ IInv /\ RunsAreFound /\ Len(begins) \in Nat /\ Len(calls) \in Nat
      /\ Gone \in 0 .. Len(calls) - 1 /\ left \in Nat /\ m_logfile_index \in Nat
      /\ Len(LogFile) \in Nat
  BY SavedLog, RunFacts, LenProperties DEF Saveable, ProgramInv, ParserTyped
<1>2. /\ j \in o .. Len(begins) /\ InRun(j, n) /\ left # LastOf(j) - n
  BY DEF Strayed
<1>3. /\ j \in 1 .. Len(begins) /\ j \in 0 .. Len(begins)
  BY <1>1, <1>2
<1>4. /\ \A m \in begins[j] .. LastOf(j) : m \in 1 .. Len(calls) /\ calls[m] = Format(j)
      /\ begins[j] \in Nat \ {0} /\ LastOf(j) \in Nat
      /\ j < Len(begins) => LastOf(j) + 1 = begins[j + 1] /\ LastOf(j) < Len(calls)
      /\ j = Len(begins) => LastOf(j) = Len(calls)
  BY <1>1, <1>3, RunBounds
<1>5. /\ n \in Gone .. LastOf(j) /\ n \in Nat
      /\ n < LastOf(j) => begins[j] <= n + 1
      /\ Len(printed) = n - Gone
      /\ left > 0 => current = Format(j)
      /\ n < LastOf(j) => Ahead(LogFile, m_logfile_index, UnreadValues(n + 1))
      /\ ~ (n < LastOf(j)) => Ahead(LogFile, m_logfile_index, Unread(n + 1))
  BY <1>1, <1>2, <1>4 DEF InRun, RightUpTo
<1>6. Gone + Len(printed) + 1 = n + 1
  BY <1>1, <1>5
<1>7. Format(j) \in NoArgs /\ j < Len(begins) => Format(j + 1) # Format(j)
  BY <1>1, <1>3, FormatsDiffer
<1>8. calls' = calls /\ Gone' = Gone /\ KeptLines' = KeptLines /\ LastOf(j)' = LastOf(j)
      /\ begins' = begins
  BY Frozen
<1>9. ASSUME left > 0, Unpacker!PrintLine
      PROVE  parser' = "parsing" /\ Lost(o)'
  <2>1. parser' = "parsing"
    BY <1>9 DEF Unpacker!PrintLine
  <2>2. CASE n < LastOf(j)
    <3>1. InRun(j, n + 1)' /\ left' = left - 1
      BY <1>2, <1>9, <2>2, LineInRun
    <3>2. left' # LastOf(j)' - (n + 1)
      <4>1. PICK l \in Nat, e \in Nat : l = left /\ e = LastOf(j)
        BY <1>1, <1>4
      <4>2. l # e - n /\ n \in Nat
        BY <1>2, <1>5, <4>1
      <4>3. l - 1 # e - (n + 1)
        BY <4>2
      <4> QED BY <1>8, <3>1, <4>1, <4>3
    <3>3. j \in o .. Len(begins')
      BY <1>2, <1>8
    <3>4. Strayed(o, j, n + 1)'
      BY <3>1, <3>2, <3>3 DEF Strayed
    <3> QED BY <2>1, <3>4 DEF Lost
  <2>3. CASE ~ (n < LastOf(j))
    <3>1. n = LastOf(j) /\ Ahead(LogFile, m_logfile_index, Unread(LastOf(j) + 1))
      BY <1>4, <1>5, <2>3
    <3>2. /\ j = Len(begins) => m_logfile_index = Len(LogFile)
          /\ j < Len(begins) => LogFile[m_logfile_index + 1] = Token("index", begins[j + 1])
      BY <1>3, <3>1, BehindRun
    <3>3. j = Len(begins) \/ j < Len(begins)
      BY <1>1, <1>3
    <3>4. ~ Unpacker!OnValues
      <4>1. j = Len(begins) => ~ (m_logfile_index < Len(LogFile))
        BY <1>1, <3>2
      <4>2. Token("index", begins[j + 1]).kind # "args"
        BY DEF Token
      <4> QED BY <3>2, <3>3, <4>1, <4>2 DEF Unpacker!OnValues, Unpacker!CurrentToken
    <3>5. Format(j) \in NoArgs /\ current = Format(j)
      BY <1>5, <1>9, <3>4 DEF Unpacker!PrintLine
    <3>6. j < Len(begins) => calls[n + 1] = Format(j + 1)
      BY <1>4, <3>1 DEF Format
    <3>7. n + 1 > Len(calls) \/ calls[n + 1] # current
      BY <1>1, <1>4, <1>7, <3>1, <3>3, <3>5, <3>6
    <3>8. Astray
      BY <1>6, <1>9, <3>7 DEF Astray
    <3>9. Wrong'
      BY <1>9, <3>8, AstrayPrints
    <3> QED BY <2>1, <3>9 DEF Lost
  <2> QED BY <2>2, <2>3
<1>10. ASSUME left = 0, Unpacker!ParseIndex \/ Unpacker!Finish
       PROVE  \/ parser' = "done" /\ printed' # KeptLines'
              \/ parser' = "parsing" /\ Lost(o)'
  <2>1. n < LastOf(j)
    BY <1>1, <1>2, <1>4, <1>5, <1>10
  <2>2. n + 1 \in begins[j] .. LastOf(j) /\ n + 1 \in 1 .. Len(calls) /\ calls[n + 1] = Format(j)
    <3>1. n + 1 \in begins[j] .. LastOf(j)
      BY <1>4, <1>5, <2>1
    <3> QED BY <1>4, <3>1
  <2>3. Format(j) \in NoArgs
    <3> SUFFICES ASSUME Format(j) \notin NoArgs PROVE FALSE
      OBVIOUS
    <3>1. /\ m_logfile_index < Len(LogFile)
          /\ LogFile[m_logfile_index + 1] = Token("args", n + 1)
      BY <1>5, <2>1, <2>2, InsideRun
    <3>2. Token("args", n + 1).kind # "index"
      BY DEF Token
    <3> QED BY <1>1, <1>10, <3>1, <3>2 DEF Unpacker!ParseIndex, Unpacker!Finish,
           Unpacker!OnIndex, Unpacker!CurrentToken
  <2>4. Ahead(LogFile, m_logfile_index, Unread(LastOf(j) + 1))
    <3>1. UnreadValues(n + 1) = Unread(LastOf(j) + 1)
      BY <1>3, <2>2, <2>3, NothingInRun
    <3> QED BY <1>5, <2>1, <3>1
  <2>5. /\ j = Len(begins) => m_logfile_index = Len(LogFile)
        /\ j < Len(begins) => /\ m_logfile_index < Len(LogFile)
                              /\ LogFile[m_logfile_index + 1] = Token("index", begins[j + 1])
    BY <1>3, <2>4, BehindRun
  <2>6. j = Len(begins) \/ j < Len(begins)
    BY <1>1, <1>3
  <2>7. CASE Unpacker!ParseIndex
    <3>1. j < Len(begins)
      BY <1>1, <2>5, <2>6, <2>7 DEF Unpacker!ParseIndex
    <3>2. /\ current' = LogFile[m_logfile_index + 1].index
          /\ left' = Unpacker!Runlength /\ Unpacker!Runlength > 0
          /\ printed' = printed /\ parser' = parser
      BY <2>7 DEF Unpacker!ParseIndex, Unpacker!CurrentToken, Unpacker!OnIndex
    <3>3. Token("index", begins[j + 1]).index = Format(j + 1)
      BY DEF Token, Format
    <3>4. current' = Format(j + 1)
      BY <2>5, <3>1, <3>2, <3>3
    <3>5. calls'[Gone' + Len(printed') + 1] # current'
      BY <1>6, <1>7, <1>8, <2>2, <2>3, <3>1, <3>2, <3>4
    <3>6. left' > 0
      BY <3>2
    <3>7. Astray'
      BY <3>5, <3>6 DEF Astray
    <3> QED BY <3>2, <3>7 DEF Lost
  <2>8. CASE Unpacker!Finish
    <3>1. j = Len(begins)
      BY <1>1, <2>5, <2>6, <2>8 DEF Unpacker!Finish
    <3>2. Len(printed) < Len(calls) - Gone
      BY <1>1, <1>4, <1>5, <2>1, <3>1
    <3>3. Len(KeptLines) = Len(calls) - Gone
      BY KeptLinesFacts
    <3>4. printed # KeptLines
      BY <1>1, <1>5, <3>2, <3>3
    <3>5. printed' = printed /\ parser' = "done"
      BY <2>8 DEF Unpacker!Finish
    <3> QED BY <1>8, <3>4, <3>5
  <2> QED BY <1>10, <2>7, <2>8
<1>11. CASE Unpacker!Derail
  BY <1>11 DEF Unpacker!Derail
<1>12. ~ Unpacker!Open
  BY DEF Unpacker!Open
<1>13. /\ Unpacker!PrintLine => left > 0
       /\ Unpacker!ParseIndex \/ Unpacker!Finish => left = 0
  BY DEF Unpacker!PrintLine, Unpacker!ParseIndex, Unpacker!Finish
<1> QED BY <1>9, <1>10, <1>11, <1>12, <1>13 DEF Unpacker!ParserNext

\* Nor does one that has begun to print under the wrong format.
LEMMA LostStep ==
  ASSUME Saveable, ParserTyped, ParserTyped', UNCHANGED <<vars, files>>,
         parser = "parsing", 0 \notin NoArgs,
         NEW o \in 1 .. Len(begins), Lost(o), Unpacker!ParserNext
  PROVE  \/ parser' = "derailed"
         \/ parser' = "done" /\ printed' # KeptLines'
         \/ parser' = "parsing" /\ Lost(o)'
<1>1. CASE \E j, n : Strayed(o, j, n)
  BY <1>1, StrayedStep
<1>2. ~ Unpacker!Open
  BY DEF Unpacker!Open
<1>3. Unpacker!Derail => parser' = "derailed"
  BY DEF Unpacker!Derail
<1>4. CASE Astray
  <2>1. left > 0
    BY <1>4 DEF Astray
  <2>2. ~ Unpacker!ParseIndex /\ ~ Unpacker!Finish
    BY <2>1 DEF Unpacker!ParseIndex, Unpacker!Finish
  <2>3. Unpacker!PrintLine => Wrong' /\ parser' = "parsing"
    <3>1. Unpacker!PrintLine => parser' = "parsing"
      BY DEF Unpacker!PrintLine
    <3> QED BY <1>4, <3>1, AstrayPrints
  <2> QED BY <1>2, <1>3, <2>2, <2>3 DEF Unpacker!ParserNext, Lost
<1>5. CASE Wrong
  <2>1. Wrong'
    BY <1>5, WrongStays
  <2>2. Unpacker!ParseIndex \/ Unpacker!PrintLine => parser' = "parsing"
    BY DEF Unpacker!PrintLine, Unpacker!ParseIndex
  <2>3. Unpacker!Finish => parser' = "done" /\ printed' # KeptLines'
    <3>1. printed # KeptLines
      BY <1>5, WrongLines
    <3>2. KeptLines' = KeptLines
      BY Frozen
    <3> QED BY <3>1, <3>2 DEF Unpacker!Finish
  <2> QED BY <1>2, <1>3, <2>1, <2>2, <2>3 DEF Unpacker!ParserNext, Lost
<1> QED BY <1>1, <1>4, <1>5 DEF Lost

-----------------------------------------------------------------------------

\* The records on disk are those that are due, and the unpacker takes them as
\* the kept runs do.
LEMMA RunlengthIsTold ==
  ASSUME Saveable, ~ Repeated, NEW o, NEW f, OldestIs(o), TakenIs(o, f),
         NEW j \in o - 1 .. Len(begins), j < Len(begins),
         m_runlengthfile_index = f[j],
         Unpacker!TakesRecord <=>
           /\ m_runlengthfile_index < Len(runlengths)
           /\ runlengths[m_runlengthfile_index + 1].index = Format(j + 1)
  PROVE  /\ Unpacker!Runlength = Told(f, j + 1)
         /\ f[j + 1] = m_runlengthfile_index + IF Unpacker!TakesRecord THEN 1 ELSE 0
<1>1. due = runlengths
  BY DEF Saveable, ProgramInv, RecordsAreDue
<1>2. Len(begins) \in Nat /\ o \in Nat
  BY RunFacts DEF Saveable, ProgramInv, OldestIs
<1>a. PICK k \in Nat : k = j + 1 /\ k - 1 = j /\ k \in o - 1 .. Len(begins) /\ k # o - 1
  BY <1>2
<1>3. Unpacker!TakesRecord <=> Takes(k, f[j])
  BY <1>1, <1>a DEF Takes
<1>4. Unpacker!Runlength = Told(f, k)
  BY <1>1, <1>3, <1>a DEF Unpacker!Runlength, Unpacker!CurrentRecord, Told
<1>5. f[k] = f[j] + IF Takes(k, f[j]) THEN 1 ELSE 0
  BY <1>a DEF TakenIs
<1> QED BY <1>3, <1>4, <1>5, <1>a

\* A parser that has found the lengths of all runs so far goes on with the next.
LEMMA OnTrackStep ==
  ASSUME Saveable, ~ Repeated, ParserTyped, ParserTyped', UNCHANGED <<vars, files>>,
         parser = "parsing", NEW o, NEW f, OldestIs(o), TakenIs(o, f),
         NEW j, NEW n, OnTrack(o, f, j, n), Unpacker!ParserNext
  PROVE  \/ parser' = "parsing" /\ \E k, m : OnTrack(o, f, k, m)'
         \/ parser' = "parsing" /\ ~ Agree(o, f) /\ Lost(o)'
         \/ parser' = "done" /\ Agree(o, f) /\ printed' = KeptLines'
         \/ parser' = "derailed" /\ ~ Agree(o, f)
<1>1. /\ IInv /\ RunsAreFound /\ Len(begins) \in Nat /\ Len(calls) \in Nat
      /\ Gone \in 0 .. Len(calls) - 1 /\ left \in Nat /\ m_logfile_index \in Nat
      /\ Len(LogFile) \in Nat /\ o \in 1 .. Len(begins)
  BY SavedLog, RunFacts, LenProperties DEF Saveable, ProgramInv, ParserTyped, OldestIs
<1>2. /\ begins[o] = Gone + 1
      /\ j \in o - 1 .. Len(begins) /\ j \in 0 .. Len(begins)
      /\ \A q \in o .. j : Told(f, q) = LengthOf(q)
      /\ m_runlengthfile_index = f[j]
      /\ InRun(j, n)
      /\ left = LastOf(j) - n
  BY <1>1 DEF OnTrack
<1>3. LastOf(j) \in Nat
  <2>1. CASE j \in 1 .. Len(begins)
    BY <1>1, <2>1, RunBounds
  <2>2. CASE j = 0
    <3>1. begins[1] \in Nat \ {0} /\ 1 \in 1 .. Len(begins)
      BY <1>1, RunBounds
    <3>2. LastOf(0) = begins[1] - 1
      BY <3>1 DEF LastOf
    <3> QED BY <2>2, <3>1, <3>2
  <2> QED BY <1>1, <1>2, <2>1, <2>2
<1>4. n \in Gone .. LastOf(j) /\ n \in Nat /\ (left > 0 <=> n < LastOf(j))
      /\ (left = 0 <=> n = LastOf(j))
  <2>1. n \in Gone .. LastOf(j)
    BY <1>2 DEF InRun
  <2> QED BY <1>1, <1>2, <1>3, <2>1
<1>5. /\ begins' = begins /\ Gone' = Gone /\ LastOf(j)' = LastOf(j)
      /\ \A q : LengthOf(q)' = LengthOf(q)
      /\ \A q : Told(f, q)' = Told(f, q)
      /\ KeptLines' = KeptLines
  BY Frozen, FrozenLengths
<1>6. CASE left > 0
  <2>1. n < LastOf(j)
    BY <1>4, <1>6
  <2>2. ~ Unpacker!Open /\ ~ Unpacker!ParseIndex /\ ~ Unpacker!Finish
    BY <1>6 DEF Unpacker!Open, Unpacker!ParseIndex, Unpacker!Finish
  <2>3. ~ Unpacker!Derail
    <3> SUFFICES ASSUME Unpacker!Derail PROVE FALSE
      OBVIOUS
    <3>1. current \notin NoArgs /\ ~ Unpacker!OnValues
      BY <1>6 DEF Unpacker!Derail
    <3>2. /\ j \in 1 .. Len(begins) /\ begins[j] <= n + 1 /\ current = Format(j)
          /\ Ahead(LogFile, m_logfile_index, UnreadValues(n + 1))
      BY <1>2, <1>6, <2>1 DEF InRun
    <3>3. n + 1 \in begins[j] .. LastOf(j)
      <4>1. begins[j] \in Nat
        BY <1>1, <3>2, RunBounds
      <4> QED BY <1>3, <1>4, <2>1, <3>2, <4>1
    <3>4. n + 1 \in 1 .. Len(calls) /\ calls[n + 1] = Format(j)
      BY <1>1, <3>2, <3>3, RunBounds
    <3>5. /\ m_logfile_index < Len(LogFile)
          /\ LogFile[m_logfile_index + 1] = Token("args", n + 1)
      BY <1>4, <3>1, <3>2, <3>4, InsideRun
    <3>6. Token("args", n + 1).kind = "args" /\ Token("args", n + 1).index = current
      BY <3>2, <3>4 DEF Token
    <3> QED BY <3>1, <3>5, <3>6 DEF Unpacker!OnValues, Unpacker!CurrentToken
  <2>4. Unpacker!PrintLine
    BY <2>2, <2>3 DEF Unpacker!ParserNext
  <2>5. /\ InRun(j, n + 1)' /\ left' = left - 1
        /\ parser' = parser /\ m_runlengthfile_index' = m_runlengthfile_index
    BY <1>2, <1>6, <2>1, <2>4, LineInRun
  <2>6. left' = LastOf(j)' - (n + 1)
    BY <1>1, <1>2, <1>3, <1>4, <1>5, <2>5
  <2>7. OnTrack(o, f, j, n + 1)'
    BY <1>2, <1>5, <2>5, <2>6 DEF OnTrack
  <2> QED BY <2>5, <2>7
<1>7. CASE left = 0 /\ j < Len(begins)
  <2>1. InRun(j, LastOf(j))
    BY <1>2, <1>4, <1>7
  <2>2. /\ ~ Unpacker!Finish /\ ~ Unpacker!PrintLine /\ ~ Unpacker!Open
        /\ Unpacker!TakesRecord <=>
             /\ m_runlengthfile_index < Len(runlengths)
             /\ runlengths[m_runlengthfile_index + 1].index = Format(j + 1)
        /\ Unpacker!Derail => ~ (Unpacker!Runlength > 0)
        /\ Unpacker!ParseIndex => InRun(j + 1, LastOf(j))' /\ left' = Unpacker!Runlength
    BY <1>2, <1>7, <2>1, IndexOfRun
  <2>3. /\ Unpacker!Runlength = Told(f, j + 1)
        /\ f[j + 1] = m_runlengthfile_index + IF Unpacker!TakesRecord THEN 1 ELSE 0
    <3>1. Unpacker!TakesRecord <=>
             /\ m_runlengthfile_index < Len(runlengths)
             /\ runlengths[m_runlengthfile_index + 1].index = Format(j + 1)
      BY <2>2
    <3> QED BY <1>2, <1>7, <3>1, RunlengthIsTold
  <2>4. j + 1 \in 1 .. Len(begins) /\ j + 1 \in o .. Len(begins)
    BY <1>1, <1>2, <1>7
  <2>5. LengthOf(j + 1) = LastOf(j + 1) - LastOf(j) /\ LengthOf(j + 1) > 0
    <3>1. begins[j + 1] \in Nat \ {0} /\ LastOf(j + 1) \in Nat /\ begins[j + 1] <= LastOf(j + 1)
      BY <1>1, <2>4, RunBounds
    <3>2. LastOf(j) = begins[j + 1] - 1
      BY <1>7 DEF LastOf
    <3> QED BY <3>1, <3>2 DEF LengthOf
  <2>6. CASE Unpacker!Derail
    <3>1. Told(f, j + 1) # LengthOf(j + 1)
      BY <2>2, <2>3, <2>5, <2>6
    <3>2. ~ Agree(o, f)
      BY <2>4, <3>1 DEF Agree
    <3> QED BY <2>6, <3>2 DEF Unpacker!Derail
  <2>7. CASE Unpacker!ParseIndex
    <3>1. /\ InRun(j + 1, LastOf(j))' /\ left' = Told(f, j + 1)
          /\ m_runlengthfile_index' = f[j + 1] /\ parser' = "parsing"
      BY <2>2, <2>3, <2>7 DEF Unpacker!ParseIndex
    <3>a. PICK p \in Nat : p = LastOf(j)
      BY <1>3
    <3>2. InRun(j + 1, p)' /\ LastOf(j + 1)' = LastOf(j + 1)
      BY <1>5, <3>1, <3>a, Frozen
    <3>3. CASE Told(f, j + 1) = LengthOf(j + 1)
      <4>1. \A q \in o .. j + 1 : Told(f, q) = LengthOf(q)
        <5> TAKE q \in o .. j + 1
        <5>1. q \in o .. j \/ q = j + 1
          BY <1>1, <1>2
        <5> QED BY <1>2, <3>3, <5>1
      <4>2. j + 1 \in o - 1 .. Len(begins)
        BY <1>1, <2>4
      <4>3. left' = LastOf(j + 1)' - p
        BY <2>5, <3>1, <3>2, <3>3, <3>a
      <4>4. OnTrack(o, f, j + 1, p)'
        BY <1>2, <1>5, <3>1, <3>2, <4>1, <4>2, <4>3 DEF OnTrack
      <4> QED BY <3>1, <4>4
    <3>4. CASE Told(f, j + 1) # LengthOf(j + 1)
      <4>1. ~ Agree(o, f)
        BY <2>4, <3>4 DEF Agree
      <4>2. left' # LastOf(j + 1)' - p
        BY <2>5, <3>1, <3>2, <3>4, <3>a
      <4>3. Strayed(o, j + 1, p)'
        BY <1>5, <2>4, <3>2, <4>2 DEF Strayed
      <4> QED BY <3>1, <4>1, <4>3 DEF Lost
    <3> QED BY <3>3, <3>4
  <2> QED BY <2>2, <2>6, <2>7 DEF Unpacker!ParserNext
<1>8. CASE left = 0 /\ j = Len(begins)
  <2>1. n = LastOf(j) /\ LastOf(j) = Len(calls)
    BY <1>4, <1>8 DEF LastOf
  <2>2. RightUpTo(n) /\ Ahead(LogFile, m_logfile_index, Unread(LastOf(j) + 1))
    <3>1. ~ (n < LastOf(j))
      BY <1>1, <2>1
    <3> QED BY <1>2, <2>1, <3>1 DEF InRun
  <2>3. m_logfile_index = Len(LogFile)
    BY <1>2, <1>8, <2>2, BehindRun
  <2>4. ~ Unpacker!Open /\ ~ Unpacker!ParseIndex /\ ~ Unpacker!PrintLine /\ ~ Unpacker!Derail
    BY <1>1, <1>8, <2>3 DEF Unpacker!Open, Unpacker!ParseIndex, Unpacker!PrintLine, Unpacker!Derail
  <2>5. Unpacker!Finish
    BY <2>4 DEF Unpacker!ParserNext
  <2>6. parser' = "done" /\ printed' = printed
    BY <2>5 DEF Unpacker!Finish
  <2>7. Agree(o, f)
    BY <1>2, <1>8 DEF Agree
  <2>8. printed = KeptLines
    <3>1. /\ Len(printed) = Len(calls) - Gone
          /\ \A k \in 1 .. Len(calls) - Gone : printed[k] = LineOf(Gone + k)
      BY <2>1, <2>2 DEF RightUpTo
    <3>2. /\ KeptLines \in Seq(Lines) /\ Len(KeptLines) = Len(calls) - Gone
          /\ \A k \in 1 .. Len(calls) - Gone : KeptLines[k] = LineOf(Gone + k)
      BY KeptLinesFacts
    <3>3. printed \in Seq(Lines)
      BY DEF ParserTyped
    <3>4. \A k \in 1 .. Len(printed) : printed[k] = KeptLines[k]
      BY <3>1, <3>2
    <3> QED BY <3>1, <3>2, <3>3, <3>4, SeqEqual
  <2> QED BY <1>5, <2>6, <2>7, <2>8
<1> QED BY <1>1, <1>2, <1>6, <1>7, <1>8

\* It opens its files before the first run it finds an index of, or in the run
\* that has lost its own.
LEMMA OpenStep ==
  ASSUME Saveable, ParserTyped, ParserTyped', UNCHANGED <<vars, files>>,
         Unpacker!ParserInit, NEW o, NEW f, OldestIs(o), TakenIs(o, f),
         Unpacker!Open
  PROVE  \/ parser' = "parsing" /\ OnTrack(o, f, o - 1, Gone)'
         \/ parser' = "parsing" /\ ~ Agree(o, f) /\ Lost(o)'
         \/ parser' = "failed" /\ ~ Agree(o, f)
<1>1. /\ IInv /\ RunsAreFound /\ Len(begins) \in Nat /\ Len(calls) \in Nat
      /\ Gone \in 0 .. Len(calls) - 1 /\ Gone \in Nat /\ Registered
      /\ o \in 1 .. Len(begins) /\ begins[o] <= Gone + 1 /\ Gone + 1 <= LastOf(o)
      /\ LogFile = Unread(Gone + 1) /\ LogFile \in Seq(Byte)
  BY SavedLog, RunFacts DEF Saveable, ProgramInv, OldestIs
<1>2. Gone + 1 \in 1 .. Len(calls)
  BY <1>1
<1>3. IndexFile # <<>> /\ ~ Unpacker!TornIndexFile
  <2>1. sites \in Nat
    BY <1>1, RingAssumption DEF IInv, TypeOK
  <2>2. calls[Gone + 1] < sites /\ calls[Gone + 1] \in Nat
    <3>1. calls[Gone + 1] < sites
      BY <1>1, <1>2 DEF Registered
    <3>2. calls[Gone + 1] \in Index
      BY <1>1, <1>2, RunFacts
    <3> QED BY <3>1, <3>2, RingAssumption DEF Index
  <2>3. Len(IndexFile) = sites /\ sites \in 1 .. sites
    BY <2>1, <2>2 DEF IndexFile
  <2>4. IndexFile[Len(IndexFile)] = "whole"
    BY <2>3 DEF IndexFile
  <2>5. Len(IndexFile) # 0
    BY <2>1, <2>2, <2>3
  <2> QED BY <2>4, <2>5 DEF Unpacker!TornIndexFile
<1>4. /\ parser' = IF LogFile = <<>> THEN "failed" ELSE "parsing"
      /\ UNCHANGED <<Unpacker!positions, printed>>
  <2>1. parser' \in
          CASE IndexFile = <<>>                                 -> {"failed"}
            [] Unpacker!TornIndexFile /\ LogFile = <<>>         -> {"failed", "derailed"}
            [] Unpacker!TornIndexFile /\ LogFile # <<>>         -> {"parsing", "derailed"}
            [] ~ Unpacker!TornIndexFile /\ LogFile = <<>>       -> {"failed"}
            [] OTHER                                            -> {"parsing"}
    BY Zenon DEF Unpacker!Open
  <2>2. CASE LogFile = <<>>
    <3>1. parser' \in {"failed"}
      BY <1>3, <2>1, <2>2
    <3> QED BY <2>2, <3>1 DEF Unpacker!Open
  <2>3. CASE LogFile # <<>>
    <3>1. parser' \in {"parsing"}
      BY <1>3, <2>1, <2>3
    <3> QED BY <2>3, <3>1 DEF Unpacker!Open
  <2> QED BY <2>2, <2>3
<1>5. /\ m_logfile_index' = 0 /\ m_runlengthfile_index' = 0 /\ left' = 0 /\ printed' = <<>>
  BY <1>4 DEF Unpacker!ParserInit, Unpacker!positions
<1>6. /\ begins' = begins /\ Gone' = Gone /\ LogFile' = LogFile
      /\ \A q : LastOf(q)' = LastOf(q)
      /\ \A q : Unread(q)' = Unread(q)
      /\ \A q : UnreadValues(q)' = UnreadValues(q)
  BY Frozen
<1>7. Ahead(LogFile, 0, Unread(Gone + 1))
  BY <1>1, AheadAll
<1>8. CASE LogFile = <<>>
  <2>1. begins[o] # Gone + 1
    <3> SUFFICES ASSUME begins[o] = Gone + 1 PROVE FALSE
      OBVIOUS
    <3>1. Begun(Gone + 1)
      BY <1>1 DEF Begun
    <3>2. /\ LogFile = <<Token("index", Gone + 1)>> \o UnreadValues(Gone + 1)
          /\ Token("index", Gone + 1) \in Byte /\ UnreadValues(Gone + 1) \in Seq(Byte)
      BY <1>1, <1>2, <3>1, EntryTokens
    <3>3. PICK t \in Byte, u \in Seq(Byte) : LogFile = <<t>> \o u
      BY <3>2
    <3>4. Len(<<t>> \o u) = Len(<<t>>) + Len(u)
      BY <3>3, ConcatProperties
    <3>5. Len(<<t>>) = 1 /\ Len(u) \in Nat /\ Len(<<>>) = 0
      OBVIOUS
    <3>6. Len(LogFile) = 0
      BY <1>8
    <3> QED BY <3>3, <3>4, <3>5, <3>6
  <2> QED BY <1>4, <1>8, <2>1 DEF Agree
<1>a. PICK g \in Nat : g = Gone
  BY <1>1
<1>9. RightUpTo(g)'
  <2>1. g - Gone' = 0 /\ Len(printed') = 0
    BY <1>5, <1>6, <1>a
  <2> QED BY <2>1 DEF RightUpTo
<1>10. CASE LogFile # <<>> /\ begins[o] = Gone + 1
  <2>1. LastOf(o - 1) = g
    BY <1>1, <1>10, <1>a DEF LastOf
  <2>2. f[o - 1] = 0
    BY <1>1 DEF TakenIs
  <2>3. InRun(o - 1, g)'
    BY <1>5, <1>6, <1>7, <1>9, <1>a, <2>1 DEF InRun
  <2>4. OnTrack(o, f, o - 1, g)'
    <3>1. \A q \in o .. o - 1 : FALSE
      BY <1>1
    <3>2. o - 1 \in o - 1 .. Len(begins)
      BY <1>1
    <3> QED BY <1>5, <1>6, <1>10, <1>a, <2>1, <2>2, <2>3, <3>1, <3>2 DEF OnTrack
  <2>5. OnTrack(o, f, o - 1, Gone)'
    BY <1>6, <1>a, <2>4
  <2> QED BY <1>4, <1>10, <2>5
<1>11. CASE LogFile # <<>> /\ begins[o] # Gone + 1
  <2>1. begins[o] \in Nat /\ LastOf(o) \in Nat
    BY <1>1, RunBounds
  <2>2. g < LastOf(o) /\ g \in Gone .. LastOf(o) /\ g + 1 \in begins[o] + 1 .. LastOf(o)
    BY <1>1, <1>11, <1>a, <2>1
  <2>3. ~ Begun(g + 1)
    BY <1>1, <2>2, RunBounds
  <2>4. Unread(g + 1) = UnreadValues(g + 1)
    BY <1>2, <1>a, <2>3, EntryTokens
  <2>5. InRun(o, g)'
    BY <1>1, <1>5, <1>6, <1>7, <1>9, <1>a, <2>2, <2>4 DEF InRun
  <2>6. left' # LastOf(o)' - g
    BY <1>5, <1>6, <2>1, <2>2
  <2>7. Strayed(o, o, g)'
    BY <1>1, <1>6, <2>5, <2>6 DEF Strayed
  <2> QED BY <1>4, <1>11, <2>7 DEF Lost, Agree
<1> QED BY <1>8, <1>10, <1>11

-----------------------------------------------------------------------------

\* Every step of the unpacker.
LEMMA ParsedStep ==
  ASSUME Saveable, ~ Repeated, ParserTyped, ParserTyped', UNCHANGED <<vars, files>>,
         0 \notin NoArgs, NEW o, NEW f, OldestIs(o), TakenIs(o, f), Parsed(o, f),
         Unpacker!ParserNext
  PROVE  Parsed(o, f)'
<1>1. Agree(o, f)' <=> Agree(o, f)
  BY FrozenLengths
<1>2. CASE parser = "waiting"
  <2>1. Unpacker!ParserInit
    BY <1>2 DEF Parsed
  <2>2. Unpacker!Open
    BY <1>2 DEF Unpacker!ParserNext, Unpacker!ParseIndex, Unpacker!PrintLine,
         Unpacker!Derail, Unpacker!Finish, Unpacker!Parsing
  <2>3. \/ parser' = "parsing" /\ OnTrack(o, f, o - 1, Gone)'
        \/ parser' = "parsing" /\ ~ Agree(o, f) /\ Lost(o)'
        \/ parser' = "failed" /\ ~ Agree(o, f)
    BY <2>1, <2>2, OpenStep
  <2>4. OnTrack(o, f, o - 1, Gone)' => Follows(o, f)'
    BY DEF Follows
  <2> QED BY <1>1, <2>3, <2>4 DEF Parsed
<1>3. CASE parser = "parsing"
  <2>1. CASE Follows(o, f)
    <3>1. \/ parser' = "parsing" /\ \E k, m : OnTrack(o, f, k, m)'
          \/ parser' = "parsing" /\ ~ Agree(o, f) /\ Lost(o)'
          \/ parser' = "done" /\ Agree(o, f) /\ printed' = KeptLines'
          \/ parser' = "derailed" /\ ~ Agree(o, f)
      BY <1>3, <2>1, OnTrackStep DEF Follows
    <3>2. (\E k, m : OnTrack(o, f, k, m)') => Follows(o, f)'
      BY DEF Follows
    <3> QED BY <1>1, <3>1, <3>2 DEF Parsed
  <2>2. CASE ~ Agree(o, f) /\ Lost(o)
    <3>1. o \in 1 .. Len(begins)
      BY DEF OldestIs
    <3>2. \/ parser' = "derailed"
          \/ parser' = "done" /\ printed' # KeptLines'
          \/ parser' = "parsing" /\ Lost(o)'
      BY <1>3, <2>2, <3>1, LostStep
    <3> QED BY <1>1, <2>2, <3>2 DEF Parsed
  <2> QED BY <1>3, <2>1, <2>2 DEF Parsed
<1>4. CASE parser # "waiting" /\ parser # "parsing"
  BY <1>4 DEF Unpacker!ParserNext, Unpacker!Open, Unpacker!ParseIndex, Unpacker!PrintLine,
       Unpacker!Derail, Unpacker!Finish, Unpacker!Parsing
<1> QED BY <1>2, <1>3, <1>4

\* And every other.
LEMMA ParsedStays ==
  ASSUME UNCHANGED ringVars, NEW o, NEW f, Parsed(o, f)
  PROVE  Parsed(o, f)'
<1>1. UNCHANGED <<vars, files>>
  BY DEF ringVars
<1>2. /\ m_logfile_index' = m_logfile_index /\ m_runlengthfile_index' = m_runlengthfile_index
      /\ current' = current /\ left' = left /\ printed' = printed /\ parser' = parser
  BY DEF ringVars, parserVars
<1>3. /\ Gone' = Gone /\ LogFile' = LogFile /\ KeptLines' = KeptLines /\ calls' = calls
      /\ begins' = begins
      /\ \A j : LastOf(j)' = LastOf(j)
      /\ \A j : Format(j)' = Format(j)
      /\ \A j : LengthOf(j)' = LengthOf(j)
      /\ \A j : LineOf(j)' = LineOf(j)
      /\ \A j : Unread(j)' = Unread(j)
      /\ \A j : UnreadValues(j)' = UnreadValues(j)
  BY <1>1, Frozen
<1>4. /\ Agree(o, f)' <=> Agree(o, f)
      /\ \A q : Told(f, q)' = Told(f, q)
  BY <1>1, FrozenLengths
<1>5. \A n : RightUpTo(n)' <=> RightUpTo(n)
  BY <1>2, <1>3 DEF RightUpTo
<1>6. \A j, n : InRun(j, n)' <=> InRun(j, n)
  BY <1>2, <1>3, <1>5 DEF InRun
<1>7. Follows(o, f)' <=> Follows(o, f)
  <2>1. \A j, n : OnTrack(o, f, j, n)' <=> OnTrack(o, f, j, n)
    BY <1>2, <1>3, <1>4, <1>6 DEF OnTrack
  <2> QED BY <2>1 DEF Follows
<1>8. \A j, n : Strayed(o, j, n)' <=> Strayed(o, j, n)
  BY <1>2, <1>3, <1>6 DEF Strayed
<1>9. (Astray' <=> Astray) /\ (Wrong' <=> Wrong)
  BY <1>2, <1>3 DEF Astray, Wrong
<1>10. Lost(o)' <=> Lost(o)
  BY <1>8, <1>9 DEF Lost
<1>11. Unpacker!ParserInit' <=> Unpacker!ParserInit
  BY <1>2 DEF Unpacker!ParserInit
<1> QED BY <1>2, <1>3, <1>4, <1>7, <1>10, <1>11 DEF Parsed

-----------------------------------------------------------------------------

\* The unpacker has not begun, or it is where the lengths have led it.
Deflating ==
  /\ ParserTyped
  /\ ~ saved => Unpacker!ParserInit
  /\ saved /\ 0 \notin NoArgs =>
       \E o, f : OldestIs(o) /\ TakenIs(o, f) /\ Parsed(o, f)

\* The parsers are not constructed yet.
LEMMA InitDeflates ==
  RingInit => Deflating
<1> SUFFICES ASSUME RingInit PROVE Deflating
  OBVIOUS
<1>1. Unpacker!ParserInit /\ saved = FALSE
  BY DEF RingInit
<1>2. 0 \in Index
  BY RingAssumption DEF Index
<1>3. ParserTyped
  BY <1>1, <1>2 DEF Unpacker!ParserInit, ParserTyped
<1> QED BY <1>1, <1>3 DEF Deflating

\* Every step of the program and of the unpacker.
LEMMA StepDeflates ==
  ASSUME ProgramInv, Deflating, ProgramInv', [RingNext]_ringVars
  PROVE  Deflating'
<1>1. ParserTyped /\ (~ saved => Unpacker!ParserInit)
  BY DEF Deflating
<1>2. CASE Logging
  <2>1. ~ saved /\ saved' = saved /\ UNCHANGED parserVars
    BY <1>2 DEF Logging
  <2>2. ParserTyped' /\ Unpacker!ParserInit'
    BY <1>1, <2>1 DEF ParserTyped, Unpacker!ParserInit, parserVars
  <2> QED BY <2>1, <2>2 DEF Deflating
<1>3. CASE Save
  <2>1. /\ ~ saved /\ saved' = TRUE /\ UNCHANGED parserVars
        /\ state = "idle" /\ calls # <<>>
        /\ UNCHANGED <<vars, runlengths, begins, due>>
    BY <1>3 DEF Save
  <2>2. ParserTyped' /\ Unpacker!ParserInit'
    BY <1>1, <2>1 DEF ParserTyped, Unpacker!ParserInit, parserVars
  <2>3. Saveable'
    <3>1. state' = state /\ calls' = calls
      BY <2>1 DEF vars, history
    <3> QED BY <2>1, <3>1 DEF Saveable
  <2>4. OldestIs(Oldest)' /\ TakenIs(Oldest, RecordsTaken)'
    BY <2>3, OldestExists, RecordsTakenIs, PTL
  <2>5. parser' = "waiting"
    BY <2>2 DEF Unpacker!ParserInit
  <2>6. Parsed(Oldest, RecordsTaken)'
    BY <2>2, <2>5 DEF Parsed
  <2>7. \E o, f : OldestIs(o)' /\ TakenIs(o, f)' /\ Parsed(o, f)'
    BY <2>4, <2>6
  <2> QED BY <2>1, <2>2, <2>7 DEF Deflating
<1>4. CASE Unpacking
  <2>1. saved /\ Unpacker!ParserNext /\ UNCHANGED <<vars, files>>
    BY <1>4 DEF Unpacking
  <2>2. saved' = saved
    BY <2>1 DEF files
  <2>3. Saveable /\ ~ Repeated
    BY <2>1 DEF Saveable, ProgramInv
  <2>4. ParserTyped'
    BY <1>1, <2>1, <2>3, ParserKeepsTypes
  <2>5. ASSUME 0 \notin NoArgs
        PROVE  \E o, f : OldestIs(o)' /\ TakenIs(o, f)' /\ Parsed(o, f)'
    <3>1. PICK o, f : OldestIs(o) /\ TakenIs(o, f) /\ Parsed(o, f)
      BY <2>1, <2>5 DEF Deflating
    <3>2. Parsed(o, f)'
      BY <1>1, <2>1, <2>3, <2>4, <2>5, <3>1, ParsedStep
    <3>3. OldestIs(o)' /\ TakenIs(o, f)'
      BY <2>1, <3>1, FrozenLengths
    <3> QED BY <3>2, <3>3
  <2> QED BY <2>1, <2>2, <2>4, <2>5 DEF Deflating
<1>5. CASE Ended \/ UNCHANGED ringVars
  <2>1. UNCHANGED ringVars
    BY <1>5 DEF Ended
  <2>2. UNCHANGED <<vars, files>> /\ saved' = saved /\ UNCHANGED parserVars
    BY <2>1 DEF ringVars, files
  <2>3. ParserTyped' /\ (~ saved' => Unpacker!ParserInit')
    BY <1>1, <2>2 DEF ParserTyped, Unpacker!ParserInit, parserVars
  <2>4. ASSUME saved, 0 \notin NoArgs
        PROVE  \E o, f : OldestIs(o)' /\ TakenIs(o, f)' /\ Parsed(o, f)'
    <3>1. PICK o, f : OldestIs(o) /\ TakenIs(o, f) /\ Parsed(o, f)
      BY <2>4 DEF Deflating
    <3>2. OldestIs(o)' /\ TakenIs(o, f)'
      BY <2>2, <3>1, FrozenLengths
    <3>3. Parsed(o, f)'
      BY <2>1, <3>1, ParsedStays
    <3> QED BY <3>2, <3>3
  <2> QED BY <2>2, <2>3, <2>4 DEF Deflating
<1> QED BY <1>2, <1>3, <1>4, <1>5 DEF RingNext

\* What is printed of a saved ring is right exactly when its oldest call has
\* its index and every run finds its length.
LEMMA DeflatesExactly ==
  ASSUME ProgramInv, Deflating
  PROVE  RingDeflatesExactlyWhenLengthsAgree
<1> SUFFICES ASSUME Finished, 0 \notin NoArgs
             PROVE  parser = "done" /\ printed = KeptLines <=> StartsWithRun /\ LengthsAgree
  BY DEF RingDeflatesExactlyWhenLengthsAgree
<1>1. saved
  BY DEF Deflating, Finished, Unpacker!ParserInit
<1>2. Saveable
  BY <1>1 DEF Saveable, ProgramInv
<1>3. PICK o, f : OldestIs(o) /\ TakenIs(o, f) /\ Parsed(o, f)
  BY <1>1 DEF Deflating
<1>4. Agree(o, f) <=> StartsWithRun /\ LengthsAgree
  BY <1>2, <1>3, AgreeMeans
<1> QED BY <1>3, <1>4 DEF Parsed, Finished

\* So what the unpacker prints of a saved ring is the calls it still has exactly
\* when the oldest of them has its index and every run finds its length.
THEOREM RingDeflatesExact ==
  RingSpec => []RingDeflatesExactlyWhenLengthsAgree
<1>1. RingInit => Deflating
  BY InitDeflates
<1>2. ProgramInv /\ Deflating /\ ProgramInv' /\ [RingNext]_ringVars => Deflating'
  BY StepDeflates
<1>3. ProgramInv /\ Deflating => RingDeflatesExactlyWhenLengthsAgree
  BY DeflatesExactly
<1> QED BY <1>1, <1>2, <1>3, ProgramInvariant, PTL DEF RingSpec
=============================================================================
