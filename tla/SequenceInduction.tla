-------------------------- MODULE SequenceInduction --------------------------
(***************************************************************************)
(* Induction, and what it says of FlattenSeq, by which the modules write   *)
(* what is left of a stream, and an output made of many pieces; and what   *)
(* is ahead of a parser in a file.                                         *)
(*                                                                         *)
(* The induction rules of the library take the property as an operator;    *)
(* here it is the set of the numbers that have it.                         *)
(***************************************************************************)
EXTENDS Integers, Sequences, SequencesExt, SequenceTheorems,
        WellFoundedInduction, TLAPS

\* A set of naturals with 0 and every successor has all of them.
LEMMA NatSetInduction ==
  ASSUME NEW S, 0 \in S, \A n \in Nat : n \in S => n + 1 \in S
  PROVE  Nat \subseteq S
<1> DEFINE T == Nat \ S
           R == OpToRel(<, Nat)
<1> SUFFICES ASSUME T # {} PROVE FALSE
  OBVIOUS
<1>1. PICK x \in T : \A y \in T : ~ (<<y, x>> \in R)
  BY NatLessThanWellFounded, WFMin
<1>2. x \in Nat /\ x # 0
  OBVIOUS
<1>3. x - 1 \in Nat /\ x - 1 < x /\ (x - 1) + 1 = x
  BY <1>2
<1>4. x - 1 \in T
  BY <1>3
<1>5. <<x - 1, x>> \in R
  BY <1>2, <1>3 DEF OpToRel
<1> QED BY <1>1, <1>4, <1>5

\* A set of sequences with the empty one and every extension by one element
\* has all of them.
LEMMA SeqSetInduction ==
  ASSUME NEW E, NEW S, <<>> \in S,
         \A s \in Seq(E) : s \in S => \A e \in E : Append(s, e) \in S
  PROVE  Seq(E) \subseteq S
<1> DEFINE N == {n \in Nat : \A s \in Seq(E) : Len(s) = n => s \in S}
<1>1. 0 \in N
  BY EmptySeq
<1>2. ASSUME NEW n \in Nat, n \in N PROVE n + 1 \in N
  <2>1. SUFFICES ASSUME NEW s \in Seq(E), Len(s) = n + 1 PROVE s \in S
    OBVIOUS
  <2>2. s # <<>>
    BY <2>1, EmptySeq
  <2>3. PICK front \in Seq(E), e \in E : s = Append(front, e)
    BY <2>2, SequenceEmptyOrAppend
  <2>4. Len(front) = n
    BY <2>1, <2>3, AppendProperties, LenProperties
  <2>5. front \in S
    BY <1>2, <2>4
  <2> QED BY <2>3, <2>5
<1> HIDE DEF N
<1>3. Nat \subseteq N
  BY <1>1, <1>2, NatSetInduction
<1> QED BY <1>3, LenProperties DEF N

\* Appending to a concatenation is appending to its second part.
LEMMA AppendToConcat ==
  ASSUME NEW S, NEW s \in Seq(S), NEW t \in Seq(S), NEW e \in S
  PROVE  s \o Append(t, e) = Append(s \o t, e)
<1> DEFINE one == <<e>>
<1>1. s \o t \in Seq(S) /\ one \in Seq(S)
  BY ConcatProperties
<1>2. Append(s \o t, e) = (s \o t) \o one /\ Append(t, e) = t \o one
  BY <1>1, AppendIsConcat, Zenon
<1> HIDE DEF one
<1>3. (s \o t) \o one = s \o (t \o one)
  BY <1>1, ConcatAssociative
<1> QED BY <1>2, <1>3, Zenon

-----------------------------------------------------------------------------

\* What the recursive function inside FlattenSeq is asked to be.
Flattens(f, seqs, n) ==
  f = [i \in 1 .. n |-> IF i = 1 THEN seqs[i] ELSE f[i-1] \o seqs[i]]

LEMMA FlattensAt ==
  ASSUME NEW f, NEW seqs, NEW n, Flattens(f, seqs, n), NEW i \in 1 .. n
  PROVE  f[i] = IF i = 1 THEN seqs[i] ELSE f[i-1] \o seqs[i]
BY Zenon DEF Flattens

\* Such a function exists: each of its values is made from the one before.
LEMMA FlattenExists ==
  ASSUME NEW seqs
  PROVE  \A n \in Nat : \E f : Flattens(f, seqs, n)
<1> DEFINE S == {n \in Nat : \E f : Flattens(f, seqs, n)}
<1>1. 0 \in S
  <2> DEFINE e == [i \in 1 .. 0 |-> 0]
  <2>1. Flattens(e, seqs, 0)
    BY DEF Flattens
  <2> HIDE DEF e
  <2> QED BY <2>1
<1>2. ASSUME NEW n \in Nat, n \in S PROVE n + 1 \in S
  <2>1. PICK f : Flattens(f, seqs, n)
    BY <1>2
  <2> DEFINE D(h, i) == IF i = 1 THEN seqs[i] ELSE h[i-1] \o seqs[i]
             g == [i \in 1 .. n + 1 |-> IF i = n + 1 THEN D(f, i) ELSE f[i]]
  <2>2. ASSUME NEW i \in 1 .. n + 1 PROVE g[i] = D(g, i)
    <3>1. CASE i = n + 1
      <4>1. g[i] = D(f, i)
        BY <3>1
      <4>2. i # 1 => g[i - 1] = f[i - 1]
        BY <3>1
      <4> QED BY <4>1, <4>2
    <3>2. CASE i # n + 1
      <4>0. i \in 1 .. n
        BY <3>2
      <4>1. g[i] = f[i]
        BY <3>2
      <4>2. f[i] = D(f, i)
        BY <4>0, <2>1, FlattensAt
      <4>3. i # 1 => i - 1 \in 1 .. n /\ i - 1 # n + 1 /\ i - 1 \in 1 .. n + 1
        BY <4>0
      <4>4. i # 1 => g[i - 1] = f[i - 1]
        BY <4>3
      <4> QED BY <4>1, <4>2, <4>4
    <3> QED BY <3>1, <3>2
  <2>3. g = [i \in 1 .. n + 1 |-> D(g, i)]
    <3> HIDE DEF D
    <3> SUFFICES g = [i \in 1 .. n + 1 |-> g[i]]
      BY <2>2, Zenon
    <3> QED OBVIOUS
  <2>4. Flattens(g, seqs, n + 1)
    BY <2>3 DEF Flattens
  <2> HIDE DEF g
  <2> QED BY <2>4
<1> HIDE DEF S
<1>3. Nat \subseteq S
  BY <1>1, <1>2, NatSetInduction
<1> QED BY <1>3 DEF S

\* FlattenSeq is the last value of such a function.
LEMMA FlattenUnfold ==
  ASSUME NEW seqs, Len(seqs) \in Nat \ {0}
  PROVE  \E f : Flattens(f, seqs, Len(seqs)) /\ FlattenSeq(seqs) = f[Len(seqs)]
<1> DEFINE P(f) == Flattens(f, seqs, Len(seqs))
<1>1. \E f : P(f)
  BY FlattenExists
<1>2. P(CHOOSE f : P(f))
  <2> HIDE DEF P
  <2> QED BY <1>1, Zenon
<1>3. FlattenSeq(seqs) = (CHOOSE f : P(f))[Len(seqs)]
  BY DEF FlattenSeq, Flattens
<1> QED BY <1>2, <1>3

\* No sequences make no sequence.
LEMMA FlattenNothing == FlattenSeq(<<>>) = <<>>
BY DEF FlattenSeq

\* One more sequence at the end adds its elements at the end.
LEMMA FlattenAppend ==
  ASSUME NEW S, NEW seqs \in Seq(Seq(S)), NEW s \in Seq(S)
  PROVE  FlattenSeq(Append(seqs, s)) = FlattenSeq(seqs) \o s
<1> DEFINE m == Len(seqs)
           longer == Append(seqs, s)
<1>1. /\ m \in Nat /\ Len(longer) = m + 1 /\ longer[m + 1] = s
      /\ \A i \in 1 .. m : longer[i] = seqs[i]
  BY AppendProperties, LenProperties
<1>2. PICK g : Flattens(g, longer, m + 1) /\ FlattenSeq(longer) = g[m + 1]
  <2> HIDE DEF longer
  <2> QED BY <1>1, FlattenUnfold
<1>3. CASE m = 0
  <2>1. seqs = <<>>
    BY <1>3, EmptySeq
  <2>2. g[1] = s
    <3>1. 1 \in 1 .. m + 1
      BY <1>3
    <3> QED BY <1>1, <1>2, <1>3, <3>1, FlattensAt
  <2> QED BY <1>2, <1>3, <2>1, <2>2, FlattenNothing, ConcatEmptySeq
<1>4. CASE m # 0
  <2>1. PICK f : Flattens(f, seqs, m) /\ FlattenSeq(seqs) = f[m]
    <3>1. m \in Nat \ {0}
      BY <1>1, <1>4
    <3> QED BY <3>1, FlattenUnfold
  <2> HIDE DEF m, longer
  <2> DEFINE A == {i \in Nat : i \in 1 .. m => f[i] = g[i]}
  <2>2. 0 \in A
    OBVIOUS
  <2>3. ASSUME NEW i \in Nat, i \in A PROVE i + 1 \in A
    <3>1. SUFFICES ASSUME i + 1 \in 1 .. m PROVE f[i + 1] = g[i + 1]
      OBVIOUS
    <3>2. /\ f[i + 1] = IF i + 1 = 1 THEN seqs[i + 1] ELSE f[(i + 1) - 1] \o seqs[i + 1]
          /\ g[i + 1] = IF i + 1 = 1 THEN longer[i + 1] ELSE g[(i + 1) - 1] \o longer[i + 1]
      <4>1. i + 1 \in 1 .. m + 1
        BY <1>1, <3>1
      <4> QED BY <1>2, <2>1, <3>1, <4>1, FlattensAt
    <3>3. i + 1 # 1 => f[i] = g[i] /\ (i + 1) - 1 = i
      BY <1>1, <2>3, <3>1
    <3>4. longer[i + 1] = seqs[i + 1]
      BY <1>1, <3>1
    <3> QED BY <3>2, <3>3, <3>4
  <2>4. Nat \subseteq A
    <3> HIDE DEF A
    <3> QED BY <2>2, <2>3, NatSetInduction
  <2>5. f[m] = g[m]
    <3>1. m \in A /\ m \in 1 .. m
      BY <1>1, <1>4, <2>4
    <3> QED BY <3>1
  <2>6. g[m + 1] = g[m] \o s
    <3>1. g[m + 1] = IF m + 1 = 1 THEN longer[m + 1] ELSE g[(m + 1) - 1] \o longer[m + 1]
      <4>1. m + 1 \in 1 .. m + 1
        BY <1>1
      <4> QED BY <1>2, <4>1, FlattensAt
    <3>2. (m + 1) - 1 = m /\ m + 1 # 1
      BY <1>1, <1>4
    <3> QED BY <1>1, <3>1, <3>2
  <2> QED BY <1>2, <2>1, <2>5, <2>6 DEF longer
<1> QED BY <1>3, <1>4

\* Flattening stays within the sequences.
LEMMA FlattenType ==
  ASSUME NEW S, NEW seqs \in Seq(Seq(S))
  PROVE  FlattenSeq(seqs) \in Seq(S)
<1> DEFINE A == {t \in Seq(Seq(S)) : FlattenSeq(t) \in Seq(S)}
<1>1. <<>> \in A
  BY FlattenNothing, EmptySeq
<1>2. ASSUME NEW t \in Seq(Seq(S)), t \in A, NEW s \in Seq(S) PROVE Append(t, s) \in A
  <2>1. FlattenSeq(Append(t, s)) = FlattenSeq(t) \o s
    BY FlattenAppend
  <2> QED BY <1>2, <2>1, ConcatProperties, AppendProperties
<1> HIDE DEF A
<1>3. Seq(Seq(S)) \subseteq A
  BY <1>1, <1>2, SeqSetInduction
<1> QED BY <1>3 DEF A

\* Flattening one list after another is flattening both.
LEMMA FlattenConcat ==
  ASSUME NEW S, NEW seqs \in Seq(Seq(S)), NEW more \in Seq(Seq(S))
  PROVE  FlattenSeq(seqs \o more) = FlattenSeq(seqs) \o FlattenSeq(more)
<1> DEFINE A == {t \in Seq(Seq(S)) : FlattenSeq(seqs \o t) = FlattenSeq(seqs) \o FlattenSeq(t)}
<1>1. <<>> \in A
  <2>1. FlattenSeq(seqs) \o <<>> = FlattenSeq(seqs) /\ seqs \o <<>> = seqs
    BY FlattenType, ConcatEmptySeq
  <2> QED BY <2>1, FlattenNothing, EmptySeq
<1>2. ASSUME NEW t \in Seq(Seq(S)), t \in A, NEW s \in Seq(S) PROVE Append(t, s) \in A
  <2>1. seqs \o Append(t, s) = Append(seqs \o t, s)
    BY ConcatProperties, AppendProperties
  <2>2. FlattenSeq(Append(seqs \o t, s)) = FlattenSeq(seqs \o t) \o s
    BY ConcatProperties, FlattenAppend
  <2>3. FlattenSeq(Append(t, s)) = FlattenSeq(t) \o s
    BY FlattenAppend
  <2>4. (FlattenSeq(seqs) \o FlattenSeq(t)) \o s = FlattenSeq(seqs) \o (FlattenSeq(t) \o s)
    <3> DEFINE a == FlattenSeq(seqs)
               b == FlattenSeq(t)
    <3>1. a \in Seq(S) /\ b \in Seq(S)
      BY FlattenType
    <3> HIDE DEF a, b
    <3> QED BY <3>1, ConcatAssociative
  <2>5. Append(t, s) \in Seq(Seq(S))
    BY AppendProperties
  <2> QED BY <1>2, <2>1, <2>2, <2>3, <2>4, <2>5
<1> HIDE DEF A
<1>3. Seq(Seq(S)) \subseteq A
  BY <1>1, <1>2, SeqSetInduction
<1> QED BY <1>3 DEF A

\* One sequence is itself.
LEMMA FlattenOne ==
  ASSUME NEW S, NEW s \in Seq(S)
  PROVE  FlattenSeq(<<s>>) = s
<1>1. <<>> \in Seq(Seq(S)) /\ Append(<<>>, s) = <<s>>
  BY EmptySeq, AppendProperties
<1>2. FlattenSeq(Append(<<>>, s)) = FlattenSeq(<<>>) \o s
  BY <1>1, FlattenAppend
<1> QED BY <1>1, <1>2, FlattenNothing, ConcatEmptySeq

-----------------------------------------------------------------------------

\* A file that has nothing but these bytes after a position.
Ahead(file, pos, bytes) ==
  /\ Len(file) = pos + Len(bytes)
  /\ \A k \in 1 .. Len(bytes) : file[pos + k] = bytes[k]

\* At the beginning of a file is all of it ahead.
LEMMA AheadAll ==
  ASSUME NEW S, NEW file \in Seq(S)
  PROVE  Ahead(file, 0, file)
BY LenProperties DEF Ahead

\* Nothing is ahead at the end of the file and only there.
LEMMA AheadNone ==
  ASSUME NEW S, NEW file \in Seq(S), NEW pos \in Nat
  PROVE  Ahead(file, pos, <<>>) <=> pos = Len(file)
<1>1. Len(file) \in Nat /\ Len(<<>>) = 0
  BY LenProperties
<1> QED BY <1>1 DEF Ahead

\* Behind the first part of what is ahead comes the second.
LEMMA AheadConcat ==
  ASSUME NEW S, NEW file, NEW pos \in Nat, NEW s \in Seq(S), NEW t \in Seq(S),
         Ahead(file, pos, s \o t)
  PROVE  /\ Ahead(file, pos + Len(s), t)
         /\ \A k \in 1 .. Len(s) : file[pos + k] = s[k]
         /\ pos + Len(s) <= Len(file)
<1> DEFINE u == s \o t
           m == Len(s)
           n == Len(t)
<1>1. m \in Nat /\ n \in Nat
  BY LenProperties
<1>2. /\ Len(u) = m + n
      /\ \A i \in 1 .. m + n : u[i] = IF i <= m THEN s[i] ELSE t[i - m]
  BY ConcatProperties
<1>3. Len(file) = pos + Len(u) /\ \A k \in 1 .. Len(u) : file[pos + k] = u[k]
  BY DEF Ahead
<1> HIDE DEF u, m, n
<1>4. ASSUME NEW k \in 1 .. m PROVE file[pos + k] = s[k]
  BY <1>1, <1>2, <1>3
<1>5. ASSUME NEW k \in 1 .. n PROVE file[(pos + m) + k] = t[k]
  <2>1. m + k \in 1 .. m + n /\ ~ (m + k <= m) /\ (m + k) - m = k
    BY <1>1
  <2>2. u[m + k] = t[k]
    BY <1>2, <2>1
  <2>3. pos + (m + k) = (pos + m) + k
    BY <1>1
  <2>4. file[pos + (m + k)] = u[m + k]
    BY <1>2, <1>3, <2>1
  <2> QED BY <2>2, <2>3, <2>4
<1>6. Len(file) = (pos + m) + n
  BY <1>1, <1>2, <1>3
<1>7. pos + m <= Len(file)
  BY <1>1, <1>6
<1> QED BY <1>4, <1>5, <1>6, <1>7 DEF Ahead, m, n
=============================================================================
