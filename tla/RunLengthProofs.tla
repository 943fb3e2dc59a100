-------------------------- MODULE RunLengthProofs --------------------------
(***************************************************************************)
(* Proofs about the run-length encoder of module RunLength, for every      *)
(* number of formats and of calls: the two streams describe exactly the    *)
(* calls that were made, until a run is continued after a flush(); and     *)
(* without a flush() in the middle of the program that never happens.      *)
(***************************************************************************)
EXTENDS RunLength, SequenceTheorems, TLAPS

(***************************************************************************)
(* The invariant is about the data alone, so it is stated for any runs rs, *)
(* calls cs, log stream lg and runlength stream rl, and each of the three  *)
(* things an operation does to them (a run's length is recorded, a run     *)
(* starts, a run continues) is a lemma.                                    *)
(***************************************************************************)
\* Every run lies within the calls and the streams.
Bounded(rs, cs, lg, rl) ==
  \A j \in 1 .. Len(rs) :
    /\ rs[j].first >= 1 /\ rs[j].pos >= 1 /\ rs[j].count >= 1
    /\ rs[j].first + rs[j].count <= Len(cs) + 1
    /\ rs[j].pos + Tokens(rs[j]) <= Len(lg) + 1
    /\ rs[j].record <= Len(rl)

\* RunsPartitionCalls, split into the two facts about each run.
Partition(rs, cs) ==
  /\ IF rs = <<>> THEN cs = <<>> ELSE rs[1].first = 1
  /\ \A j \in 1 .. Len(rs) :
       rs[j].first + rs[j].count
         = IF j = Len(rs) THEN Len(cs) + 1 ELSE rs[j + 1].first
  /\ \A j \in 1 .. Len(rs) :
       \A n \in rs[j].first .. rs[j].first + rs[j].count - 1 :
         cs[n] = rs[j].index

\* LogHoldsRuns
Holds(rs, lg) ==
  /\ IF rs = <<>> THEN lg = <<>> ELSE rs[1].pos = 1
  /\ \A j \in 1 .. Len(rs) :
       rs[j].pos + Tokens(rs[j])
         = IF j = Len(rs) THEN Len(lg) + 1 ELSE rs[j + 1].pos
  /\ \A j \in 1 .. Len(rs) :
       lg[rs[j].pos] = IndexToken(rs[j].index)
  /\ \A j \in 1 .. Len(rs) :
       \A k \in 1 .. Tokens(rs[j]) - 1 :
         lg[rs[j].pos + k] = ArgsToken(rs[j].index, rs[j].first + k - 1)

\* RecordsNameRuns, which says less of the last run while it is still open.
Names(rs, rl) ==
  /\ \A j \in 1 .. Len(rs) :
       rs[j].record = 0 => j = Len(rs) \/ rs[j].count = 1
  /\ \A j \in 1 .. Len(rs) :
       rs[j].record # 0 =>
         /\ rs[j].count > 1
         /\ rl[rs[j].record] = [index |-> rs[j].index, count |-> rs[j].count]
  /\ \A r \in 1 .. Len(rl) : \E j \in 1 .. Len(rs) : rs[j].record = r
  /\ \A j, k \in 1 .. Len(rs) :
       j < k /\ rs[j].record # 0 /\ rs[k].record # 0
         => rs[j].record < rs[k].record

Typed(rs, cs, lg, rl) ==
  /\ rs \in Seq(Run)
  /\ cs \in Seq(Index)
  /\ lg \in Seq(Token)
  /\ rl \in Seq(Record)

Describes(rs, cs, lg, rl) ==
  /\ Bounded(rs, cs, lg, rl)
  /\ Partition(rs, cs)
  /\ Holds(rs, lg)
  /\ Names(rs, rl)

-----------------------------------------------------------------------------

\* The length and the elements of a sequence after an Append.
LEMMA AppendFacts ==
  ASSUME NEW S, NEW s \in Seq(S), NEW e \in S
  PROVE  /\ Append(s, e) \in Seq(S)
         /\ Len(Append(s, e)) = Len(s) + 1
         /\ \A n \in 1 .. Len(s) : Append(s, e)[n] = s[n]
         /\ Append(s, e)[Len(s) + 1] = e
         /\ Append(s, e) # <<>>
BY AppendProperties

\* Recording the length of the last run changes only its "record".
LEMMA RecordedRuns ==
  ASSUME NEW rs \in Seq(Run), rs # <<>>, NEW m \in Nat
  PROVE  LET rs2 == [rs EXCEPT ![Len(rs)].record = m]
         IN  /\ rs2 \in Seq(Run)
             /\ Len(rs2) = Len(rs)
             /\ \A j \in 1 .. Len(rs) :
                  /\ rs2[j].index = rs[j].index
                  /\ rs2[j].first = rs[j].first
                  /\ rs2[j].count = rs[j].count
                  /\ rs2[j].pos = rs[j].pos
                  /\ j # Len(rs) => rs2[j].record = rs[j].record
             /\ rs2[Len(rs)].record = m
<1> DEFINE N == Len(rs)
           e == [rs[N] EXCEPT !.record = m]
           rs2 == [rs EXCEPT ![N] = e]
<1>1. N \in 1 .. Len(rs) /\ N \in Nat
  BY LenProperties, EmptySeq
<1>2. rs[N] \in Run
  BY <1>1, ElementOfSeq
<1>3. /\ e \in Run /\ e.index = rs[N].index /\ e.first = rs[N].first
      /\ e.count = rs[N].count /\ e.pos = rs[N].pos /\ e.record = m
  BY <1>2 DEF Run
<1>4. /\ rs2 \in Seq(Run) /\ Len(rs2) = Len(rs)
      /\ \A j \in 1 .. Len(rs) : rs2[j] = IF j = N THEN e ELSE rs[j]
  BY <1>1, <1>3, ExceptSeq
<1> QED BY <1>1, <1>3, <1>4

\* Counting a call in the last run changes only its "count".
LEMMA ContinuedRuns ==
  ASSUME NEW rs \in Seq(Run), rs # <<>>
  PROVE  LET rs2 == [rs EXCEPT ![Len(rs)].count = @ + 1]
         IN  /\ rs2 \in Seq(Run)
             /\ Len(rs2) = Len(rs)
             /\ \A j \in 1 .. Len(rs) :
                  /\ rs2[j].index = rs[j].index
                  /\ rs2[j].first = rs[j].first
                  /\ j # Len(rs) => rs2[j].count = rs[j].count
                  /\ rs2[j].pos = rs[j].pos
                  /\ rs2[j].record = rs[j].record
             /\ rs2[Len(rs)].count = rs[Len(rs)].count + 1
<1> DEFINE N == Len(rs)
           e == [rs[N] EXCEPT !.count = rs[N].count + 1]
           rs2 == [rs EXCEPT ![N] = e]
<1>1. N \in 1 .. Len(rs) /\ N \in Nat
  BY LenProperties, EmptySeq
<1>2. rs[N] \in Run
  BY <1>1, ElementOfSeq
<1>a. rs[N].count + 1 \in Nat
  BY <1>2 DEF Run
<1>3. /\ e \in Run /\ e.index = rs[N].index /\ e.first = rs[N].first
      /\ e.count = rs[N].count + 1 /\ e.pos = rs[N].pos /\ e.record = rs[N].record
  <2> DEFINE c == rs[N].count + 1
  <2> HIDE DEF c
  <2>1. LET e2 == [rs[N] EXCEPT !.count = c]
        IN  /\ e2 \in Run /\ e2.index = rs[N].index /\ e2.first = rs[N].first
            /\ e2.count = c /\ e2.pos = rs[N].pos /\ e2.record = rs[N].record
    <3>1. c \in Nat
      BY <1>a DEF c
    <3> QED BY <1>2, <3>1 DEF Run
  <2> QED BY <2>1 DEF c
<1>4. /\ rs2 \in Seq(Run) /\ Len(rs2) = Len(rs)
      /\ \A j \in 1 .. Len(rs) : rs2[j] = IF j = N THEN e ELSE rs[j]
  BY <1>1, <1>3, ExceptSeq
<1> QED BY <1>1, <1>3, <1>4

\* The fields of a run are numbers.
LEMMA RunFields ==
  ASSUME NEW rs \in Seq(Run), NEW j \in 1 .. Len(rs)
  PROVE  /\ rs[j] \in Run
         /\ rs[j].index \in Index
         /\ rs[j].first \in Nat /\ rs[j].count \in Nat
         /\ rs[j].pos \in Nat /\ rs[j].record \in Nat
         /\ Tokens(rs[j]) \in Nat \ {0}
<1>1. rs[j] \in Run
  BY ElementOfSeq
<1>2. /\ rs[j].index \in Index
      /\ rs[j].first \in Nat /\ rs[j].count \in Nat
      /\ rs[j].pos \in Nat /\ rs[j].record \in Nat
  BY <1>1 DEF Run
<1> QED BY <1>1, <1>2 DEF Tokens

\* write_current_runlength_to_runlength_file when the run is repeated.
LEMMA RecordingDescribes ==
  ASSUME NEW rs \in Seq(Run), NEW cs \in Seq(Index), NEW lg \in Seq(Token),
         NEW rl \in Seq(Record), Describes(rs, cs, lg, rl), rs # <<>>,
         rs[Len(rs)].record = 0, rs[Len(rs)].count > 1,
         NEW rs2 \in Seq(Run), Len(rs2) = Len(rs),
         \A j \in 1 .. Len(rs) :
           /\ rs2[j].index = rs[j].index
           /\ rs2[j].first = rs[j].first
           /\ rs2[j].count = rs[j].count
           /\ rs2[j].pos = rs[j].pos
           /\ j # Len(rs) => rs2[j].record = rs[j].record,
         rs2[Len(rs)].record = Len(rl) + 1,
         NEW rl2 \in Seq(Record),
         rl2 = Append(rl, [index |-> rs[Len(rs)].index, count |-> rs[Len(rs)].count])
  PROVE  Describes(rs2, cs, lg, rl2)
<1> DEFINE N == Len(rs)
           R == [index |-> rs[N].index, count |-> rs[N].count]
<1>1. N \in Nat /\ N >= 1 /\ Len(rl) \in Nat /\ Len(cs) \in Nat /\ Len(lg) \in Nat
  BY LenProperties, EmptySeq
<1>2. R \in Record
  BY <1>1, RunFields DEF Record
<1>3. Len(rl2) = Len(rl) + 1 /\ rl2[Len(rl) + 1] = R
      /\ \A n \in 1 .. Len(rl) : rl2[n] = rl[n]
  BY <1>2, AppendProperties
<1>4. \A j \in 1 .. N : Tokens(rs2[j]) = Tokens(rs[j])
  BY DEF Tokens
<1>5. \A j \in 1 .. N : /\ rs[j].first \in Nat /\ rs[j].count \in Nat
                         /\ rs[j].pos \in Nat /\ rs[j].record \in Nat
                         /\ Tokens(rs[j]) \in Nat
  BY RunFields
<1>6. \A j \in 1 .. N : rs[j].record <= Len(rl)
  BY DEF Describes, Bounded
<1>7. rs2 # <<>>
  BY <1>1, EmptySeq
<1>a. \A j \in 1 .. N : j # N => j + 1 \in 1 .. N
  BY <1>1
<1>b. 1 \in 1 .. N
  BY <1>1
<1>8. Bounded(rs2, cs, lg, rl2)
  <2> SUFFICES ASSUME NEW j \in 1 .. N
               PROVE  /\ rs2[j].first >= 1 /\ rs2[j].pos >= 1 /\ rs2[j].count >= 1
                      /\ rs2[j].first + rs2[j].count <= Len(cs) + 1
                      /\ rs2[j].pos + Tokens(rs2[j]) <= Len(lg) + 1
                      /\ rs2[j].record <= Len(rl2)
    BY DEF Bounded
  <2>1. rs2[j].record <= Len(rl2)
    <3>1. CASE j = N
      BY <3>1, <1>1, <1>3
    <3>2. CASE j # N
      <4>1. rs2[j].record = rs[j].record /\ rs[j].record <= Len(rl) /\ rs[j].record \in Nat
        BY <3>2, <1>5, <1>6
      <4> QED BY <4>1, <1>1, <1>3
    <3> QED BY <3>1, <3>2
  <2>2. /\ rs[j].first >= 1 /\ rs[j].pos >= 1 /\ rs[j].count >= 1
        /\ rs[j].first + rs[j].count <= Len(cs) + 1
        /\ rs[j].pos + Tokens(rs[j]) <= Len(lg) + 1
    BY DEF Describes, Bounded
  <2> QED BY <2>1, <2>2, <1>4
<1>9. Partition(rs2, cs)
  <2>1. rs2[1].first = 1
    BY <1>b DEF Describes, Partition
  <2>2. ASSUME NEW j \in 1 .. N
        PROVE  rs2[j].first + rs2[j].count
                 = IF j = Len(rs2) THEN Len(cs) + 1 ELSE rs2[j + 1].first
    BY <1>a DEF Describes, Partition
  <2>3. ASSUME NEW j \in 1 .. N, NEW n \in rs2[j].first .. rs2[j].first + rs2[j].count - 1
        PROVE  cs[n] = rs2[j].index
    BY DEF Describes, Partition
  <2> QED BY <1>7, <2>1, <2>2, <2>3 DEF Partition
<1>10. Holds(rs2, lg)
  <2>1. rs2[1].pos = 1
    BY <1>b DEF Describes, Holds
  <2>2. ASSUME NEW j \in 1 .. N
        PROVE  rs2[j].pos + Tokens(rs2[j])
                 = IF j = Len(rs2) THEN Len(lg) + 1 ELSE rs2[j + 1].pos
    <3>1. rs2[j].pos = rs[j].pos /\ Tokens(rs2[j]) = Tokens(rs[j])
      BY <1>4
    <3>2. rs[j].pos + Tokens(rs[j])
            = IF j = N THEN Len(lg) + 1 ELSE rs[j + 1].pos
      BY DEF Describes, Holds
    <3>3. j # N => rs2[j + 1].pos = rs[j + 1].pos
      BY <1>a
    <3> QED BY <3>1, <3>2, <3>3
  <2>3. ASSUME NEW j \in 1 .. N
        PROVE  lg[rs2[j].pos] = IndexToken(rs2[j].index)
    BY DEF Describes, Holds
  <2>4. ASSUME NEW j \in 1 .. N, NEW k \in 1 .. Tokens(rs2[j]) - 1
        PROVE  lg[rs2[j].pos + k] = ArgsToken(rs2[j].index, rs2[j].first + k - 1)
    <3>1. /\ rs2[j].index = rs[j].index /\ rs2[j].first = rs[j].first
          /\ rs2[j].pos = rs[j].pos /\ Tokens(rs2[j]) = Tokens(rs[j])
      BY <1>4
    <3>2. \A n \in 1 .. Tokens(rs[j]) - 1 :
            lg[rs[j].pos + n] = ArgsToken(rs[j].index, rs[j].first + n - 1)
      BY DEF Describes, Holds
    <3> QED BY <3>1, <3>2
  <2> QED BY <1>7, <2>1, <2>2, <2>3, <2>4 DEF Holds
<1>11. Names(rs2, rl2)
  <2>1. ASSUME NEW j \in 1 .. N, rs2[j].record = 0
        PROVE  rs2[j].count = 1
    <3>1. j # N
      BY <2>1, <1>1
    <3>2. rs[j].record = 0 => j = N \/ rs[j].count = 1
      BY DEF Describes, Names
    <3> QED BY <2>1, <3>1, <3>2
  <2>2. ASSUME NEW j \in 1 .. N, rs2[j].record # 0
        PROVE  /\ rs2[j].count > 1
               /\ rl2[rs2[j].record] = [index |-> rs2[j].index, count |-> rs2[j].count]
    <3>1. CASE j = N
      BY <3>1, <1>3
    <3>2. CASE j # N
      <4>1. rs[j].record \in 1 .. Len(rl) /\ rs2[j].record = rs[j].record
        BY <2>2, <3>2, <1>1, <1>5, <1>6
      <4>2. rl2[rs[j].record] = rl[rs[j].record]
        BY <4>1, <1>3
      <4>3. rs[j].count > 1 /\ rl[rs[j].record] = [index |-> rs[j].index, count |-> rs[j].count]
        BY <4>1 DEF Describes, Names
      <4> QED BY <4>1, <4>2, <4>3
    <3> QED BY <3>1, <3>2
  <2>3. ASSUME NEW r \in 1 .. Len(rl2)
        PROVE  \E j \in 1 .. N : rs2[j].record = r
    <3>1. CASE r = Len(rl) + 1
      BY <3>1, <1>1
    <3>2. CASE r \in 1 .. Len(rl)
      <4>1. PICK j \in 1 .. N : rs[j].record = r
        BY <3>2 DEF Describes, Names
      <4>2. j # N
        BY <4>1, <3>2
      <4> QED BY <4>1, <4>2
    <3>3. r = Len(rl) + 1 \/ r \in 1 .. Len(rl)
      BY <1>3
    <3> QED BY <3>1, <3>2, <3>3
  <2>4. ASSUME NEW j \in 1 .. N, NEW k \in 1 .. N,
               j < k, rs2[j].record # 0, rs2[k].record # 0
        PROVE  rs2[j].record < rs2[k].record
    <3>1. j # N /\ rs2[j].record = rs[j].record
      BY <2>4, <1>1
    <3>2. CASE k = N
      BY <3>1, <3>2, <1>1, <1>5, <1>6
    <3>3. CASE k # N
      BY <3>1, <3>3, <2>4 DEF Describes, Names
    <3> QED BY <3>2, <3>3
  <2> QED BY <2>1, <2>2, <2>3, <2>4 DEF Names
<1> QED BY <1>8, <1>9, <1>10, <1>11 DEF Describes

\* What one call appends to the log stream when it starts a run, and when it
\* continues one.
Started(lg, i, n) == lg \o <<IndexToken(i)>> \o Args(i, n)
Continued(lg, i, n) == lg \o <<>> \o Args(i, n)

LEMMA ArgsFacts ==
  ASSUME NEW lg \in Seq(Token), NEW i \in Index, NEW n \in Nat
  PROVE  LET lg2 == lg \o Args(i, n)
         IN  /\ lg2 \in Seq(Token)
             /\ Len(lg2) = Len(lg) + (IF i \in NoArgs THEN 0 ELSE 1)
             /\ \A m \in 1 .. Len(lg) : lg2[m] = lg[m]
             /\ i \notin NoArgs => lg2[Len(lg) + 1] = ArgsToken(i, n)
<1> DEFINE t == ArgsToken(i, n)
<1>1. t \in Token
  BY DEF ArgsToken, Token
<1>2. Len(lg) \in Nat
  BY LenProperties
<1> HIDE DEF t
<1>3. CASE i \in NoArgs
  <2>1. Args(i, n) = <<>>
    BY <1>3 DEF Args
  <2> QED BY <2>1, <1>3, ConcatEmptySeq
<1>4. CASE i \notin NoArgs
  <2>1. Args(i, n) = <<t>>
    BY <1>4 DEF Args, t
  <2>2. lg \o <<t>> = Append(lg, t)
    BY <1>1, AppendIsConcat
  <2>3. /\ Append(lg, t) \in Seq(Token)
        /\ Len(Append(lg, t)) = Len(lg) + 1
        /\ \A m \in 1 .. Len(lg) : Append(lg, t)[m] = lg[m]
        /\ Append(lg, t)[Len(lg) + 1] = t
    BY <1>1, AppendProperties
  <2> QED BY <2>1, <2>2, <2>3, <1>4 DEF t
<1> QED BY <1>3, <1>4

LEMMA StartedFacts ==
  ASSUME NEW lg \in Seq(Token), NEW i \in Index, NEW n \in Nat
  PROVE  LET lg2 == Started(lg, i, n)
         IN  /\ lg2 \in Seq(Token)
             /\ Len(lg2) = Len(lg) + 1 + (IF i \in NoArgs THEN 0 ELSE 1)
             /\ \A m \in 1 .. Len(lg) : lg2[m] = lg[m]
             /\ lg2[Len(lg) + 1] = IndexToken(i)
             /\ i \notin NoArgs => lg2[Len(lg) + 2] = ArgsToken(i, n)
<1> DEFINE t == IndexToken(i)
           l1 == Append(lg, t)
<1>1. t \in Token
  BY DEF IndexToken, Token
<1>2. Len(lg) \in Nat
  BY LenProperties
<1>3. /\ l1 \in Seq(Token)
      /\ Len(l1) = Len(lg) + 1
      /\ \A m \in 1 .. Len(lg) : l1[m] = lg[m]
      /\ l1[Len(lg) + 1] = t
  BY <1>1, AppendProperties
<1>4. Started(lg, i, n) = l1 \o Args(i, n)
  BY <1>1, AppendIsConcat DEF Started
<1> HIDE DEF l1
<1> DEFINE lg2 == l1 \o Args(i, n)
<1>5. /\ lg2 \in Seq(Token)
      /\ Len(lg2) = Len(l1) + (IF i \in NoArgs THEN 0 ELSE 1)
      /\ \A m \in 1 .. Len(l1) : lg2[m] = l1[m]
      /\ i \notin NoArgs => lg2[Len(l1) + 1] = ArgsToken(i, n)
  BY <1>3, ArgsFacts
<1> HIDE DEF lg2
<1>6. /\ \A m \in 1 .. Len(lg) : lg2[m] = lg[m]
      /\ lg2[Len(lg) + 1] = IndexToken(i)
  BY <1>2, <1>3, <1>5
<1> QED BY <1>2, <1>3, <1>4, <1>5, <1>6 DEF lg2

LEMMA ContinuedFacts ==
  ASSUME NEW lg \in Seq(Token), NEW i \in Index, NEW n \in Nat
  PROVE  LET lg2 == Continued(lg, i, n)
         IN  /\ lg2 \in Seq(Token)
             /\ Len(lg2) = Len(lg) + (IF i \in NoArgs THEN 0 ELSE 1)
             /\ \A m \in 1 .. Len(lg) : lg2[m] = lg[m]
             /\ i \notin NoArgs => lg2[Len(lg) + 1] = ArgsToken(i, n)
<1>1. Continued(lg, i, n) = lg \o Args(i, n)
  BY ConcatEmptySeq DEF Continued
<1> QED BY <1>1, ArgsFacts

\* The effect of a call that begins the run r, as the proofs need it.
StartsRun(rs, cs, lg, i, r, rs2, cs2, lg2) ==
  /\ r \in Run /\ r.index = i /\ r.first = Len(cs) + 1 /\ r.count = 1
  /\ r.pos = Len(lg) + 1 /\ r.record = 0
  /\ Len(rs2) = Len(rs) + 1 /\ rs2[Len(rs) + 1] = r
  /\ \A j \in 1 .. Len(rs) : rs2[j] = rs[j]
  /\ Len(cs2) = Len(cs) + 1 /\ cs2[Len(cs) + 1] = i
  /\ \A n \in 1 .. Len(cs) : cs2[n] = cs[n]
  /\ Len(lg2) = Len(lg) + Tokens(r)
  /\ \A m \in 1 .. Len(lg) : lg2[m] = lg[m]
  /\ lg2[Len(lg) + 1] = IndexToken(i)
  /\ i \notin NoArgs => lg2[Len(lg) + 2] = ArgsToken(i, Len(cs) + 1)

\* The call begins a run; the run before it, if any, was single or has its
\* length recorded.
LEMMA StartingDescribes ==
  ASSUME NEW rs, NEW cs, NEW lg, NEW rl,
         Typed(rs, cs, lg, rl), Describes(rs, cs, lg, rl),
         rs # <<>> => rs[Len(rs)].record # 0 \/ rs[Len(rs)].count = 1,
         NEW i \in Index,
         NEW rs2, NEW cs2, NEW lg2, Typed(rs2, cs2, lg2, rl),
         NEW r, StartsRun(rs, cs, lg, i, r, rs2, cs2, lg2)
  PROVE  Describes(rs2, cs2, lg2, rl)
<1> DEFINE N == Len(rs)
<1>1. N \in Nat /\ Len(rl) \in Nat /\ Len(cs) \in Nat /\ Len(lg) \in Nat
  BY LenProperties DEF Typed
<1>0. /\ r \in Run /\ r.index = i /\ r.first = Len(cs) + 1 /\ r.count = 1
      /\ r.pos = Len(lg) + 1 /\ r.record = 0
  BY DEF StartsRun
<1>2. /\ Len(rs2) = N + 1 /\ rs2[N + 1] = r
      /\ \A j \in 1 .. N : rs2[j] = rs[j]
      /\ rs2 # <<>>
  BY <1>1, EmptySeq DEF StartsRun, Typed
<1>3. /\ Len(cs2) = Len(cs) + 1 /\ cs2[Len(cs) + 1] = i
      /\ \A n \in 1 .. Len(cs) : cs2[n] = cs[n]
  BY DEF StartsRun
<1>4. Tokens(r) = 1 + (IF i \in NoArgs THEN 0 ELSE 1)
  BY <1>0 DEF Tokens
<1>5. /\ Len(lg2) = Len(lg) + Tokens(r)
      /\ \A m \in 1 .. Len(lg) : lg2[m] = lg[m]
      /\ lg2[Len(lg) + 1] = IndexToken(i)
      /\ i \notin NoArgs => lg2[Len(lg) + 2] = ArgsToken(i, Len(cs) + 1)
  BY DEF StartsRun
<1>6. \A j \in 1 .. N : /\ rs[j].first \in Nat /\ rs[j].count \in Nat
                         /\ rs[j].pos \in Nat /\ rs[j].record \in Nat
                         /\ Tokens(rs[j]) \in Nat \ {0}
  BY RunFields DEF Typed
<1>7. \A j \in 1 .. N :
        /\ rs[j].first >= 1 /\ rs[j].pos >= 1 /\ rs[j].count >= 1
        /\ rs[j].first + rs[j].count <= Len(cs) + 1
        /\ rs[j].pos + Tokens(rs[j]) <= Len(lg) + 1
        /\ rs[j].record <= Len(rl)
  BY DEF Describes, Bounded
<1>8. Bounded(rs2, cs2, lg2, rl)
  <2> SUFFICES ASSUME NEW j \in 1 .. N + 1
               PROVE  /\ rs2[j].first >= 1 /\ rs2[j].pos >= 1 /\ rs2[j].count >= 1
                      /\ rs2[j].first + rs2[j].count <= Len(cs2) + 1
                      /\ rs2[j].pos + Tokens(rs2[j]) <= Len(lg2) + 1
                      /\ rs2[j].record <= Len(rl)
    BY <1>2 DEF Bounded
  <2>1. CASE j = N + 1
    BY <2>1, <1>0, <1>1, <1>2, <1>3, <1>4, <1>5
  <2>2. CASE j \in 1 .. N
    <3>1. rs2[j] = rs[j] /\ Len(cs2) > Len(cs) /\ Len(lg2) > Len(lg)
      BY <2>2, <1>1, <1>2, <1>3, <1>4, <1>5
    <3>2. /\ rs[j].first >= 1 /\ rs[j].pos >= 1 /\ rs[j].count >= 1
          /\ rs[j].first + rs[j].count <= Len(cs) + 1
          /\ rs[j].pos + Tokens(rs[j]) <= Len(lg) + 1
          /\ rs[j].record <= Len(rl)
      BY <2>2, <1>7
    <3>3. /\ rs[j].first \in Nat /\ rs[j].count \in Nat /\ rs[j].pos \in Nat
          /\ Tokens(rs[j]) \in Nat \ {0}
      BY <2>2, <1>6
    <3>4. /\ Len(cs) \in Nat /\ Len(lg) \in Nat /\ Len(cs2) \in Nat /\ Len(lg2) \in Nat
          /\ Len(cs2) > Len(cs) /\ Len(lg2) > Len(lg)
      BY <1>1, <1>3, <1>4, <1>5
    <3>5. /\ rs[j].first + rs[j].count <= Len(cs2) + 1
          /\ rs[j].pos + Tokens(rs[j]) <= Len(lg2) + 1
      <4> DEFINE f == rs[j].first
                 c == rs[j].count
                 p == rs[j].pos
                 m == Tokens(rs[j])
      <4>1. /\ f \in Nat /\ c \in Nat /\ p \in Nat /\ m \in Nat
            /\ f + c <= Len(cs) + 1 /\ p + m <= Len(lg) + 1
        <5>1. f + c <= Len(cs) + 1 /\ p + m <= Len(lg) + 1
          BY <3>2, Zenon
        <5> QED BY <3>3, <5>1
      <4> HIDE DEF f, c, p, m
      <4>2. f + c <= Len(cs2) + 1 /\ p + m <= Len(lg2) + 1
        BY <4>1, <3>4
      <4> QED BY <4>2, Zenon DEF f, c, p, m
    <3> QED BY <3>1, <3>2, <3>5, Zenon
  <2> QED BY <2>1, <2>2, <1>1
<1>9. Partition(rs2, cs2)
  <2>1. rs2[1].first = 1
    <3>1. CASE rs = <<>>
      <4>1. N = 0 /\ Len(cs) = 0
        BY <3>1, EmptySeq DEF Typed, Describes, Partition
      <4> QED BY <4>1, <1>0, <1>2
    <3>2. CASE rs # <<>>
      <4>1. 1 \in 1 .. N
        BY <3>2, <1>1, EmptySeq DEF Typed
      <4> QED BY <3>2, <4>1, <1>2 DEF Describes, Partition
    <3> QED BY <3>1, <3>2
  <2>2. ASSUME NEW j \in 1 .. N + 1
        PROVE  rs2[j].first + rs2[j].count
                 = IF j = Len(rs2) THEN Len(cs2) + 1 ELSE rs2[j + 1].first
    <3>1. CASE j = N + 1
      BY <3>1, <1>0, <1>1, <1>2, <1>3
    <3>2. CASE j = N /\ N # 0
      <4>1. rs[N].first + rs[N].count = Len(cs) + 1
        BY <3>2, <1>1 DEF Describes, Partition
      <4> QED BY <3>2, <4>1, <1>0, <1>1, <1>2
    <3>3. CASE j \in 1 .. N - 1
      <4>1. rs[j].first + rs[j].count = rs[j + 1].first
        BY <3>3, <1>1 DEF Describes, Partition
      <4>2. j \in 1 .. N /\ j + 1 \in 1 .. N /\ j # Len(rs2)
        BY <3>3, <1>1, <1>2
      <4> QED BY <4>1, <4>2, <1>2
    <3> QED BY <3>1, <3>2, <3>3, <1>1
  <2>3. ASSUME NEW j \in 1 .. N + 1,
               NEW n \in rs2[j].first .. rs2[j].first + rs2[j].count - 1
        PROVE  cs2[n] = rs2[j].index
    <3>1. CASE j = N + 1
      BY <3>1, <1>0, <1>1, <1>2, <1>3
    <3>2. CASE j \in 1 .. N
      <4>a. /\ rs[j].first \in Nat /\ rs[j].count \in Nat /\ rs[j].pos \in Nat
            /\ Tokens(rs[j]) \in Nat \ {0}
        BY <3>2, <1>6
      <4>b. /\ rs[j].first >= 1 /\ rs[j].pos >= 1
            /\ rs[j].first + rs[j].count <= Len(cs) + 1
            /\ rs[j].pos + Tokens(rs[j]) <= Len(lg) + 1
        BY <3>2, <1>7
      <4>0. rs2[j] = rs[j]
        BY <3>2, <1>2
      <4>c. n \in rs[j].first .. rs[j].first + rs[j].count - 1
        BY <4>0, Zenon
      <4> DEFINE f == rs[j].first
                 c == rs[j].count
      <4>d. f \in Nat /\ c \in Nat /\ f >= 1 /\ f + c <= Len(cs) + 1 /\ n \in f .. f + c - 1
        BY <4>a, <4>b, <4>c
      <4> HIDE DEF f, c
      <4>1. rs2[j] = rs[j] /\ n \in 1 .. Len(cs)
        BY <4>0, <4>d, <1>1
      <4>2. cs[n] = rs[j].index
        BY <3>2, <4>1 DEF Describes, Partition
      <4> QED BY <4>1, <4>2, <1>3
    <3>3. j = N + 1 \/ j \in 1 .. N
      BY <1>1
    <3> QED BY <3>1, <3>2, <3>3
  <2> QED BY <1>2, <2>1, <2>2, <2>3 DEF Partition
<1>10. Holds(rs2, lg2)
  <2>1. rs2[1].pos = 1
    <3>1. CASE rs = <<>>
      <4>1. N = 0 /\ Len(lg) = 0
        BY <3>1, EmptySeq DEF Typed, Describes, Holds
      <4> QED BY <4>1, <1>0, <1>2
    <3>2. CASE rs # <<>>
      <4>1. 1 \in 1 .. N
        BY <3>2, <1>1, EmptySeq DEF Typed
      <4> QED BY <3>2, <4>1, <1>2 DEF Describes, Holds
    <3> QED BY <3>1, <3>2
  <2>2. ASSUME NEW j \in 1 .. N + 1
        PROVE  rs2[j].pos + Tokens(rs2[j])
                 = IF j = Len(rs2) THEN Len(lg2) + 1 ELSE rs2[j + 1].pos
    <3>1. CASE j = N + 1
      BY <3>1, <1>0, <1>1, <1>2, <1>4, <1>5
    <3>2. CASE j = N /\ N # 0
      <4>1. rs[N].pos + Tokens(rs[N]) = Len(lg) + 1
        BY <3>2, <1>1 DEF Describes, Holds
      <4> QED BY <3>2, <4>1, <1>0, <1>1, <1>2
    <3>3. CASE j \in 1 .. N - 1
      <4>1. rs[j].pos + Tokens(rs[j]) = rs[j + 1].pos
        BY <3>3, <1>1 DEF Describes, Holds
      <4>2. j \in 1 .. N /\ j + 1 \in 1 .. N /\ j # Len(rs2)
        BY <3>3, <1>1, <1>2
      <4> QED BY <4>1, <4>2, <1>2
    <3> QED BY <3>1, <3>2, <3>3, <1>1
  <2>3. ASSUME NEW j \in 1 .. N + 1
        PROVE  lg2[rs2[j].pos] = IndexToken(rs2[j].index)
    <3>1. CASE j = N + 1
      BY <3>1, <1>0, <1>2, <1>5
    <3>2. CASE j \in 1 .. N
      <4>a. /\ rs[j].first \in Nat /\ rs[j].count \in Nat /\ rs[j].pos \in Nat
            /\ Tokens(rs[j]) \in Nat \ {0}
        BY <3>2, <1>6
      <4>b. /\ rs[j].first >= 1 /\ rs[j].pos >= 1
            /\ rs[j].first + rs[j].count <= Len(cs) + 1
            /\ rs[j].pos + Tokens(rs[j]) <= Len(lg) + 1
        BY <3>2, <1>7
      <4>0. rs2[j] = rs[j]
        BY <3>2, <1>2
      <4> DEFINE p == rs[j].pos
                 m == Tokens(rs[j])
      <4>c. p \in Nat /\ m \in Nat \ {0} /\ p >= 1 /\ p + m <= Len(lg) + 1
        BY <4>a, <4>b
      <4> HIDE DEF p, m
      <4>d. p \in 1 .. Len(lg)
        BY <4>c, <1>1
      <4>1. rs2[j] = rs[j] /\ rs[j].pos \in 1 .. Len(lg)
        BY <4>0, <4>d DEF p
      <4>2. lg[rs[j].pos] = IndexToken(rs[j].index)
        BY <3>2 DEF Describes, Holds
      <4> QED BY <4>1, <4>2, <1>5
    <3>3. j = N + 1 \/ j \in 1 .. N
      BY <1>1
    <3> QED BY <3>1, <3>2, <3>3
  <2>4. ASSUME NEW j \in 1 .. N + 1, NEW k \in 1 .. Tokens(rs2[j]) - 1
        PROVE  lg2[rs2[j].pos + k] = ArgsToken(rs2[j].index, rs2[j].first + k - 1)
    <3>1. CASE j = N + 1
      <4>1. k = 1 /\ i \notin NoArgs
        BY <3>1, <1>0, <1>1, <1>2, <1>4
      <4>2. rs2[j].pos + k = Len(lg) + 2 /\ rs2[j].first + k - 1 = Len(cs) + 1
        BY <3>1, <4>1, <1>0, <1>1, <1>2
      <4> QED BY <3>1, <4>1, <4>2, <1>0, <1>2, <1>5
    <3>2. CASE j \in 1 .. N
      <4>1. rs2[j] = rs[j]
        BY <3>2, <1>2
      <4>a. /\ rs[j].first \in Nat /\ rs[j].count \in Nat /\ rs[j].pos \in Nat
            /\ Tokens(rs[j]) \in Nat \ {0}
        BY <3>2, <1>6
      <4>b. /\ rs[j].first >= 1 /\ rs[j].pos >= 1
            /\ rs[j].first + rs[j].count <= Len(cs) + 1
            /\ rs[j].pos + Tokens(rs[j]) <= Len(lg) + 1
        BY <3>2, <1>7
      <4>c. k \in 1 .. Tokens(rs[j]) - 1
        BY <4>1, Zenon
      <4> DEFINE p == rs[j].pos
                 m == Tokens(rs[j])
      <4>d. p \in Nat /\ m \in Nat /\ p >= 1 /\ p + m <= Len(lg) + 1 /\ k \in 1 .. m - 1
        BY <4>a, <4>b, <4>c
      <4> HIDE DEF p, m
      <4>e. p + k \in 1 .. Len(lg)
        BY <4>d, <1>1
      <4>2. rs[j].pos + k \in 1 .. Len(lg)
        BY <4>e DEF p
      <4>3. lg[rs[j].pos + k] = ArgsToken(rs[j].index, rs[j].first + k - 1)
        BY <3>2, <4>1 DEF Describes, Holds
      <4> QED BY <4>1, <4>2, <4>3, <1>5
    <3>3. j = N + 1 \/ j \in 1 .. N
      BY <1>1
    <3> QED BY <3>1, <3>2, <3>3
  <2>5. \A j \in 1 .. Len(rs2) : lg2[rs2[j].pos] = IndexToken(rs2[j].index)
    BY <1>2, <2>3
  <2>6. \A j \in 1 .. Len(rs2) :
          \A k \in 1 .. Tokens(rs2[j]) - 1 :
            lg2[rs2[j].pos + k] = ArgsToken(rs2[j].index, rs2[j].first + k - 1)
    BY <1>2, <2>4
  <2>7. \A j \in 1 .. Len(rs2) :
          rs2[j].pos + Tokens(rs2[j])
            = IF j = Len(rs2) THEN Len(lg2) + 1 ELSE rs2[j + 1].pos
    BY <1>2, <2>2
  <2> QED BY <1>2, <2>1, <2>5, <2>6, <2>7, Zenon DEF Holds
<1>11. Names(rs2, rl)
  <2>1. ASSUME NEW j \in 1 .. N + 1, rs2[j].record = 0
        PROVE  j = Len(rs2) \/ rs2[j].count = 1
    <3>1. CASE j = N /\ N # 0
      <4>1. rs # <<>> /\ rs2[j] = rs[N]
        BY <3>1, <1>1, <1>2, EmptySeq
      <4> QED BY <2>1, <4>1
    <3>2. CASE j \in 1 .. N - 1
      <4>1. rs2[j] = rs[j] /\ j # N /\ j \in 1 .. N
        BY <3>2, <1>1, <1>2
      <4> QED BY <2>1, <4>1 DEF Describes, Names
    <3> QED BY <3>1, <3>2, <1>1, <1>2
  <2>2. ASSUME NEW j \in 1 .. N + 1, rs2[j].record # 0
        PROVE  /\ rs2[j].count > 1
               /\ rl[rs2[j].record] = [index |-> rs2[j].index, count |-> rs2[j].count]
    <3>1. j \in 1 .. N /\ rs2[j] = rs[j]
      BY <2>2, <1>0, <1>1, <1>2
    <3> QED BY <2>2, <3>1 DEF Describes, Names
  <2>3. ASSUME NEW n \in 1 .. Len(rl)
        PROVE  \E j \in 1 .. N + 1 : rs2[j].record = n
    <3>1. PICK j \in 1 .. N : rs[j].record = n
      BY DEF Describes, Names
    <3>2. j \in 1 .. N + 1 /\ rs2[j].record = n
      BY <3>1, <1>1, <1>2
    <3> QED BY <3>2
  <2>4. ASSUME NEW j \in 1 .. N + 1, NEW k \in 1 .. N + 1,
               j < k, rs2[j].record # 0, rs2[k].record # 0
        PROVE  rs2[j].record < rs2[k].record
    <3>1. j \in 1 .. N /\ rs2[j] = rs[j] /\ k \in 1 .. N /\ rs2[k] = rs[k]
      BY <2>4, <1>0, <1>1, <1>2
    <3> QED BY <2>4, <3>1 DEF Describes, Names
  <2> QED BY <1>2, <2>1, <2>2, <2>3, <2>4 DEF Names
<1> QED BY <1>8, <1>9, <1>10, <1>11 DEF Describes

\* The effect of a call that continues the last run, as the proofs need it.
ContinuesRun(rs, cs, lg, i, rs2, cs2, lg2) ==
  /\ rs # <<>> /\ rs[Len(rs)].index = i /\ rs[Len(rs)].record = 0
  /\ Len(rs2) = Len(rs) /\ rs2[Len(rs)].count = rs[Len(rs)].count + 1
  /\ \A j \in 1 .. Len(rs) :
       /\ rs2[j].index = rs[j].index
       /\ rs2[j].first = rs[j].first
       /\ j # Len(rs) => rs2[j].count = rs[j].count
       /\ rs2[j].pos = rs[j].pos
       /\ rs2[j].record = rs[j].record
  /\ Len(cs2) = Len(cs) + 1 /\ cs2[Len(cs) + 1] = i
  /\ \A n \in 1 .. Len(cs) : cs2[n] = cs[n]
  /\ Len(lg2) = Len(lg) + (IF i \in NoArgs THEN 0 ELSE 1)
  /\ \A m \in 1 .. Len(lg) : lg2[m] = lg[m]
  /\ i \notin NoArgs => lg2[Len(lg) + 1] = ArgsToken(i, Len(cs) + 1)

\* The call continues the last run, whose length is not recorded yet.
LEMMA ContinuingDescribes ==
  ASSUME NEW rs, NEW cs, NEW lg, NEW rl,
         Typed(rs, cs, lg, rl), Describes(rs, cs, lg, rl),
         NEW i \in Index,
         NEW rs2, NEW cs2, NEW lg2, Typed(rs2, cs2, lg2, rl),
         ContinuesRun(rs, cs, lg, i, rs2, cs2, lg2)
  PROVE  Describes(rs2, cs2, lg2, rl)
<1> DEFINE N == Len(rs)
           d == IF i \in NoArgs THEN 0 ELSE 1
<1>1. N \in Nat /\ N >= 1 /\ Len(rl) \in Nat /\ Len(cs) \in Nat /\ Len(lg) \in Nat
  BY LenProperties, EmptySeq DEF Typed, ContinuesRun
<1>2. /\ Len(rs2) = N /\ rs2 # <<>> /\ rs # <<>>
      /\ rs[N].index = i /\ rs[N].record = 0 /\ rs2[N].count = rs[N].count + 1
  BY <1>1, EmptySeq DEF ContinuesRun, Typed
<1>3. \A j \in 1 .. N :
        /\ rs2[j].index = rs[j].index
        /\ rs2[j].first = rs[j].first
        /\ j # N => rs2[j].count = rs[j].count
        /\ rs2[j].pos = rs[j].pos
        /\ rs2[j].record = rs[j].record
  BY DEF ContinuesRun
<1>4. /\ Len(cs2) = Len(cs) + 1 /\ cs2[Len(cs) + 1] = i
      /\ \A n \in 1 .. Len(cs) : cs2[n] = cs[n]
  BY DEF ContinuesRun
<1>5. /\ Len(lg2) = Len(lg) + d
      /\ \A m \in 1 .. Len(lg) : lg2[m] = lg[m]
      /\ i \notin NoArgs => lg2[Len(lg) + 1] = ArgsToken(i, Len(cs) + 1)
  BY DEF ContinuesRun
<1>6. \A j \in 1 .. N : /\ rs[j].first \in Nat /\ rs[j].count \in Nat
                         /\ rs[j].pos \in Nat /\ rs[j].record \in Nat
                         /\ Tokens(rs[j]) \in Nat \ {0}
  BY RunFields DEF Typed
<1>7. \A j \in 1 .. N :
        /\ rs[j].first >= 1 /\ rs[j].pos >= 1 /\ rs[j].count >= 1
        /\ rs[j].first + rs[j].count <= Len(cs) + 1
        /\ rs[j].pos + Tokens(rs[j]) <= Len(lg) + 1
        /\ rs[j].record <= Len(rl)
  BY DEF Describes, Bounded
<1>8. Tokens(rs2[N]) = Tokens(rs[N]) + d
  <2>1. N \in 1 .. N /\ rs[N].count \in Nat
    BY <1>1, <1>6
  <2> QED BY <2>1, <1>2, <1>3 DEF Tokens
<1>9. \A j \in 1 .. N : j # N => Tokens(rs2[j]) = Tokens(rs[j])
  BY <1>3 DEF Tokens
<1>10. rs[N].first + rs[N].count = Len(cs) + 1
  BY <1>1 DEF Describes, Partition
<1>11. rs[N].pos + Tokens(rs[N]) = Len(lg) + 1
  BY <1>1 DEF Describes, Holds
<1>12. d \in {0, 1} /\ N \in 1 .. N /\ 1 \in 1 .. N
  BY <1>1
<1>13. \A j \in 1 .. N : j # N => j + 1 \in 1 .. N
  BY <1>1
<1> HIDE DEF N, d
<1>a. rs2[N].pos + Tokens(rs2[N]) = Len(lg2) + 1
  <2> DEFINE p == rs[N].pos
             m == Tokens(rs[N])
             m2 == Tokens(rs2[N])
  <2>1. p \in Nat /\ m \in Nat /\ p + m = Len(lg) + 1 /\ m2 = m + d
    BY <1>6, <1>8, <1>11, <1>12
  <2>2. rs2[N].pos = p
    BY <1>3, <1>12
  <2> HIDE DEF p, m, m2
  <2>3. p + m2 = Len(lg2) + 1
    BY <2>1, <1>1, <1>5, <1>12
  <2> QED BY <2>2, <2>3 DEF m2
<1>b. rs2[N].first + rs2[N].count = Len(cs2) + 1 /\ rs2[N].count >= 1
  <2>1. rs[N].first \in Nat /\ rs[N].count \in Nat /\ rs2[N].first = rs[N].first
    BY <1>3, <1>6, <1>12
  <2> DEFINE f == rs[N].first
             c == rs[N].count
  <2>2. f \in Nat /\ c \in Nat /\ f + c = Len(cs) + 1
    BY <2>1, <1>10
  <2>3. rs2[N].first = f /\ rs2[N].count = c + 1
    BY <2>1, <1>2
  <2> HIDE DEF f, c
  <2>4. Len(cs2) = Len(cs) + 1 /\ Len(cs) \in Nat
    BY <1>1, <1>4
  <2> QED BY <2>2, <2>3, <2>4
<1>14. Bounded(rs2, cs2, lg2, rl)
  <2> SUFFICES ASSUME NEW j \in 1 .. N
               PROVE  /\ rs2[j].first >= 1 /\ rs2[j].pos >= 1 /\ rs2[j].count >= 1
                      /\ rs2[j].first + rs2[j].count <= Len(cs2) + 1
                      /\ rs2[j].pos + Tokens(rs2[j]) <= Len(lg2) + 1
                      /\ rs2[j].record <= Len(rl)
    BY <1>2 DEF Bounded
  <2>1. rs2[j].first >= 1 /\ rs2[j].pos >= 1 /\ rs2[j].record <= Len(rl)
    BY <1>3, <1>7
  <2>2. CASE j = N
    <3>1. Len(cs2) + 1 <= Len(cs2) + 1 /\ Len(lg2) + 1 <= Len(lg2) + 1
      BY <1>1, <1>4, <1>5, <1>12
    <3> QED BY <2>1, <2>2, <3>1, <1>a, <1>b
  <2>3. CASE j # N
    <3>1. /\ rs[j].first \in Nat /\ rs[j].count \in Nat /\ rs[j].pos \in Nat
          /\ Tokens(rs[j]) \in Nat
      BY <1>6
    <3>2. /\ rs[j].count >= 1 /\ rs[j].first + rs[j].count <= Len(cs) + 1
          /\ rs[j].pos + Tokens(rs[j]) <= Len(lg) + 1
      BY <1>7
    <3>3. /\ rs2[j].first = rs[j].first /\ rs2[j].pos = rs[j].pos
          /\ rs2[j].count = rs[j].count /\ Tokens(rs2[j]) = Tokens(rs[j])
      BY <2>3, <1>3, <1>9
    <3>4. Len(cs2) = Len(cs) + 1 /\ Len(lg2) = Len(lg) + d
      BY <1>4, <1>5
    <3>5. rs2[j].count >= 1
      BY <3>2, <3>3
    <3> DEFINE f == rs[j].first
               c == rs[j].count
               p == rs[j].pos
               m == Tokens(rs[j])
    <3>6. /\ f \in Nat /\ c \in Nat /\ f + c <= Len(cs) + 1
          /\ p \in Nat /\ m \in Nat /\ p + m <= Len(lg) + 1
      BY <3>1, <3>2
    <3> HIDE DEF f, c, p, m
    <3>7. f + c <= Len(cs2) + 1 /\ p + m <= Len(lg2) + 1
      BY <3>4, <3>6, <1>1, <1>12
    <3> QED BY <2>1, <3>3, <3>5, <3>7 DEF f, c, p, m
  <2> QED BY <2>2, <2>3
<1>15. Partition(rs2, cs2)
  <2>1. rs2[1].first = 1
    BY <1>2, <1>3, <1>12 DEF Describes, Partition
  <2>2. ASSUME NEW j \in 1 .. N
        PROVE  rs2[j].first + rs2[j].count
                 = IF j = Len(rs2) THEN Len(cs2) + 1 ELSE rs2[j + 1].first
    <3>1. CASE j = N
      BY <3>1, <1>2, <1>b
    <3>2. CASE j # N
      <4>1. rs[j].first + rs[j].count = rs[j + 1].first
        BY <3>2 DEF Describes, Partition, N
      <4>2. rs2[j + 1].first = rs[j + 1].first
        BY <3>2, <1>3, <1>13
      <4> QED BY <3>2, <4>1, <4>2, <1>2, <1>3
    <3> QED BY <3>1, <3>2
  <2>3. ASSUME NEW j \in 1 .. N,
               NEW n \in rs2[j].first .. rs2[j].first + rs2[j].count - 1
        PROVE  cs2[n] = rs2[j].index
    <3>1. CASE n \in rs[j].first .. rs[j].first + rs[j].count - 1
      <4> DEFINE f == rs[j].first
                 c == rs[j].count
      <4>1. f \in Nat /\ c \in Nat /\ f >= 1 /\ f + c <= Len(cs) + 1 /\ n \in f .. f + c - 1
        BY <3>1, <1>6, <1>7
      <4> HIDE DEF f, c
      <4>2. n \in 1 .. Len(cs)
        BY <4>1, <1>1
      <4>3. cs[n] = rs[j].index
        BY <3>1 DEF Describes, Partition, N
      <4> QED BY <4>2, <4>3, <1>3, <1>4
    <3>2. CASE n \notin rs[j].first .. rs[j].first + rs[j].count - 1
      <4>1. j = N
        BY <3>2, <1>3
      <4>2. rs[N].first \in Nat /\ rs[N].count \in Nat /\ rs2[N].first = rs[N].first
        BY <1>3, <1>6, <1>12
      <4>3. n = rs[N].first + rs[N].count
        BY <3>2, <4>1, <4>2, <1>2
      <4> QED BY <4>1, <4>3, <1>2, <1>3, <1>4, <1>10
    <3> QED BY <3>1, <3>2
  <2> QED BY <1>2, <2>1, <2>2, <2>3 DEF Partition
<1>16. Holds(rs2, lg2)
  <2>1. rs2[1].pos = 1
    BY <1>2, <1>3, <1>12 DEF Describes, Holds
  <2>2. ASSUME NEW j \in 1 .. N
        PROVE  rs2[j].pos + Tokens(rs2[j])
                 = IF j = Len(rs2) THEN Len(lg2) + 1 ELSE rs2[j + 1].pos
    <3>1. CASE j = N
      BY <3>1, <1>2, <1>a
    <3>2. CASE j # N
      <4>1. rs[j].pos + Tokens(rs[j]) = rs[j + 1].pos
        BY <3>2 DEF Describes, Holds, N
      <4>2. rs2[j + 1].pos = rs[j + 1].pos
        BY <3>2, <1>3, <1>13
      <4> QED BY <3>2, <4>1, <4>2, <1>2, <1>3, <1>9
    <3> QED BY <3>1, <3>2
  <2>3. ASSUME NEW j \in 1 .. N
        PROVE  lg2[rs2[j].pos] = IndexToken(rs2[j].index)
    <3> DEFINE p == rs[j].pos
               m == Tokens(rs[j])
    <3>1. p \in Nat /\ m \in Nat \ {0} /\ p >= 1 /\ p + m <= Len(lg) + 1
      BY <1>6, <1>7
    <3>2. lg[p] = IndexToken(rs[j].index) /\ rs2[j].pos = p /\ rs2[j].index = rs[j].index
      BY <1>3 DEF Describes, Holds, N
    <3> HIDE DEF p, m
    <3>3. p \in 1 .. Len(lg)
      BY <3>1, <1>1
    <3> QED BY <3>2, <3>3, <1>5
  <2>4. ASSUME NEW j \in 1 .. N, NEW k \in 1 .. Tokens(rs2[j]) - 1
        PROVE  lg2[rs2[j].pos + k] = ArgsToken(rs2[j].index, rs2[j].first + k - 1)
    <3>0. rs2[j].pos = rs[j].pos /\ rs2[j].index = rs[j].index /\ rs2[j].first = rs[j].first
      BY <1>3
    <3>1. CASE k \in 1 .. Tokens(rs[j]) - 1
      <4> DEFINE p == rs[j].pos
                 m == Tokens(rs[j])
      <4>1. p \in Nat /\ m \in Nat /\ p >= 1 /\ p + m <= Len(lg) + 1 /\ k \in 1 .. m - 1
        BY <3>1, <1>6, <1>7
      <4>2. lg[p + k] = ArgsToken(rs[j].index, rs[j].first + k - 1)
        BY <3>1 DEF Describes, Holds, N
      <4> HIDE DEF m
      <4>3. p + k \in 1 .. Len(lg)
        <5> HIDE DEF p
        <5> QED BY <4>1, <1>1
      <4> QED BY <4>2, <4>3, <3>0, <1>5
    <3>2. CASE k \notin 1 .. Tokens(rs[j]) - 1
      <4>1. j = N
        BY <3>2, <1>9
      <4>2. /\ rs[N].first \in Nat /\ rs[N].count \in Nat /\ rs[N].pos \in Nat
            /\ Tokens(rs[N]) \in Nat \ {0}
        BY <1>6, <1>12
      <4>3. k = Tokens(rs[N]) /\ d = 1
        BY <3>2, <4>1, <4>2, <1>8, <1>12
      <4>4. i \notin NoArgs
        BY <4>3 DEF d
      <4>5. Tokens(rs[N]) = 1 + rs[N].count
        BY <4>4, <1>2 DEF Tokens
      <4>6. rs[N].pos + k = Len(lg) + 1 /\ rs[N].first + k - 1 = Len(cs) + 1
        BY <4>2, <4>3, <4>5, <1>10, <1>11
      <4> QED BY <3>0, <4>1, <4>4, <4>6, <1>2, <1>5
    <3> QED BY <3>1, <3>2
  <2>5. \A j \in 1 .. Len(rs2) : lg2[rs2[j].pos] = IndexToken(rs2[j].index)
    BY <1>2, <2>3
  <2>6. \A j \in 1 .. Len(rs2) :
          \A k \in 1 .. Tokens(rs2[j]) - 1 :
            lg2[rs2[j].pos + k] = ArgsToken(rs2[j].index, rs2[j].first + k - 1)
    BY <1>2, <2>4
  <2>7. \A j \in 1 .. Len(rs2) :
          rs2[j].pos + Tokens(rs2[j])
            = IF j = Len(rs2) THEN Len(lg2) + 1 ELSE rs2[j + 1].pos
    BY <1>2, <2>2
  <2> QED BY <1>2, <2>1, <2>5, <2>6, <2>7, Zenon DEF Holds
<1>17. Names(rs2, rl)
  <2>1. ASSUME NEW j \in 1 .. N, rs2[j].record = 0
        PROVE  j = Len(rs2) \/ rs2[j].count = 1
    <3>1. rs[j].record = 0 => j = N \/ rs[j].count = 1
      BY DEF Describes, Names, N
    <3> QED BY <2>1, <3>1, <1>2, <1>3
  <2>2. ASSUME NEW j \in 1 .. N, rs2[j].record # 0
        PROVE  /\ rs2[j].count > 1
               /\ rl[rs2[j].record] = [index |-> rs2[j].index, count |-> rs2[j].count]
    <3>1. j # N /\ rs[j].record # 0
      BY <2>2, <1>2, <1>3
    <3>2. rs[j].count > 1 /\ rl[rs[j].record] = [index |-> rs[j].index, count |-> rs[j].count]
      BY <3>1 DEF Describes, Names, N
    <3> QED BY <3>1, <3>2, <1>3
  <2>3. ASSUME NEW n \in 1 .. Len(rl)
        PROVE  \E j \in 1 .. N : rs2[j].record = n
    <3>1. PICK j \in 1 .. N : rs[j].record = n
      BY DEF Describes, Names, N
    <3> QED BY <3>1, <1>3
  <2>4. ASSUME NEW j \in 1 .. N, NEW k \in 1 .. N,
               j < k, rs2[j].record # 0, rs2[k].record # 0
        PROVE  rs2[j].record < rs2[k].record
    <3>1. rs2[j].record = rs[j].record /\ rs2[k].record = rs[k].record
      BY <1>3
    <3>2. j < k /\ rs[j].record # 0 /\ rs[k].record # 0 => rs[j].record < rs[k].record
      BY DEF Describes, Names, N
    <3> QED BY <2>4, <3>1, <3>2
  <2> QED BY <1>2, <2>1, <2>2, <2>3, <2>4 DEF Names
<1> QED BY <1>14, <1>15, <1>16, <1>17 DEF Describes

-----------------------------------------------------------------------------

\* How m_runlength_index and m_current_runlength relate to the last run.
CurrentRun ==
  runs # <<>> =>
    /\ runs[Len(runs)].index = m_runlength_index
    /\ IF m_current_runlength = 0
       THEN runs[Len(runs)].record # 0
       ELSE /\ runs[Len(runs)].record = 0
            /\ runs[Len(runs)].count = m_current_runlength

\* The length of the last run, if it has one to record, is recorded.
Settled(rs) == rs # <<>> => rs[Len(rs)].record # 0 \/ rs[Len(rs)].count = 1

\* The inductive invariant.
IInv ==
  /\ EncoderTypeOK
  /\ runs = <<>> => m_runlength_index = 0 /\ m_current_runlength = 0
  /\ ~ orphaned =>
       /\ Describes(runs, calls, log, runlengths)
       /\ CurrentRun
       /\ state = "closed" => Settled(runs)

LEMMA InvariantDescribes == IInv => StreamsDescribeCalls
<1> SUFFICES ASSUME IInv, ~ orphaned
             PROVE  RunsPartitionCalls /\ LogHoldsRuns /\ RecordsNameRuns
  BY DEF StreamsDescribeCalls
<1>1. Describes(runs, calls, log, runlengths) /\ (state = "closed" => Settled(runs))
  BY DEF IInv
<1>2. RunsPartitionCalls
  BY <1>1, Zenon DEF Describes, Partition, RunsPartitionCalls
<1>3. LogHoldsRuns
  BY <1>1, Zenon DEF Describes, Holds, LogHoldsRuns
<1>4. RecordsNameRuns
  <2>1. ASSUME NEW j \in 1 .. Len(runs), runs[j].record = 0
        PROVE  runs[j].count = 1 \/ (j = Len(runs) /\ state = "open")
    <3>1. j = Len(runs) \/ runs[j].count = 1
      BY <1>1, <2>1 DEF Describes, Names
    <3>2. CASE j = Len(runs) /\ state = "closed"
      <4>1. runs # <<>>
        BY <3>2, EmptySeq
      <4> QED BY <1>1, <2>1, <3>2, <4>1 DEF Settled
    <3>3. state \in {"open", "closed"}
      BY DEF IInv, EncoderTypeOK
    <3> QED BY <3>1, <3>2, <3>3
  <2>2. ASSUME NEW j \in 1 .. Len(runs), runs[j].record # 0
        PROVE  /\ runs[j].count > 1
               /\ runs[j].record <= Len(runlengths)
               /\ runlengths[runs[j].record]
                    = [index |-> runs[j].index, count |-> runs[j].count]
    BY <1>1, <2>2 DEF Describes, Names, Bounded
  <2>3. \A r \in 1 .. Len(runlengths) : \E j \in 1 .. Len(runs) : runs[j].record = r
    BY <1>1 DEF Describes, Names
  <2>4. \A j, k \in 1 .. Len(runs) :
          j < k /\ runs[j].record # 0 /\ runs[k].record # 0
            => runs[j].record < runs[k].record
    BY <1>1 DEF Describes, Names
  <2> QED BY <2>1, <2>2, <2>3, <2>4 DEF RecordsNameRuns
<1> QED BY <1>2, <1>3, <1>4

LEMMA RecordOfCurrentType ==
  ASSUME EncoderTypeOK, runs # <<>>
  PROVE  /\ RecordOfCurrent \in Nat \ {0}
         /\ runs[Len(runs)].record # 0 => RecordOfCurrent = runs[Len(runs)].record
         /\ runs[Len(runs)].record = 0 => RecordOfCurrent = Len(runlengths) + 1
<1>1. runs \in Seq(Run) /\ Len(runs) \in 1 .. Len(runs) /\ Len(runlengths) \in Nat
  BY EmptySeq, LenProperties DEF EncoderTypeOK
<1>2. runs[Len(runs)].record \in Nat
  BY <1>1, RunFields
<1> QED BY <1>1, <1>2 DEF RecordOfCurrent

\* The types of what a recording step leaves.
LEMMA RecordTypes ==
  ASSUME IInv
  PROVE  /\ RunsWithRecord \in Seq(Run)
         /\ RecordsWithCurrent \in Seq(Record)
         /\ Len(RunsWithRecord) = Len(runs)
         /\ EndsRepeatedRun => runs # <<>>
<1>1. /\ runs \in Seq(Run) /\ runlengths \in Seq(Record) /\ m_current_runlength \in Nat
      /\ m_runlength_index \in Index /\ Len(runlengths) + 1 \in Nat
  BY LenProperties DEF IInv, EncoderTypeOK
<1>2. EndsRepeatedRun => runs # <<>>
  BY DEF IInv, EndsRepeatedRun
<1>3. CASE EndsRepeatedRun
  <2>1. RunsWithRecord \in Seq(Run) /\ Len(RunsWithRecord) = Len(runs)
    <3>1. RecordOfCurrent \in Nat
      BY <1>2, <1>3, RecordOfCurrentType DEF IInv
    <3> QED BY <1>1, <1>2, <1>3, <3>1, RecordedRuns DEF RunsWithRecord
  <2>2. [index |-> m_runlength_index, count |-> m_current_runlength] \in Record
    BY <1>1 DEF Record
  <2>3. RecordsWithCurrent \in Seq(Record)
    BY <1>1, <1>3, <2>2, AppendProperties DEF RecordsWithCurrent
  <2> QED BY <1>2, <2>1, <2>3
<1>4. CASE ~ EndsRepeatedRun
  BY <1>1, <1>4 DEF RunsWithRecord, RecordsWithCurrent
<1> QED BY <1>3, <1>4

\* write_current_runlength_to_runlength_file settles the last run.
LEMMA RecordStep ==
  ASSUME IInv, ~ orphaned
  PROVE  /\ Describes(RunsWithRecord, calls, log, RecordsWithCurrent)
         /\ Settled(RunsWithRecord)
         /\ runs # <<>> =>
              /\ RunsWithRecord # <<>>
              /\ RunsWithRecord[Len(runs)].index = runs[Len(runs)].index
              /\ EndsRepeatedRun => RunsWithRecord[Len(runs)].record # 0
              /\ ~ EndsRepeatedRun => RunsWithRecord = runs
<1>1. /\ runs \in Seq(Run) /\ calls \in Seq(Index) /\ log \in Seq(Token)
      /\ runlengths \in Seq(Record) /\ m_current_runlength \in Nat
      /\ Describes(runs, calls, log, runlengths) /\ CurrentRun
  BY DEF IInv, EncoderTypeOK
<1>2. CASE EndsRepeatedRun
  <2> DEFINE N == Len(runs)
             rs2 == RunsWithRecord
             rl2 == RecordsWithCurrent
  <2>1. runs # <<>> /\ rs2 \in Seq(Run) /\ Len(rs2) = N /\ rl2 \in Seq(Record)
    BY <1>2, RecordTypes
  <2>2. /\ runs[N].record = 0 /\ runs[N].count = m_current_runlength
        /\ runs[N].count > 1 /\ runs[N].index = m_runlength_index
    BY <1>1, <1>2, <2>1 DEF CurrentRun, EndsRepeatedRun
  <2>3. Len(runlengths) + 1 \in Nat /\ N \in 1 .. N
    BY <1>1, <2>1, LenProperties, EmptySeq
  <2>4. /\ \A j \in 1 .. N :
             /\ rs2[j].index = runs[j].index
             /\ rs2[j].first = runs[j].first
             /\ rs2[j].count = runs[j].count
             /\ rs2[j].pos = runs[j].pos
             /\ j # N => rs2[j].record = runs[j].record
        /\ rs2[N].record = Len(runlengths) + 1
    <3>1. RecordOfCurrent = Len(runlengths) + 1
      BY <2>1, <2>2, RecordOfCurrentType DEF IInv
    <3> QED BY <1>1, <1>2, <2>1, <2>3, <3>1, RecordedRuns DEF RunsWithRecord
  <2>5. rl2 = Append(runlengths, [index |-> runs[N].index, count |-> runs[N].count])
    BY <1>2, <2>2 DEF RecordsWithCurrent
  <2> HIDE DEF rs2, rl2
  <2>6. Describes(rs2, calls, log, rl2)
    BY <1>1, <2>1, <2>2, <2>4, <2>5, RecordingDescribes
  <2>7. rs2 # <<>> /\ rs2[N].record # 0 /\ rs2[N].index = runs[N].index
    <3>1. Len(runlengths) \in Nat /\ N >= 1
      BY <1>1, <2>1, LenProperties, EmptySeq
    <3> QED BY <2>1, <2>3, <2>4, <3>1, EmptySeq
  <2> QED BY <1>2, <2>1, <2>6, <2>7 DEF rs2, rl2, Settled
<1>3. CASE ~ EndsRepeatedRun
  <2>1. RunsWithRecord = runs /\ RecordsWithCurrent = runlengths
    BY <1>3 DEF RunsWithRecord, RecordsWithCurrent
  <2>2. Settled(runs)
    BY <1>1, <1>3 DEF Settled, CurrentRun, EndsRepeatedRun
  <2> QED BY <1>1, <1>3, <2>1, <2>2
<1> QED BY <1>2, <1>3

\* A call that begins a run.
LEMMA StartStep ==
  ASSUME IInv, ~ orphaned, NEW i \in Index, NEW rs, NEW rl,
         rs \in Seq(Run), rl \in Seq(Record),
         Describes(rs, calls, log, rl), Settled(rs)
  PROVE  Describes(Append(rs, StartedRun(i)), Append(calls, i),
                   Started(log, i, Len(calls) + 1), rl)
<1> DEFINE r == StartedRun(i)
           n == Len(calls) + 1
           rs2 == Append(rs, r)
           cs2 == Append(calls, i)
           lg2 == Started(log, i, n)
<1>1. calls \in Seq(Index) /\ log \in Seq(Token) /\ n \in Nat /\ Len(log) + 1 \in Nat
  BY LenProperties DEF IInv, EncoderTypeOK
<1>2. /\ r \in Run /\ r.index = i /\ r.first = Len(calls) + 1 /\ r.count = 1
      /\ r.pos = Len(log) + 1 /\ r.record = 0
  BY <1>1 DEF StartedRun, Run
<1> HIDE DEF r
<1>3. /\ rs2 \in Seq(Run) /\ Len(rs2) = Len(rs) + 1 /\ rs2[Len(rs) + 1] = r
      /\ \A j \in 1 .. Len(rs) : rs2[j] = rs[j]
  BY <1>2, AppendProperties
<1>4. /\ cs2 \in Seq(Index) /\ Len(cs2) = Len(calls) + 1 /\ cs2[Len(calls) + 1] = i
      /\ \A m \in 1 .. Len(calls) : cs2[m] = calls[m]
  BY <1>1, AppendProperties
<1>5. /\ lg2 \in Seq(Token) /\ Len(lg2) = Len(log) + 1 + (IF i \in NoArgs THEN 0 ELSE 1)
      /\ \A m \in 1 .. Len(log) : lg2[m] = log[m]
      /\ lg2[Len(log) + 1] = IndexToken(i)
      /\ i \notin NoArgs => lg2[Len(log) + 2] = ArgsToken(i, n)
  BY <1>1, StartedFacts
<1>6. Tokens(r) = 1 + (IF i \in NoArgs THEN 0 ELSE 1)
  BY <1>2 DEF Tokens
<1>7. Len(lg2) = Len(log) + Tokens(r)
  <2>1. Len(log) \in Nat
    BY <1>1, LenProperties
  <2> QED BY <2>1, <1>5, <1>6
<1> HIDE DEF rs2, cs2, lg2
<1>8. StartsRun(rs, calls, log, i, r, rs2, cs2, lg2)
  BY <1>2, <1>3, <1>4, <1>5, <1>7 DEF StartsRun
<1>9. Typed(rs, calls, log, rl) /\ Typed(rs2, cs2, lg2, rl)
  BY <1>1, <1>3, <1>4, <1>5 DEF Typed
<1>10. rs # <<>> => rs[Len(rs)].record # 0 \/ rs[Len(rs)].count = 1
  BY DEF Settled
<1>11. Describes(rs2, cs2, lg2, rl)
  BY <1>8, <1>9, <1>10, StartingDescribes
<1> QED BY <1>11 DEF rs2, cs2, lg2, r

\* A call that continues a run whose length is still being counted.
LEMMA ContinueStep ==
  ASSUME IInv, ~ orphaned, NEW i \in Index, i = m_runlength_index,
         m_current_runlength # 0, runs # <<>>
  PROVE  Describes([runs EXCEPT ![Len(runs)].count = @ + 1], Append(calls, i),
                   Continued(log, i, Len(calls) + 1), runlengths)
<1> DEFINE n == Len(calls) + 1
           rs2 == [runs EXCEPT ![Len(runs)].count = @ + 1]
           cs2 == Append(calls, i)
           lg2 == Continued(log, i, n)
<1>1. /\ runs \in Seq(Run) /\ calls \in Seq(Index) /\ log \in Seq(Token)
      /\ runlengths \in Seq(Record) /\ n \in Nat
      /\ Describes(runs, calls, log, runlengths) /\ CurrentRun
  BY LenProperties DEF IInv, EncoderTypeOK
<1>2. /\ rs2 \in Seq(Run) /\ Len(rs2) = Len(runs)
      /\ \A j \in 1 .. Len(runs) :
           /\ rs2[j].index = runs[j].index
           /\ rs2[j].first = runs[j].first
           /\ j # Len(runs) => rs2[j].count = runs[j].count
           /\ rs2[j].pos = runs[j].pos
           /\ rs2[j].record = runs[j].record
      /\ rs2[Len(runs)].count = runs[Len(runs)].count + 1
  BY <1>1, ContinuedRuns
<1>3. /\ cs2 \in Seq(Index) /\ Len(cs2) = Len(calls) + 1 /\ cs2[Len(calls) + 1] = i
      /\ \A m \in 1 .. Len(calls) : cs2[m] = calls[m]
  BY <1>1, AppendProperties
<1>4. /\ lg2 \in Seq(Token) /\ Len(lg2) = Len(log) + (IF i \in NoArgs THEN 0 ELSE 1)
      /\ \A m \in 1 .. Len(log) : lg2[m] = log[m]
      /\ i \notin NoArgs => lg2[Len(log) + 1] = ArgsToken(i, n)
  BY <1>1, ContinuedFacts
<1>5. runs[Len(runs)].index = i /\ runs[Len(runs)].record = 0
  BY <1>1 DEF CurrentRun
<1> HIDE DEF rs2, cs2, lg2
<1>6. ContinuesRun(runs, calls, log, i, rs2, cs2, lg2)
  BY <1>2, <1>3, <1>4, <1>5 DEF ContinuesRun
<1>7. Typed(runs, calls, log, runlengths) /\ Typed(rs2, cs2, lg2, runlengths)
  BY <1>1, <1>2, <1>3, <1>4 DEF Typed
<1>8. Describes(rs2, cs2, lg2, runlengths)
  BY <1>1, <1>6, <1>7, ContinuingDescribes
<1> QED BY <1>8 DEF rs2, cs2, lg2

\* binary_log::log preserves the types.
LEMMA LogPreservesTypes ==
  ASSUME IInv, NEW i \in Index, Log(i)
  PROVE  EncoderTypeOK'
<1>1. /\ runs \in Seq(Run) /\ calls \in Seq(Index) /\ log \in Seq(Token)
      /\ runlengths \in Seq(Record) /\ m_current_runlength \in Nat
      /\ Len(calls) + 1 \in Nat /\ Len(log) + 1 \in Nat
  BY LenProperties DEF IInv, EncoderTypeOK
<1>2. log' \in Seq(Token)
  <2>1. CASE WritesIndex(i)
    <3>1. log' = Started(log, i, Len(calls) + 1)
      BY <2>1 DEF Log, Started
    <3> QED BY <3>1, <1>1, StartedFacts
  <2>2. CASE ~ WritesIndex(i)
    <3>1. log' = Continued(log, i, Len(calls) + 1)
      BY <2>2 DEF Log, Continued
    <3> QED BY <3>1, <1>1, ContinuedFacts
  <2> QED BY <2>1, <2>2
<1>3. runlengths' \in Seq(Record) /\ m_current_runlength' \in Nat /\ m_runlength_index' \in Index
  BY <1>1, RecordTypes DEF Log
<1>4. calls' \in Seq(Index)
  BY <1>1, AppendProperties DEF Log
<1>5. runs' \in Seq(Run)
  <2>1. CASE WritesIndex(i)
    <3> DEFINE rs == IF m_runlength_index # i THEN RunsWithRecord ELSE runs
    <3>1. rs \in Seq(Run)
      BY <1>1, RecordTypes
    <3>2. StartedRun(i) \in Run
      BY <1>1 DEF StartedRun, Run
    <3>3. runs' = Append(rs, StartedRun(i))
      BY <2>1 DEF Log, RunsWithCall
    <3> HIDE DEF rs
    <3> QED BY <3>1, <3>2, <3>3, AppendProperties
  <2>2. CASE ~ WritesIndex(i)
    <3>1. runs # <<>>
      BY <2>2 DEF IInv, WritesIndex
    <3>2. runs' = [runs EXCEPT ![Len(runs)].count = @ + 1]
      BY <2>2 DEF Log, RunsWithCall
    <3> QED BY <1>1, <3>1, <3>2, ContinuedRuns
  <2> QED BY <2>1, <2>2
<1>6. state' \in {"open", "closed"} /\ orphaned' \in BOOLEAN
  <2>1. state' = state /\ orphaned' = (orphaned \/ Orphan(i))
    BY DEF Log
  <2>2. state \in {"open", "closed"} /\ orphaned \in BOOLEAN
    BY DEF IInv, EncoderTypeOK
  <2> QED BY <2>1, <2>2
<1> QED BY <1>2, <1>3, <1>4, <1>5, <1>6 DEF EncoderTypeOK

\* binary_log::log preserves the invariant.
LEMMA LogPreservesIInv ==
  ASSUME IInv, NEW i \in Index, Log(i)
  PROVE  IInv'
<1>1. /\ runs \in Seq(Run) /\ calls \in Seq(Index) /\ log \in Seq(Token)
      /\ runlengths \in Seq(Record) /\ m_current_runlength \in Nat
  BY DEF IInv, EncoderTypeOK
<1>2. EncoderTypeOK'
  BY LogPreservesTypes
<1>3. runs' # <<>>
  <2>1. CASE WritesIndex(i)
    <3> DEFINE rs == IF m_runlength_index # i THEN RunsWithRecord ELSE runs
    <3>1. rs \in Seq(Run)
      BY <1>1, RecordTypes
    <3>2. StartedRun(i) \in Run
      BY LenProperties, <1>1 DEF StartedRun, Run
    <3>3. runs' = Append(rs, StartedRun(i))
      BY <2>1 DEF Log, RunsWithCall
    <3> HIDE DEF rs
    <3> QED BY <3>1, <3>2, <3>3, AppendProperties
  <2>2. CASE ~ WritesIndex(i)
    <3>1. runs # <<>>
      BY <2>2 DEF IInv, WritesIndex
    <3>2. runs' = [runs EXCEPT ![Len(runs)].count = @ + 1]
      BY <2>2 DEF Log, RunsWithCall
    <3> QED BY <1>1, <3>1, <3>2, ContinuedRuns, EmptySeq, LenProperties
  <2> QED BY <2>1, <2>2
<1>4. state' # "closed"
  BY DEF Log
<1>5. ASSUME ~ orphaned'
      PROVE  Describes(runs', calls', log', runlengths') /\ CurrentRun'
  <2>0. ~ orphaned /\ ~ Orphan(i)
    BY <1>5 DEF Log
  <2>1. CASE WritesIndex(i)
    <3> DEFINE rs == IF m_runlength_index # i THEN RunsWithRecord ELSE runs
    <3>1. /\ rs \in Seq(Run) /\ runlengths' \in Seq(Record)
          /\ Describes(rs, calls, log, runlengths') /\ Settled(rs)
          /\ m_current_runlength' = 1
      <4>1. CASE m_runlength_index # i
        BY <2>0, <4>1, RecordTypes, RecordStep DEF Log
      <4>2. CASE m_runlength_index = i
        <5>1. m_current_runlength = 0
          BY <2>1, <4>2 DEF WritesIndex
        <5>2. Describes(runs, calls, log, runlengths) /\ CurrentRun
          BY <2>0 DEF IInv
        <5>3. Settled(runs)
          BY <5>1, <5>2 DEF Settled, CurrentRun
        <5>4. runlengths' = runlengths /\ m_current_runlength' = 1
          BY <4>2, <5>1 DEF Log
        <5> QED BY <4>2, <5>2, <5>3, <5>4, <1>1
      <4> QED BY <4>1, <4>2
    <3>2. /\ runs' = Append(rs, StartedRun(i))
          /\ calls' = Append(calls, i)
          /\ log' = Started(log, i, Len(calls) + 1)
          /\ m_runlength_index' = i
      BY <2>1 DEF Log, RunsWithCall, Started
    <3> HIDE DEF rs
    <3>3. Describes(runs', calls', log', runlengths')
      BY <2>0, <3>1, <3>2, StartStep
    <3>4. StartedRun(i) \in Run /\ StartedRun(i).index = i
          /\ StartedRun(i).record = 0 /\ StartedRun(i).count = 1
      BY LenProperties, <1>1 DEF StartedRun, Run
    <3>5. runs'[Len(runs')] = StartedRun(i)
      <4>1. Len(runs') = Len(rs) + 1 /\ runs'[Len(rs) + 1] = StartedRun(i)
        BY <3>1, <3>2, <3>4, AppendProperties
      <4> QED BY <4>1
    <3> QED BY <3>1, <3>2, <3>3, <3>4, <3>5 DEF CurrentRun
  <2>2. CASE ~ WritesIndex(i)
    <3>1. m_runlength_index = i /\ m_current_runlength # 0
      BY <2>0, <2>2 DEF WritesIndex, Orphan
    <3>2. runs # <<>>
      BY <2>2 DEF IInv, WritesIndex
    <3>3. /\ runs' = [runs EXCEPT ![Len(runs)].count = @ + 1]
          /\ calls' = Append(calls, i)
          /\ log' = Continued(log, i, Len(calls) + 1)
          /\ runlengths' = runlengths
          /\ m_runlength_index' = i
          /\ m_current_runlength' = m_current_runlength + 1
      BY <2>2, <3>1 DEF Log, RunsWithCall, Continued
    <3>4. Describes(runs', calls', log', runlengths')
      BY <2>0, <3>1, <3>2, <3>3, ContinueStep
    <3>5. /\ runs[Len(runs)].record = 0 /\ runs[Len(runs)].count = m_current_runlength
          /\ runs[Len(runs)].index = i
      BY <2>0, <3>1, <3>2 DEF IInv, CurrentRun
    <3>6. /\ Len(runs') = Len(runs) /\ runs'[Len(runs)].index = i
          /\ runs'[Len(runs)].record = 0
          /\ runs'[Len(runs)].count = m_current_runlength + 1
      <4>1. Len(runs) \in 1 .. Len(runs)
        BY <1>1, <3>2, LenProperties, EmptySeq
      <4> QED BY <1>1, <3>2, <3>3, <3>5, <4>1, ContinuedRuns
    <3>7. m_current_runlength + 1 # 0
      BY <1>1
    <3> QED BY <3>3, <3>4, <3>6, <3>7 DEF CurrentRun
  <2> QED BY <2>1, <2>2
<1> QED BY <1>2, <1>3, <1>4, <1>5 DEF IInv

\* flush() and the destructors preserve the invariant.
LEMMA RecordingPreservesIInv ==
  ASSUME IInv, WriteCurrentRunlength, state' \in {"open", "closed"}
  PROVE  IInv'
<1>1. /\ runs' = RunsWithRecord /\ runlengths' = RecordsWithCurrent
      /\ m_current_runlength' = IF EndsRepeatedRun THEN 0 ELSE m_current_runlength
      /\ UNCHANGED <<m_runlength_index, log, calls, orphaned>>
  BY DEF WriteCurrentRunlength
<1>2. /\ runs \in Seq(Run) /\ m_current_runlength \in Nat /\ Len(runs') = Len(runs)
      /\ runs' \in Seq(Run) /\ runlengths' \in Seq(Record)
  BY <1>1, RecordTypes DEF IInv, EncoderTypeOK
<1>3. EncoderTypeOK'
  BY <1>1, <1>2 DEF IInv, EncoderTypeOK
<1>4. runs' = <<>> => m_runlength_index' = 0 /\ m_current_runlength' = 0
  <2>1. runs' = <<>> => runs = <<>>
    BY <1>2, EmptySeq
  <2> QED BY <1>1, <2>1 DEF IInv
<1>5. ASSUME ~ orphaned'
      PROVE  /\ Describes(runs', calls', log', runlengths')
             /\ Settled(runs')
             /\ CurrentRun'
  <2>1. ~ orphaned /\ CurrentRun
    BY <1>1, <1>5 DEF IInv
  <2>2. /\ Describes(runs', calls', log', runlengths')
        /\ Settled(runs')
        /\ runs # <<>> =>
             /\ runs'[Len(runs)].index = runs[Len(runs)].index
             /\ EndsRepeatedRun => runs'[Len(runs)].record # 0
             /\ ~ EndsRepeatedRun => runs' = runs
    BY <1>1, <2>1, RecordStep
  <2>3. runs' # <<>> => runs # <<>>
    BY <1>2, EmptySeq
  <2>4. CurrentRun'
    <3>1. CASE EndsRepeatedRun
      BY <1>1, <1>2, <2>1, <2>2, <2>3, <3>1 DEF CurrentRun
    <3>2. CASE ~ EndsRepeatedRun
      BY <1>1, <2>1, <2>2, <2>3, <3>2 DEF CurrentRun
    <3> QED BY <3>1, <3>2
  <2> QED BY <2>2, <2>4
<1> QED BY <1>3, <1>4, <1>5 DEF IInv

LEMMA InitEstablishesIInv == EncoderInit => IInv
<1> SUFFICES ASSUME EncoderInit PROVE IInv
  OBVIOUS
<1>1. <<>> \in Seq(Token) /\ <<>> \in Seq(Record) /\ <<>> \in Seq(Index) /\ <<>> \in Seq(Run)
      /\ Len(<<>>) = 0
  BY EmptySeq
<1>2. EncoderTypeOK
  <2>1. 0 \in Index
    BY FormatsAssumption DEF Index
  <2> QED BY <1>1, <2>1 DEF EncoderInit, EncoderTypeOK
<1>3. Describes(<<>>, <<>>, <<>>, <<>>)
  BY <1>1 DEF Describes, Bounded, Partition, Holds, Names
<1>4. CurrentRun
  BY DEF EncoderInit, CurrentRun
<1> QED BY <1>2, <1>3, <1>4 DEF EncoderInit, IInv

LEMMA StutterPreservesIInv == IInv /\ UNCHANGED encoderVars => IInv'
<1> SUFFICES ASSUME IInv, UNCHANGED encoderVars PROVE IInv'
  OBVIOUS
<1>1. /\ m_runlength_index' = m_runlength_index
      /\ m_current_runlength' = m_current_runlength
      /\ log' = log /\ runlengths' = runlengths /\ state' = state
      /\ calls' = calls /\ runs' = runs /\ orphaned' = orphaned
  BY DEF encoderVars, encoder, history
<1> QED BY <1>1 DEF IInv, EncoderTypeOK, CurrentRun

\* The inductive invariant holds in every reachable state.
THEOREM InductiveInvariant == EncoderSpec => []IInv
<1>1. EncoderInit => IInv
  BY InitEstablishesIInv
<1>2. IInv /\ [EncoderNext]_encoderVars => IInv'
  <2> SUFFICES ASSUME IInv, [EncoderNext]_encoderVars PROVE IInv'
    OBVIOUS
  <2>1. ASSUME NEW i \in Index, Log(i) PROVE IInv'
    BY <2>1, LogPreservesIInv
  <2>2. CASE Flush
    BY <2>2, RecordingPreservesIInv DEF Flush
  <2>3. CASE Close
    BY <2>3, RecordingPreservesIInv DEF Close
  <2>4. CASE UNCHANGED encoderVars
    BY <2>4, StutterPreservesIInv
  <2> QED BY <2>1, <2>2, <2>3, <2>4 DEF EncoderNext
<1> QED BY <1>1, <1>2, PTL DEF EncoderSpec

-----------------------------------------------------------------------------

\* Every variable keeps its type.
THEOREM EncoderTypeCorrect == EncoderSpec => []EncoderTypeOK
<1>1. IInv => EncoderTypeOK
  BY DEF IInv
<1> QED BY <1>1, InductiveInvariant, PTL

\* Until a run is continued after a flush, the two streams describe exactly
\* the calls that were made, whatever the mix of formats.
THEOREM StreamsAreFaithful == EncoderSpec => []StreamsDescribeCalls
BY InvariantDescribes, InductiveInvariant, PTL

\* Without a flush() in the middle of the program the current run is always
\* being counted.
Counting ==
  ~ MayFlush =>
    /\ ~ orphaned
    /\ state = "open" /\ runs # <<>> => m_current_runlength # 0

\* A program that only destroys its logger never loses a call to a run whose
\* length is already in the file.
THEOREM OrphansComeFromFlush == EncoderSpec => []OrphansNeedFlush
<1>1. EncoderInit => Counting
  BY DEF EncoderInit, Counting
<1>2. IInv /\ Counting /\ [EncoderNext]_encoderVars => Counting'
  <2> SUFFICES ASSUME IInv, Counting, [EncoderNext]_encoderVars, ~ MayFlush
               PROVE  /\ ~ orphaned'
                      /\ state' = "open" /\ runs' # <<>> => m_current_runlength' # 0
    BY DEF Counting
  <2>1. ASSUME NEW i \in Index, Log(i)
        PROVE  ~ orphaned' /\ m_current_runlength' # 0
    <3>1. ~ WritesIndex(i) => runs # <<>>
      BY DEF IInv, WritesIndex
    <3>2. ~ Orphan(i)
      BY <2>1, <3>1 DEF Counting, Orphan, Log
    <3>3. m_current_runlength' # 0
      <4>1. m_current_runlength \in Nat
        BY DEF IInv, EncoderTypeOK
      <4> QED BY <2>1, <4>1 DEF Log
    <3> QED BY <2>1, <3>2, <3>3 DEF Counting, Log
  <2>2. Flush => FALSE
    BY DEF Flush
  <2>3. CASE Close
    BY <2>3 DEF Close, WriteCurrentRunlength, Counting
  <2>4. CASE UNCHANGED encoderVars
    BY <2>4 DEF encoderVars, encoder, history, Counting
  <2> QED BY <2>1, <2>2, <2>3, <2>4 DEF EncoderNext
<1>3. Counting => OrphansNeedFlush
  BY DEF Counting, OrphansNeedFlush
<1> QED BY <1>1, <1>2, <1>3, InductiveInvariant, PTL DEF EncoderSpec
=============================================================================
