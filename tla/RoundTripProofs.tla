--------------------------- MODULE RoundTripProofs ---------------------------
(***************************************************************************)
(* Proofs about module RoundTrip, for every number of formats and of calls *)
(* and wherever the process is killed: the variables keep their types, a   *)
(* durable log entry has its format string in the index file, the unpacker *)
(* prints the calls where the files end with the same run, and of a        *)
(* program that ran to its end exactly when no run was flushed and         *)
(* continued and no record is ambiguous; the calls before the last flush   *)
(* are printed whatever a crash left behind them.                          *)
(***************************************************************************)
EXTENDS RoundTrip, RunLengthProofs, FiniteSetTheorems

(***************************************************************************)
(* The encoder.  What happens to the files and in the unpacker is stutter- *)
(* ing to it, so all that is proved of RunLength holds here.               *)
(***************************************************************************)
LEMMA NextIsEncoderStep == [Next]_vars => [EncoderNext]_encoderVars
<1> SUFFICES ASSUME [Next]_vars PROVE [EncoderNext]_encoderVars
  OBVIOUS
<1>1. ASSUME NEW i \in Index, Call(i) PROVE EncoderNext
  BY <1>1 DEF Call, EncoderNext
<1>2. ASSUME NEW f \in DOMAIN durable, FlushFile(f) PROVE UNCHANGED encoderVars
  BY <1>2 DEF FlushFile
<1>3. CASE FlushRecord
  BY <1>3 DEF FlushRecord, EncoderNext
<1>4. CASE Crash
  BY <1>4 DEF Crash
<1>5. CASE Unpacking
  BY <1>5 DEF Unpacking
<1>6. CASE Terminated \/ UNCHANGED vars
  BY <1>6 DEF Terminated, vars
<1> QED BY <1>1, <1>2, <1>3, <1>4, <1>5, <1>6 DEF Next

LEMMA SpecImpliesEncoderSpec == Spec => EncoderSpec
<1>1. Init => EncoderInit
  BY DEF Init
<1> QED BY <1>1, NextIsEncoderStep, PTL DEF Spec, EncoderSpec

\* Whatever is flushed, killed or unpacked: until a run is continued after a
\* flush, the two streams describe exactly the calls that were made.
THEOREM StreamsFaithful == Spec => []StreamsDescribeCalls
BY SpecImpliesEncoderSpec, StreamsAreFaithful, PTL

-----------------------------------------------------------------------------

\* The format strings in use.
Used == {calls[n] : n \in 1 .. Len(calls)}

LEMMA FormatsFinite ==
  ASSUME NEW S \in SUBSET Index
  PROVE  IsFiniteSet(S) /\ Cardinality(S) \in 0 .. NumFormats
<1>1. NumFormats \in Nat \ {0}
  BY FormatsAssumption
<1>2. IsFiniteSet(Index) /\ Cardinality(Index) = NumFormats
  <2>1. NumFormats - 1 \in Int /\ ~ (0 > NumFormats - 1) /\ NumFormats - 1 - 0 + 1 = NumFormats
    BY <1>1
  <2> QED BY <2>1, FS_Interval DEF Index
<1>3. IsFiniteSet(S) /\ Cardinality(S) <= NumFormats
  BY <1>2, FS_Subset
<1>4. Cardinality(S) \in Nat
  BY <1>3, FS_CardinalityType
<1> QED BY <1>1, <1>3, <1>4

LEMMA UsedFinite ==
  ASSUME EncoderTypeOK
  PROVE  /\ IsFiniteSet(Used) /\ Used \subseteq Index
         /\ Registered \in 0 .. NumFormats
<1>1. calls \in Seq(Index)
  BY DEF EncoderTypeOK
<1>2. Used \subseteq Index
  BY <1>1, ElementOfSeq DEF Used
<1>3. Registered = Cardinality(Used)
  BY DEF Registered, Used
<1> QED BY <1>2, <1>3, FormatsFinite

\* Call sites are numbered as they first run, so an index in use is below the
\* number of format strings registered.
Dense ==
  \A n \in 1 .. Len(calls) : \A m \in 0 .. calls[n] : m \in Used

LEMMA UsedAreRegistered ==
  ASSUME EncoderTypeOK, Dense, NEW i \in Used
  PROVE  i < Registered
<1>1. IsFiniteSet(Used) /\ i \in Index /\ Registered \in Nat
  BY UsedFinite
<1>2. i \in Nat
  BY <1>1, FormatsAssumption DEF Index
<1>3. 0 .. i \in SUBSET Used
  BY DEF Used, Dense
<1>4. Cardinality(0 .. i) <= Cardinality(Used)
  BY <1>1, <1>3, FS_Subset
<1>5. Cardinality(0 .. i) = i + 1
  <2>1. ~ (0 > i) /\ i - 0 + 1 = i + 1 /\ i \in Int /\ 0 \in Int
    BY <1>2
  <2> QED BY <2>1, FS_Interval
<1>6. Registered = Cardinality(Used)
  BY DEF Registered, Used
<1>7. i + 1 <= Registered
  BY <1>4, <1>5, <1>6
<1> QED BY <1>1, <1>2, <1>7

\* A step of the encoder keeps what was called and what was written.
LEMMA LogGrows ==
  ASSUME EncoderTypeOK, NEW i \in Index, Log(i)
  PROVE  /\ calls' \in Seq(Index) /\ Len(calls') = Len(calls) + 1
         /\ calls'[Len(calls) + 1] = i
         /\ \A n \in 1 .. Len(calls) : calls'[n] = calls[n]
         /\ Used' = Used \cup {i}
         /\ Len(log) <= Len(log')
         /\ \A k \in 1 .. Len(log) : log'[k] = log[k]
         /\ \A k \in Len(log) + 1 .. Len(log') : log'[k].index = i
<1>1. calls \in Seq(Index) /\ log \in Seq(Token) /\ Len(calls) \in Nat /\ Len(log) \in Nat
  <2>1. calls \in Seq(Index) /\ log \in Seq(Token)
    BY DEF EncoderTypeOK
  <2> QED BY <2>1, LenProperties
<1>2. calls' = Append(calls, i)
  BY DEF Log
<1>3. /\ calls' \in Seq(Index) /\ Len(calls') = Len(calls) + 1
      /\ calls'[Len(calls) + 1] = i
      /\ \A n \in 1 .. Len(calls) : calls'[n] = calls[n]
  BY <1>1, <1>2, AppendFacts
<1>4. Used' = Used \cup {i}
  <2>1. 1 .. Len(calls) + 1 = 1 .. Len(calls) \cup {Len(calls) + 1}
    BY <1>1
  <2> QED BY <1>3, <2>1 DEF Used
<1> DEFINE head == IF WritesIndex(i) THEN <<IndexToken(i)>> ELSE <<>>
           args == Args(i, Len(calls) + 1)
           new == head \o args
<1>5. /\ head \in Seq(Token) /\ args \in Seq(Token)
      /\ \A k \in 1 .. Len(head) : head[k].index = i
      /\ \A k \in 1 .. Len(args) : args[k].index = i
  <2>1. IndexToken(i) \in Token /\ IndexToken(i).index = i
    BY DEF IndexToken, Token
  <2>2. Len(calls) + 1 \in Nat
    BY <1>1
  <2>3. ArgsToken(i, Len(calls) + 1) \in Token /\ ArgsToken(i, Len(calls) + 1).index = i
    BY <2>2 DEF ArgsToken, Token
  <2>4. <<>> \in Seq(Token) /\ Len(<<>>) = 0 /\ \A t \in Token : <<t>> \in Seq(Token) /\ Len(<<t>>) = 1
    BY EmptySeq
  <2> QED BY <2>1, <2>3, <2>4 DEF Args
<1> HIDE DEF head, args
<1>6. /\ new \in Seq(Token) /\ Len(new) \in Nat
      /\ \A k \in 1 .. Len(new) : new[k].index = i
  <2>1. Len(head) \in Nat /\ Len(args) \in Nat
    BY <1>5, LenProperties
  <2>2. /\ new \in Seq(Token) /\ Len(new) = Len(head) + Len(args)
        /\ \A k \in 1 .. Len(head) + Len(args) :
             new[k] = IF k <= Len(head) THEN head[k] ELSE args[k - Len(head)]
    BY <1>5, ConcatProperties
  <2> HIDE DEF new
  <2>3. ASSUME NEW k \in 1 .. Len(new) PROVE new[k].index = i
    <3>1. CASE k <= Len(head)
      <4>1. k \in 1 .. Len(head) /\ k \in 1 .. Len(head) + Len(args)
        BY <3>1, <2>1, <2>2
      <4> QED BY <4>1, <3>1, <2>2, <1>5
    <3>2. CASE ~ (k <= Len(head))
      <4>1. k - Len(head) \in 1 .. Len(args) /\ k \in 1 .. Len(head) + Len(args)
        BY <3>2, <2>1, <2>2
      <4> QED BY <4>1, <3>2, <2>2, <1>5
    <3> QED BY <3>1, <3>2
  <2> QED BY <2>1, <2>2, <2>3
<1> HIDE DEF new
<1>7. log' = log \o new
  <2>1. log' = (log \o head) \o args
    BY DEF Log, head, args
  <2>2. (log \o head) \o args = log \o (head \o args)
    <3>1. log \in Seq(Token) /\ head \in Seq(Token) /\ args \in Seq(Token)
      BY <1>1, <1>5
    <3> QED BY <3>1, ConcatAssociative
  <2>3. log' = log \o (head \o args)
    BY <2>1, <2>2
  <2> QED BY <2>3 DEF new
<1>8. /\ Len(log') = Len(log) + Len(new)
      /\ \A k \in 1 .. Len(log) + Len(new) :
           log'[k] = IF k <= Len(log) THEN log[k] ELSE new[k - Len(log)]
  BY <1>1, <1>6, <1>7, ConcatProperties
<1>9. Len(log) <= Len(log') /\ \A k \in 1 .. Len(log) : log'[k] = log[k]
  BY <1>1, <1>6, <1>8
<1>10. ASSUME NEW k \in Len(log) + 1 .. Len(log')
       PROVE  log'[k].index = i
  <2>1. k \in 1 .. Len(log) + Len(new) /\ ~ (k <= Len(log)) /\ k - Len(log) \in 1 .. Len(new)
    BY <1>1, <1>6, <1>8
  <2> QED BY <2>1, <1>6, <1>8
<1> QED BY <1>3, <1>4, <1>9, <1>10

-----------------------------------------------------------------------------

\* What the files rely on of the streams: every entry of the log is of a
\* format string in use.
LogUses == \A k \in 1 .. Len(log) : log[k].index \in Used

LEMMA RecordsGrow ==
  ASSUME EncoderTypeOK
  PROVE  /\ runlengths \in Seq(Record) /\ Len(runlengths) \in Nat
         /\ Len(RecordsWithCurrent) \in Nat
         /\ Len(runlengths) <= Len(RecordsWithCurrent)
<1> DEFINE r == [index |-> m_runlength_index, count |-> m_current_runlength]
<1>1. runlengths \in Seq(Record) /\ r \in Record
  BY DEF EncoderTypeOK, Record
<1>2. Len(runlengths) \in Nat
  BY <1>1, LenProperties
<1>3. Len(Append(runlengths, r)) = Len(runlengths) + 1
  BY <1>1, AppendFacts
<1> QED BY <1>1, <1>2, <1>3 DEF RecordsWithCurrent

\* How far the files are flushed.  From the first stage of a flush to its end
\* every format string in use is in the index file.
FilesInv ==
  /\ process \in {"running", "exited", "crashed"}
  /\ stage \in 0 .. 3
  /\ durable \in [{"index", "log", "runlengths"} -> Nat]
  /\ durable["index"] <= Registered
  /\ durable["log"] <= Len(log)
  /\ durable["runlengths"] <= Len(runlengths)
  /\ safe \in 0 .. Len(calls)
  /\ stage > 0 => durable["index"] = Registered
  /\ Dense
  /\ LogUses
  /\ \A k \in 1 .. durable["log"] : log[k].index < durable["index"]

LEMMA CallPreservesFiles ==
  ASSUME EncoderTypeOK, EncoderTypeOK', FilesInv, NEW i \in Index, Call(i)
  PROVE  FilesInv'
<1>1. /\ process' = process /\ stage' = stage /\ durable' = durable /\ safe' = safe
      /\ stage = 0 /\ Log(i)
  BY DEF Call, files
<1>2. /\ calls' \in Seq(Index) /\ Len(calls') = Len(calls) + 1
      /\ calls'[Len(calls) + 1] = i
      /\ \A n \in 1 .. Len(calls) : calls'[n] = calls[n]
      /\ Used' = Used \cup {i}
      /\ Len(log) <= Len(log')
      /\ \A k \in 1 .. Len(log) : log'[k] = log[k]
      /\ \A k \in Len(log) + 1 .. Len(log') : log'[k].index = i
  BY <1>1, LogGrows
<1>3. /\ Len(calls) \in Nat /\ Len(log) \in Nat /\ Len(log') \in Nat
      /\ calls \in Seq(Index)
  <2>1. calls \in Seq(Index) /\ log \in Seq(Token) /\ log' \in Seq(Token)
    BY DEF EncoderTypeOK
  <2> QED BY <2>1, LenProperties
<1>4. Registered <= Registered' /\ Registered \in Nat /\ Registered' \in Nat
  <2>1. IsFiniteSet(Used) /\ Registered \in 0 .. NumFormats
    BY UsedFinite
  <2>2. IsFiniteSet(Used') /\ Cardinality(Used') \in 0 .. NumFormats
    <3>1. Used' \subseteq Index
      BY <1>2, UsedFinite
    <3> QED BY <3>1, FormatsFinite
  <2>3. Cardinality(Used) <= Cardinality(Used')
    BY <2>2, <1>2, FS_Subset
  <2>4. Registered = Cardinality(Used) /\ Registered' = Cardinality(Used')
    BY DEF Registered, Used
  <2>5. NumFormats \in Nat
    BY FormatsAssumption
  <2> QED BY <2>1, <2>2, <2>3, <2>4, <2>5
<1>5. Len(runlengths') >= Len(runlengths) /\ Len(runlengths) \in Nat /\ Len(runlengths') \in Nat
  <2>1. runlengths' = RecordsWithCurrent \/ runlengths' = runlengths
    BY <1>1 DEF Log
  <2> QED BY <2>1, RecordsGrow
<1>6. Dense'
  <2> SUFFICES ASSUME NEW n \in 1 .. Len(calls'), NEW m \in 0 .. calls'[n]
               PROVE  m \in Used'
    BY DEF Dense
  <2>1. CASE n \in 1 .. Len(calls)
    <3>1. m \in 0 .. calls[n]
      BY <2>1, <1>2
    <3> QED BY <2>1, <3>1, <1>2 DEF FilesInv, Dense
  <2>2. CASE n = Len(calls) + 1 /\ m = i
    BY <2>2, <1>2
  <2>3. CASE n = Len(calls) + 1 /\ m # i
    <3>1. m \in 0 .. i - 1 /\ i \in Nat /\ i # 0
      BY <2>3, <1>2, FormatsAssumption DEF Index
    <3>2. PICK l \in 1 .. Len(calls) : calls[l] >= i - 1
      BY <1>1, <3>1 DEF Log, InUseOrNext
    <3>3. calls[l] \in Index
      BY <1>3, ElementOfSeq
    <3>4. m \in 0 .. calls[l]
      BY <3>1, <3>2, <3>3, FormatsAssumption DEF Index
    <3> QED BY <3>4, <1>2 DEF FilesInv, Dense
  <2>4. n \in 1 .. Len(calls) \/ n = Len(calls) + 1
    BY <1>2, <1>3
  <2> QED BY <2>1, <2>2, <2>3, <2>4
<1>7. LogUses'
  <2> SUFFICES ASSUME NEW k \in 1 .. Len(log') PROVE log'[k].index \in Used'
    BY DEF LogUses
  <2>1. CASE k \in 1 .. Len(log)
    BY <2>1, <1>2 DEF FilesInv, LogUses
  <2>2. CASE k \in Len(log) + 1 .. Len(log')
    BY <2>2, <1>2
  <2> QED BY <2>1, <2>2, <1>3
<1>8. \A k \in 1 .. durable["log"] : log'[k].index < durable["index"]
  <2> SUFFICES ASSUME NEW k \in 1 .. durable["log"] PROVE log'[k].index < durable["index"]
    OBVIOUS
  <2>1. durable["log"] \in Nat /\ durable["log"] <= Len(log)
    BY DEF FilesInv
  <2>2. k \in 1 .. Len(log)
    BY <2>1, <1>3
  <2> QED BY <2>2, <1>2 DEF FilesInv
<1>9. durable["index"] <= Registered'
  BY <1>4 DEF FilesInv
<1>10. durable["log"] <= Len(log') /\ durable["runlengths"] <= Len(runlengths')
  BY <1>2, <1>3, <1>5 DEF FilesInv
<1>11. safe \in 0 .. Len(calls')
  BY <1>2, <1>3 DEF FilesInv
<1> QED BY <1>1, <1>6, <1>7, <1>8, <1>9, <1>10, <1>11 DEF FilesInv

LEMMA FlushFilePreservesFiles ==
  ASSUME EncoderTypeOK, FilesInv, NEW f \in DOMAIN durable, FlushFile(f)
  PROVE  FilesInv'
<1>1. /\ calls' = calls /\ log' = log /\ runlengths' = runlengths
      /\ durable' = [durable EXCEPT ![f] = Len(Written[f])]
      /\ stage' = (stage + 1) % 4 /\ FlushOrder[stage + 1] = f
      /\ IF stage' = 0 THEN EndOfFlush ELSE UNCHANGED <<process, disk, safe>>
      /\ Len(FlushOrder) = 4
  BY DEF FlushFile, FlushOrder, encoderVars, encoder, history
<1>2. Used' = Used /\ Registered' = Registered /\ Dense' /\ LogUses'
  BY <1>1 DEF Used, Registered, FilesInv, Dense, LogUses
<1>3. calls \in Seq(Index) /\ log \in Seq(Token) /\ runlengths \in Seq(Record)
  BY DEF EncoderTypeOK
<1>4. Len(calls) \in Nat /\ Len(log) \in Nat /\ Len(runlengths) \in Nat
  BY <1>3, LenProperties
<1>5. Registered \in Nat
  BY UsedFinite, FormatsAssumption
<1>6. /\ Len(Written["index"]) = Registered /\ Len(Written["log"]) = Len(log)
      /\ Len(Written["runlengths"]) = Len(runlengths)
  <2>1. IndexEntries(Registered) \in Seq({"whole"}) /\ Len(IndexEntries(Registered)) = Registered
    BY <1>5 DEF IndexEntries
  <2> QED BY <2>1 DEF Written
<1>7. /\ stage = 0 => f = "index" /\ stage' = 1
      /\ stage = 1 => f = "log" /\ stage' = 2
      /\ stage = 3 => f = "runlengths" /\ stage' = 0
      /\ stage # 2 /\ stage \in 0 .. 3
  <2>1. f \in {"index", "log", "runlengths"} /\ stage \in 0 .. 3
    BY DEF FilesInv
  <2> QED BY <2>1, <1>1 DEF FlushOrder
<1>8. process' \in {"running", "exited", "crashed"} /\ safe' \in 0 .. Len(calls')
  BY <1>1, <1>4 DEF EndOfFlush, FilesInv
<1>9. durable' \in [{"index", "log", "runlengths"} -> Nat]
  BY <1>1, <1>4, <1>5, <1>6, <1>7 DEF FilesInv
<1>10. CASE stage = 0
  <2>1. durable' = [durable EXCEPT !["index"] = Registered] /\ stage' = 1
    BY <1>1, <1>6, <1>7, <1>10
  <2>2. /\ durable'["index"] = Registered /\ durable'["log"] = durable["log"]
        /\ durable'["runlengths"] = durable["runlengths"]
    BY <2>1 DEF FilesInv
  <2>3. ASSUME NEW k \in 1 .. durable'["log"] PROVE log'[k].index < durable'["index"]
    <3>1. durable["log"] \in Nat /\ durable["log"] <= Len(log)
      BY DEF FilesInv
    <3>2. k \in 1 .. Len(log)
      BY <3>1, <2>2, <1>4
    <3>3. log[k].index \in Used
      BY <3>2 DEF FilesInv, LogUses
    <3>4. log[k].index < Registered
      BY <3>3, UsedAreRegistered DEF FilesInv
    <3> QED BY <3>4, <2>2, <1>1
  <2>4. /\ durable'["index"] <= Registered' /\ durable'["log"] <= Len(log')
        /\ durable'["runlengths"] <= Len(runlengths')
        /\ stage' > 0 => durable'["index"] = Registered'
    BY <1>1, <1>2, <1>5, <2>2 DEF FilesInv
  <2>5. stage' \in 0 .. 3
    BY <2>1
  <2> QED BY <1>2, <1>8, <1>9, <2>3, <2>4, <2>5 DEF FilesInv
<1>11. CASE stage = 1
  <2>1. durable' = [durable EXCEPT !["log"] = Len(log)] /\ stage' = 2
    BY <1>1, <1>6, <1>7, <1>11
  <2>2. /\ durable'["index"] = Registered /\ durable'["log"] = Len(log)
        /\ durable'["runlengths"] = durable["runlengths"]
    BY <2>1, <1>11 DEF FilesInv
  <2>3. ASSUME NEW k \in 1 .. durable'["log"] PROVE log'[k].index < durable'["index"]
    <3>1. log[k].index \in Used
      BY <2>2 DEF FilesInv, LogUses
    <3>2. log[k].index < Registered
      BY <3>1, UsedAreRegistered DEF FilesInv
    <3> QED BY <3>2, <2>2, <1>1
  <2>4. /\ durable'["index"] <= Registered' /\ durable'["log"] <= Len(log')
        /\ durable'["runlengths"] <= Len(runlengths')
        /\ stage' > 0 => durable'["index"] = Registered'
    BY <1>1, <1>2, <1>4, <1>5, <2>2 DEF FilesInv
  <2>5. stage' \in 0 .. 3
    BY <2>1
  <2> QED BY <1>2, <1>8, <1>9, <2>3, <2>4, <2>5 DEF FilesInv
<1>12. CASE stage = 3
  <2>1. durable' = [durable EXCEPT !["runlengths"] = Len(runlengths)] /\ stage' = 0
    BY <1>1, <1>6, <1>7, <1>12
  <2>2. /\ durable'["index"] = durable["index"] /\ durable'["log"] = durable["log"]
        /\ durable'["runlengths"] = Len(runlengths)
    BY <2>1 DEF FilesInv
  <2>3. /\ durable'["index"] <= Registered' /\ durable'["log"] <= Len(log')
        /\ durable'["runlengths"] <= Len(runlengths')
    BY <1>1, <1>2, <1>4, <2>2 DEF FilesInv
  <2>4. \A k \in 1 .. durable'["log"] : log'[k].index < durable'["index"]
    BY <1>1, <2>2 DEF FilesInv
  <2>5. stage' \in 0 .. 3 /\ ~ (stage' > 0)
    BY <2>1
  <2> QED BY <1>2, <1>8, <1>9, <2>3, <2>4, <2>5 DEF FilesInv
<1> QED BY <1>7, <1>10, <1>11, <1>12

LEMMA OthersPreserveFiles ==
  ASSUME EncoderTypeOK, FilesInv,
         FlushRecord \/ Crash \/ Unpacking \/ Terminated \/ UNCHANGED vars
  PROVE  FilesInv'
<1>1. CASE FlushRecord
  <2>1. /\ calls' = calls /\ log' = log /\ runlengths' = RecordsWithCurrent
        /\ process' = process /\ durable' = durable /\ safe' = safe
        /\ stage' = stage + 1 /\ FlushOrder[stage + 1] = "record"
    BY <1>1 DEF FlushRecord, Flush, Close, WriteCurrentRunlength
  <2>2. Used' = Used /\ Registered' = Registered /\ Dense' /\ LogUses'
    BY <2>1 DEF Used, Registered, FilesInv, Dense, LogUses
  <2>3. stage = 2 /\ stage' = 3
    BY <2>1 DEF FlushOrder, FilesInv
  <2>4. durable["runlengths"] <= Len(runlengths')
    BY <2>1, RecordsGrow DEF FilesInv
  <2> QED BY <2>1, <2>2, <2>3, <2>4 DEF FilesInv
<1>2. CASE Crash \/ Unpacking \/ Terminated \/ UNCHANGED vars
  <2>1. /\ calls' = calls /\ log' = log /\ runlengths' = runlengths
        /\ durable' = durable /\ safe' = safe /\ stage' = stage
        /\ process' \in {process, "crashed"}
    BY <1>2 DEF Crash, Unpacking, Terminated, vars, files, encoderVars, encoder, history
  <2>2. Used' = Used /\ Registered' = Registered /\ Dense' /\ LogUses'
    BY <2>1 DEF Used, Registered, FilesInv, Dense, LogUses
  <2> QED BY <2>1, <2>2 DEF FilesInv
<1> QED BY <1>1, <1>2

LEMMA InitEstablishesFiles == Init => FilesInv
<1> SUFFICES ASSUME Init PROVE FilesInv
  OBVIOUS
<1>1. /\ process = "running" /\ stage = 0 /\ safe = 0
      /\ durable = [index |-> 0, log |-> 0, runlengths |-> 0]
      /\ calls = <<>> /\ log = <<>> /\ runlengths = <<>>
  BY DEF Init, EncoderInit
<1>2. Len(<<>>) = 0
  OBVIOUS
<1>3. EncoderTypeOK
  BY InitEstablishesIInv DEF Init, IInv
<1>4. Registered \in Nat
  BY <1>3, UsedFinite, FormatsAssumption
<1>5. Dense /\ LogUses
  BY <1>1, <1>2 DEF Dense, LogUses
<1> QED BY <1>1, <1>2, <1>4, <1>5 DEF FilesInv

LEMMA FilesInvariant == Spec => [](IInv /\ FilesInv)
<1>1. Init => FilesInv
  BY InitEstablishesFiles
<1>2. IInv /\ IInv' /\ FilesInv /\ [Next]_vars => FilesInv'
  <2> SUFFICES ASSUME IInv, IInv', FilesInv, [Next]_vars PROVE FilesInv'
    OBVIOUS
  <2>1. EncoderTypeOK /\ EncoderTypeOK'
    BY DEF IInv
  <2>2. ASSUME NEW i \in Index, Call(i) PROVE FilesInv'
    BY <2>1, <2>2, CallPreservesFiles
  <2>3. ASSUME NEW f \in DOMAIN durable, FlushFile(f) PROVE FilesInv'
    BY <2>1, <2>3, FlushFilePreservesFiles
  <2>4. CASE FlushRecord \/ Crash \/ Unpacking \/ Terminated \/ UNCHANGED vars
    BY <2>1, <2>4, OthersPreserveFiles
  <2> QED BY <2>2, <2>3, <2>4 DEF Next
<1> QED BY <1>1, <1>2, SpecImpliesEncoderSpec, InductiveInvariant, PTL DEF Spec

\* In whatever step of a flush the process is killed: what the flush has made
\* durable in the log file has its format string in the index file.
THEOREM DurableLogAddressed == Spec => []DurableLogHasItsFormats
<1>1. FilesInv => DurableLogHasItsFormats
  BY DEF FilesInv, DurableLogHasItsFormats
<1> QED BY <1>1, FilesInvariant, PTL

-----------------------------------------------------------------------------

\* What a crash leaves of a file is its first entries, at least the durable
\* ones; only the last of them may be torn, and not if it is durable.
LEMMA RemainsFacts ==
  ASSUME NEW S, NEW s \in Seq(S), NEW torn, \A k \in 1 .. Len(s) : torn[k] \in S,
         NEW n \in Nat, NEW r \in Remains(s, torn, n)
  PROVE  /\ r \in Seq(S)
         /\ Len(r) \in 0 .. Len(s)
         /\ \A k \in 1 .. Len(r) : r[k] = s[k] \/ (k = Len(r) /\ r[k] = torn[k])
         /\ n <= Len(r) /\ \A k \in 1 .. n : r[k] = s[k]
<1> DEFINE N == Len(s)
<1>1. N \in Nat
  BY LenProperties
<1>2. ASSUME NEW m \in 0 .. N
      PROVE  /\ SubSeq(s, 1, m) \in Seq(S) /\ Len(SubSeq(s, 1, m)) = m
             /\ \A k \in 1 .. m : SubSeq(s, 1, m)[k] = s[k]
  <2>1. \A k \in 1 .. m : s[k] \in S
    <3>1. \A k \in 1 .. N : s[k] \in S
      BY ElementOfSeq
    <3> QED BY <3>1, <1>1
  <2>2. 1 \in Int /\ m \in Int /\ m \in Nat
    BY <1>1
  <2>3. /\ SubSeq(s, 1, m) \in Seq(S)
        /\ Len(SubSeq(s, 1, m)) = IF 1 <= m THEN m - 1 + 1 ELSE 0
        /\ \A k \in 1 .. m - 1 + 1 : SubSeq(s, 1, m)[k] = s[1 + k - 1]
    BY <2>1, <2>2, SubSeqProperties
  <2>4. (IF 1 <= m THEN m - 1 + 1 ELSE 0) = m /\ m - 1 + 1 = m
        /\ \A k \in 1 .. m : 1 + k - 1 = k
    BY <2>2
  <2> HIDE DEF N
  <2> QED BY <2>3, <2>4
<1>3. CASE \E m \in n .. N : r = SubSeq(s, 1, m)
  <2>1. PICK m \in n .. N : r = SubSeq(s, 1, m)
    BY <1>3
  <2>2. m \in 0 .. N /\ n <= m /\ \A k \in 1 .. n : k \in 1 .. m
    BY <1>1
  <2> QED BY <2>1, <2>2, <1>2
<1>4. CASE \E m \in n + 1 .. N : r = Append(SubSeq(s, 1, m - 1), torn[m])
  <2>1. PICK m \in n + 1 .. N : r = Append(SubSeq(s, 1, m - 1), torn[m])
    BY <1>4
  <2>2. m \in 1 .. N /\ m - 1 \in 0 .. N /\ m - 1 + 1 = m /\ m \in 0 .. N
    BY <1>1
  <2> DEFINE q == SubSeq(s, 1, m - 1)
  <2>3. q \in Seq(S) /\ Len(q) = m - 1 /\ \A k \in 1 .. m - 1 : q[k] = s[k]
    BY <2>2, <1>2
  <2>4. torn[m] \in S
    BY <2>2
  <2> HIDE DEF q
  <2>5. /\ Append(q, torn[m]) \in Seq(S) /\ Len(Append(q, torn[m])) = m
        /\ \A k \in 1 .. m - 1 : Append(q, torn[m])[k] = q[k]
        /\ Append(q, torn[m])[m] = torn[m]
    BY <2>2, <2>3, <2>4, AppendFacts
  <2>6. r = Append(q, torn[m])
    BY <2>1 DEF q
  <2>7. /\ \A k \in 1 .. m : k \in 1 .. m - 1 \/ k = m
        /\ n <= m /\ \A k \in 1 .. n : k \in 1 .. m - 1
    BY <2>2
  <2> QED BY <2>2, <2>3, <2>5, <2>6, <2>7
<1> QED BY <1>3, <1>4 DEF Remains

DiskToken == [kind : {"index", "args", "torn"}, index : Index, call : Nat]

\* What a flush made durable is on disk, and not torn.
HasDurable ==
  /\ durable["index"] <= Len(disk.index)
  /\ durable["log"] <= Len(disk.log)
  /\ \A k \in 1 .. durable["log"] : disk.log[k] = log[k]
  /\ durable["runlengths"] <= Len(disk.runlengths)
  /\ \A k \in 1 .. durable["runlengths"] : disk.runlengths[k] = runlengths[k]

\* The files of a process that is gone are the first entries of what it wrote,
\* all of them if it ran to its end; until then the unpacker is not started.
DiskInv ==
  /\ disk.index \in Seq({"whole", "torn"})
  /\ disk.log \in Seq(DiskToken)
  /\ disk.runlengths \in Seq(Record)
  /\ process # "running" =>
       /\ Len(disk.log) \in 0 .. Len(log)
       /\ \A k \in 1 .. Len(disk.log) :
            disk.log[k] = log[k] \/ (k = Len(disk.log) /\ disk.log[k].kind = "torn")
       /\ Len(disk.runlengths) \in 0 .. Len(runlengths)
       /\ \A k \in 1 .. Len(disk.runlengths) :
            \/ disk.runlengths[k] = runlengths[k]
            \/ /\ k = Len(disk.runlengths)
               /\ disk.runlengths[k] = [runlengths[k] EXCEPT !.count = 0]
       /\ \A k \in 1 .. Len(disk.index) : k < Len(disk.index) => disk.index[k] = "whole"
       /\ HasDurable
  /\ process = "exited" => disk = Written /\ state = "closed"
  /\ process = "running" => Unpacker!ParserInit

LEMMA CrashPreservesDisk ==
  ASSUME EncoderTypeOK, FilesInv, DiskInv, Crash
  PROVE  DiskInv'
<1>1. /\ log' = log /\ runlengths' = runlengths /\ process' = "crashed"
      /\ durable' = durable
  BY DEF Crash, encoderVars, encoder
<1>2. PICK n \in {Registered, Registered + 1} :
        disk' \in
          [index : Remains(IndexEntries(n), TornEntries(n), durable["index"]),
           log : Remains(log, TornTokens, durable["log"]),
           runlengths : Remains(runlengths, TornRecords, durable["runlengths"])]
  BY DEF Crash
<1>3. log \in Seq(Token) /\ runlengths \in Seq(Record)
  BY DEF EncoderTypeOK
<1>4. durable["index"] \in Nat /\ durable["log"] \in Nat /\ durable["runlengths"] \in Nat
  BY DEF FilesInv
<1>5. /\ disk'.index \in Seq({"whole", "torn"})
      /\ \A k \in 1 .. Len(disk'.index) : k < Len(disk'.index) => disk'.index[k] = "whole"
      /\ durable["index"] <= Len(disk'.index)
  <2> DEFINE S == {"whole", "torn"}
             s == IndexEntries(n)
             r == disk'.index
  <2>1. n \in Nat
    BY UsedFinite, FormatsAssumption
  <2>2. s \in Seq(S) /\ Len(s) = n /\ \A k \in 1 .. n : s[k] = "whole"
    BY <2>1 DEF IndexEntries
  <2>3. \A k \in 1 .. Len(s) : TornEntries(n)[k] \in S
    BY <2>2 DEF TornEntries
  <2>4. r \in Remains(s, TornEntries(n), durable["index"])
    BY <1>2
  <2> HIDE DEF S, s, r
  <2>5. /\ r \in Seq(S) /\ Len(r) \in 0 .. n
        /\ \A k \in 1 .. Len(r) : r[k] = s[k] \/ (k = Len(r) /\ r[k] = TornEntries(n)[k])
        /\ durable["index"] <= Len(r)
    BY <2>2, <2>3, <2>4, <1>4, RemainsFacts
  <2>6. \A k \in 1 .. Len(r) : k < Len(r) => r[k] = "whole"
    BY <2>1, <2>2, <2>5
  <2> QED BY <2>5, <2>6 DEF S, r
<1>6. /\ disk'.log \in Seq(DiskToken)
      /\ Len(disk'.log) \in 0 .. Len(log)
      /\ \A k \in 1 .. Len(disk'.log) :
           disk'.log[k] = log[k] \/ (k = Len(disk'.log) /\ disk'.log[k].kind = "torn")
      /\ durable["log"] <= Len(disk'.log)
      /\ \A k \in 1 .. durable["log"] : disk'.log[k] = log[k]
  <2> DEFINE r == disk'.log
  <2>1. Token \subseteq DiskToken /\ log \in Seq(DiskToken)
    <3>1. Token \subseteq DiskToken
      BY DEF Token, DiskToken
    <3> QED BY <3>1, <1>3, SeqMonotonic
  <2>2. \A k \in 1 .. Len(log) : TornTokens[k] \in DiskToken /\ TornTokens[k].kind = "torn"
    <3> SUFFICES ASSUME NEW k \in 1 .. Len(log)
                 PROVE  TornTokens[k] \in DiskToken /\ TornTokens[k].kind = "torn"
      OBVIOUS
    <3>1. log[k] \in Token /\ DOMAIN log = 1 .. Len(log)
      BY <1>3, ElementOfSeq, LenProperties
    <3>2. TornTokens[k] = [log[k] EXCEPT !.kind = "torn"]
      BY <3>1 DEF TornTokens
    <3> QED BY <3>1, <3>2 DEF Token, DiskToken
  <2>3. r \in Remains(log, TornTokens, durable["log"])
    BY <1>2
  <2> HIDE DEF r
  <2>4. /\ r \in Seq(DiskToken) /\ Len(r) \in 0 .. Len(log)
        /\ \A k \in 1 .. Len(r) : r[k] = log[k] \/ (k = Len(r) /\ r[k] = TornTokens[k])
        /\ durable["log"] <= Len(r) /\ \A k \in 1 .. durable["log"] : r[k] = log[k]
    BY <2>1, <2>2, <2>3, <1>4, RemainsFacts
  <2>5. ASSUME NEW k \in 1 .. Len(r)
        PROVE  r[k] = log[k] \/ (k = Len(r) /\ r[k].kind = "torn")
    <3>1. k \in 1 .. Len(log)
      BY <2>4
    <3> QED BY <3>1, <2>2, <2>4
  <2> QED BY <2>4, <2>5 DEF r
<1>7. /\ disk'.runlengths \in Seq(Record)
      /\ Len(disk'.runlengths) \in 0 .. Len(runlengths)
      /\ \A k \in 1 .. Len(disk'.runlengths) :
           \/ disk'.runlengths[k] = runlengths[k]
           \/ /\ k = Len(disk'.runlengths)
              /\ disk'.runlengths[k] = [runlengths[k] EXCEPT !.count = 0]
      /\ durable["runlengths"] <= Len(disk'.runlengths)
      /\ \A k \in 1 .. durable["runlengths"] : disk'.runlengths[k] = runlengths[k]
  <2> DEFINE r == disk'.runlengths
  <2>1. \A k \in 1 .. Len(runlengths) :
          /\ TornRecords[k] \in Record
          /\ TornRecords[k] = [runlengths[k] EXCEPT !.count = 0]
    <3> SUFFICES ASSUME NEW k \in 1 .. Len(runlengths)
                 PROVE  /\ TornRecords[k] \in Record
                        /\ TornRecords[k] = [runlengths[k] EXCEPT !.count = 0]
      OBVIOUS
    <3>1. runlengths[k] \in Record /\ DOMAIN runlengths = 1 .. Len(runlengths)
      BY <1>3, ElementOfSeq, LenProperties
    <3>2. TornRecords[k] = [runlengths[k] EXCEPT !.count = 0]
      BY <3>1 DEF TornRecords
    <3> QED BY <3>1, <3>2 DEF Record
  <2>2. r \in Remains(runlengths, TornRecords, durable["runlengths"])
    BY <1>2
  <2> HIDE DEF r
  <2>3. /\ r \in Seq(Record) /\ Len(r) \in 0 .. Len(runlengths)
        /\ \A k \in 1 .. Len(r) :
             r[k] = runlengths[k] \/ (k = Len(r) /\ r[k] = TornRecords[k])
        /\ durable["runlengths"] <= Len(r)
        /\ \A k \in 1 .. durable["runlengths"] : r[k] = runlengths[k]
    <3>1. runlengths \in Seq(Record) /\ durable["runlengths"] \in Nat
      BY <1>3, <1>4
    <3>2. \A k \in 1 .. Len(runlengths) : TornRecords[k] \in Record
      BY <2>1
    <3> QED BY <2>2, <3>1, <3>2, RemainsFacts
  <2>4. ASSUME NEW k \in 1 .. Len(r)
        PROVE  \/ r[k] = runlengths[k]
               \/ k = Len(r) /\ r[k] = [runlengths[k] EXCEPT !.count = 0]
    <3>1. k \in 1 .. Len(runlengths)
      BY <2>3
    <3> QED BY <3>1, <2>1, <2>3
  <2> QED BY <2>3, <2>4 DEF r
<1> QED BY <1>1, <1>5, <1>6, <1>7 DEF DiskInv, HasDurable

LEMMA FlushFilePreservesDisk ==
  ASSUME EncoderTypeOK, FilesInv, DiskInv, NEW f \in DOMAIN durable, FlushFile(f)
  PROVE  DiskInv'
<1>1. /\ log' = log /\ runlengths' = runlengths /\ calls' = calls /\ state' = state
      /\ process = "running" /\ UNCHANGED parserVars
      /\ IF stage' = 0 THEN EndOfFlush ELSE UNCHANGED <<process, disk, safe>>
  BY DEF FlushFile, encoderVars, encoder, history
<1>2. CASE process' = process /\ disk' = disk
  BY <1>1, <1>2 DEF DiskInv, parserVars, Unpacker!ParserInit
<1>3. CASE state = "closed" /\ process' = "exited" /\ disk' = Written
  <2>1. Registered \in Nat
    BY UsedFinite, FormatsAssumption
  <2>2. /\ IndexEntries(Registered) \in Seq({"whole", "torn"})
        /\ \A k \in 1 .. Len(IndexEntries(Registered)) : IndexEntries(Registered)[k] = "whole"
    BY <2>1 DEF IndexEntries
  <2>3. log \in Seq(Token) /\ runlengths \in Seq(Record)
    BY DEF EncoderTypeOK
  <2>4. log \in Seq(DiskToken)
    <3>1. Token \subseteq DiskToken
      BY DEF Token, DiskToken
    <3> QED BY <3>1, <2>3, SeqMonotonic
  <2>5. Len(log) \in Nat /\ Len(runlengths) \in Nat
    BY <2>3, LenProperties
  <2>6. /\ disk'.index = IndexEntries(Registered) /\ disk'.log = log
        /\ disk'.runlengths = runlengths
    BY <1>3 DEF Written
  <2>7. Written' = Written /\ Registered' = Registered
    BY <1>1 DEF Written, Registered
  <2>8. Len(IndexEntries(Registered)) = Registered
    BY <2>1 DEF IndexEntries
  <2>9. /\ durable'["index"] <= Registered /\ durable'["log"] <= Len(log)
        /\ durable'["runlengths"] <= Len(runlengths)
    BY <1>1, <2>7, FlushFilePreservesFiles DEF FilesInv
  <2>10. HasDurable'
    BY <1>1, <2>6, <2>8, <2>9 DEF HasDurable
  <2> QED BY <1>1, <1>3, <2>2, <2>3, <2>4, <2>5, <2>6, <2>7, <2>10 DEF DiskInv
<1> QED BY <1>1, <1>2, <1>3 DEF EndOfFlush

LEMMA OthersPreserveDisk ==
  ASSUME DiskInv,
         \/ \E i \in Index : Call(i)
         \/ FlushRecord \/ Unpacking \/ Terminated \/ UNCHANGED vars
  PROVE  DiskInv'
<1>1. CASE (\E i \in Index : Call(i)) \/ FlushRecord
  <2>1. process = "running" /\ process' = process /\ disk' = disk /\ UNCHANGED parserVars
    BY <1>1 DEF Call, FlushRecord, files
  <2> QED BY <2>1 DEF DiskInv, parserVars, Unpacker!ParserInit
<1>2. CASE Unpacking
  <2>1. process # "running" /\ UNCHANGED <<encoderVars, files>>
    BY <1>2 DEF Unpacking
  <2>2. /\ log' = log /\ runlengths' = runlengths /\ calls' = calls /\ state' = state
        /\ process' = process /\ disk' = disk /\ Written' = Written
        /\ (HasDurable' <=> HasDurable)
    BY <2>1 DEF encoderVars, encoder, history, files, Written, Registered, HasDurable
  <2> QED BY <2>1, <2>2 DEF DiskInv
<1>3. CASE Terminated \/ UNCHANGED vars
  <2>1. UNCHANGED vars
    BY <1>3 DEF Terminated
  <2>2. /\ log' = log /\ runlengths' = runlengths /\ calls' = calls /\ state' = state
        /\ process' = process /\ disk' = disk /\ Written' = Written /\ UNCHANGED parserVars
        /\ (HasDurable' <=> HasDurable)
    BY <2>1 DEF vars, encoderVars, encoder, history, files, Written, Registered, HasDurable
  <2> QED BY <2>2 DEF DiskInv, parserVars, Unpacker!ParserInit
<1> QED BY <1>1, <1>2, <1>3

LEMMA DiskInvariant == Spec => []DiskInv
<1>1. Init => DiskInv
  <2> SUFFICES ASSUME Init PROVE DiskInv
    OBVIOUS
  <2>1. /\ process = "running" /\ Unpacker!ParserInit
        /\ disk = [index |-> <<>>, log |-> <<>>, runlengths |-> <<>>]
    BY DEF Init
  <2>2. <<>> \in Seq({"whole", "torn"}) /\ <<>> \in Seq(DiskToken) /\ <<>> \in Seq(Record)
    BY EmptySeq
  <2> QED BY <2>1, <2>2 DEF DiskInv
<1>2. IInv /\ FilesInv /\ DiskInv /\ [Next]_vars => DiskInv'
  <2> SUFFICES ASSUME IInv, FilesInv, DiskInv, [Next]_vars PROVE DiskInv'
    OBVIOUS
  <2>1. EncoderTypeOK
    BY DEF IInv
  <2>2. ASSUME NEW f \in DOMAIN durable, FlushFile(f) PROVE DiskInv'
    BY <2>1, <2>2, FlushFilePreservesDisk
  <2>3. CASE Crash
    BY <2>1, <2>3, CrashPreservesDisk
  <2>4. CASE \/ \E i \in Index : Call(i)
             \/ FlushRecord \/ Unpacking \/ Terminated \/ UNCHANGED vars
    BY <2>4, OthersPreserveDisk
  <2> QED BY <2>2, <2>3, <2>4 DEF Next
<1> QED BY <1>1, <1>2, FilesInvariant, PTL DEF Spec

-----------------------------------------------------------------------------

\* The unpacker's variables keep their types, whatever is on disk.
LEMMA ParsingPreservesTypes ==
  ASSUME DiskInv, Unpacker!ParserTypeOK, Unpacker!ParserNext, disk' = disk
  PROVE  Unpacker!ParserTypeOK'
<1>1. /\ disk.log \in Seq(DiskToken) /\ disk.runlengths \in Seq(Record)
      /\ Len(disk.log) \in Nat /\ Len(disk.runlengths) \in Nat
  <2>1. disk.log \in Seq(DiskToken) /\ disk.runlengths \in Seq(Record)
    BY DEF DiskInv
  <2> QED BY <2>1, LenProperties
<1>2. Index \subseteq Nat
  BY FormatsAssumption DEF Index
<1>3. /\ m_logfile_index \in 0 .. Len(disk.log)
      /\ m_runlengthfile_index \in 0 .. Len(disk.runlengths)
      /\ current \in Nat /\ left \in Nat
      /\ printed \in Seq([index : Nat, call : Nat])
      /\ parser \in {"waiting", "parsing", "done", "failed", "derailed"}
  BY DEF Unpacker!ParserTypeOK
<1>4. ASSUME m_logfile_index < Len(disk.log)
      PROVE  /\ Unpacker!CurrentToken.index \in Nat /\ Unpacker!CurrentToken.call \in Nat
             /\ m_logfile_index + 1 \in 0 .. Len(disk.log)
  <2>1. m_logfile_index + 1 \in 1 .. Len(disk.log)
    BY <1>1, <1>3, <1>4
  <2>2. Unpacker!CurrentToken \in DiskToken
    BY <1>1, <2>1, ElementOfSeq DEF Unpacker!CurrentToken
  <2>3. Unpacker!CurrentToken.index \in Index /\ Unpacker!CurrentToken.call \in Nat
    BY <2>2 DEF DiskToken
  <2>4. Len(disk.log) \in Nat /\ m_logfile_index + 1 \in 0 .. Len(disk.log)
    BY <1>1, <2>1
  <2> QED BY <1>2, <2>3, <2>4
<1>5. CASE Unpacker!Open
  <2>1. parser' \in {"waiting", "parsing", "done", "failed", "derailed"}
    BY <1>5 DEF Unpacker!Open
  <2>2. UNCHANGED <<m_logfile_index, m_runlengthfile_index, current, left, printed>>
    BY <1>5 DEF Unpacker!Open, Unpacker!positions
  <2> QED BY <1>3, <2>1, <2>2 DEF Unpacker!ParserTypeOK
<1>6. CASE Unpacker!ParseIndex
  <2>1. /\ m_logfile_index < Len(disk.log)
        /\ current' = Unpacker!CurrentToken.index
        /\ left' = Unpacker!Runlength
        /\ m_logfile_index' = m_logfile_index + 1
        /\ m_runlengthfile_index'
             = m_runlengthfile_index + IF Unpacker!TakesRecord THEN 1 ELSE 0
        /\ printed' = printed /\ parser' = parser
    BY <1>6 DEF Unpacker!ParseIndex
  <2>2. /\ m_runlengthfile_index' \in 0 .. Len(disk.runlengths)
        /\ left' \in Nat
    <3>1. CASE Unpacker!TakesRecord
      <4>1. m_runlengthfile_index + 1 \in 1 .. Len(disk.runlengths)
        BY <3>1, <1>1, <1>3 DEF Unpacker!TakesRecord
      <4>2. Unpacker!CurrentRecord \in Record
        BY <1>1, <4>1, ElementOfSeq DEF Unpacker!CurrentRecord
      <4> QED BY <2>1, <3>1, <4>1, <4>2 DEF Record, Unpacker!Runlength
    <3>2. CASE ~ Unpacker!TakesRecord
      BY <2>1, <3>2, <1>3 DEF Unpacker!Runlength
    <3> QED BY <3>1, <3>2
  <2> QED BY <1>3, <1>4, <2>1, <2>2 DEF Unpacker!ParserTypeOK
<1>7. CASE Unpacker!PrintLine
  <2>1. /\ left > 0 /\ left' = left - 1
        /\ m_runlengthfile_index' = m_runlengthfile_index
        /\ current' = current /\ parser' = parser
        /\ \/ printed' = Append(printed, Unpacker!Line(current, 0))
              /\ m_logfile_index' = m_logfile_index
           \/ /\ m_logfile_index < Len(disk.log)
              /\ printed' = Append(printed, Unpacker!Line(current, Unpacker!CurrentToken.call))
              /\ m_logfile_index' = m_logfile_index + 1
    BY <1>7 DEF Unpacker!PrintLine, Unpacker!OnValues
  <2>2. m_logfile_index' \in 0 .. Len(disk.log)
    BY <1>3, <1>4, <2>1
  <2>3. left' \in Nat
    BY <1>3, <2>1
  <2>4. printed' \in Seq([index : Nat, call : Nat])
    <3>1. ASSUME NEW n \in Nat PROVE Unpacker!Line(current, n) \in [index : Nat, call : Nat]
      BY <1>3 DEF Unpacker!Line
    <3>2. PICK n \in Nat : printed' = Append(printed, Unpacker!Line(current, n))
      BY <1>4, <2>1
    <3> QED BY <1>3, <3>1, <3>2, AppendFacts
  <2> QED BY <1>3, <2>1, <2>2, <2>3, <2>4 DEF Unpacker!ParserTypeOK
<1>8. CASE Unpacker!Derail \/ Unpacker!Finish
  <2>1. parser' \in {"waiting", "parsing", "done", "failed", "derailed"}
    BY <1>8 DEF Unpacker!Derail, Unpacker!Finish
  <2>2. UNCHANGED <<m_logfile_index, m_runlengthfile_index, current, left, printed>>
    BY <1>8 DEF Unpacker!Derail, Unpacker!Finish, Unpacker!positions
  <2> QED BY <1>3, <2>1, <2>2 DEF Unpacker!ParserTypeOK
<1> QED BY <1>5, <1>6, <1>7, <1>8 DEF Unpacker!ParserNext

\* An unpacker that was not started has the right types for any files.
LEMMA FreshParserTyped ==
  ASSUME DiskInv, Unpacker!ParserInit
  PROVE  Unpacker!ParserTypeOK
<1>1. Len(disk.log) \in Nat /\ Len(disk.runlengths) \in Nat
  <2>1. disk.log \in Seq(DiskToken) /\ disk.runlengths \in Seq(Record)
    BY DEF DiskInv
  <2> QED BY <2>1, LenProperties
<1>2. <<>> \in Seq([index : Nat, call : Nat])
  BY EmptySeq
<1> QED BY <1>1, <1>2 DEF Unpacker!ParserInit, Unpacker!ParserTypeOK

\* The unpacker is not started before the process is gone, and then nothing
\* else changes.
LEMMA StepsOfUnpacker ==
  ASSUME [Next]_vars
  PROVE  \/ process = "running" /\ UNCHANGED parserVars
         \/ UNCHANGED vars
         \/ /\ process # "running" /\ Unpacker!ParserNext
            /\ UNCHANGED <<encoderVars, files>>
BY DEF Next, Call, FlushFile, FlushRecord, Crash, Unpacking, Terminated

LEMMA ParserInvariant == Spec => []Unpacker!ParserTypeOK
<1>1. Init /\ DiskInv => Unpacker!ParserTypeOK
  BY FreshParserTyped DEF Init
<1>2. DiskInv /\ DiskInv' /\ Unpacker!ParserTypeOK /\ [Next]_vars => Unpacker!ParserTypeOK'
  <2> SUFFICES ASSUME DiskInv, DiskInv', Unpacker!ParserTypeOK, [Next]_vars
               PROVE  Unpacker!ParserTypeOK'
    OBVIOUS
  <2>1. CASE process = "running" /\ UNCHANGED parserVars
    <3>1. Len(disk'.log) \in Nat /\ Len(disk'.runlengths) \in Nat
      <4>1. disk'.log \in Seq(DiskToken) /\ disk'.runlengths \in Seq(Record)
        BY DEF DiskInv
      <4> QED BY <4>1, LenProperties
    <3>2. <<>> \in Seq([index : Nat, call : Nat])
      BY EmptySeq
    <3> QED BY <2>1, <3>1, <3>2 DEF DiskInv, parserVars, Unpacker!ParserInit, Unpacker!ParserTypeOK
  <2>2. CASE UNCHANGED vars
    BY <2>2 DEF vars, files, parserVars, Unpacker!ParserTypeOK
  <2>3. CASE Unpacker!ParserNext /\ UNCHANGED <<encoderVars, files>>
    BY <2>3, ParsingPreservesTypes DEF files
  <2> QED BY <2>1, <2>2, <2>3, StepsOfUnpacker
<1> QED BY <1>1, <1>2, DiskInvariant, PTL DEF Spec

\* Every variable keeps its type: among them that no file has more durable
\* than was written, and that the parser stays within both streams.
THEOREM TypeCorrect == Spec => []TypeOK
<1>1. IInv /\ FilesInv /\ Unpacker!ParserTypeOK => TypeOK
  <2> SUFFICES ASSUME IInv, FilesInv, Unpacker!ParserTypeOK PROVE TypeOK
    OBVIOUS
  <2>1. EncoderTypeOK
    BY DEF IInv
  <2>2. /\ Registered \in Nat /\ Len(log) \in Nat /\ Len(runlengths) \in Nat
    <3>1. log \in Seq(Token) /\ runlengths \in Seq(Record)
      BY <2>1 DEF EncoderTypeOK
    <3> QED BY <3>1, <2>1, UsedFinite, LenProperties, FormatsAssumption
  <2> QED BY <2>1, <2>2 DEF FilesInv, TypeOK
<1> QED BY <1>1, FilesInvariant, ParserInvariant, PTL

-----------------------------------------------------------------------------

\* Of two runs the earlier ends in the log stream before the later begins.
Ordered(rs) ==
  \A a, b \in 1 .. Len(rs) : a < b => rs[a].pos + Tokens(rs[a]) <= rs[b].pos

\* Recording the length of a run moves no run.
LEMMA RecordKeepsOrder ==
  ASSUME IInv, ~ orphaned, Ordered(runs)
  PROVE  /\ RunsWithRecord \in Seq(Run) /\ Len(RunsWithRecord) = Len(runs)
         /\ \A j \in 1 .. Len(runs) :
              /\ RunsWithRecord[j].pos = runs[j].pos
              /\ Tokens(RunsWithRecord[j]) = Tokens(runs[j])
         /\ Ordered(RunsWithRecord)
<1>1. runs \in Seq(Run) /\ runlengths \in Seq(Record) /\ m_current_runlength \in Nat
  BY DEF IInv, EncoderTypeOK
<1>2. runs # <<>> => RecordOfCurrent \in Nat
  BY RecordOfCurrentType DEF IInv
<1>3. /\ RunsWithRecord \in Seq(Run) /\ Len(RunsWithRecord) = Len(runs)
      /\ \A j \in 1 .. Len(runs) :
           /\ RunsWithRecord[j].pos = runs[j].pos
           /\ Tokens(RunsWithRecord[j]) = Tokens(runs[j])
  <2>1. CASE EndsRepeatedRun
    <3>1. runs # <<>>
      BY <2>1 DEF EndsRepeatedRun, IInv
    <3>2. RunsWithRecord \in Seq(Run) /\ Len(RunsWithRecord) = Len(runs)
      BY RecordTypes
    <3>3. \A j \in 1 .. Len(runs) :
            /\ RunsWithRecord[j].index = runs[j].index
            /\ RunsWithRecord[j].count = runs[j].count
            /\ RunsWithRecord[j].pos = runs[j].pos
      BY <1>1, <1>2, <2>1, <3>1, RecordedRuns DEF RunsWithRecord
    <3> QED BY <3>2, <3>3 DEF Tokens
  <2>2. CASE ~ EndsRepeatedRun
    BY <1>1, <2>2 DEF RunsWithRecord
  <2> QED BY <2>1, <2>2
<1> QED BY <1>3 DEF Ordered

LEMMA LogKeepsOrder ==
  ASSUME IInv, ~ orphaned, Ordered(runs), NEW i \in Index, Log(i)
  PROVE  Ordered(runs')
<1>1. runs \in Seq(Run) /\ log \in Seq(Token) /\ calls \in Seq(Index)
  BY DEF IInv, EncoderTypeOK
<1>2. Len(runs) \in Nat /\ Len(log) \in Nat /\ Len(calls) \in Nat
  BY <1>1, LenProperties
<1>3. runs' = RunsWithCall(i)
  BY DEF Log
<1>4. CASE WritesIndex(i)
  <2> DEFINE base == IF m_runlength_index # i THEN RunsWithRecord ELSE runs
             r == StartedRun(i)
  <2>1. /\ base \in Seq(Run) /\ Len(base) = Len(runs)
        /\ \A j \in 1 .. Len(runs) :
             base[j].pos = runs[j].pos /\ Tokens(base[j]) = Tokens(runs[j])
    BY <1>1, RecordKeepsOrder
  <2>2. r \in Run /\ r.pos = Len(log) + 1
    BY <1>2 DEF StartedRun, Run
  <2>3. runs' = Append(base, r)
    BY <1>3, <1>4 DEF RunsWithCall
  <2> HIDE DEF base, r
  <2>4. /\ Len(runs') = Len(runs) + 1 /\ runs'[Len(runs) + 1] = r
        /\ \A j \in 1 .. Len(runs) : runs'[j] = base[j]
    BY <2>1, <2>2, <2>3, AppendFacts
  <2>5. \A j \in 1 .. Len(runs) : runs[j].pos + Tokens(runs[j]) <= Len(log) + 1
    BY DEF IInv, Describes, Bounded
  <2> SUFFICES ASSUME NEW a \in 1 .. Len(runs'), NEW b \in 1 .. Len(runs'), a < b
               PROVE  runs'[a].pos + Tokens(runs'[a]) <= runs'[b].pos
    BY DEF Ordered
  <2>6. a \in 1 .. Len(runs) /\ (b \in 1 .. Len(runs) \/ b = Len(runs) + 1)
    BY <1>2, <2>4
  <2>7. CASE b \in 1 .. Len(runs)
    BY <2>1, <2>4, <2>6, <2>7 DEF Ordered
  <2>8. CASE b = Len(runs) + 1
    BY <2>1, <2>2, <2>4, <2>5, <2>6, <2>8
  <2> QED BY <2>6, <2>7, <2>8
<1>5. CASE ~ WritesIndex(i)
  <2>1. runs # <<>>
    BY <1>5 DEF WritesIndex, IInv
  <2>2. runs' = [runs EXCEPT ![Len(runs)].count = @ + 1]
    BY <1>3, <1>5 DEF RunsWithCall
  <2>3. /\ Len(runs') = Len(runs)
        /\ \A j \in 1 .. Len(runs) :
             /\ runs'[j].index = runs[j].index
             /\ j # Len(runs) => runs'[j].count = runs[j].count
             /\ runs'[j].pos = runs[j].pos
    BY <1>1, <2>1, <2>2, ContinuedRuns
  <2> SUFFICES ASSUME NEW a \in 1 .. Len(runs), NEW b \in 1 .. Len(runs), a < b
               PROVE  runs'[a].pos + Tokens(runs'[a]) <= runs'[b].pos
    BY <2>3 DEF Ordered
  <2>4. a # Len(runs)
    BY <1>2
  <2>5. Tokens(runs'[a]) = Tokens(runs[a])
    BY <2>3, <2>4 DEF Tokens
  <2> QED BY <2>3, <2>5 DEF Ordered
<1> QED BY <1>4, <1>5

RunsInOrder == ~ orphaned => Ordered(runs)

LEMMA RunsOrdered == EncoderSpec => []RunsInOrder
<1>1. EncoderInit => RunsInOrder
  <2>1. Len(<<>>) = 0
    OBVIOUS
  <2> QED BY <2>1 DEF EncoderInit, RunsInOrder, Ordered
<1>2. IInv /\ RunsInOrder /\ [EncoderNext]_encoderVars => RunsInOrder'
  <2> SUFFICES ASSUME IInv, RunsInOrder, [EncoderNext]_encoderVars, ~ orphaned'
               PROVE  Ordered(runs')
    BY DEF RunsInOrder, Ordered
  <2>1. ASSUME NEW i \in Index, Log(i) PROVE Ordered(runs')
    <3>1. ~ orphaned
      BY <2>1 DEF Log
    <3> QED BY <2>1, <3>1, LogKeepsOrder DEF RunsInOrder
  <2>2. CASE Flush \/ Close
    <3>1. runs' = RunsWithRecord /\ orphaned' = orphaned
      BY <2>2 DEF Flush, Close, WriteCurrentRunlength
    <3> QED BY <3>1, RecordKeepsOrder DEF RunsInOrder
  <2>3. CASE UNCHANGED encoderVars
    BY <2>3 DEF encoderVars, history, RunsInOrder
  <2> QED BY <2>1, <2>2, <2>3 DEF EncoderNext
<1> QED BY <1>1, <1>2, InductiveInvariant, PTL DEF EncoderSpec

(***************************************************************************)
(* The unpacker on a log stream that begins with the runs rs.  It stands   *)
(* past a run or inside one, has printed the calls up to there, and of the *)
(* runlength stream has consumed the records of the runs it has begun.     *)
(***************************************************************************)
EndPos(rs, r) == IF r = 0 THEN 0 ELSE rs[r].pos + Tokens(rs[r]) - 1
EndCall(rs, r) == IF r = 0 THEN 0 ELSE rs[r].first + rs[r].count - 1

Consumed(rs, n, r) ==
  /\ \A k \in 1 .. r : rs[k].record <= n
  /\ n # 0 => \E k \in 1 .. r : rs[k].record = n

Past(rs, r) ==
  /\ left = 0
  /\ m_logfile_index = EndPos(rs, r)
  /\ printed = Lines(EndCall(rs, r))
  /\ Consumed(rs, m_runlengthfile_index, r)

Inside(rs, r) ==
  /\ left \in 1 .. rs[r].count
  /\ current = rs[r].index
  /\ m_logfile_index = EndPos(rs, r) - IF current \in NoArgs THEN 0 ELSE left
  /\ printed = Lines(EndCall(rs, r) - left)
  /\ Consumed(rs, m_runlengthfile_index, r)

\* Run r is in the files on disk, right after the runs before it.
OnDisk(rs, r) ==
  /\ EndPos(rs, r - 1) \in Nat /\ EndCall(rs, r - 1) \in Nat
  /\ rs[r].count \in Nat \ {0}
  /\ EndPos(rs, r)
       = EndPos(rs, r - 1) + 1 + IF rs[r].index \in NoArgs THEN 0 ELSE rs[r].count
  /\ EndCall(rs, r) = EndCall(rs, r - 1) + rs[r].count
  /\ EndPos(rs, r) <= Len(disk.log)
  /\ disk.log[EndPos(rs, r - 1) + 1] = IndexToken(rs[r].index)
  /\ \A d \in 0 .. rs[r].count - 1 :
       /\ calls[EndCall(rs, r) - d] = rs[r].index
       /\ rs[r].index \notin NoArgs =>
            disk.log[EndPos(rs, r) - d]
              = ArgsToken(rs[r].index, EndCall(rs, r) - d)
  /\ rs[r].index < Len(disk.index)
  /\ disk.index[rs[r].index + 1] = "whole"

\* Is record n + 1 on disk taken by an entry of format i?
HasRecord(n, i) ==
  n < Len(disk.runlengths) /\ disk.runlengths[n + 1].index = i

\* At run r the unpacker takes just this run's record, or none if it has none.
Fits(rs, r) ==
  \A n \in 0 .. Len(disk.runlengths) :
    Consumed(rs, n, r - 1) =>
      IF rs[r].record = 0
      THEN rs[r].count = 1 /\ ~ HasRecord(n, rs[r].index)
      ELSE /\ rs[r].record = n + 1
           /\ HasRecord(n, rs[r].index)
           /\ disk.runlengths[n + 1].count = rs[r].count

LEMMA LinesFacts ==
  ASSUME NEW n \in Nat
  PROVE  /\ Lines(n) \in Seq({LineOf(k) : k \in Nat}) /\ Len(Lines(n)) = n
         /\ \A k \in 1 .. n : Lines(n)[k] = LineOf(k)
         /\ Append(Lines(n), LineOf(n + 1)) = Lines(n + 1)
<1> DEFINE S == {LineOf(k) : k \in Nat}
           F(m) == Lines(m) \in Seq(S) /\ Len(Lines(m)) = m
                   /\ \A k \in 1 .. m : Lines(m)[k] = LineOf(k)
<1>1. ASSUME NEW m \in Nat PROVE F(m)
  <2>1. Lines(m) = [k \in 1 .. m |-> LineOf(k)]
    BY DEF Lines
  <2>2. Lines(m) \in [1 .. m -> S]
    BY <2>1
  <2> QED BY <2>1, <2>2
<1>2. F(n) /\ F(n + 1) /\ LineOf(n + 1) \in S
  <2>1. n + 1 \in Nat
    OBVIOUS
  <2>2. F(n + 1)
    BY <1>1, <2>1
  <2>3. LineOf(n + 1) \in S
    BY <2>1
  <2> QED BY <1>1, <2>2, <2>3
<1> DEFINE s == Append(Lines(n), LineOf(n + 1))
           t == Lines(n + 1)
<1>3. /\ s \in Seq(S) /\ Len(s) = n + 1 /\ s[n + 1] = LineOf(n + 1)
      /\ \A k \in 1 .. n : s[k] = LineOf(k)
  BY <1>2, AppendFacts
<1>4. /\ t \in Seq(S) /\ Len(t) = n + 1 /\ \A k \in 1 .. n + 1 : t[k] = LineOf(k)
  BY <1>2
<1> HIDE DEF s, t, S
<1>5. \A k \in 1 .. n + 1 : k \in 1 .. n \/ k = n + 1
  OBVIOUS
<1>6. Len(s) = Len(t) /\ \A k \in 1 .. Len(s) : s[k] = t[k]
  BY <1>3, <1>4, <1>5
<1>7. s = t
  BY <1>3, <1>4, <1>6, SeqEqual
<1> QED BY <1>2, <1>7 DEF s, t, S

\* What the unpacker meets past a run: the index of the next one, in the table.
LEMMA AtNextRun ==
  ASSUME NEW rs \in Seq(Run), NEW r \in 1 .. Len(rs), DiskInv, Unpacker!ParserTypeOK,
         Past(rs, r - 1), OnDisk(rs, r)
  PROVE  /\ left = 0 /\ m_logfile_index < Len(disk.log)
         /\ Unpacker!CurrentToken = IndexToken(rs[r].index)
         /\ Unpacker!CurrentToken.index = rs[r].index
         /\ Unpacker!TakesRecord <=> HasRecord(m_runlengthfile_index, rs[r].index)
         /\ Unpacker!Runlength > 0 => Unpacker!OnIndex
<1>1. Len(disk.log) \in Nat /\ m_logfile_index \in Nat
  BY LenProperties DEF DiskInv, Unpacker!ParserTypeOK
<1>2. EndPos(rs, r - 1) < Len(disk.log)
  <2> DEFINE a == EndPos(rs, r - 1)
             b == EndPos(rs, r)
             c == rs[r].count
  <2>1. /\ a \in Nat /\ c \in Nat /\ b <= Len(disk.log)
        /\ b = a + 1 + IF rs[r].index \in NoArgs THEN 0 ELSE c
    BY DEF OnDisk
  <2> HIDE DEF a, b, c
  <2> QED BY <1>1, <2>1 DEF a
<1>3. left = 0 /\ m_logfile_index = EndPos(rs, r - 1)
  BY DEF Past
<1>4. Unpacker!CurrentToken = IndexToken(rs[r].index)
  BY <1>3 DEF OnDisk, Unpacker!CurrentToken
<1>5. Unpacker!CurrentToken.index = rs[r].index /\ Unpacker!CurrentToken.kind = "index"
  BY <1>4 DEF IndexToken
<1>6. Unpacker!TakesRecord <=> HasRecord(m_runlengthfile_index, rs[r].index)
  BY <1>5 DEF Unpacker!TakesRecord, Unpacker!CurrentRecord, HasRecord
<1>7. Unpacker!Runlength > 0 => Unpacker!OnIndex
  BY <1>5 DEF OnDisk, Unpacker!OnIndex
<1> QED BY <1>2, <1>3, <1>4, <1>5, <1>6, <1>7

\* There the parser reads the index and the run's own length.
LEMMA PastStep ==
  ASSUME NEW rs \in Seq(Run), NEW r \in 1 .. Len(rs), DiskInv, Unpacker!ParserTypeOK,
         parser = "parsing", Past(rs, r - 1), OnDisk(rs, r), Fits(rs, r),
         Unpacker!ParserNext, calls' = calls
  PROVE  parser' = "parsing" /\ Inside(rs, r)'
<1> DEFINE n == m_runlengthfile_index
           i == rs[r].index
           c == rs[r].count
<1>1. /\ left = 0 /\ m_logfile_index < Len(disk.log)
      /\ Unpacker!CurrentToken = IndexToken(i)
      /\ Unpacker!CurrentToken.index = i
      /\ Unpacker!TakesRecord <=> HasRecord(n, i)
      /\ Unpacker!Runlength > 0 => Unpacker!OnIndex
  BY AtNextRun
<1>2. /\ m_logfile_index \in Nat /\ n \in 0 .. Len(disk.runlengths)
      /\ Len(disk.log) \in Nat /\ Len(disk.runlengths) \in Nat
  BY LenProperties DEF DiskInv, Unpacker!ParserTypeOK
<1>3. c \in Nat \ {0} /\ rs[r].record \in Nat /\ r - 1 \in Nat
  BY RunFields DEF OnDisk
<1>4. Consumed(rs, n, r - 1)
  BY DEF Past
<1>5. IF rs[r].record = 0 THEN c = 1 /\ ~ HasRecord(n, i)
      ELSE rs[r].record = n + 1 /\ HasRecord(n, i) /\ disk.runlengths[n + 1].count = c
  BY <1>2, <1>4 DEF Fits
<1>6. Unpacker!Runlength = c
  BY <1>1, <1>5 DEF Unpacker!Runlength, Unpacker!CurrentRecord
<1>7. Unpacker!OnIndex
  BY <1>1, <1>3, <1>6
<1> DEFINE n2 == n + IF Unpacker!TakesRecord THEN 1 ELSE 0
<1>8. Consumed(rs, n2, r)
  <2>1. \A k \in 1 .. r : k \in 1 .. r - 1 \/ k = r
    OBVIOUS
  <2>2. r \in 1 .. r /\ \A k \in 1 .. r - 1 : k \in 1 .. r
    OBVIOUS
  <2>3. \A k \in 1 .. r - 1 : rs[k].record \in Nat
    <3> SUFFICES ASSUME NEW k \in 1 .. r - 1 PROVE rs[k].record \in Nat
      OBVIOUS
    <3>1. k \in 1 .. Len(rs)
      BY LenProperties
    <3> QED BY <3>1, RunFields
  <2>4. CASE rs[r].record = 0
    <3>1. n2 = n
      BY <1>1, <1>2, <1>5, <2>4
    <3> HIDE DEF n2
    <3> QED BY <1>2, <1>4, <2>1, <2>2, <2>4, <3>1 DEF Consumed
  <2>5. CASE rs[r].record # 0
    <3>1. n2 = n + 1 /\ rs[r].record = n + 1
      BY <1>1, <1>5, <2>5
    <3>2. \A k \in 1 .. r - 1 : rs[k].record <= n + 1
      BY <1>2, <1>4, <2>3 DEF Consumed
    <3> HIDE DEF n2
    <3> QED BY <1>2, <2>1, <2>2, <3>1, <3>2 DEF Consumed
  <2> QED BY <2>4, <2>5
<1>9. Unpacker!ParseIndex
  BY <1>1, <1>2, <1>7 DEF Unpacker!ParserNext, Unpacker!Open, Unpacker!PrintLine,
                    Unpacker!Derail, Unpacker!Finish
<1>10. /\ current' = i /\ left' = c
       /\ m_logfile_index' = m_logfile_index + 1
       /\ m_runlengthfile_index' = n2
       /\ printed' = printed /\ parser' = parser
  BY <1>1, <1>6, <1>9 DEF Unpacker!ParseIndex
<1>11. /\ m_logfile_index = EndPos(rs, r - 1) /\ printed = Lines(EndCall(rs, r - 1))
       /\ EndPos(rs, r - 1) \in Nat /\ EndCall(rs, r - 1) \in Nat
       /\ EndPos(rs, r) = EndPos(rs, r - 1) + 1 + IF i \in NoArgs THEN 0 ELSE c
       /\ EndCall(rs, r) = EndCall(rs, r - 1) + c
  BY DEF Past, OnDisk
<1> HIDE DEF n2, c, i
<1>12. m_logfile_index' = EndPos(rs, r) - IF current' \in NoArgs THEN 0 ELSE left'
  BY <1>3, <1>10, <1>11
<1>13. printed' = Lines(EndCall(rs, r) - left')
  <2>1. EndCall(rs, r) - left' = EndCall(rs, r - 1)
    BY <1>3, <1>10, <1>11
  <2> QED BY <1>10, <1>11, <2>1
<1>14. (Lines(EndCall(rs, r) - left))' = Lines(EndCall(rs, r) - left')
  BY DEF Lines, LineOf, EndCall
<1>15. left' \in 1 .. c
  BY <1>3, <1>10
<1>16. EndPos(rs, r)' = EndPos(rs, r)
  BY DEF EndPos, Tokens
<1>17. Consumed(rs, m_runlengthfile_index, r)' <=> Consumed(rs, n2, r)
  BY <1>10 DEF Consumed
<1> QED BY <1>8, <1>10, <1>12, <1>13, <1>14, <1>15, <1>16, <1>17 DEF Inside, i, c

\* Inside a run the next line is the next call's, with its own values.
LEMMA InsideStep ==
  ASSUME NEW rs \in Seq(Run), NEW r \in 1 .. Len(rs), DiskInv, Unpacker!ParserTypeOK,
         parser = "parsing", Inside(rs, r), OnDisk(rs, r),
         Unpacker!ParserNext, calls' = calls
  PROVE  parser' = "parsing" /\ (Inside(rs, r)' \/ Past(rs, r)')
<1> DEFINE i == rs[r].index
           c == rs[r].count
           b == EndPos(rs, r)
           e == EndCall(rs, r)
           d == left - 1
<1>1. /\ left \in 1 .. c /\ current = i
      /\ m_logfile_index = b - IF current \in NoArgs THEN 0 ELSE left
      /\ printed = Lines(e - left)
      /\ Consumed(rs, m_runlengthfile_index, r)
  BY DEF Inside
<1>2. /\ c \in Nat \ {0} /\ b \in Nat /\ e \in Nat /\ b <= Len(disk.log)
      /\ e >= c /\ (i \notin NoArgs => b > c)
  <2> DEFINE a == EndPos(rs, r - 1)
             f == EndCall(rs, r - 1)
  <2>1. /\ a \in Nat /\ f \in Nat /\ c \in Nat \ {0} /\ b <= Len(disk.log)
        /\ b = a + 1 + IF i \in NoArgs THEN 0 ELSE c
        /\ e = f + c
    BY DEF OnDisk
  <2> HIDE DEF a, b, c, e, f, i
  <2> QED BY <2>1
<1>3. /\ \A k \in 0 .. c - 1 : calls[e - k] = i
      /\ i \notin NoArgs =>
           \A k \in 0 .. c - 1 : disk.log[b - k] = ArgsToken(i, e - k)
  BY DEF OnDisk
<1>4. Len(disk.log) \in Nat /\ m_logfile_index \in Nat
  BY LenProperties DEF DiskInv, Unpacker!ParserTypeOK
<1> HIDE DEF i, c, b, e
<1>5. /\ d \in 0 .. c - 1 /\ e - d \in Nat /\ e - left \in Nat
      /\ e - left + 1 = e - d /\ left > 0 /\ left # 0
  BY <1>1, <1>2
<1>6. LineOf(e - d) = Unpacker!Line(current, IF current \in NoArgs THEN 0 ELSE e - d)
  BY <1>1, <1>3, <1>5 DEF LineOf
<1>7. ASSUME current \notin NoArgs
      PROVE  /\ m_logfile_index < Len(disk.log) /\ m_logfile_index + 1 = b - d
             /\ Unpacker!CurrentToken = ArgsToken(current, e - d)
             /\ Unpacker!OnValues
  <2>1. m_logfile_index < Len(disk.log) /\ m_logfile_index + 1 = b - d
    BY <1>1, <1>2, <1>4, <1>5, <1>7
  <2>2. Unpacker!CurrentToken = ArgsToken(current, e - d)
    BY <1>1, <1>3, <1>5, <1>7, <2>1 DEF Unpacker!CurrentToken
  <2>3. Unpacker!OnValues
    BY <2>1, <2>2 DEF Unpacker!OnValues, ArgsToken
  <2> QED BY <2>1, <2>2, <2>3
<1>8. Unpacker!PrintLine
  BY <1>5, <1>7 DEF Unpacker!ParserNext, Unpacker!Open, Unpacker!ParseIndex,
                    Unpacker!Derail, Unpacker!Finish
<1>9. /\ left' = d /\ current' = current /\ parser' = parser
      /\ m_runlengthfile_index' = m_runlengthfile_index
  BY <1>8 DEF Unpacker!PrintLine
<1>10. printed' = Append(printed, LineOf(e - d))
  <2>1. CASE current \in NoArgs
    <3>1. printed' = Append(printed, Unpacker!Line(current, 0))
      BY <1>8, <2>1 DEF Unpacker!PrintLine
    <3> QED BY <1>6, <2>1, <3>1
  <2>2. CASE current \notin NoArgs
    <3>1. printed' = Append(printed, Unpacker!Line(current, Unpacker!CurrentToken.call))
      BY <1>8, <2>2 DEF Unpacker!PrintLine
    <3>2. Unpacker!CurrentToken.call = e - d
      BY <1>7, <2>2 DEF ArgsToken
    <3> QED BY <1>6, <2>2, <3>1, <3>2
  <2> QED BY <2>1, <2>2
<1>11. printed' = Lines(e - d)
  <2>1. Append(Lines(e - left), LineOf(e - left + 1)) = Lines(e - left + 1)
    BY <1>5, LinesFacts
  <2> QED BY <1>1, <1>5, <1>10, <2>1
<1>12. m_logfile_index' = b - IF current \in NoArgs THEN 0 ELSE d
  <2>1. CASE current \in NoArgs
    BY <1>1, <1>8, <2>1 DEF Unpacker!PrintLine
  <2>2. CASE current \notin NoArgs
    <3>1. m_logfile_index' = m_logfile_index + 1
      BY <1>8, <2>2 DEF Unpacker!PrintLine
    <3> QED BY <1>7, <2>2, <3>1
  <2> QED BY <2>1, <2>2
<1>13. /\ EndPos(rs, r)' = b
       /\ Consumed(rs, m_runlengthfile_index, r)'
       /\ (Lines(EndCall(rs, r)))' = Lines(e)
       /\ (Lines(EndCall(rs, r) - left))' = Lines(e - left')
  <2>1. EndPos(rs, r)' = b
    BY DEF EndPos, Tokens, b
  <2>2. Consumed(rs, m_runlengthfile_index, r)'
    BY <1>1, <1>9 DEF Consumed
  <2>3. (Lines(EndCall(rs, r)))' = Lines(e)
    BY DEF Lines, LineOf, EndCall, e
  <2>4. (Lines(EndCall(rs, r) - left))' = Lines(e - left')
    BY DEF Lines, LineOf, EndCall, e
  <2> QED BY <2>1, <2>2, <2>3, <2>4
<1>14. CASE d = 0
  <2>1. e - d = e /\ b - d = b /\ b - 0 = b
    BY <1>2, <1>14
  <2>2. left' = 0 /\ m_logfile_index' = b /\ printed' = Lines(e)
    BY <1>9, <1>11, <1>12, <1>14, <2>1
  <2>3. Past(rs, r)'
    BY <1>13, <2>2 DEF Past
  <2> QED BY <1>9, <2>3
<1>15. CASE d # 0
  <2>1. left' \in 1 .. c
    BY <1>1, <1>2, <1>5, <1>9, <1>15
  <2>2. Inside(rs, r)'
    BY <1>1, <1>9, <1>11, <1>12, <1>13, <2>1 DEF Inside, i, c
  <2> QED BY <1>9, <2>2
<1> QED BY <1>14, <1>15

\* The unpacker starts before the first run, on files it can map.
LEMMA FreshIsPast ==
  ASSUME NEW rs, Unpacker!ParserInit
  PROVE  Past(rs, 0) /\ parser = "waiting"
<1>1. Lines(0) = <<>>
  BY DEF Lines
<1>2. Consumed(rs, 0, 0)
  BY DEF Consumed
<1> QED BY <1>1, <1>2 DEF Past, EndPos, EndCall, Unpacker!ParserInit

LEMMA OpenStep ==
  ASSUME NEW rs, parser = "waiting", Past(rs, 0), disk.log # <<>>, disk.index # <<>>,
         ~ Unpacker!TornIndexFile, Unpacker!ParserNext, calls' = calls
  PROVE  parser' = "parsing" /\ Past(rs, 0)'
<1>1. Unpacker!Open
  BY DEF Unpacker!ParserNext, Unpacker!ParseIndex, Unpacker!PrintLine,
         Unpacker!Derail, Unpacker!Finish, Unpacker!Parsing
<1>2. parser' = "parsing" /\ UNCHANGED <<m_logfile_index, m_runlengthfile_index, left, printed>>
  BY <1>1 DEF Unpacker!Open, Unpacker!positions
<1>3. Past(rs, 0)'
  BY <1>2 DEF Past, EndPos, EndCall, Consumed, Lines, LineOf
<1> QED BY <1>2, <1>3

\* A format string whose entry is not the last, or not cut short, is whole.
LEMMA EntryWhole ==
  ASSUME DiskInv, process # "running", ~ Unpacker!TornIndexFile,
         NEW i \in Nat, i < Len(disk.index)
  PROVE  disk.index[i + 1] = "whole" /\ disk.index # <<>>
<1>1. disk.index \in Seq({"whole", "torn"}) /\ Len(disk.index) \in Nat
  BY LenProperties DEF DiskInv
<1>2. disk.index # <<>>
  <2>1. Len(<<>>) = 0
    OBVIOUS
  <2> QED BY <2>1
<1>3. CASE i + 1 < Len(disk.index)
  BY <1>1, <1>3 DEF DiskInv
<1>4. CASE i + 1 = Len(disk.index)
  <2>1. disk.index[i + 1] # "torn"
    BY <1>2, <1>4 DEF Unpacker!TornIndexFile
  <2>2. disk.index[i + 1] \in {"whole", "torn"}
    <3>1. i + 1 \in 1 .. Len(disk.index)
      BY <1>1
    <3> QED BY <1>1, <3>1, ElementOfSeq
  <2> QED BY <1>2, <2>1, <2>2
<1> QED BY <1>1, <1>2, <1>3, <1>4

\* A run of streams that describe their calls, if the disk has these streams
\* up to its end.
LEMMA DescribedOnDisk ==
  ASSUME NEW rs, NEW cs, NEW lg, NEW rl, Typed(rs, cs, lg, rl), Describes(rs, cs, lg, rl),
         NEW r \in 1 .. Len(rs),
         \A n \in 1 .. Len(cs) : calls[n] = cs[n],
         EndPos(rs, r) <= Len(disk.log),
         \A k \in 1 .. EndPos(rs, r) : disk.log[k] = lg[k],
         rs[r].index < Len(disk.index),
         disk.index[rs[r].index + 1] = "whole"
  PROVE  OnDisk(rs, r)
<1> DEFINE p == rs[r].pos
           t == Tokens(rs[r])
           f == rs[r].first
           c == rs[r].count
           i == rs[r].index
<1>1. /\ rs \in Seq(Run) /\ Len(rs) \in Nat /\ Len(cs) \in Nat
      /\ r \in Nat /\ r # 0 /\ r - 1 \in Nat
  BY LenProperties DEF Typed
<1>2. /\ p \in Nat /\ f \in Nat /\ c \in Nat /\ p >= 1 /\ f >= 1 /\ c >= 1
      /\ t = 1 + (IF i \in NoArgs THEN 0 ELSE c) /\ f + c <= Len(cs) + 1
  BY <1>1, RunFields DEF Describes, Bounded, Tokens
<1>3. EndPos(rs, r) = p + t - 1 /\ EndCall(rs, r) = f + c - 1
  BY <1>1 DEF EndPos, EndCall
<1>4. EndPos(rs, r - 1) = p - 1 /\ EndCall(rs, r - 1) = f - 1
  <2>1. CASE r = 1
    BY <2>1, EmptySeq, <1>1 DEF EndPos, EndCall, Describes, Holds, Partition
  <2>2. CASE r # 1
    <3> DEFINE q == rs[r - 1].pos
               u == Tokens(rs[r - 1])
               g == rs[r - 1].first
               h == rs[r - 1].count
    <3>1. r - 1 \in 1 .. Len(rs) /\ r - 1 # Len(rs) /\ r - 1 + 1 = r /\ r - 1 # 0
      BY <1>1, <2>2
    <3>2. q + u = p /\ g + h = f
      BY <3>1 DEF Describes, Holds, Partition
    <3>3. EndPos(rs, r - 1) = q + u - 1 /\ EndCall(rs, r - 1) = g + h - 1
      BY <3>1 DEF EndPos, EndCall
    <3>4. q \in Nat /\ u \in Nat /\ g \in Nat /\ h \in Nat
      BY <1>1, <3>1, RunFields
    <3> DEFINE a == EndPos(rs, r - 1)
               b == EndCall(rs, r - 1)
    <3>5. a = q + u - 1 /\ b = g + h - 1
      BY <3>3
    <3> HIDE DEF p, f, q, u, g, h, a, b
    <3>6. a = p - 1
      BY <3>2, <3>4, <3>5
    <3>7. b = f - 1
      BY <3>2, <3>4, <3>5
    <3> QED BY <3>6, <3>7 DEF a, b
  <2> QED BY <2>1, <2>2
<1>5. /\ lg[p] = IndexToken(i)
      /\ \A k \in 1 .. t - 1 : lg[p + k] = ArgsToken(i, f + k - 1)
      /\ \A n \in f .. f + c - 1 : cs[n] = i
  BY DEF Describes, Holds, Partition
<1> DEFINE a == EndPos(rs, r - 1)
           b == EndPos(rs, r)
           e == EndCall(rs, r)
           g == EndCall(rs, r - 1)
<1> HIDE DEF p, t, f, c, i, a, b, e, g
<1>6. a = p - 1 /\ b = p + t - 1 /\ g = f - 1 /\ e = f + c - 1
  BY <1>3, <1>4 DEF a, b, e, g
<1>7. /\ a \in Nat /\ g \in Nat /\ b \in Nat
      /\ b = a + 1 + (IF i \in NoArgs THEN 0 ELSE c) /\ e = g + c
      /\ a + 1 = p /\ p \in 1 .. b /\ c \in Nat \ {0}
  BY <1>2, <1>6
<1>8. disk.log[a + 1] = IndexToken(i)
  BY <1>5, <1>7 DEF b
<1>9. ASSUME NEW d \in 0 .. c - 1
      PROVE  /\ calls[e - d] = i
             /\ i \notin NoArgs => disk.log[b - d] = ArgsToken(i, e - d)
  <2>1. e - d \in f .. f + c - 1 /\ e - d \in 1 .. Len(cs)
    BY <1>1, <1>2, <1>6
  <2>2. calls[e - d] = i
    BY <1>5, <2>1
  <2>3. ASSUME i \notin NoArgs PROVE disk.log[b - d] = ArgsToken(i, e - d)
    <3> DEFINE k == c - d
    <3>1. /\ k \in 1 .. t - 1 /\ p + k = b - d /\ f + k - 1 = e - d /\ b - d \in 1 .. b
      BY <1>2, <1>6, <2>3
    <3>2. lg[b - d] = ArgsToken(i, e - d)
      <4> HIDE DEF k
      <4>1. lg[p + k] = ArgsToken(i, f + k - 1)
        BY <1>5, <3>1
      <4> QED BY <3>1, <4>1
    <3> QED BY <3>1, <3>2 DEF b
  <2> QED BY <2>2, <2>3
<1> QED BY <1>7, <1>8, <1>9 DEF OnDisk, a, b, c, e, g, i

\* A run whose length is recorded finds its record next.
LEMMA RecordedFits ==
  ASSUME NEW rs \in Seq(Run), NEW rl \in Seq(Record), Names(rs, rl),
         \A k \in 1 .. Len(rs) : rs[k].record <= Len(rl),
         NEW r \in 1 .. Len(rs), rs[r].record # 0,
         rs[r].record <= Len(disk.runlengths),
         Len(disk.runlengths) \in Nat,
         disk.runlengths[rs[r].record] = rl[rs[r].record]
  PROVE  Fits(rs, r)
<1> SUFFICES ASSUME NEW n \in 0 .. Len(disk.runlengths), Consumed(rs, n, r - 1)
             PROVE  /\ rs[r].record = n + 1
                    /\ HasRecord(n, rs[r].index)
                    /\ disk.runlengths[n + 1].count = rs[r].count
  BY DEF Fits
<1>1. Len(rs) \in Nat /\ Len(rl) \in Nat
  BY LenProperties
<1>2. \A k \in 1 .. Len(rs) : rs[k].record \in Nat
  BY RunFields
<1>3. rs[r].record > n
  <2>1. CASE n = 0
    BY <2>1, <1>2
  <2>2. CASE n # 0
    <3>1. PICK k \in 1 .. r - 1 : rs[k].record = n
      BY <2>2 DEF Consumed
    <3>2. k \in 1 .. Len(rs) /\ k < r
      BY <1>1
    <3>3. rs[k].record < rs[r].record
      BY <2>2, <3>1, <3>2 DEF Names
    <3> QED BY <3>1, <3>3, <1>2
  <2> QED BY <2>1, <2>2
<1>4. ~ (rs[r].record > n + 1)
  <2> SUFFICES ASSUME rs[r].record > n + 1 PROVE FALSE
    OBVIOUS
  <2>1. n + 1 \in 1 .. Len(rl)
    <3>1. rs[r].record <= Len(rl) /\ rs[r].record \in Nat
      BY <1>2
    <3> QED BY <3>1, <1>1
  <2>2. PICK j \in 1 .. Len(rs) : rs[j].record = n + 1
    BY <2>1 DEF Names
  <2>3. ~ (j \in 1 .. r - 1)
    BY <2>2 DEF Consumed
  <2>4. j # r
    BY <2>2
  <2>5. r < j
    BY <2>3, <2>4, <1>1
  <2>6. rs[r].record < rs[j].record
    BY <2>2, <2>5 DEF Names
  <2> QED BY <2>2, <2>6, <1>2
<1>5. rs[r].record = n + 1
  BY <1>2, <1>3, <1>4
<1>6. rl[rs[r].record] = [index |-> rs[r].index, count |-> rs[r].count]
  BY DEF Names
<1> QED BY <1>5, <1>6 DEF HasRecord

\* A record a single run could take belongs to a later run, with only single
\* runs in between.
LEMMA NextRecordIsLater ==
  ASSUME NEW rs \in Seq(Run), NEW rl \in Seq(Record), Names(rs, rl),
         NEW r \in 1 .. Len(rs), rs[r].record = 0,
         NEW n \in Nat, Consumed(rs, n, r - 1), n < Len(rl)
  PROVE  \E k \in r + 1 .. Len(rs) :
           /\ rs[k].record = n + 1
           /\ \A m \in r .. k - 1 : rs[m].record = 0 /\ rs[m].count = 1
<1>1. Len(rs) \in Nat /\ Len(rl) \in Nat
  BY LenProperties
<1>2. \A k \in 1 .. Len(rs) : rs[k].record \in Nat
  BY RunFields
<1>3. PICK k \in 1 .. Len(rs) : rs[k].record = n + 1
  <2>1. n + 1 \in 1 .. Len(rl)
    BY <1>1
  <2> QED BY <2>1 DEF Names
<1>4. ~ (k \in 1 .. r - 1)
  BY <1>3 DEF Consumed
<1>5. k \in r + 1 .. Len(rs)
  BY <1>1, <1>3, <1>4
<1>6. ASSUME NEW m \in r .. k - 1 PROVE rs[m].record = 0 /\ rs[m].count = 1
  <2>1. m \in 1 .. Len(rs) /\ m < k /\ m # Len(rs) /\ ~ (m < r)
    BY <1>1, <1>5
  <2>2. ASSUME rs[m].record # 0 PROVE FALSE
    <3>1. rs[m].record < n + 1
      BY <1>3, <2>1, <2>2 DEF Names
    <3>2. n # 0
      BY <3>1, <2>2, <2>1, <1>2
    <3>3. PICK l \in 1 .. r - 1 : rs[l].record = n
      BY <3>2 DEF Consumed
    <3>4. l \in 1 .. Len(rs) /\ l < m
      BY <1>1, <2>1
    <3>5. n < rs[m].record
      BY <2>1, <2>2, <3>2, <3>3, <3>4 DEF Names
    <3> QED BY <3>1, <3>5, <2>1, <1>2
  <2> QED BY <2>1, <2>2 DEF Names
<1> QED BY <1>3, <1>5, <1>6

\* The unpacker has come to some place in the first J runs.
Track(rs, J) ==
  \E r \in 0 .. J : Past(rs, r) \/ (r # 0 /\ Inside(rs, r))

LEMMA TrackStep ==
  ASSUME NEW rs \in Seq(Run), NEW J \in 0 .. Len(rs),
         \A r \in 1 .. J : OnDisk(rs, r) /\ Fits(rs, r),
         DiskInv, Unpacker!ParserTypeOK,
         parser = "parsing", Track(rs, J), ~ Past(rs, J),
         Unpacker!ParserNext, calls' = calls
  PROVE  parser' = "parsing" /\ Track(rs, J)'
<1>1. Len(rs) \in Nat /\ J \in Nat
  BY LenProperties
<1>2. PICK r \in 0 .. J : Past(rs, r) \/ (r # 0 /\ Inside(rs, r))
  BY DEF Track
<1>3. CASE r # 0 /\ Inside(rs, r)
  <2>1. r \in 1 .. J /\ r \in 1 .. Len(rs)
    BY <1>1, <1>3
  <2>2. parser' = "parsing" /\ (Inside(rs, r)' \/ Past(rs, r)')
    BY <1>3, <2>1, InsideStep
  <2> QED BY <1>3, <2>2 DEF Track
<1>4. CASE Past(rs, r)
  <2>1. r # J /\ r + 1 \in 1 .. J /\ r + 1 \in 1 .. Len(rs) /\ r + 1 - 1 = r
    BY <1>1, <1>4
  <2> DEFINE q == r + 1
  <2>2. Past(rs, q - 1) /\ OnDisk(rs, q) /\ Fits(rs, q) /\ q \in 1 .. Len(rs) /\ q \in 0 .. J /\ q # 0
    BY <1>4, <2>1
  <2> HIDE DEF q
  <2>3. parser' = "parsing" /\ Inside(rs, q)'
    BY <2>2, PastStep
  <2> QED BY <2>2, <2>3 DEF Track
<1> QED BY <1>2, <1>3, <1>4

-----------------------------------------------------------------------------

\* On files that end with run j.
RightUpTo(j) ==
  \/ parser = "waiting" /\ Past(runs, 0)
  \/ parser = "parsing" /\ Track(runs, j)
  \/ parser = "done" /\ Past(runs, j)

PrintsRight ==
  process # "running" => \A j \in 1 .. Len(runs) : IntactUpTo(j) => RightUpTo(j)

\* What the lemmas below assume of the program that is gone and of its files.
Left(j) ==
  /\ EncoderTypeOK
  /\ Describes(runs, calls, log, runlengths)
  /\ Ordered(runs)
  /\ process # "running"
  /\ DiskInv
  /\ j \in 1 .. Len(runs)
  /\ IntactUpTo(j)

LEMMA EncoderFacts ==
  ASSUME EncoderTypeOK
  PROVE  /\ runs \in Seq(Run) /\ log \in Seq(Token)
         /\ runlengths \in Seq(Record) /\ calls \in Seq(Index)
         /\ Len(runs) \in Nat /\ Len(log) \in Nat
         /\ Len(runlengths) \in Nat /\ Len(calls) \in Nat
<1>1. /\ runs \in Seq(Run) /\ log \in Seq(Token)
      /\ runlengths \in Seq(Record) /\ calls \in Seq(Index)
  BY DEF EncoderTypeOK
<1> QED BY <1>1, LenProperties

\* On disk is the log stream up to the end of run j, with every run before it.
LEMMA IntactOnDisk ==
  ASSUME NEW j, Left(j), NEW r \in 1 .. j
  PROVE  /\ r \in 1 .. Len(runs) /\ OnDisk(runs, r)
         /\ r = j => EndPos(runs, r) = Len(disk.log)
<1>1. /\ runs \in Seq(Run) /\ Len(runs) \in Nat /\ Len(log) \in Nat
  BY EncoderFacts DEF Left
<1>2. j \in 1 .. Len(runs) /\ r \in 1 .. Len(runs) /\ r # 0 /\ j # 0
  BY <1>1 DEF Left
<1>3. /\ runs[r].pos \in Nat /\ Tokens(runs[r]) \in Nat \ {0}
      /\ runs[j].pos \in Nat /\ Tokens(runs[j]) \in Nat \ {0}
      /\ runs[r].index \in Nat
  <2>1. runs[r].index \in Index
    BY <1>1, <1>2, RunFields
  <2> QED BY <1>1, <1>2, <2>1, RunFields, FormatsAssumption DEF Index
<1>4. Len(disk.log) = EndPos(runs, j) /\ Len(disk.log) \in Nat
  BY <1>1, <1>2 DEF Left, IntactUpTo, DiskInv, EndPos
<1>5. \A k \in 1 .. Len(disk.log) : disk.log[k] = log[k]
  <2>1. disk.log[Len(disk.log)].kind # "torn"
    BY DEF Left, IntactUpTo
  <2> QED BY <2>1 DEF Left, DiskInv
<1>6. EndPos(runs, r) <= Len(disk.log) /\ EndPos(runs, r) \in Nat
  <2>1. CASE r = j
    BY <2>1, <1>4
  <2>2. CASE r < j
    <3> DEFINE p == runs[r].pos
               t == Tokens(runs[r])
               q == runs[j].pos
               u == Tokens(runs[j])
    <3>1. p + t <= q
      BY <2>2, <1>2 DEF Left, Ordered
    <3>2. EndPos(runs, r) = p + t - 1 /\ EndPos(runs, j) = q + u - 1
      BY <1>2 DEF EndPos
    <3>3. p \in Nat /\ t \in Nat \ {0} /\ q \in Nat /\ u \in Nat \ {0}
      BY <1>3
    <3> HIDE DEF p, t, q, u
    <3> QED BY <1>4, <3>1, <3>2, <3>3
  <2>3. r = j \/ r < j
    BY <1>1, <1>2
  <2> QED BY <2>1, <2>2, <2>3
<1>7. \A k \in 1 .. EndPos(runs, r) : disk.log[k] = log[k]
  BY <1>4, <1>5, <1>6
<1>8. runs[r].index < Len(disk.index) /\ ~ Unpacker!TornIndexFile
  BY DEF Left, IntactUpTo
<1>9. disk.index[runs[r].index + 1] = "whole"
  BY <1>3, <1>8, EntryWhole DEF Left
<1>10. Typed(runs, calls, log, runlengths) /\ Describes(runs, calls, log, runlengths)
  BY EncoderFacts DEF Left, Typed
<1>11. OnDisk(runs, r)
  BY <1>2, <1>6, <1>7, <1>8, <1>9, <1>10, DescribedOnDisk
<1> QED BY <1>2, <1>4, <1>11

\* The records on disk are the encoder's, perhaps with no count.
LEMMA RecordsOnDisk ==
  ASSUME EncoderTypeOK, DiskInv, process # "running", NEW m \in 1 .. Len(disk.runlengths)
  PROVE  /\ m \in 1 .. Len(runlengths)
         /\ disk.runlengths[m].index = runlengths[m].index
         /\ disk.runlengths[m].count > 0 => disk.runlengths[m] = runlengths[m]
<1>1. runlengths \in Seq(Record) /\ Len(runlengths) \in Nat
  BY EncoderFacts
<1>2. m \in 1 .. Len(runlengths)
  BY <1>1 DEF DiskInv
<1>3. runlengths[m] \in Record
  BY <1>1, <1>2, ElementOfSeq
<1>4. \/ disk.runlengths[m] = runlengths[m]
      \/ disk.runlengths[m] = [runlengths[m] EXCEPT !.count = 0]
  BY DEF DiskInv
<1> QED BY <1>2, <1>3, <1>4 DEF Record

\* Each of these runs takes its own record, since none is ambiguous.
LEMMA IntactFits ==
  ASSUME NEW j, Left(j), NEW r \in 1 .. j
  PROVE  Fits(runs, r)
<1>1. /\ runs \in Seq(Run) /\ runlengths \in Seq(Record)
      /\ Len(runs) \in Nat /\ Len(runlengths) \in Nat
      /\ disk.runlengths \in Seq(Record) /\ Len(disk.runlengths) \in Nat
  BY EncoderFacts, LenProperties DEF Left, DiskInv
<1>2. j \in 1 .. Len(runs) /\ r \in 1 .. Len(runs)
  BY <1>1 DEF Left
<1>3. Names(runs, runlengths) /\ \A k \in 1 .. Len(runs) : runs[k].record <= Len(runlengths)
  BY DEF Left, Describes, Bounded
<1>4. runs[r].record \in Nat /\ runs[r].count \in Nat /\ runs[r].count >= 1
  BY <1>1, <1>2, RunFields DEF Left, Describes, Bounded
<1>5. runs[r].count > 1 =>
        /\ runs[r].record \in 1 .. Len(disk.runlengths)
        /\ disk.runlengths[runs[r].record].count > 0
  BY DEF Left, IntactUpTo
<1>6. CASE runs[r].record # 0
  <2>1. runs[r].count > 1
    BY <1>2, <1>3, <1>6 DEF Names
  <2>2. disk.runlengths[runs[r].record] = runlengths[runs[r].record]
    BY <1>5, <2>1, RecordsOnDisk DEF Left
  <2> QED BY <1>1, <1>2, <1>3, <1>5, <1>6, <2>1, <2>2, RecordedFits
<1>7. CASE runs[r].record = 0
  <2>1. runs[r].count = 1
    BY <1>1, <1>4, <1>5, <1>7
  <2>2. ASSUME NEW n \in 0 .. Len(disk.runlengths), Consumed(runs, n, r - 1),
               HasRecord(n, runs[r].index)
        PROVE  FALSE
    <3>1. n + 1 \in 1 .. Len(disk.runlengths) /\ n \in Nat
      BY <1>1, <2>2 DEF HasRecord
    <3>2. n + 1 \in 1 .. Len(runlengths) /\ disk.runlengths[n + 1].index = runlengths[n + 1].index
      BY <3>1, RecordsOnDisk DEF Left
    <3>3. n < Len(runlengths)
      BY <1>1, <3>2
    <3>4. PICK k \in r + 1 .. Len(runs) :
            /\ runs[k].record = n + 1
            /\ \A m \in r .. k - 1 : runs[m].record = 0 /\ runs[m].count = 1
      BY <1>1, <1>2, <1>3, <1>7, <2>2, <3>1, <3>3, NextRecordIsLater
    <3>5. k \in 1 .. Len(runs) /\ r < k
      BY <1>1, <1>2
    <3>6. runlengths[runs[k].record] = [index |-> runs[k].index, count |-> runs[k].count]
      BY <1>3, <3>1, <3>4, <3>5 DEF Names
    <3>7. runs[r].index = runs[k].index
      BY <2>2, <3>2, <3>4, <3>6 DEF HasRecord
    <3>8. Ambiguous
      BY <1>2, <3>1, <3>4, <3>5, <3>7 DEF Ambiguous
    <3> QED BY <3>8 DEF Left, IntactUpTo, Decodable
  <2> QED BY <1>7, <2>1, <2>2 DEF Fits
<1> QED BY <1>6, <1>7

\* A step of the parser leaves it right: it reads each index and each value
\* where the encoder wrote it, and with its own length.
LEMMA ParsingStaysRight ==
  ASSUME NEW j, Left(j), Unpacker!ParserTypeOK, RightUpTo(j),
         Unpacker!ParserNext, UNCHANGED <<encoderVars, files>>
  PROVE  RightUpTo(j)'
<1>1. runs' = runs /\ calls' = calls /\ disk' = disk
  BY DEF encoderVars, history, files
<1>2. /\ j \in Nat /\ 1 \in 1 .. j /\ j \in 1 .. j /\ j \in 0 .. Len(runs)
      /\ runs \in Seq(Run) /\ Len(runs) \in Nat /\ DiskInv
  <2>1. Len(runs) \in Nat /\ j \in 1 .. Len(runs) /\ runs \in Seq(Run)
    BY EncoderFacts DEF Left
  <2> QED BY <2>1 DEF Left
<1>3. \A r \in 1 .. j : OnDisk(runs, r) /\ Fits(runs, r)
  BY IntactOnDisk, IntactFits
<1>4. EndPos(runs, j) = Len(disk.log) /\ Len(disk.log) \in Nat
  BY <1>2, IntactOnDisk, LenProperties DEF DiskInv
<1>5. ASSUME NEW rs, rs = runs, NEW r
      PROVE  (Past(rs, r)' => Past(runs, r)') /\ (Inside(rs, r)' => Inside(runs, r)')
  BY <1>1, <1>5 DEF Past, Inside, EndPos, EndCall, Consumed, Lines, LineOf, Tokens
<1>6. CASE parser = "waiting"
  <2>1. Past(runs, 0)
    BY <1>6 DEF RightUpTo
  <2>2. disk.log # <<>> /\ disk.index # <<>> /\ ~ Unpacker!TornIndexFile
    <3>1. OnDisk(runs, 1) /\ 1 \in 1 .. Len(runs)
      BY <1>2, <1>3
    <3>2. runs[1].index \in Nat
      <4>1. runs[1].index \in Index
        BY <1>2, <3>1, RunFields
      <4> QED BY <4>1, FormatsAssumption DEF Index
    <3>3. Len(<<>>) = 0
      OBVIOUS
    <3>4. ~ Unpacker!TornIndexFile
      BY DEF Left, IntactUpTo
    <3>5. disk.index # <<>>
      BY <3>1, <3>2, <3>3 DEF OnDisk
    <3>6. disk.log # <<>>
      <4>1. EndPos(runs, 1) \in Nat \ {0}
        <5> DEFINE a == EndPos(runs, 1 - 1)
                   b == EndPos(runs, 1)
                   c == runs[1].count
        <5>1. a \in Nat /\ c \in Nat /\ b = a + 1 + IF runs[1].index \in NoArgs THEN 0 ELSE c
          BY <3>1 DEF OnDisk
        <5> HIDE DEF a, b, c
        <5> QED BY <5>1 DEF b
      <4>2. EndPos(runs, 1) <= Len(disk.log)
        BY <3>1 DEF OnDisk
      <4> QED BY <4>1, <4>2, <3>3
    <3> QED BY <3>4, <3>5, <3>6
  <2>3. parser' = "parsing" /\ Past(runs, 0)'
    <3>1. PICK rs : rs = runs
      OBVIOUS
    <3>2. Past(rs, 0)
      BY <2>1, <3>1
    <3>3. parser' = "parsing" /\ Past(rs, 0)'
      BY <1>1, <1>6, <2>2, <3>2, OpenStep
    <3> QED BY <1>5, <3>1, <3>3
  <2>4. 0 \in 0 .. j
    BY <1>2
  <2> QED BY <2>3, <2>4 DEF RightUpTo, Track
<1>7. CASE parser = "parsing" /\ ~ Past(runs, j)
  <2>1. PICK rs : rs = runs
    OBVIOUS
  <2>2. parser' = "parsing" /\ Track(rs, j)'
    <3>1. Track(rs, j) /\ ~ Past(rs, j) /\ rs \in Seq(Run) /\ j \in 0 .. Len(rs)
          /\ \A r \in 1 .. j : OnDisk(rs, r) /\ Fits(rs, r)
      BY <1>2, <1>3, <1>7, <2>1 DEF RightUpTo
    <3> QED BY <1>1, <1>2, <1>7, <3>1, TrackStep
  <2>3. Track(runs, j)'
    BY <1>5, <2>1, <2>2 DEF Track
  <2> QED BY <2>2, <2>3 DEF RightUpTo
<1>8. CASE parser = "parsing" /\ Past(runs, j)
  <2>1. left = 0 /\ m_logfile_index = Len(disk.log)
    BY <1>4, <1>8 DEF Past
  <2>2. Unpacker!Finish
    BY <1>4, <1>8, <2>1 DEF Unpacker!ParserNext, Unpacker!Open, Unpacker!ParseIndex,
                       Unpacker!PrintLine, Unpacker!Derail
  <2>3. parser' = "done" /\ UNCHANGED <<m_logfile_index, m_runlengthfile_index, left, printed>>
    BY <2>2 DEF Unpacker!Finish, Unpacker!positions
  <2>4. Past(runs, j)'
    BY <1>1, <1>8, <2>3 DEF Past, EndPos, EndCall, Consumed, Lines, LineOf, Tokens
  <2> QED BY <2>3, <2>4 DEF RightUpTo
<1>9. CASE parser = "done"
  BY <1>9 DEF Unpacker!ParserNext, Unpacker!Open, Unpacker!ParseIndex, Unpacker!Parsing,
              Unpacker!PrintLine, Unpacker!Derail, Unpacker!Finish
<1> QED BY <1>6, <1>7, <1>8, <1>9 DEF RightUpTo

LEMMA FreshIsRight == IInv /\ Unpacker!ParserInit => PrintsRight
BY FreshIsPast DEF PrintsRight, RightUpTo

LEMMA NextPrintsRight ==
  ASSUME IInv, RunsInOrder, DiskInv, Unpacker!ParserTypeOK, PrintsRight,
         process # "running", Unpacker!ParserNext, UNCHANGED <<encoderVars, files>>
  PROVE  PrintsRight'
<1>1. runs' = runs /\ calls' = calls /\ log' = log /\ orphaned' = orphaned /\ disk' = disk
  BY DEF encoderVars, encoder, history, files
<1> SUFFICES ASSUME NEW j \in 1 .. Len(runs), IntactUpTo(j)
             PROVE  RightUpTo(j)'
  BY <1>1 DEF PrintsRight, IntactUpTo, Decodable, Ambiguous, Unpacker!TornIndexFile
<1>2. Left(j)
  BY DEF Left, IInv, RunsInOrder, IntactUpTo, Decodable
<1>3. RightUpTo(j)
  BY DEF PrintsRight
<1> QED BY <1>2, <1>3, ParsingStaysRight

LEMMA RightInvariant ==
  Spec => [](IInv /\ RunsInOrder /\ FilesInv /\ DiskInv /\ Unpacker!ParserTypeOK /\ PrintsRight)
<1>1. Init => PrintsRight
  BY DEF Init, PrintsRight
<1>2. /\ IInv /\ RunsInOrder /\ DiskInv /\ Unpacker!ParserTypeOK /\ PrintsRight
      /\ IInv' /\ DiskInv' /\ [Next]_vars
      => PrintsRight'
  <2> SUFFICES ASSUME IInv, RunsInOrder, DiskInv, Unpacker!ParserTypeOK, PrintsRight,
                      IInv', [Next]_vars
               PROVE  PrintsRight'
    OBVIOUS
  <2>1. CASE process = "running" /\ UNCHANGED parserVars
    <3>1. Unpacker!ParserInit'
      BY <2>1 DEF DiskInv, parserVars, Unpacker!ParserInit
    <3> QED BY <3>1, FreshIsRight, PTL
  <2>2. CASE UNCHANGED vars
    <3>1. /\ runs' = runs /\ calls' = calls /\ orphaned' = orphaned /\ disk' = disk
          /\ process' = process /\ UNCHANGED parserVars
      BY <2>2 DEF vars, encoderVars, history, files
    <3>2. ASSUME NEW j \in 1 .. Len(runs)
          PROVE  IntactUpTo(j)' <=> IntactUpTo(j)
      BY <3>1 DEF IntactUpTo, Decodable, Ambiguous, Unpacker!TornIndexFile
    <3>3. ASSUME NEW r
          PROVE  (Past(runs, r)' <=> Past(runs, r)) /\ (Inside(runs, r)' <=> Inside(runs, r))
      BY <3>1 DEF parserVars, Past, Inside, EndPos, EndCall, Consumed, Lines, LineOf, Tokens
    <3>4. ASSUME NEW j
          PROVE  RightUpTo(j)' <=> RightUpTo(j)
      BY <3>1, <3>3 DEF parserVars, RightUpTo, Track
    <3> QED BY <3>1, <3>2, <3>4 DEF PrintsRight
  <2>3. CASE /\ process # "running" /\ Unpacker!ParserNext
             /\ UNCHANGED <<encoderVars, files>>
    BY <2>3, NextPrintsRight
  <2> QED BY <2>1, <2>2, <2>3, StepsOfUnpacker
<1> QED BY <1>1, <1>2, FilesInvariant, DiskInvariant, ParserInvariant,
           SpecImpliesEncoderSpec, RunsOrdered, PTL DEF Spec

\* What is printed so far, and in the end.
LEMMA RightMeansInOrder ==
  ASSUME IInv, NEW j \in 1 .. Len(runs), RightUpTo(j), IntactUpTo(j)
  PROVE  /\ parser \in {"waiting", "parsing", "done"}
         /\ printed = Lines(Len(printed))
         /\ parser = "done" => Len(printed) = runs[j].first + runs[j].count - 1
<1>1. /\ runs \in Seq(Run) /\ Len(runs) \in Nat /\ j # 0
      /\ Describes(runs, calls, log, runlengths)
  BY EncoderFacts DEF IInv, IntactUpTo, Decodable
<1>2. ASSUME NEW r \in 1 .. Len(runs)
      PROVE  /\ EndCall(runs, r) \in Nat /\ runs[r].count <= EndCall(runs, r)
             /\ runs[r].count \in Nat
             /\ EndCall(runs, r) = runs[r].first + runs[r].count - 1
  <2> DEFINE f == runs[r].first
             c == runs[r].count
  <2>1. f \in Nat /\ c \in Nat /\ f >= 1
    BY <1>1, RunFields DEF Describes, Bounded
  <2>2. EndCall(runs, r) = f + c - 1
    BY <1>1 DEF EndCall
  <2> HIDE DEF f, c
  <2>3. f + c - 1 \in Nat /\ c <= f + c - 1
    BY <2>1
  <2> QED BY <2>1, <2>2, <2>3 DEF f, c
<1>3. ASSUME NEW n \in Nat, printed = Lines(n)
      PROVE  printed = Lines(Len(printed)) /\ Len(printed) = n
  BY <1>3, LinesFacts
<1>4. ASSUME NEW r \in 0 .. j, Past(runs, r)
      PROVE  printed = Lines(Len(printed)) /\ Len(printed) = EndCall(runs, r)
  <2>1. EndCall(runs, r) \in Nat
    BY <1>1, <1>2 DEF EndCall
  <2> QED BY <1>3, <1>4, <2>1 DEF Past
<1>5. ASSUME NEW r \in 1 .. j, Inside(runs, r)
      PROVE  printed = Lines(Len(printed))
  <2>1. r \in 1 .. Len(runs)
    BY <1>1
  <2>2. EndCall(runs, r) - left \in Nat
    BY <1>2, <1>5, <2>1 DEF Inside
  <2> QED BY <1>3, <1>5, <2>2 DEF Inside
<1>6. \A r \in 0 .. j : r # 0 => r \in 1 .. j
  BY <1>1
<1>7. j \in 0 .. j /\ 0 \in 0 .. j
  BY <1>1
<1> QED BY <1>2, <1>4, <1>5, <1>6, <1>7 DEF RightUpTo, Track

\* Wherever the process ended and whatever part of each file reached the disk:
\* if the files end with the same run, the unpacker prints the calls in order
\* with their own values, and all of that run.
THEOREM DeflatesInOrder == Spec => []PrintsCallsInOrder
<1>1. IInv /\ PrintsRight => PrintsCallsInOrder
  <2> SUFFICES ASSUME IInv, PrintsRight, NEW j \in 1 .. Len(runs),
                      process # "running", IntactUpTo(j)
               PROVE  /\ parser \in {"waiting", "parsing", "done"}
                      /\ printed = Lines(Len(printed))
                      /\ parser = "done" => Len(printed) = runs[j].first + runs[j].count - 1
    BY DEF PrintsCallsInOrder
  <2>1. RightUpTo(j)
    BY DEF PrintsRight
  <2> QED BY <2>1, RightMeansInOrder
<1> QED BY <1>1, RightInvariant, PTL

\* A program that ran to its end left the whole of its last run.
LEMMA ExitIsIntact ==
  ASSUME IInv, FilesInv, DiskInv, process = "exited", Decodable, runs # <<>>
  PROVE  Len(runs) \in 1 .. Len(runs) /\ IntactUpTo(Len(runs))
<1> DEFINE N == Len(runs)
<1>1. /\ runs \in Seq(Run) /\ log \in Seq(Token) /\ calls \in Seq(Index)
      /\ runlengths \in Seq(Record)
      /\ N \in 1 .. N /\ Len(log) \in Nat /\ EncoderTypeOK
  BY EncoderFacts, EmptySeq DEF IInv
<1>2. Describes(runs, calls, log, runlengths) /\ Settled(runs)
  BY DEF IInv, Decodable, DiskInv
<1>3. /\ disk.index = IndexEntries(Registered) /\ disk.log = log
      /\ disk.runlengths = runlengths
  BY DEF DiskInv, Written
<1>4. Registered \in Nat
  BY <1>1, UsedFinite, FormatsAssumption
<1>5. disk.index \in Seq({"whole"}) /\ Len(disk.index) = Registered
  BY <1>3, <1>4 DEF IndexEntries
<1>6. ~ Unpacker!TornIndexFile
  <2>1. ASSUME disk.index # <<>> PROVE disk.index[Len(disk.index)] # "torn"
    <3>1. Len(disk.index) \in 1 .. Len(disk.index)
      BY <1>5, <2>1, EmptySeq
    <3>2. disk.index[Len(disk.index)] \in {"whole"}
      BY <1>5, <3>1, ElementOfSeq
    <3> QED BY <3>2
  <2> QED BY <2>1 DEF Unpacker!TornIndexFile
<1>7. runs[N].pos \in Nat /\ Tokens(runs[N]) \in Nat \ {0} /\ runs[N].pos >= 1
  BY <1>1, <1>2, RunFields DEF Describes, Bounded
<1>8. Len(disk.log) = runs[N].pos + Tokens(runs[N]) - 1 /\ Len(log) \in 1 .. Len(log)
  <2> DEFINE p == runs[N].pos
             t == Tokens(runs[N])
  <2>1. p + t = Len(log) + 1
    BY <1>1, <1>2 DEF Describes, Holds
  <2>2. p \in Nat /\ t \in Nat \ {0} /\ p >= 1 /\ Len(log) \in Nat
    BY <1>1, <1>7
  <2> HIDE DEF p, t
  <2>3. Len(log) = p + t - 1 /\ Len(log) \in 1 .. Len(log)
    BY <2>1, <2>2
  <2> QED BY <2>3, <1>3 DEF p, t
<1>9. disk.log[Len(disk.log)].kind # "torn"
  <2>1. log[Len(log)] \in Token
    BY <1>1, <1>8, ElementOfSeq
  <2> QED BY <2>1, <1>3 DEF Token
<1>10. ASSUME NEW k \in 1 .. N
       PROVE  /\ runs[k].index < Len(disk.index)
              /\ runs[k].count > 1 =>
                   /\ runs[k].record \in 1 .. Len(disk.runlengths)
                   /\ disk.runlengths[runs[k].record].count > 0
  <2>1. /\ runs[k].record \in Nat /\ runs[k].pos \in Nat /\ runs[k].pos >= 1
        /\ Tokens(runs[k]) \in Nat \ {0} /\ runs[k].pos + Tokens(runs[k]) <= Len(log) + 1
        /\ runs[k].record <= Len(runlengths)
    BY <1>1, <1>2, RunFields DEF Describes, Bounded
  <2>2. runs[k].index < Len(disk.index)
    <3>1. log[runs[k].pos] = IndexToken(runs[k].index)
      BY <1>2 DEF Describes, Holds
    <3>2. runs[k].pos \in 1 .. Len(log)
      <4> DEFINE p == runs[k].pos
                 t == Tokens(runs[k])
      <4>1. p \in Nat /\ p >= 1 /\ t \in Nat \ {0} /\ p + t <= Len(log) + 1 /\ Len(log) \in Nat
        BY <2>1, <1>1
      <4> HIDE DEF p, t
      <4>2. p \in 1 .. Len(log)
        BY <4>1
      <4> QED BY <4>2 DEF p
    <3>3. runs[k].index \in Used
      <4>1. log[runs[k].pos].index \in Used
        BY <3>2 DEF FilesInv, LogUses
      <4> QED BY <3>1, <4>1 DEF IndexToken
    <3> QED BY <3>3, <1>1, <1>5, UsedAreRegistered DEF FilesInv
  <2>3. ASSUME runs[k].count > 1
        PROVE  /\ runs[k].record \in 1 .. Len(disk.runlengths)
               /\ disk.runlengths[runs[k].record].count > 0
    <3>1. runs[k].record # 0
      <4>1. runs[k].count # 1
        BY <2>3
      <4>2. runs[k].record = 0 => k = N
        BY <4>1, <1>2 DEF Describes, Names
      <4>3. runs[N].record # 0 \/ runs[N].count = 1
        BY <1>2 DEF Settled
      <4> QED BY <4>1, <4>2, <4>3
    <3>2. runlengths[runs[k].record] = [index |-> runs[k].index, count |-> runs[k].count]
      BY <3>1, <1>2 DEF Describes, Names
    <3>3. runs[k].record \in 1 .. Len(runlengths)
      <4>1. Len(runlengths) \in Nat
        BY <1>1, LenProperties
      <4> QED BY <4>1, <3>1, <2>1
    <3>4. runs[k].count \in Nat
      BY <1>1, RunFields
    <3> QED BY <2>3, <3>2, <3>3, <3>4, <1>3
  <2> QED BY <2>2, <2>3
<1> QED BY <1>1, <1>6, <1>8, <1>9, <1>10 DEF IntactUpTo

\* The half of RoundTripExactlyWhenDecodable a user relies on.
DecodableIsPrinted ==
  Finished /\ process = "exited" /\ Decodable /\ calls # <<>> =>
    parser = "done" /\ printed = CallsAsLines

\* Deflating the files of a program that ran to its end prints exactly its
\* calls, if no run was flushed and continued and no record is ambiguous.
THEOREM DecodableRoundTrip == Spec => []DecodableIsPrinted
<1>1. IInv /\ FilesInv /\ DiskInv /\ PrintsRight => DecodableIsPrinted
  <2> SUFFICES ASSUME IInv, FilesInv, DiskInv, PrintsRight,
                      Finished, process = "exited", Decodable, calls # <<>>
               PROVE  parser = "done" /\ printed = CallsAsLines
    BY DEF DecodableIsPrinted
  <2>1. Describes(runs, calls, log, runlengths)
    BY DEF IInv, Decodable
  <2>2. runs # <<>>
    BY <2>1 DEF Describes, Partition
  <2>3. Len(runs) \in 1 .. Len(runs) /\ IntactUpTo(Len(runs))
    BY <2>2, ExitIsIntact
  <2>4. RightUpTo(Len(runs))
    BY <2>3 DEF PrintsRight
  <2>5. /\ parser \in {"waiting", "parsing", "done"}
        /\ printed = Lines(Len(printed))
        /\ parser = "done" =>
             Len(printed) = runs[Len(runs)].first + runs[Len(runs)].count - 1
    BY <2>3, <2>4, RightMeansInOrder
  <2>6. parser = "done"
    BY <2>5 DEF Finished
  <2>7. runs[Len(runs)].first + runs[Len(runs)].count = Len(calls) + 1
    BY <2>1, <2>3 DEF Describes, Partition
  <2>8. Len(calls) \in Nat
    BY EncoderFacts DEF IInv
  <2>9. Len(printed) = Len(calls)
    <3> DEFINE f == runs[Len(runs)].first
               c == runs[Len(runs)].count
    <3>1. Len(printed) = f + c - 1
      BY <2>5, <2>6
    <3>2. f + c = Len(calls) + 1
      BY <2>7
    <3>3. f \in Nat /\ c \in Nat
      BY <2>3, EncoderFacts, RunFields DEF IInv
    <3> HIDE DEF f, c
    <3> QED BY <3>1, <3>2, <3>3, <2>8
  <2> QED BY <2>5, <2>6, <2>9 DEF CallsAsLines
<1> QED BY <1>1, RightInvariant, PTL

(***************************************************************************)
(* What a flush made durable, and what was written before a run was flushed *)
(* and then continued, is a snapshot of the calls, the streams and the runs *)
(* that they go on from.                                                   *)
(***************************************************************************)
Extends(s, t) ==
  Len(s) <= Len(t) /\ \A k \in 1 .. Len(s) : t[k] = s[k]

\* All but the last run are as they were, and the last keeps its record.
RunsExtend(rs, ts) ==
  /\ Len(rs) <= Len(ts)
  /\ \A k \in 1 .. Len(rs) :
       /\ ts[k].index = rs[k].index
       /\ rs[k].record # 0 => ts[k].record = rs[k].record
       /\ k < Len(rs) => ts[k].count = rs[k].count /\ ts[k].record = rs[k].record

LEMMA ExtendsTransitive ==
  ASSUME NEW R, NEW S, NEW T, NEW s \in Seq(R), NEW t \in Seq(S), NEW u \in Seq(T),
         Extends(s, t), Extends(t, u)
  PROVE  Extends(s, u)
<1>1. Len(s) \in Nat /\ Len(t) \in Nat /\ Len(u) \in Nat
  BY LenProperties
<1>2. \A k \in 1 .. Len(s) : k \in 1 .. Len(t)
  BY <1>1 DEF Extends
<1> QED BY <1>1, <1>2 DEF Extends

LEMMA RunsExtendTransitive ==
  ASSUME NEW rs \in Seq(Run), NEW ts \in Seq(Run), NEW us \in Seq(Run),
         RunsExtend(rs, ts), RunsExtend(ts, us)
  PROVE  RunsExtend(rs, us)
<1>1. Len(rs) \in Nat /\ Len(ts) \in Nat /\ Len(us) \in Nat
  BY LenProperties
<1>2. \A k \in 1 .. Len(rs) : k \in 1 .. Len(ts) /\ (k < Len(rs) => k < Len(ts))
  BY <1>1 DEF RunsExtend
<1> QED BY <1>1, <1>2 DEF RunsExtend

LEMMA RecordsExtend ==
  ASSUME EncoderTypeOK
  PROVE  Extends(runlengths, RecordsWithCurrent)
<1> DEFINE r == [index |-> m_runlength_index, count |-> m_current_runlength]
<1>1. runlengths \in Seq(Record) /\ r \in Record
  BY DEF EncoderTypeOK, Record
<1>2. Len(runlengths) \in Nat
  BY <1>1, LenProperties
<1> HIDE DEF r
<1>3. /\ Len(Append(runlengths, r)) = Len(runlengths) + 1
      /\ \A k \in 1 .. Len(runlengths) : Append(runlengths, r)[k] = runlengths[k]
  BY <1>1, AppendFacts
<1>4. Extends(runlengths, Append(runlengths, r)) /\ Extends(runlengths, runlengths)
  BY <1>2, <1>3 DEF Extends
<1> QED BY <1>4 DEF RecordsWithCurrent, r

LEMMA RunsRecordExtend ==
  ASSUME IInv
  PROVE  /\ RunsExtend(runs, RunsWithRecord)
         /\ RunsWithRecord \in Seq(Run) /\ Len(RunsWithRecord) = Len(runs)
<1>1. runs \in Seq(Run) /\ Len(runs) \in Nat /\ EncoderTypeOK
  BY EncoderFacts DEF IInv
<1>2. CASE EndsRepeatedRun
  <2>1. runs # <<>> /\ RecordOfCurrent \in Nat
    BY <1>1, <1>2, RecordTypes, RecordOfCurrentType
  <2> DEFINE N == Len(runs)
             ts == RunsWithRecord
  <2>2. ts = [runs EXCEPT ![N].record = RecordOfCurrent]
    BY <1>2 DEF RunsWithRecord
  <2>3. /\ ts \in Seq(Run) /\ Len(ts) = N
        /\ \A j \in 1 .. N :
             /\ ts[j].index = runs[j].index
             /\ ts[j].count = runs[j].count
             /\ j # N => ts[j].record = runs[j].record
        /\ ts[N].record = RecordOfCurrent
    BY <1>1, <2>1, <2>2, RecordedRuns
  <2>4. runs[N].record # 0 => ts[N].record = runs[N].record
    BY <1>1, <2>1, <2>3, RecordOfCurrentType
  <2> HIDE DEF ts
  <2>5. RunsExtend(runs, ts)
    BY <1>1, <2>3, <2>4 DEF RunsExtend
  <2> QED BY <2>3, <2>5 DEF ts
<1>3. CASE ~ EndsRepeatedRun
  BY <1>1, <1>3 DEF RunsWithRecord, RunsExtend
<1> QED BY <1>2, <1>3

LEMMA LogExtends ==
  ASSUME IInv, NEW i \in Index, Log(i)
  PROVE  /\ Extends(calls, calls') /\ Extends(log, log')
         /\ Extends(runlengths, runlengths') /\ RunsExtend(runs, runs')
<1>1. /\ runs \in Seq(Run) /\ Len(runs) \in Nat /\ EncoderTypeOK
      /\ Len(calls) \in Nat /\ Len(log) \in Nat /\ Len(runlengths) \in Nat
  BY EncoderFacts DEF IInv
<1>2. Extends(calls, calls') /\ Extends(log, log')
  BY <1>1, LogGrows DEF Extends
<1>3. Extends(runlengths, runlengths')
  <2>1. Extends(runlengths, runlengths)
    BY <1>1 DEF Extends
  <2> QED BY <1>1, <2>1, RecordsExtend DEF Log
<1>4. RunsExtend(runs, runs')
  <2>0. runs' = RunsWithCall(i)
    BY DEF Log
  <2>1. CASE WritesIndex(i)
    <3> DEFINE base == IF m_runlength_index # i THEN RunsWithRecord ELSE runs
               r == StartedRun(i)
    <3>1. base \in Seq(Run) /\ Len(base) = Len(runs) /\ RunsExtend(runs, base)
      <4>1. RunsExtend(runs, runs)
        BY <1>1 DEF RunsExtend
      <4> QED BY <1>1, <4>1, RunsRecordExtend
    <3>2. r \in Run
      BY <1>1 DEF StartedRun, Run
    <3>3. runs' = Append(base, r)
      BY <2>0, <2>1 DEF RunsWithCall
    <3> HIDE DEF base, r
    <3>4. Len(runs') = Len(runs) + 1 /\ \A k \in 1 .. Len(runs) : runs'[k] = base[k]
      BY <3>1, <3>2, <3>3, AppendFacts
    <3> QED BY <1>1, <3>1, <3>4 DEF RunsExtend
  <2>2. CASE ~ WritesIndex(i)
    <3>1. runs # <<>>
      BY <2>2 DEF WritesIndex, IInv
    <3>2. runs' = [runs EXCEPT ![Len(runs)].count = @ + 1]
      BY <2>0, <2>2 DEF RunsWithCall
    <3>3. /\ Len(runs') = Len(runs)
          /\ \A j \in 1 .. Len(runs) :
               /\ runs'[j].index = runs[j].index
               /\ j # Len(runs) => runs'[j].count = runs[j].count
               /\ runs'[j].record = runs[j].record
      BY <1>1, <3>1, <3>2, ContinuedRuns
    <3> QED BY <1>1, <3>3 DEF RunsExtend
  <2> QED BY <2>1, <2>2
<1> QED BY <1>2, <1>3, <1>4

\* Whatever happens, the calls and both streams only grow, and the runs too.
LEMMA StepsExtend ==
  ASSUME IInv, [EncoderNext]_encoderVars
  PROVE  /\ Extends(calls, calls') /\ Extends(log, log')
         /\ Extends(runlengths, runlengths') /\ RunsExtend(runs, runs')
<1>1. /\ runs \in Seq(Run) /\ Len(runs) \in Nat /\ EncoderTypeOK
      /\ Len(calls) \in Nat /\ Len(log) \in Nat /\ Len(runlengths) \in Nat
  BY EncoderFacts DEF IInv
<1>2. /\ Extends(calls, calls) /\ Extends(log, log)
      /\ Extends(runlengths, runlengths) /\ RunsExtend(runs, runs)
  BY <1>1 DEF Extends, RunsExtend
<1>3. ASSUME NEW i \in Index, Log(i)
      PROVE  /\ Extends(calls, calls') /\ Extends(log, log')
             /\ Extends(runlengths, runlengths') /\ RunsExtend(runs, runs')
  BY <1>3, LogExtends
<1>4. CASE Flush \/ Close
  <2>1. /\ runlengths' = RecordsWithCurrent /\ runs' = RunsWithRecord
        /\ log' = log /\ calls' = calls
    BY <1>4 DEF Flush, Close, WriteCurrentRunlength
  <2> QED BY <1>1, <1>2, <2>1, RecordsExtend, RunsRecordExtend
<1>5. CASE UNCHANGED encoderVars
  BY <1>2, <1>5 DEF encoderVars, encoder, history
<1> QED BY <1>3, <1>4, <1>5 DEF EncoderNext

(***************************************************************************)
(* The other half of RoundTripExactlyWhenDecodable: with an ambiguous      *)
(* record, or after a run was flushed and continued, the output is wrong.  *)
(***************************************************************************)
\* A run that ends with no record is followed by one of another format.
Adjacent(rs) ==
  \A r \in 1 .. Len(rs) - 1 : rs[r].record = 0 => rs[r + 1].index # rs[r].index

RunsDiffer == ~ orphaned => Adjacent(runs)

LEMMA RecordKeepsDiffer ==
  ASSUME IInv, Adjacent(runs)
  PROVE  Adjacent(RunsWithRecord)
<1>1. /\ RunsExtend(runs, RunsWithRecord) /\ Len(RunsWithRecord) = Len(runs)
      /\ Len(runs) \in Nat
  BY RunsRecordExtend, EncoderFacts DEF IInv
<1> SUFFICES ASSUME NEW r \in 1 .. Len(runs) - 1, RunsWithRecord[r].record = 0
             PROVE  RunsWithRecord[r + 1].index # RunsWithRecord[r].index
  BY <1>1 DEF Adjacent
<1>2. r \in 1 .. Len(runs) /\ r < Len(runs) /\ r + 1 \in 1 .. Len(runs)
  BY <1>1
<1>3. runs[r].record = 0
  BY <1>1, <1>2 DEF RunsExtend
<1> QED BY <1>1, <1>2, <1>3 DEF RunsExtend, Adjacent

LEMMA LogKeepsDiffer ==
  ASSUME IInv, ~ orphaned, Adjacent(runs), NEW i \in Index, Log(i)
  PROVE  Adjacent(runs')
<1>1. /\ runs \in Seq(Run) /\ Len(runs) \in Nat /\ EncoderTypeOK
      /\ Len(calls) \in Nat /\ Len(log) \in Nat /\ CurrentRun
  BY EncoderFacts DEF IInv
<1>2. runs' = RunsWithCall(i)
  BY DEF Log
<1>3. CASE WritesIndex(i)
  <2> DEFINE base == IF m_runlength_index # i THEN RunsWithRecord ELSE runs
             r == StartedRun(i)
  <2>1. base \in Seq(Run) /\ Len(base) = Len(runs) /\ RunsExtend(runs, base) /\ Adjacent(base)
    <3>1. RunsExtend(runs, runs)
      BY <1>1 DEF RunsExtend
    <3> QED BY <1>1, <3>1, RunsRecordExtend, RecordKeepsDiffer
  <2>2. r \in Run /\ r.index = i
    BY <1>1 DEF StartedRun, Run
  <2>3. runs' = Append(base, r)
    BY <1>2, <1>3 DEF RunsWithCall
  <2>4. runs # <<>> /\ base[Len(runs)].record = 0 => base[Len(runs)].index # i
    <3> SUFFICES ASSUME runs # <<>>, base[Len(runs)].record = 0
                 PROVE  base[Len(runs)].index # i
      OBVIOUS
    <3>1. Len(runs) \in 1 .. Len(runs)
      BY <1>1, EmptySeq
    <3>2. base[Len(runs)].index = runs[Len(runs)].index /\ runs[Len(runs)].record = 0
      <4> HIDE DEF base
      <4> QED BY <2>1, <3>1 DEF RunsExtend
    <3>3. m_current_runlength # 0 /\ runs[Len(runs)].index = m_runlength_index
      BY <1>1, <3>2 DEF CurrentRun
    <3>4. m_runlength_index # i
      BY <1>3, <3>3 DEF WritesIndex
    <3> QED BY <3>2, <3>3, <3>4
  <2> HIDE DEF base, r
  <2>5. /\ Len(runs') = Len(runs) + 1 /\ runs'[Len(runs) + 1] = r
        /\ \A k \in 1 .. Len(runs) : runs'[k] = base[k]
    BY <2>1, <2>2, <2>3, AppendFacts
  <2> SUFFICES ASSUME NEW q \in 1 .. Len(runs') - 1, runs'[q].record = 0
               PROVE  runs'[q + 1].index # runs'[q].index
    BY DEF Adjacent
  <2>6. q \in 1 .. Len(runs) /\ (q = Len(runs) \/ q \in 1 .. Len(runs) - 1)
    BY <1>1, <2>5
  <2>7. CASE q = Len(runs)
    <3>1. Len(runs) \in 1 .. Len(runs)
      BY <2>6, <2>7
    <3>2. runs # <<>>
      BY <3>1, EmptySeq
    <3> QED BY <2>2, <2>4, <2>5, <2>6, <2>7, <3>1, <3>2
  <2>8. CASE q \in 1 .. Len(runs) - 1
    <3>1. q + 1 \in 1 .. Len(runs)
      BY <1>1, <2>8
    <3> QED BY <2>1, <2>5, <2>6, <2>8, <3>1 DEF Adjacent
  <2> QED BY <2>6, <2>7, <2>8
<1>4. CASE ~ WritesIndex(i)
  <2>1. runs # <<>>
    BY <1>4 DEF WritesIndex, IInv
  <2>2. runs' = [runs EXCEPT ![Len(runs)].count = @ + 1]
    BY <1>2, <1>4 DEF RunsWithCall
  <2>3. /\ Len(runs') = Len(runs)
        /\ \A j \in 1 .. Len(runs) :
             /\ runs'[j].index = runs[j].index
             /\ runs'[j].record = runs[j].record
    BY <1>1, <2>1, <2>2, ContinuedRuns
  <2>4. \A q \in 1 .. Len(runs) - 1 : q \in 1 .. Len(runs) /\ q + 1 \in 1 .. Len(runs)
    BY <1>1
  <2> QED BY <2>3, <2>4 DEF Adjacent
<1> QED BY <1>3, <1>4

LEMMA RunsAlwaysDiffer == EncoderSpec => []RunsDiffer
<1>1. EncoderInit => RunsDiffer
  <2>1. Len(<<>>) = 0
    OBVIOUS
  <2> QED BY <2>1 DEF EncoderInit, RunsDiffer, Adjacent
<1>2. IInv /\ RunsDiffer /\ [EncoderNext]_encoderVars => RunsDiffer'
  <2> SUFFICES ASSUME IInv, RunsDiffer, [EncoderNext]_encoderVars, ~ orphaned'
               PROVE  Adjacent(runs')
    BY DEF RunsDiffer, Adjacent
  <2>1. ASSUME NEW i \in Index, Log(i) PROVE Adjacent(runs')
    <3>1. ~ orphaned
      BY <2>1 DEF Log
    <3> QED BY <2>1, <3>1, LogKeepsDiffer DEF RunsDiffer
  <2>2. CASE Flush \/ Close
    <3>1. runs' = RunsWithRecord /\ orphaned' = orphaned
      BY <2>2 DEF Flush, Close, WriteCurrentRunlength
    <3> QED BY <3>1, RecordKeepsDiffer DEF RunsDiffer
  <2>3. CASE UNCHANGED encoderVars
    BY <2>3 DEF encoderVars, history, RunsDiffer
  <2> QED BY <2>1, <2>2, <2>3 DEF EncoderNext
<1> QED BY <1>1, <1>2, InductiveInvariant, PTL DEF EncoderSpec

\* The calls, streams and runs before the first call that fell outside every
\* run.  That call wrote no index, so the log stream goes on with its values,
\* with the index of another format, or not at all.
FirstOrphan(rs, cs, lg, rl) ==
  /\ Describes(rs, cs, lg, rl)
  /\ Adjacent(rs)
  /\ rs # <<>>
  /\ rs[Len(rs)].record # 0
  /\ Extends(cs, calls) /\ Extends(lg, log) /\ Extends(rl, runlengths)
  /\ Len(cs) < Len(calls)
  /\ calls[Len(cs) + 1] = rs[Len(rs)].index
  /\ IF Len(log) = Len(lg)
     THEN m_runlength_index = rs[Len(rs)].index /\ m_runlength_index # 0
     ELSE \/ log[Len(lg) + 1].kind = "args"
          \/ log[Len(lg) + 1].index # rs[Len(rs)].index

OrphanKept ==
  orphaned =>
    \E rs \in Seq(Run), cs \in Seq(Index), lg \in Seq(Token), rl \in Seq(Record) :
      FirstOrphan(rs, cs, lg, rl)

\* What a call of the current run's format appends, unless that is format 0.
LEMMA NoIndexWritten ==
  ASSUME IInv, NEW i \in Index, Log(i), m_runlength_index = i, i # 0
  PROVE  /\ Len(log') = Len(log) \/ log'[Len(log) + 1].kind = "args"
         /\ m_runlength_index' = i
<1>1. calls \in Seq(Index) /\ log \in Seq(Token) /\ Len(calls) \in Nat
  BY EncoderFacts DEF IInv
<1>2. ~ WritesIndex(i)
  BY DEF WritesIndex
<1>3. log' = Continued(log, i, Len(calls) + 1)
  BY <1>2 DEF Log, Continued
<1>4. /\ Len(log') = Len(log) + (IF i \in NoArgs THEN 0 ELSE 1)
      /\ i \notin NoArgs => log'[Len(log) + 1] = ArgsToken(i, Len(calls) + 1)
  BY <1>1, <1>3, ContinuedFacts
<1>5. Len(log) \in Nat
  BY <1>1, LenProperties
<1>6. Len(log') = Len(log) \/ log'[Len(log) + 1].kind = "args"
  <2>1. CASE i \in NoArgs
    BY <1>4, <1>5, <2>1
  <2>2. CASE i \notin NoArgs
    BY <1>4, <2>2 DEF ArgsToken
  <2> QED BY <2>1, <2>2
<1> QED BY <1>6 DEF Log

\* A call of another format appends its index first.
LEMMA IndexWritten ==
  ASSUME IInv, NEW i \in Index, Log(i), m_runlength_index # i
  PROVE  Len(log') > Len(log) /\ log'[Len(log) + 1].index = i
<1>1. calls \in Seq(Index) /\ log \in Seq(Token) /\ Len(calls) \in Nat /\ Len(log) \in Nat
  BY EncoderFacts DEF IInv
<1>2. WritesIndex(i)
  BY DEF WritesIndex
<1>3. log' = Started(log, i, Len(calls) + 1)
  BY <1>2 DEF Log, Started
<1>4. /\ Len(log') = Len(log) + 1 + (IF i \in NoArgs THEN 0 ELSE 1)
      /\ log'[Len(log) + 1] = IndexToken(i)
  <2> DEFINE n == Len(calls) + 1
  <2>1. n \in Nat
    BY <1>1
  <2>2. log' = Started(log, i, n)
    BY <1>3
  <2> HIDE DEF n
  <2> QED BY <1>1, <2>1, <2>2, StartedFacts
<1> QED BY <1>1, <1>4 DEF IndexToken

LEMMA OrphanBegins ==
  ASSUME IInv, RunsDiffer, ~ orphaned, NEW i \in Index, Log(i), Orphan(i),
         NEW rs, rs = runs, NEW cs, cs = calls, NEW lg, lg = log, NEW rl, rl = runlengths
  PROVE  FirstOrphan(rs, cs, lg, rl)'
<1>1. /\ Describes(rs, cs, lg, rl) /\ CurrentRun /\ Adjacent(rs) /\ EncoderTypeOK
      /\ Len(calls) \in Nat /\ Len(log) \in Nat
  BY EncoderFacts DEF IInv, RunsDiffer
<1>2. runs # <<>> /\ m_runlength_index = i /\ m_current_runlength = 0 /\ i # 0
  BY DEF Orphan, WritesIndex, IInv
<1>3. rs # <<>> /\ rs[Len(rs)].record # 0 /\ rs[Len(rs)].index = i
  BY <1>1, <1>2 DEF CurrentRun
<1>4. /\ Extends(cs, calls') /\ Extends(lg, log') /\ Extends(rl, runlengths')
  BY LogExtends
<1>5. Len(cs) < Len(calls') /\ calls'[Len(cs) + 1] = i
  BY <1>1, LogGrows
<1>6. /\ Len(log') = Len(lg) \/ log'[Len(lg) + 1].kind = "args"
      /\ m_runlength_index' = i
  BY <1>2, NoIndexWritten
<1> QED BY <1>1, <1>2, <1>3, <1>4, <1>5, <1>6 DEF FirstOrphan

LEMMA OrphanStays ==
  ASSUME IInv, [EncoderNext]_encoderVars,
         NEW rs \in Seq(Run), NEW cs \in Seq(Index), NEW lg \in Seq(Token),
         NEW rl \in Seq(Record), FirstOrphan(rs, cs, lg, rl)
  PROVE  FirstOrphan(rs, cs, lg, rl)'
<1> DEFINE j == rs[Len(rs)].index
<1>1. /\ calls \in Seq(Index) /\ log \in Seq(Token) /\ runlengths \in Seq(Record)
      /\ Len(calls) \in Nat /\ Len(log) \in Nat
      /\ Len(cs) \in Nat /\ Len(lg) \in Nat
  BY EncoderFacts, LenProperties DEF IInv
<1>2. /\ Extends(calls, calls') /\ Extends(log, log') /\ Extends(runlengths, runlengths')
  BY StepsExtend
<1>3. IInv'
  <2>1. ASSUME NEW i \in Index, Log(i) PROVE IInv'
    BY <2>1, LogPreservesIInv
  <2>2. CASE Flush \/ Close
    BY <2>2, RecordingPreservesIInv DEF Flush, Close
  <2>3. CASE UNCHANGED encoderVars
    BY <2>3, StutterPreservesIInv
  <2> QED BY <2>1, <2>2, <2>3 DEF EncoderNext
<1>4. /\ calls' \in Seq(Index) /\ log' \in Seq(Token) /\ runlengths' \in Seq(Record)
      /\ Len(calls') \in Nat /\ Len(log') \in Nat
  <2>1. calls' \in Seq(Index) /\ log' \in Seq(Token) /\ runlengths' \in Seq(Record)
    BY <1>3 DEF IInv, EncoderTypeOK
  <2> QED BY <2>1, LenProperties
<1>5. /\ Extends(cs, calls) /\ Extends(lg, log) /\ Extends(rl, runlengths)
      /\ Len(cs) < Len(calls) /\ calls[Len(cs) + 1] = j
  BY DEF FirstOrphan
<1>6. Extends(cs, calls') /\ Extends(lg, log') /\ Extends(rl, runlengths')
  BY <1>1, <1>2, <1>4, <1>5, ExtendsTransitive
<1>7. Len(cs) < Len(calls') /\ calls'[Len(cs) + 1] = j
  <2>1. Len(cs) + 1 \in 1 .. Len(calls)
    BY <1>1, <1>5
  <2> QED BY <1>1, <1>2, <1>4, <1>5, <2>1 DEF Extends
<1>8. Len(lg) <= Len(log) /\ Len(log) <= Len(log')
  BY <1>2, <1>5 DEF Extends
<1>9. IF Len(log') = Len(lg)
      THEN m_runlength_index' = j /\ m_runlength_index' # 0
      ELSE log'[Len(lg) + 1].kind = "args" \/ log'[Len(lg) + 1].index # j
  <2>1. CASE Len(log) # Len(lg)
    <3>1. Len(lg) + 1 \in 1 .. Len(log) /\ Len(log') # Len(lg)
      BY <1>1, <1>4, <1>8, <2>1
    <3>2. log'[Len(lg) + 1] = log[Len(lg) + 1]
      BY <1>2, <3>1 DEF Extends
    <3>3. log[Len(lg) + 1].kind = "args" \/ log[Len(lg) + 1].index # j
      BY <2>1 DEF FirstOrphan
    <3> QED BY <3>1, <3>2, <3>3
  <2>2. CASE Len(log) = Len(lg)
    <3>1. m_runlength_index = j /\ m_runlength_index # 0
      BY <2>2 DEF FirstOrphan
    <3>2. ASSUME NEW i \in Index, Log(i), i = j
          PROVE  /\ Len(log') = Len(log) \/ log'[Len(log) + 1].kind = "args"
                 /\ m_runlength_index' = j
      BY <3>1, <3>2, NoIndexWritten
    <3>3. ASSUME NEW i \in Index, Log(i), i # j
          PROVE  Len(log') > Len(log) /\ log'[Len(log) + 1].index # j
      BY <3>1, <3>3, IndexWritten
    <3>4. CASE Flush \/ Close \/ UNCHANGED encoderVars
      <4>1. log' = log /\ m_runlength_index' = m_runlength_index
        BY <3>4 DEF Flush, Close, WriteCurrentRunlength, encoderVars, encoder
      <4> QED BY <2>2, <3>1, <4>1
    <3> QED BY <1>1, <1>4, <2>2, <3>1, <3>2, <3>3, <3>4 DEF EncoderNext
  <2> QED BY <2>1, <2>2
<1> QED BY <1>6, <1>7, <1>9 DEF FirstOrphan

LEMMA OrphansKept == EncoderSpec => []OrphanKept
<1>1. EncoderInit => OrphanKept
  BY DEF EncoderInit, OrphanKept
<1>2. IInv /\ RunsDiffer /\ OrphanKept /\ [EncoderNext]_encoderVars => OrphanKept'
  <2> SUFFICES ASSUME IInv, RunsDiffer, OrphanKept, [EncoderNext]_encoderVars, orphaned'
               PROVE  \E rs \in Seq(Run), cs \in Seq(Index),
                         lg \in Seq(Token), rl \in Seq(Record) :
                        FirstOrphan(rs, cs, lg, rl)'
    BY DEF OrphanKept
  <2>1. CASE orphaned
    <3>1. PICK rs \in Seq(Run), cs \in Seq(Index), lg \in Seq(Token), rl \in Seq(Record) :
            FirstOrphan(rs, cs, lg, rl)
      BY <2>1 DEF OrphanKept
    <3>2. FirstOrphan(rs, cs, lg, rl)'
      BY <3>1, OrphanStays
    <3> QED BY <3>2
  <2>2. CASE ~ orphaned
    <3>1. PICK i \in Index : Log(i) /\ Orphan(i)
      BY <2>2 DEF EncoderNext, Log, Flush, Close, WriteCurrentRunlength, encoderVars, history
    <3>2. PICK rs \in Seq(Run), cs \in Seq(Index), lg \in Seq(Token), rl \in Seq(Record) :
            rs = runs /\ cs = calls /\ lg = log /\ rl = runlengths
      BY EncoderFacts DEF IInv
    <3>3. FirstOrphan(rs, cs, lg, rl)'
      BY <2>2, <3>1, <3>2, OrphanBegins
    <3> QED BY <3>3
  <2> QED BY <2>1, <2>2
<1> QED BY <1>1, <1>2, InductiveInvariant, RunsAlwaysDiffer, PTL DEF EncoderSpec

(***************************************************************************)
(* The output that cannot be right.  An ambiguous record, or a call that   *)
(* fell outside every run, takes the unpacker off the runs: it prints a    *)
(* line under another format than the call in its place, or stops before   *)
(* the last call.  What it has then printed stays wrong.                   *)
(***************************************************************************)
\* A line is under another format than its call's, or has no call.
Wrong ==
  \E p \in 1 .. Len(printed) : p > Len(calls) \/ printed[p].index # calls[p]

\* So will be a line of the entry being deflated.
Astray ==
  \E p \in Len(printed) + 1 .. Len(printed) + left :
    p > Len(calls) \/ calls[p] # current

\* There is no way back to the calls.
Doomed ==
  \/ parser = "derailed"
  \/ Wrong
  \/ parser = "parsing" /\ Astray
  \/ parser = "done" /\ Len(printed) # Len(calls)

LEMMA DoomedStays ==
  ASSUME Unpacker!ParserTypeOK, Doomed, Unpacker!ParserNext, calls' = calls
  PROVE  Doomed'
<1>1. /\ printed \in Seq([index : Nat, call : Nat]) /\ left \in Nat
      /\ Len(printed) \in Nat
  BY LenProperties DEF Unpacker!ParserTypeOK
<1>2. CASE Unpacker!PrintLine
  <2>1. /\ left > 0 /\ left' = left - 1 /\ current' = current
        /\ parser = "parsing" /\ parser' = parser
    BY <1>2 DEF Unpacker!PrintLine, Unpacker!Parsing
  <2>2. PICK n : printed' = Append(printed, Unpacker!Line(current, n))
    BY <1>2 DEF Unpacker!PrintLine
  <2> DEFINE e == Unpacker!Line(current, n)
             S == [index : Nat, call : Nat] \cup {e}
  <2>3. e.index = current
    BY DEF Unpacker!Line
  <2>4. e \in S /\ printed \in Seq(S)
    <3>1. [index : Nat, call : Nat] \subseteq S
      OBVIOUS
    <3> HIDE DEF S
    <3>2. printed \in Seq(S)
      BY <1>1, <3>1, SeqMonotonic
    <3> QED BY <3>2 DEF S
  <2> HIDE DEF e, S
  <2>5. /\ Len(printed') = Len(printed) + 1 /\ printed'[Len(printed) + 1] = e
        /\ \A k \in 1 .. Len(printed) : printed'[k] = printed[k]
    BY <2>2, <2>4, AppendFacts DEF e
  <2>6. CASE Wrong
    <3>1. PICK p \in 1 .. Len(printed) : p > Len(calls) \/ printed[p].index # calls[p]
      BY <2>6 DEF Wrong
    <3>2. p \in 1 .. Len(printed')
      BY <1>1, <2>5
    <3>3. Wrong'
      BY <2>5, <3>1, <3>2 DEF Wrong
    <3> QED BY <3>3 DEF Doomed
  <2>7. CASE Astray
    <3>1. PICK p \in Len(printed) + 1 .. Len(printed) + left :
            p > Len(calls) \/ calls[p] # current
      BY <2>7 DEF Astray
    <3>2. CASE p = Len(printed) + 1
      <4>1. p \in 1 .. Len(printed')
        BY <1>1, <2>5, <3>2
      <4>2. Wrong'
        BY <2>3, <2>5, <3>1, <3>2, <4>1 DEF Wrong
      <4> QED BY <4>2 DEF Doomed
    <3>3. CASE p # Len(printed) + 1
      <4>1. p \in Len(printed') + 1 .. Len(printed') + left'
        BY <1>1, <2>1, <2>5, <3>3
      <4>2. Astray'
        BY <2>1, <3>1, <4>1 DEF Astray
      <4> QED BY <2>1, <4>2 DEF Doomed
    <3> QED BY <3>2, <3>3
  <2> QED BY <2>1, <2>6, <2>7 DEF Doomed
<1>3. CASE ~ Unpacker!PrintLine
  <2>1. printed' = printed
    BY <1>3 DEF Unpacker!ParserNext, Unpacker!Open, Unpacker!ParseIndex,
               Unpacker!Derail, Unpacker!Finish
  <2>2. CASE Wrong
    BY <2>1, <2>2 DEF Wrong, Doomed
  <2>3. CASE parser = "parsing" /\ Astray
    <3>1. left # 0
      BY <1>1, <2>3 DEF Astray
    <3>2. Unpacker!Derail
      BY <1>3, <2>3, <3>1 DEF Unpacker!ParserNext, Unpacker!Open, Unpacker!ParseIndex,
                              Unpacker!Finish
    <3> QED BY <3>2 DEF Unpacker!Derail, Doomed
  <2>4. parser \in {"waiting", "parsing"}
    BY DEF Unpacker!ParserNext, Unpacker!Open, Unpacker!ParseIndex, Unpacker!PrintLine,
           Unpacker!Derail, Unpacker!Finish, Unpacker!Parsing
  <2> QED BY <2>2, <2>3, <2>4 DEF Doomed
<1> QED BY <1>2, <1>3

\* The records consumed up to a run are determined by the runs.
LEMMA ConsumedOnce ==
  ASSUME NEW rs \in Seq(Run), NEW r \in Nat, r <= Len(rs), NEW n \in Nat, NEW m \in Nat,
         Consumed(rs, n, r), Consumed(rs, m, r)
  PROVE  n = m
<1>1. \A k \in 1 .. r : rs[k].record \in Nat
  <2> SUFFICES ASSUME NEW k \in 1 .. r PROVE rs[k].record \in Nat
    OBVIOUS
  <2>1. k \in 1 .. Len(rs)
    BY LenProperties
  <2> QED BY <2>1, RunFields
<1>2. ASSUME NEW a \in Nat, NEW b \in Nat, Consumed(rs, a, r), Consumed(rs, b, r)
      PROVE  a <= b
  <2>1. CASE a = 0
    BY <2>1
  <2>2. CASE a # 0
    BY <1>2, <2>2 DEF Consumed
  <2> QED BY <2>1, <2>2
<1>3. n <= m /\ m <= n
  BY <1>2
<1> QED BY <1>3

\* Runs and streams that the disk has, whether or not more follows.
Snapshot(rs, cs, lg, rl) ==
  /\ Typed(rs, cs, lg, rl)
  /\ Describes(rs, cs, lg, rl)
  /\ Settled(rs)
  /\ Adjacent(rs)
  /\ rs # <<>>
  /\ Extends(cs, calls)
  /\ Extends(rl, disk.runlengths)
  /\ \A r \in 1 .. Len(rs) : OnDisk(rs, r)

\* A run that takes no record of its own, at the beginning of which the parser
\* finds one for its format, takes that of a later run and strays: the run
\* in between is of another format.
LEMMA MisfitStrays ==
  ASSUME NEW rs, NEW cs, NEW lg, NEW rl, Snapshot(rs, cs, lg, rl),
         Len(rl) = Len(disk.runlengths) \/ rs[Len(rs)].record # 0,
         NEW r \in 1 .. Len(rs), ~ Fits(rs, r), Past(rs, r - 1),
         DiskInv, Unpacker!ParserTypeOK, parser = "parsing",
         Unpacker!ParserNext, calls' = calls
  PROVE  Doomed'
<1> DEFINE n == m_runlengthfile_index
           i == rs[r].index
<1>1. /\ rs \in Seq(Run) /\ rl \in Seq(Record) /\ Len(rs) \in Nat /\ Len(rl) \in Nat
      /\ r \in Nat /\ r - 1 \in Nat /\ r - 1 <= Len(rs) /\ OnDisk(rs, r)
  BY LenProperties DEF Snapshot, Typed
<1>2. /\ Names(rs, rl) /\ \A k \in 1 .. Len(rs) : rs[k].record <= Len(rl)
      /\ \A k \in 1 .. Len(rs) : rs[k].record \in Nat
  BY <1>1, RunFields DEF Snapshot, Describes, Bounded
<1>3. /\ n \in Nat /\ n \in 0 .. Len(disk.runlengths)
      /\ Len(disk.runlengths) \in Nat /\ m_logfile_index \in Nat
      /\ Len(rl) <= Len(disk.runlengths)
      /\ \A k \in 1 .. Len(rl) : disk.runlengths[k] = rl[k]
  BY LenProperties DEF DiskInv, Unpacker!ParserTypeOK, Snapshot, Extends
<1>4. Consumed(rs, n, r - 1)
  BY DEF Past
<1>5. rs[r].record = 0
  <2> SUFFICES ASSUME rs[r].record # 0 PROVE FALSE
    OBVIOUS
  <2>1. rs[r].record \in 1 .. Len(rl)
    BY <1>1, <1>2
  <2>2. disk.runlengths[rs[r].record] = rl[rs[r].record] /\ rs[r].record <= Len(disk.runlengths)
    BY <1>1, <1>2, <1>3, <2>1
  <2> QED BY <1>1, <1>2, <1>3, <2>2, RecordedFits
<1>6. rs[r].count = 1
  <2>1. rs[r].record = 0 => r = Len(rs) \/ rs[r].count = 1
    BY <1>2 DEF Names
  <2>2. rs[Len(rs)].record # 0 \/ rs[Len(rs)].count = 1
    BY DEF Snapshot, Settled
  <2> QED BY <1>5, <2>1, <2>2
<1>7. HasRecord(n, i)
  <2>1. PICK m \in 0 .. Len(disk.runlengths) : Consumed(rs, m, r - 1) /\ HasRecord(m, i)
    BY <1>5, <1>6 DEF Fits
  <2>2. m = n
    BY <1>1, <1>3, <1>4, <2>1, ConsumedOnce
  <2> QED BY <2>1, <2>2
<1>8. n < Len(rl)
  <2>1. CASE Len(rl) = Len(disk.runlengths)
    BY <1>7, <2>1 DEF HasRecord
  <2>2. CASE rs[Len(rs)].record # 0
    <3>1. Len(rs) \in 1 .. Len(rs) /\ r # Len(rs) /\ r < Len(rs)
      BY <1>1, <1>5, <2>2
    <3>2. CASE n = 0
      BY <1>1, <1>2, <2>2, <3>1, <3>2
    <3>3. CASE n # 0
      <4>1. PICK k \in 1 .. r - 1 : rs[k].record = n
        BY <1>4, <3>3 DEF Consumed
      <4>2. k \in 1 .. Len(rs) /\ k < Len(rs)
        BY <1>1
      <4>3. rs[k].record < rs[Len(rs)].record
        BY <1>2, <2>2, <3>1, <3>3, <4>1, <4>2 DEF Names
      <4> QED BY <1>1, <1>2, <1>3, <3>1, <4>1, <4>3
    <3> QED BY <3>2, <3>3
  <2> QED BY <2>1, <2>2
<1>9. PICK k \in r + 1 .. Len(rs) : rs[k].record = n + 1
  <2>1. /\ rs \in Seq(Run) /\ rl \in Seq(Record) /\ Names(rs, rl)
        /\ n \in Nat /\ Consumed(rs, n, r - 1) /\ n < Len(rl)
    BY <1>1, <1>2, <1>3, <1>4, <1>8
  <2> HIDE DEF n
  <2> QED BY <1>5, <2>1, NextRecordIsLater
<1>10. k \in 1 .. Len(rs) /\ r + 1 \in 1 .. Len(rs) /\ r \in 1 .. Len(rs) - 1
  BY <1>1
<1>11. disk.runlengths[n + 1].count = rs[k].count /\ rs[k].count > 1 /\ rs[k].count \in Nat
  <2>1. rl[n + 1] = [index |-> rs[k].index, count |-> rs[k].count] /\ rs[k].count > 1
    BY <1>2, <1>3, <1>9, <1>10 DEF Names
  <2>2. n + 1 \in 1 .. Len(rl)
    BY <1>1, <1>3, <1>8
  <2>3. disk.runlengths[n + 1] = rl[n + 1]
    BY <1>3, <2>2
  <2>4. rs[k].count \in Nat
    BY <1>1, <1>10, RunFields
  <2> QED BY <2>1, <2>3, <2>4
<1> DEFINE c == rs[k].count
<1>12. /\ left = 0 /\ m_logfile_index < Len(disk.log)
       /\ Unpacker!CurrentToken.index = i
       /\ Unpacker!TakesRecord
       /\ Unpacker!Runlength > 0 => Unpacker!OnIndex
  BY <1>1, <1>7, AtNextRun
<1>13. Unpacker!Runlength = c
  BY <1>11, <1>12 DEF Unpacker!Runlength, Unpacker!CurrentRecord
<1>14. Unpacker!OnIndex /\ Len(disk.log) \in Nat
  BY <1>11, <1>12, <1>13, LenProperties DEF DiskInv
<1>15. Unpacker!ParseIndex
  BY <1>3, <1>12, <1>14 DEF Unpacker!ParserNext, Unpacker!Open, Unpacker!PrintLine,
                    Unpacker!Derail, Unpacker!Finish
<1>16. current' = i /\ left' = c /\ printed' = printed /\ parser' = "parsing"
  BY <1>12, <1>13, <1>15 DEF Unpacker!ParseIndex
<1> DEFINE e == EndCall(rs, r - 1)
<1>17. e \in Nat /\ Len(printed) = e
  <2>1. e \in Nat /\ printed = Lines(e)
    BY <1>1 DEF OnDisk, Past
  <2> HIDE DEF e
  <2> QED BY <2>1, LinesFacts
<1>18. calls[e + 2] = rs[r + 1].index
  <2> DEFINE f == EndCall(rs, r)
             g == EndCall(rs, r + 1)
             h == rs[r + 1].count
  <2>1. f = e + 1
    BY <1>1, <1>6 DEF OnDisk
  <2>2. /\ h \in Nat \ {0} /\ g = f + h
        /\ \A d \in 0 .. h - 1 : calls[g - d] = rs[r + 1].index
    <3> DEFINE q == r + 1
    <3>1. q \in 1 .. Len(rs) /\ q - 1 = r
      BY <1>1, <1>10
    <3>2. OnDisk(rs, q)
      BY <3>1 DEF Snapshot
    <3> HIDE DEF q
    <3>3. /\ rs[q].count \in Nat \ {0} /\ EndCall(rs, q) = EndCall(rs, r) + rs[q].count
          /\ \A d \in 0 .. rs[q].count - 1 : calls[EndCall(rs, q) - d] = rs[q].index
      BY <3>1, <3>2 DEF OnDisk
    <3> QED BY <3>3 DEF q
  <2> HIDE DEF e, f, g, h
  <2>3. h - 1 \in 0 .. h - 1 /\ g - (h - 1) = e + 2
    BY <1>17, <2>1, <2>2
  <2> QED BY <2>2, <2>3
<1>19. rs[r + 1].index # i
  BY <1>5, <1>10 DEF Snapshot, Adjacent
<1>20. Astray'
  <2> HIDE DEF c, e, i
  <2>1. e + 2 \in Len(printed') + 1 .. Len(printed') + left'
    BY <1>11, <1>16, <1>17 DEF c
  <2> QED BY <1>16, <1>18, <1>19, <2>1 DEF Astray
<1> QED BY <1>16, <1>20 DEF Doomed

\* The unpacker has come to some place in the runs, each with its own record.
Along(rs) ==
  \E r \in 0 .. Len(rs) :
    /\ \A q \in 1 .. r : Fits(rs, q)
    /\ Past(rs, r) \/ (r # 0 /\ Inside(rs, r))

\* A call that fell outside every run comes next: after the runs the log stream
\* ends, or has that call's values, or the index of another format.
Unheard(rs, cs, lg) ==
  /\ rs[Len(rs)].record # 0
  /\ Len(cs) < Len(calls) /\ calls[Len(cs) + 1] = rs[Len(rs)].index
  /\ Len(disk.log) >= Len(lg)
  /\ \/ Len(disk.log) = Len(lg)
     \/ disk.log[Len(lg) + 1].kind = "args"
     \/ disk.log[Len(lg) + 1].index # rs[Len(rs)].index

Lost(rs, cs, lg, rl) ==
  /\ Snapshot(rs, cs, lg, rl)
  /\ \/ Len(rl) = Len(disk.runlengths) /\ \E r \in 1 .. Len(rs) : ~ Fits(rs, r)
     \/ Unheard(rs, cs, lg)

LEMMA UnheardEnds ==
  ASSUME NEW rs, NEW cs, NEW lg, NEW rl, Snapshot(rs, cs, lg, rl), Unheard(rs, cs, lg),
         Past(rs, Len(rs)), DiskInv, Unpacker!ParserTypeOK, parser = "parsing",
         Unpacker!ParserNext, calls' = calls
  PROVE  Doomed'
<1> DEFINE N == Len(rs)
           t == Unpacker!CurrentToken
<1>1. /\ rs \in Seq(Run) /\ N \in Nat /\ N \in 1 .. N /\ N # 0
      /\ Len(cs) \in Nat /\ Len(lg) \in Nat
  BY LenProperties, EmptySeq DEF Snapshot, Typed
<1>2. EndPos(rs, N) = Len(lg) /\ EndCall(rs, N) = Len(cs)
  <2> DEFINE p == rs[N].pos
             u == Tokens(rs[N])
             f == rs[N].first
             c == rs[N].count
  <2>1. p + u = Len(lg) + 1 /\ f + c = Len(cs) + 1
    BY <1>1 DEF Snapshot, Describes, Holds, Partition
  <2>2. p \in Nat /\ u \in Nat /\ f \in Nat /\ c \in Nat
    BY <1>1, RunFields
  <2>3. EndPos(rs, N) = p + u - 1 /\ EndCall(rs, N) = f + c - 1
    BY <1>1 DEF EndPos, EndCall
  <2> HIDE DEF p, u, f, c
  <2> QED BY <1>1, <2>1, <2>2, <2>3
<1>3. left = 0 /\ m_logfile_index = Len(lg) /\ printed = Lines(Len(cs))
  BY <1>2 DEF Past
<1>4. Len(printed) = Len(cs)
  BY <1>1, <1>3, LinesFacts
<1>5. Len(disk.log) \in Nat /\ disk.runlengths \in Seq(Record)
  BY LenProperties DEF DiskInv
<1>6. /\ Len(cs) < Len(calls) /\ calls[Len(cs) + 1] = rs[N].index
      /\ Len(disk.log) >= Len(lg)
  BY DEF Unheard
<1>7. CASE Len(disk.log) = Len(lg)
  <2>1. Unpacker!Finish
    BY <1>1, <1>3, <1>7 DEF Unpacker!ParserNext, Unpacker!Open, Unpacker!ParseIndex,
                       Unpacker!PrintLine, Unpacker!Derail
  <2>2. parser' = "done" /\ printed' = printed
    BY <2>1 DEF Unpacker!Finish
  <2>3. Len(printed') # Len(calls')
    BY <1>1, <1>4, <1>6, <2>2
  <2> QED BY <2>2, <2>3 DEF Doomed
<1>8. CASE Len(disk.log) # Len(lg)
  <2>1. t.kind = "args" \/ t.index # rs[N].index
    BY <1>3, <1>8 DEF Unheard, Unpacker!CurrentToken
  <2>2. CASE Unpacker!OnIndex
    <3>1. Unpacker!ParseIndex
      BY <1>1, <1>3, <1>5, <1>6, <1>8, <2>2
         DEF Unpacker!ParserNext, Unpacker!Open, Unpacker!Finish,
             Unpacker!PrintLine, Unpacker!Derail
    <3>2. /\ current' = t.index /\ left' = Unpacker!Runlength
          /\ printed' = printed /\ parser' = "parsing"
          /\ Unpacker!Runlength > 0 /\ t.kind = "index"
      BY <3>1 DEF Unpacker!ParseIndex, Unpacker!OnIndex
    <3>3. t.index # rs[N].index
      BY <2>1, <3>2
    <3>4. left' \in Nat
      <4>1. Unpacker!ParserTypeOK /\ m_runlengthfile_index \in 0 .. Len(disk.runlengths)
        BY DEF Unpacker!ParserTypeOK
      <4>2. CASE Unpacker!TakesRecord
        <5>1. m_runlengthfile_index + 1 \in 1 .. Len(disk.runlengths)
          BY <1>5, <4>1, <4>2, LenProperties DEF Unpacker!TakesRecord
        <5>2. Unpacker!CurrentRecord \in Record
          BY <1>5, <5>1, ElementOfSeq DEF Unpacker!CurrentRecord
        <5> QED BY <3>2, <4>2, <5>2 DEF Unpacker!Runlength, Record
      <4>3. CASE ~ Unpacker!TakesRecord
        BY <3>2, <4>3 DEF Unpacker!Runlength
      <4> QED BY <4>2, <4>3
    <3>5. Len(cs) + 1 \in Len(printed') + 1 .. Len(printed') + left'
      BY <1>1, <1>4, <3>2, <3>4
    <3>6. Astray'
      BY <1>6, <3>2, <3>3, <3>5 DEF Astray
    <3> QED BY <3>2, <3>6 DEF Doomed
  <2>3. CASE ~ Unpacker!OnIndex
    <3>1. Unpacker!Derail
      BY <1>1, <1>3, <1>5, <1>6, <1>8, <2>3
         DEF Unpacker!ParserNext, Unpacker!Open, Unpacker!Finish,
             Unpacker!PrintLine, Unpacker!ParseIndex
    <3> QED BY <3>1 DEF Unpacker!Derail, Doomed
  <2> QED BY <2>2, <2>3
<1> QED BY <1>7, <1>8

LEMMA AlongStep ==
  ASSUME NEW rs, NEW cs, NEW lg, NEW rl, Lost(rs, cs, lg, rl), Along(rs),
         DiskInv, Unpacker!ParserTypeOK, parser = "parsing",
         Unpacker!ParserNext, calls' = calls, disk' = disk
  PROVE  Doomed' \/ (parser' = "parsing" /\ Along(rs)')
<1>1. /\ rs \in Seq(Run) /\ Len(rs) \in Nat /\ Snapshot(rs, cs, lg, rl)
      /\ \A r \in 1 .. Len(rs) : OnDisk(rs, r)
  BY LenProperties DEF Lost, Snapshot, Typed
<1>2. \A q : Fits(rs, q)' <=> Fits(rs, q)
  BY DEF Fits, Consumed, HasRecord
<1>3. PICK r \in 0 .. Len(rs) :
        /\ \A q \in 1 .. r : Fits(rs, q)
        /\ Past(rs, r) \/ (r # 0 /\ Inside(rs, r))
  BY DEF Along
<1>4. CASE r # 0 /\ Inside(rs, r)
  <2>1. r \in 1 .. Len(rs)
    BY <1>4
  <2>2. parser' = "parsing" /\ (Inside(rs, r)' \/ Past(rs, r)')
    BY <1>1, <1>4, <2>1, InsideStep
  <2> QED BY <1>2, <1>3, <1>4, <2>2 DEF Along
<1>5. CASE Past(rs, r) /\ r # Len(rs)
  <2> DEFINE q == r + 1
  <2>1. /\ q \in 1 .. Len(rs) /\ q \in 0 .. Len(rs) /\ q # 0 /\ q - 1 = r
        /\ \A m \in 1 .. q : m \in 1 .. r \/ m = q
    BY <1>1, <1>5
  <2> HIDE DEF q
  <2>2. Past(rs, q - 1) /\ OnDisk(rs, q)
    BY <1>1, <1>5, <2>1
  <2>3. CASE Fits(rs, q)
    <3>1. parser' = "parsing" /\ Inside(rs, q)'
      BY <1>1, <2>1, <2>2, <2>3, PastStep
    <3> QED BY <1>2, <1>3, <2>1, <2>3, <3>1 DEF Along
  <2>4. CASE ~ Fits(rs, q)
    <3>1. Len(rl) = Len(disk.runlengths) \/ rs[Len(rs)].record # 0
      BY DEF Lost, Unheard
    <3> QED BY <1>1, <2>1, <2>2, <2>4, <3>1, MisfitStrays
  <2> QED BY <2>3, <2>4
<1>6. CASE Past(rs, r) /\ r = Len(rs)
  <2>1. Unheard(rs, cs, lg)
    BY <1>3, <1>6 DEF Lost
  <2> QED BY <1>1, <1>6, <2>1, UnheardEnds
<1> QED BY <1>3, <1>4, <1>5, <1>6

\* If a record is ambiguous, the earlier of its two runs finds one it has not.
LEMMA AmbiguousMisfits ==
  ASSUME EncoderTypeOK, Describes(runs, calls, log, runlengths), Ambiguous,
         disk.runlengths = runlengths
  PROVE  \E r \in 1 .. Len(runs) : ~ Fits(runs, r)
<1>1. /\ runs \in Seq(Run) /\ Len(runs) \in Nat /\ Len(runlengths) \in Nat
      /\ Names(runs, runlengths)
  BY EncoderFacts DEF Describes
<1>2. \A q \in 1 .. Len(runs) : runs[q].record \in Nat
  BY <1>1, RunFields
<1>3. PICK j \in 1 .. Len(runs), k \in 1 .. Len(runs) :
        /\ j < k
        /\ runs[j].index = runs[k].index
        /\ runs[k].record \in 1 .. Len(runlengths)
        /\ \A m \in j .. k - 1 : runs[m].count = 1
  BY DEF Ambiguous
<1>4. \A m \in j .. k - 1 : runs[m].record = 0
  <2> SUFFICES ASSUME NEW m \in j .. k - 1, runs[m].record # 0 PROVE FALSE
    OBVIOUS
  <2>1. m \in 1 .. Len(runs)
    BY <1>1
  <2>2. runs[m].count > 1
    BY <1>1, <2>1 DEF Names
  <2> QED BY <1>3, <2>2
<1> DEFINE n == runs[k].record - 1
<1>5. n \in 0 .. Len(runlengths) /\ n + 1 = runs[k].record /\ j - 1 \in Nat
  BY <1>1, <1>2, <1>3
<1> HIDE DEF n
<1>6. Consumed(runs, n, j - 1)
  <2>1. ASSUME NEW q \in 1 .. j - 1 PROVE runs[q].record <= n
    <3>1. q \in 1 .. Len(runs) /\ q < k
      BY <1>1, <1>3
    <3>2. runs[q].record # 0 => runs[q].record < runs[k].record
      <4>1. runs[k].record # 0
        BY <1>3
      <4>2. Names(runs, runlengths)
        BY <1>1
      <4> QED BY <3>1, <4>1, <4>2 DEF Names
    <3> QED BY <1>2, <1>3, <1>5, <3>1, <3>2
  <2>2. ASSUME n # 0 PROVE \E q \in 1 .. j - 1 : runs[q].record = n
    <3>1. n \in 1 .. Len(runlengths)
      BY <1>5, <2>2
    <3>2. PICK q \in 1 .. Len(runs) : runs[q].record = n
      BY <1>1, <3>1 DEF Names
    <3>3. ~ (k < q) /\ q # k
      <4>1. runs[k].record > n
        BY <1>2, <1>3, <1>5
      <4>2. k < q => runs[k].record < n
        <5>1. runs[k].record # 0
          BY <1>3
        <5> QED BY <1>1, <2>2, <3>2, <5>1 DEF Names
      <4> QED BY <1>5, <3>2, <4>1, <4>2
    <3>4. ~ (q \in j .. k - 1)
      BY <1>4, <2>2, <3>2
    <3>5. q \in 1 .. j - 1
      BY <1>1, <3>3, <3>4
    <3> QED BY <3>2, <3>5
  <2> QED BY <2>1, <2>2 DEF Consumed
<1>7. HasRecord(n, runs[j].index)
  <2>1. runlengths[n + 1].index = runs[j].index
    <3>1. runs[k].record # 0
      BY <1>3
    <3>2. runlengths[runs[k].record] = [index |-> runs[k].index, count |-> runs[k].count]
      BY <1>1, <3>1 DEF Names
    <3> QED BY <1>3, <1>5, <3>2
  <2> QED BY <1>1, <1>3, <1>5, <2>1 DEF HasRecord
<1>8. runs[j].record = 0
  BY <1>1, <1>3, <1>4
<1> QED BY <1>5, <1>6, <1>7, <1>8 DEF Fits

\* A program that ran to its end left all that it had written at any moment.
LEMMA ExitedOnDisk ==
  ASSUME EncoderTypeOK, FilesInv, DiskInv, process = "exited",
         NEW rs, NEW cs, NEW lg, NEW rl, Typed(rs, cs, lg, rl), Describes(rs, cs, lg, rl),
         Extends(cs, calls), Extends(lg, log), NEW r \in 1 .. Len(rs)
  PROVE  OnDisk(rs, r)
<1>1. /\ rs \in Seq(Run) /\ lg \in Seq(Token) /\ Len(lg) \in Nat /\ r # 0
      /\ calls \in Seq(Index) /\ Len(log) \in Nat /\ Len(lg) <= Len(log)
      /\ \A k \in 1 .. Len(lg) : log[k] = lg[k]
  BY EncoderFacts, LenProperties DEF Typed, Extends
<1>2. disk.index = IndexEntries(Registered) /\ disk.log = log
  BY DEF DiskInv, Written
<1>3. Registered \in Nat
  BY <1>1, UsedFinite, FormatsAssumption
<1>4. \A k \in 1 .. Registered : disk.index[k] = "whole"
  BY <1>2, <1>3 DEF IndexEntries
<1>5. Len(disk.index) = Registered
  BY <1>2, <1>3 DEF IndexEntries
<1> DEFINE p == rs[r].pos
           t == Tokens(rs[r])
           i == rs[r].index
<1>6. p \in Nat /\ p >= 1 /\ t \in Nat \ {0} /\ p + t <= Len(lg) + 1 /\ i \in Index
  BY <1>1, RunFields DEF Describes, Bounded
<1>7. EndPos(rs, r) = p + t - 1
  BY <1>1 DEF EndPos
<1>8. lg[p] = IndexToken(i)
  BY DEF Describes, Holds
<1> HIDE DEF p, t, i
<1>9. EndPos(rs, r) \in Nat /\ EndPos(rs, r) <= Len(lg) /\ p \in 1 .. Len(lg) /\ p \in 1 .. Len(log)
  BY <1>1, <1>6, <1>7
<1>10. i \in Nat /\ i < Registered
  <2>1. log[p].index \in Used
    BY <1>9 DEF FilesInv, LogUses
  <2>2. i \in Used
    BY <1>1, <1>8, <1>9, <2>1 DEF IndexToken
  <2>3. i < Registered
    BY <2>2, UsedAreRegistered DEF FilesInv
  <2> QED BY <1>6, <2>3, FormatsAssumption DEF Index
<1>11. /\ EndPos(rs, r) <= Len(disk.log)
       /\ \A k \in 1 .. EndPos(rs, r) : disk.log[k] = lg[k]
       /\ rs[r].index < Len(disk.index)
       /\ disk.index[rs[r].index + 1] = "whole"
  <2>1. i + 1 \in 1 .. Registered
    BY <1>3, <1>10
  <2>2. \A k \in 1 .. EndPos(rs, r) : k \in 1 .. Len(lg)
    BY <1>1, <1>9
  <2>3. \A k \in 1 .. EndPos(rs, r) : disk.log[k] = lg[k]
    BY <1>1, <1>2, <1>4, <1>9, <2>2
  <2>4. EndPos(rs, r) <= Len(disk.log)
    BY <1>1, <1>2, <1>4, <1>9
  <2>5. i < Len(disk.index)
    BY <1>5, <1>10
  <2>6. disk.index[i + 1] = "whole"
    BY <1>4, <2>1
  <2> QED BY <2>3, <2>4, <2>5, <2>6 DEF i
<1>12. \A n \in 1 .. Len(cs) : calls[n] = cs[n]
  BY DEF Extends
<1> QED BY <1>11, <1>12, DescribedOnDisk

LEMMA NotTornAtExit ==
  ASSUME EncoderTypeOK, DiskInv, process = "exited"
  PROVE  ~ Unpacker!TornIndexFile
<1>1. disk.index = IndexEntries(Registered) /\ Registered \in Nat
  BY UsedFinite, FormatsAssumption DEF DiskInv, Written
<1>2. disk.index \in Seq({"whole"})
  BY <1>1 DEF IndexEntries
<1>3. ASSUME disk.index # <<>> PROVE disk.index[Len(disk.index)] # "torn"
  <2>1. Len(disk.index) \in 1 .. Len(disk.index)
    BY <1>2, <1>3, EmptySeq, LenProperties
  <2>2. disk.index[Len(disk.index)] \in {"whole"}
    BY <1>2, <2>1, ElementOfSeq
  <2> QED BY <2>2
<1> QED BY <1>3 DEF Unpacker!TornIndexFile

LEMMA NothingAmiss ==
  ASSUME NEW rs, NEW cs, NEW lg, NEW rl, Snapshot(rs, cs, lg, rl), DiskInv
  PROVE  disk.log # <<>> /\ disk.index # <<>>
<1>1. rs \in Seq(Run) /\ 1 \in 1 .. Len(rs) /\ Len(<<>>) = 0
  BY LenProperties, EmptySeq DEF Snapshot, Typed
<1>2. OnDisk(rs, 1) /\ rs[1].index \in Nat
  BY <1>1, RunFields, FormatsAssumption DEF Snapshot, Index
<1>3. disk.index # <<>>
  BY <1>1, <1>2 DEF OnDisk
<1>4. disk.log # <<>>
  <2> DEFINE a == EndPos(rs, 1 - 1)
             b == EndPos(rs, 1)
             c == rs[1].count
  <2>1. /\ a \in Nat /\ c \in Nat /\ b <= Len(disk.log)
        /\ b = a + 1 + IF rs[1].index \in NoArgs THEN 0 ELSE c
    BY <1>2 DEF OnDisk
  <2> HIDE DEF a, b, c
  <2> QED BY <1>1, <2>1
<1> QED BY <1>3, <1>4

LEMMA UndecodableIsLost ==
  ASSUME IInv, RunsDiffer, OrphanKept, FilesInv, DiskInv, process = "exited", ~ Decodable
  PROVE  \E rs, cs, lg, rl : Lost(rs, cs, lg, rl)
<1>1. /\ EncoderTypeOK /\ Len(log) \in Nat /\ Len(calls) \in Nat /\ Len(runlengths) \in Nat
      /\ Len(runs) \in Nat
      /\ Typed(runs, calls, log, runlengths)
  BY EncoderFacts DEF IInv, Typed
<1>2. disk.log = log /\ disk.runlengths = runlengths
  BY DEF DiskInv, Written
<1>3. CASE orphaned
  <2>1. PICK rs \in Seq(Run), cs \in Seq(Index), lg \in Seq(Token), rl \in Seq(Record) :
          FirstOrphan(rs, cs, lg, rl)
    BY <1>3 DEF OrphanKept
  <2>2. Typed(rs, cs, lg, rl) /\ Describes(rs, cs, lg, rl) /\ Extends(cs, calls) /\ Extends(lg, log)
    BY <2>1 DEF Typed, FirstOrphan
  <2>3. \A r \in 1 .. Len(rs) : OnDisk(rs, r)
    BY <1>1, <2>2, ExitedOnDisk
  <2>4. Snapshot(rs, cs, lg, rl)
    BY <1>2, <2>1, <2>2, <2>3 DEF Snapshot, FirstOrphan, Settled
  <2>5. Unheard(rs, cs, lg)
    BY <1>2, <2>1 DEF FirstOrphan, Unheard, Extends
  <2> QED BY <2>4, <2>5 DEF Lost
<1>4. CASE ~ orphaned
  <2>1. /\ Ambiguous /\ Describes(runs, calls, log, runlengths) /\ Adjacent(runs)
        /\ Settled(runs)
    BY <1>4 DEF Decodable, IInv, RunsDiffer, DiskInv
  <2>2. Extends(calls, calls) /\ Extends(log, log) /\ Extends(runlengths, runlengths)
    BY <1>1 DEF Extends
  <2>3. \A r \in 1 .. Len(runs) : OnDisk(runs, r)
    BY <1>1, <2>1, <2>2, ExitedOnDisk
  <2>4. runs # <<>>
    <3>1. \E j \in 1 .. Len(runs) : TRUE
      BY <2>1 DEF Ambiguous
    <3>2. Len(<<>>) = 0
      OBVIOUS
    <3> QED BY <3>1, <3>2
  <2>5. Snapshot(runs, calls, log, runlengths)
    BY <1>1, <1>2, <2>1, <2>2, <2>3, <2>4 DEF Snapshot
  <2>6. \E r \in 1 .. Len(runs) : ~ Fits(runs, r)
    BY <1>1, <1>2, <2>1, AmbiguousMisfits
  <2> QED BY <1>2, <2>5, <2>6 DEF Lost
<1> QED BY <1>3, <1>4

-----------------------------------------------------------------------------

PrintsWrong ==
  process = "exited" /\ ~ Decodable =>
    \/ Doomed
    \/ \E rs, cs, lg, rl :
         /\ Lost(rs, cs, lg, rl)
         /\ \/ parser = "waiting" /\ Past(rs, 0)
            \/ parser = "parsing" /\ Along(rs)

\* A program that made no call leaves an empty log file.
PrintsNothing ==
  process = "exited" /\ ~ orphaned /\ calls = <<>> =>
    parser \in {"waiting", "failed"} /\ printed = <<>>

LEMMA FreshIsWrong ==
  IInv /\ RunsDiffer /\ OrphanKept /\ FilesInv /\ DiskInv /\ Unpacker!ParserInit
    => PrintsWrong /\ PrintsNothing
<1> SUFFICES ASSUME IInv, RunsDiffer, OrphanKept, FilesInv, DiskInv, Unpacker!ParserInit
             PROVE  PrintsWrong /\ PrintsNothing
  OBVIOUS
<1>1. PrintsNothing
  BY DEF PrintsNothing, Unpacker!ParserInit
<1>2. ASSUME process = "exited", ~ Decodable PROVE PrintsWrong
  <2>1. PICK rs, cs, lg, rl : Lost(rs, cs, lg, rl)
    BY <1>2, UndecodableIsLost
  <2>2. Past(rs, 0) /\ parser = "waiting"
    BY FreshIsPast
  <2> QED BY <2>1, <2>2 DEF PrintsWrong
<1> QED BY <1>1, <1>2 DEF PrintsWrong

LEMMA NextPrintsWrong ==
  ASSUME DiskInv, EncoderTypeOK, Unpacker!ParserTypeOK, PrintsWrong,
         Unpacker!ParserNext, UNCHANGED <<encoderVars, files>>
  PROVE  PrintsWrong'
<1>1. /\ calls' = calls /\ disk' = disk /\ process' = process
      /\ runs' = runs /\ orphaned' = orphaned
  BY DEF encoderVars, history, files
<1> SUFFICES ASSUME process = "exited", ~ Decodable PROVE PrintsWrong'
  BY <1>1 DEF PrintsWrong, Decodable, Ambiguous
<1>2. ASSUME NEW rs, NEW cs, NEW lg, NEW rl, Lost(rs, cs, lg, rl)
      PROVE  Lost(rs, cs, lg, rl)'
  <2>1. \A r : Fits(rs, r)' <=> Fits(rs, r)
    BY <1>1 DEF Fits, Consumed, HasRecord
  <2>2. \A r : OnDisk(rs, r)' <=> OnDisk(rs, r)
    BY <1>1 DEF OnDisk, EndPos, EndCall, Tokens
  <2>3. Snapshot(rs, cs, lg, rl)'
    BY <1>1, <1>2, <2>2 DEF Lost, Snapshot, Extends
  <2>4. Unheard(rs, cs, lg)' <=> Unheard(rs, cs, lg)
    BY <1>1 DEF Unheard
  <2>5. disk'.runlengths = disk.runlengths
    BY <1>1
  <2> QED BY <1>2, <2>1, <2>3, <2>4, <2>5 DEF Lost
<1>3. CASE Doomed
  BY <1>1, <1>3, DoomedStays DEF PrintsWrong
<1>4. CASE \E rs, cs, lg, rl :
             /\ Lost(rs, cs, lg, rl)
             /\ \/ parser = "waiting" /\ Past(rs, 0)
                \/ parser = "parsing" /\ Along(rs)
  <2>1. PICK rs, cs, lg, rl :
          /\ Lost(rs, cs, lg, rl)
          /\ \/ parser = "waiting" /\ Past(rs, 0)
             \/ parser = "parsing" /\ Along(rs)
    BY <1>4
  <2>2. Lost(rs, cs, lg, rl)'
    BY <1>2, <2>1
  <2>3. CASE parser = "waiting" /\ Past(rs, 0)
    <3>1. disk.log # <<>> /\ disk.index # <<>> /\ ~ Unpacker!TornIndexFile
      BY <2>1, NothingAmiss, NotTornAtExit DEF Lost
    <3>2. parser' = "parsing" /\ Past(rs, 0)'
      BY <1>1, <2>3, <3>1, OpenStep
    <3>3. Len(rs) \in Nat
      BY <2>1, LenProperties DEF Lost, Snapshot, Typed
    <3>4. 0 \in 0 .. Len(rs) /\ \A q \in 1 .. 0 : FALSE
      BY <3>3
    <3>5. Along(rs)'
      BY <3>2, <3>4 DEF Along
    <3> QED BY <2>2, <3>2, <3>5 DEF PrintsWrong
  <2>4. CASE parser = "parsing" /\ Along(rs)
    <3>1. Doomed' \/ (parser' = "parsing" /\ Along(rs)')
      BY <1>1, <2>1, <2>4, AlongStep
    <3> QED BY <2>2, <3>1 DEF PrintsWrong
  <2> QED BY <2>1, <2>3, <2>4
<1> QED BY <1>3, <1>4 DEF PrintsWrong

LEMMA NextPrintsNothing ==
  ASSUME IInv, DiskInv, PrintsNothing,
         Unpacker!ParserNext, UNCHANGED <<encoderVars, files>>
  PROVE  PrintsNothing'
<1>1. calls' = calls /\ process' = process /\ orphaned' = orphaned
  BY DEF encoderVars, history, files
<1> SUFFICES ASSUME process = "exited", ~ orphaned, calls = <<>>
             PROVE  parser' \in {"waiting", "failed"} /\ printed' = <<>>
  BY <1>1 DEF PrintsNothing
<1>2. Describes(runs, calls, log, runlengths) /\ Len(<<>>) = 0 /\ EncoderTypeOK
  BY DEF IInv
<1>3. runs = <<>>
  <2> SUFFICES ASSUME runs # <<>> PROVE FALSE
    OBVIOUS
  <2>1. runs \in Seq(Run) /\ 1 \in 1 .. Len(runs)
    BY <1>2, EncoderFacts, EmptySeq
  <2> DEFINE f == runs[1].first
             c == runs[1].count
  <2>2. f \in Nat /\ c \in Nat /\ f >= 1 /\ c >= 1 /\ f + c <= 1
    BY <1>2, <2>1, RunFields DEF Describes, Bounded
  <2> HIDE DEF f, c
  <2> QED BY <2>2
<1>4. disk.log = <<>>
  BY <1>2, <1>3 DEF Describes, Holds, DiskInv, Written
<1>5. ~ Unpacker!TornIndexFile
  BY <1>2, NotTornAtExit
<1>6. parser \in {"waiting", "failed"} /\ printed = <<>>
  BY DEF PrintsNothing
<1>7. Unpacker!Open
  BY <1>6 DEF Unpacker!ParserNext, Unpacker!ParseIndex, Unpacker!PrintLine,
              Unpacker!Derail, Unpacker!Finish, Unpacker!Parsing
<1> QED BY <1>4, <1>5, <1>6, <1>7 DEF Unpacker!Open

LEMMA WrongInvariant == Spec => [](PrintsWrong /\ PrintsNothing)
<1>1. Init => PrintsWrong /\ PrintsNothing
  BY DEF Init, PrintsWrong, PrintsNothing
<1>2. /\ IInv /\ DiskInv /\ Unpacker!ParserTypeOK /\ PrintsWrong /\ PrintsNothing
      /\ (IInv /\ RunsDiffer /\ OrphanKept /\ FilesInv /\ DiskInv)' /\ [Next]_vars
      => (PrintsWrong /\ PrintsNothing)'
  <2> SUFFICES ASSUME IInv, DiskInv, Unpacker!ParserTypeOK, PrintsWrong, PrintsNothing,
                      (IInv /\ RunsDiffer /\ OrphanKept /\ FilesInv /\ DiskInv)', [Next]_vars
               PROVE  (PrintsWrong /\ PrintsNothing)'
    OBVIOUS
  <2>1. CASE process = "running" /\ UNCHANGED parserVars
    <3>1. Unpacker!ParserInit'
      BY <2>1 DEF DiskInv, parserVars, Unpacker!ParserInit
    <3> QED BY <3>1, FreshIsWrong, PTL
  <2>2. CASE UNCHANGED vars
    <3>1. /\ runs' = runs /\ calls' = calls /\ orphaned' = orphaned /\ disk' = disk
          /\ process' = process /\ UNCHANGED parserVars
      BY <2>2 DEF vars, encoderVars, history, files
    <3>2. (Doomed' <=> Doomed) /\ (Decodable' <=> Decodable)
      BY <3>1 DEF parserVars, Doomed, Wrong, Astray, Decodable, Ambiguous
    <3>3. ASSUME NEW rs, NEW r
          PROVE  /\ Past(rs, r)' <=> Past(rs, r)
                 /\ Inside(rs, r)' <=> Inside(rs, r)
                 /\ Fits(rs, r)' <=> Fits(rs, r)
                 /\ OnDisk(rs, r)' <=> OnDisk(rs, r)
      BY <3>1 DEF parserVars, Past, Inside, EndPos, EndCall, Consumed, Lines, LineOf, Tokens,
                  Fits, HasRecord, OnDisk
    <3>4. ASSUME NEW rs, NEW cs, NEW lg, NEW rl
          PROVE  Lost(rs, cs, lg, rl)' <=> Lost(rs, cs, lg, rl)
      BY <3>1, <3>3 DEF Lost, Snapshot, Extends, Unheard
    <3>5. ASSUME NEW rs PROVE Along(rs)' <=> Along(rs)
      BY <3>3 DEF Along
    <3>6. parser' = parser /\ printed' = printed
      BY <3>1 DEF parserVars
    <3>7. PrintsWrong'
      BY <3>1, <3>2, <3>3, <3>4, <3>5, <3>6 DEF PrintsWrong
    <3>8. PrintsNothing'
      BY <3>1, <3>6 DEF PrintsNothing
    <3> QED BY <3>7, <3>8
  <2>3. CASE /\ process # "running" /\ Unpacker!ParserNext
             /\ UNCHANGED <<encoderVars, files>>
    <3>1. EncoderTypeOK
      BY DEF IInv
    <3> QED BY <2>3, <3>1, NextPrintsWrong, NextPrintsNothing
  <2> QED BY <2>1, <2>2, <2>3, StepsOfUnpacker
<1> QED BY <1>1, <1>2, FilesInvariant, DiskInvariant, ParserInvariant,
           SpecImpliesEncoderSpec, RunsAlwaysDiffer, OrphansKept, PTL DEF Spec

\* The output of a program that ran to its end is right exactly when no run was
\* flushed and continued and no record is ambiguous.
THEOREM RoundTripExact == Spec => []RoundTripExactlyWhenDecodable
<1>1. IInv /\ PrintsWrong /\ PrintsNothing /\ DecodableIsPrinted
        => RoundTripExactlyWhenDecodable
  <2> SUFFICES ASSUME IInv, PrintsWrong, PrintsNothing, DecodableIsPrinted,
                      Finished, process = "exited"
               PROVE  parser # "derailed" /\ printed = CallsAsLines <=> Decodable
    BY DEF RoundTripExactlyWhenDecodable
  <2>1. /\ Len(calls) \in Nat /\ calls \in Seq(Index)
        /\ Len(CallsAsLines) = Len(calls)
        /\ \A k \in 1 .. Len(calls) : CallsAsLines[k].index = calls[k]
    <3>1. Len(calls) \in Nat /\ calls \in Seq(Index)
      BY EncoderFacts DEF IInv
    <3>2. \A k \in Nat : LineOf(k).index = calls[k]
      BY DEF LineOf, Unpacker!Line
    <3> DEFINE n == Len(calls)
    <3>3. n \in Nat /\ CallsAsLines = Lines(n)
      BY <3>1 DEF CallsAsLines
    <3> HIDE DEF n
    <3>4. Len(Lines(n)) = n /\ \A k \in 1 .. n : Lines(n)[k] = LineOf(k)
      BY <3>3, LinesFacts
    <3>5. \A k \in 1 .. n : k \in Nat
      OBVIOUS
    <3> QED BY <3>1, <3>2, <3>3, <3>4, <3>5 DEF n
  <2>2. CASE Decodable /\ calls # <<>>
    BY <2>2 DEF DecodableIsPrinted
  <2>3. CASE Decodable /\ calls = <<>>
    <3>1. parser \in {"waiting", "failed"} /\ printed = <<>>
      BY <2>3 DEF PrintsNothing, Decodable
    <3>2. CallsAsLines = <<>>
      <4>1. Len(calls) = 0
        BY <2>3
      <4> QED BY <4>1 DEF CallsAsLines, Lines
    <3> QED BY <2>3, <3>1, <3>2
  <2>4. CASE ~ Decodable
    <3>1. Doomed
      BY <2>4 DEF PrintsWrong, Finished
    <3>2. ASSUME printed = CallsAsLines PROVE ~ Wrong /\ Len(printed) = Len(calls)
      BY <2>1, <3>2 DEF Wrong
    <3>3. parser # "parsing"
      BY DEF Finished
    <3> QED BY <2>4, <3>1, <3>2, <3>3 DEF Doomed
  <2> QED BY <2>2, <2>3, <2>4
<1> QED BY <1>1, WrongInvariant, DecodableRoundTrip, FilesInvariant, PTL

(***************************************************************************)
(* What a completed flush keeps, whatever follows it.                      *)
(***************************************************************************)
\* The run whose length is recorded next after rl is none of rs but perhaps the
\* last, and the runs of rs that could take that record are not alone in it.
Named(rs, rl) ==
  \E k \in Len(rs) .. Len(runs) :
    /\ runs[k].record = Len(rl) + 1
    /\ runs[k].index = runlengths[Len(rl) + 1].index
    /\ \A m \in Len(rs) .. k - 1 : runs[m].count = 1

NextNamed(rs, rl) ==
  rs[Len(rs)].record # 0 \/ (Len(rl) < Len(runlengths) /\ Named(rs, rl))

Flushed(rs, cs, lg, rl) ==
  /\ Typed(rs, cs, lg, rl)
  /\ Describes(rs, cs, lg, rl)
  /\ Settled(rs)
  /\ rs # <<>>
  /\ Len(cs) = safe
  /\ Extends(cs, calls) /\ Extends(lg, log) /\ Extends(rl, runlengths)
  /\ RunsExtend(rs, runs)
  /\ Len(lg) <= durable["log"]
  /\ Len(rl) <= durable["runlengths"]
  /\ \A r \in 1 .. Len(rs) : rs[r].index < durable["index"]
  /\ orphaned => NextNamed(rs, rl)

FlushedKept == safe # 0 => \E rs, cs, lg, rl : Flushed(rs, cs, lg, rl)

\* Inside a flush the log file is flushed before the runlength file, and the
\* last run's length is recorded before that.
FlushStages ==
  /\ stage \in {2, 3} => durable["log"] = Len(log)
  /\ stage = 3 /\ ~ orphaned => Settled(runs)

LEMMA FlushStagesInvariant == Spec => []FlushStages
<1>1. Init => FlushStages
  BY DEF Init, FlushStages
<1>2. IInv /\ FilesInv /\ FlushStages /\ [Next]_vars => FlushStages'
  <2> SUFFICES ASSUME IInv, FilesInv, FlushStages, [Next]_vars PROVE FlushStages'
    OBVIOUS
  <2>1. ASSUME NEW i \in Index, Call(i) PROVE FlushStages'
    BY <2>1 DEF Call, files, FlushStages
  <2>2. ASSUME NEW f \in DOMAIN durable, FlushFile(f) PROVE FlushStages'
    <3>1. /\ stage' = (stage + 1) % 4 /\ FlushOrder[stage + 1] = f
          /\ durable' = [durable EXCEPT ![f] = Len(Written[f])]
          /\ log' = log /\ runs' = runs /\ orphaned' = orphaned
      BY <2>2 DEF FlushFile, FlushOrder, encoderVars, encoder, history
    <3>2. stage \in 0 .. 3 /\ durable \in [{"index", "log", "runlengths"} -> Nat]
      BY DEF FilesInv
    <3>3. stage # 2
      BY <3>1, <3>2 DEF FlushOrder
    <3>4. CASE stage = 1
      <4>1. f = "log" /\ stage' = 2 /\ Written["log"] = log
        BY <3>1, <3>4 DEF FlushOrder, Written
      <4> QED BY <3>1, <3>2, <4>1 DEF FlushStages
    <3>5. CASE stage = 0 \/ stage = 3
      <4>1. stage' \in {0, 1}
        BY <3>1, <3>5
      <4> QED BY <4>1 DEF FlushStages
    <3> QED BY <3>2, <3>3, <3>4, <3>5
  <2>3. CASE FlushRecord
    <3>1. /\ stage' = stage + 1 /\ FlushOrder[stage + 1] = "record" /\ durable' = durable
          /\ runs' = RunsWithRecord /\ log' = log /\ orphaned' = orphaned
      BY <2>3 DEF FlushRecord, Flush, Close, WriteCurrentRunlength
    <3>2. stage = 2 /\ stage' = 3
      BY <3>1 DEF FlushOrder, FilesInv
    <3>3. ~ orphaned => Settled(RunsWithRecord)
      BY RecordStep
    <3> QED BY <3>1, <3>2, <3>3 DEF FlushStages
  <2>4. CASE Crash \/ Unpacking \/ Terminated \/ UNCHANGED vars
    <3>1. /\ stage' = stage /\ durable' = durable /\ log' = log /\ runs' = runs
          /\ orphaned' = orphaned
      BY <2>4 DEF Crash, Unpacking, Terminated, vars, files, encoderVars, encoder, history
    <3> QED BY <3>1 DEF FlushStages
  <2> QED BY <2>1, <2>2, <2>3, <2>4 DEF Next
<1> QED BY <1>1, <1>2, FilesInvariant, PTL DEF Spec

\* No step takes back what is durable, and only the end of a flush changes
\* what is safe.
LEMMA DurableGrows ==
  ASSUME EncoderTypeOK, FilesInv, [Next]_vars
  PROVE  /\ \A f \in {"index", "log", "runlengths"} : durable[f] <= durable'[f]
         /\ \/ safe' = safe
            \/ /\ FlushFile("runlengths") /\ stage = 3 /\ ~ orphaned /\ safe' = Len(calls)
               /\ UNCHANGED encoderVars
               /\ durable' = [durable EXCEPT !["runlengths"] = Len(runlengths)]
<1>1. durable \in [{"index", "log", "runlengths"} -> Nat]
  BY DEF FilesInv
<1>2. ASSUME NEW f \in DOMAIN durable, FlushFile(f)
      PROVE  /\ \A g \in {"index", "log", "runlengths"} : durable[g] <= durable'[g]
             /\ \/ safe' = safe
                \/ /\ FlushFile("runlengths") /\ stage = 3 /\ ~ orphaned /\ safe' = Len(calls)
                   /\ UNCHANGED encoderVars
                   /\ durable' = [durable EXCEPT !["runlengths"] = Len(runlengths)]
  <2>1. /\ durable' = [durable EXCEPT ![f] = Len(Written[f])]
        /\ stage' = (stage + 1) % 4 /\ FlushOrder[stage + 1] = f
        /\ IF stage' = 0 THEN EndOfFlush ELSE UNCHANGED <<process, disk, safe>>
        /\ UNCHANGED encoderVars
    BY <1>2 DEF FlushFile, FlushOrder
  <2>2. f \in {"index", "log", "runlengths"} /\ stage \in 0 .. 3
    BY <1>1 DEF FilesInv
  <2>3. Registered \in Nat
    BY UsedFinite, FormatsAssumption
  <2>4. /\ Len(Written["index"]) = Registered /\ Len(Written["log"]) = Len(log)
        /\ Len(Written["runlengths"]) = Len(runlengths)
    <3>1. Len(IndexEntries(Registered)) = Registered
      BY <2>3 DEF IndexEntries
    <3> QED BY <3>1 DEF Written
  <2>5. durable[f] <= Len(Written[f])
    BY <2>2, <2>4 DEF FilesInv
  <2>6. \A g \in {"index", "log", "runlengths"} : durable[g] <= durable'[g]
    BY <1>1, <2>1, <2>5
  <2>7. stage' = 0 => stage = 3 /\ f = "runlengths"
    BY <2>1, <2>2 DEF FlushOrder
  <2>8. CASE stage' = 0
    <3>1. f = "runlengths" /\ stage = 3
      BY <2>7, <2>8
    <3> QED BY <1>2, <2>1, <2>4, <2>6, <2>8, <3>1 DEF EndOfFlush
  <2>9. CASE stage' # 0
    BY <2>1, <2>6, <2>9
  <2> QED BY <2>8, <2>9
<1>3. CASE ~ (\E f \in DOMAIN durable : FlushFile(f))
  <2>1. durable' = durable /\ safe' = safe
    BY <1>3 DEF Next, Call, FlushRecord, Crash, Unpacking, Terminated, vars, files
  <2> QED BY <1>1, <2>1
<1> QED BY <1>2, <1>3

\* Until a call falls outside every run, the next record is of a run that
\* comes after those whose lengths are all recorded.
LEMMA NextIsNamed ==
  ASSUME IInv, ~ orphaned,
         NEW rs \in Seq(Run), NEW rl \in Seq(Record), Names(rs, rl), rs # <<>>,
         RunsExtend(rs, runs), Len(rl) < Len(runlengths), rs[Len(rs)].record = 0,
         Len(rl) \in Nat, \A r \in 1 .. Len(rs) : rs[r].record <= Len(rl)
  PROVE  Named(rs, rl)
<1>1. /\ runs \in Seq(Run) /\ Len(runs) \in Nat /\ Len(runlengths) \in Nat
      /\ Len(rs) \in Nat /\ Len(rs) \in 1 .. Len(rs) /\ Names(runs, runlengths)
      /\ Len(rs) <= Len(runs)
  BY EncoderFacts, EmptySeq, LenProperties DEF IInv, Describes, RunsExtend
<1>2. /\ \A k \in 1 .. Len(runs) : runs[k].record \in Nat
      /\ \A k \in 1 .. Len(rs) : rs[k].record \in Nat /\ k \in 1 .. Len(runs)
  <2>1. \A k \in 1 .. Len(rs) : k \in 1 .. Len(runs)
    BY <1>1
  <2> QED BY <1>1, <2>1, RunFields
<1> DEFINE n == Len(rl) + 1
<1>3. n \in 1 .. Len(runlengths)
  BY <1>1
<1>4. PICK k \in 1 .. Len(runs) : runs[k].record = n
  BY <1>1, <1>3 DEF Names
\* A record up to rl is that of a run of rs, and not of its last.
<1>5. ASSUME NEW m \in Len(rs) .. Len(runs), runs[m].record # 0
      PROVE  runs[m].record > Len(rl)
  <2> SUFFICES ASSUME ~ (runs[m].record > Len(rl)) PROVE FALSE
    OBVIOUS
  <2>1. m \in 1 .. Len(runs)
    BY <1>1
  <2>2. runs[m].record \in 1 .. Len(rl)
    BY <1>2, <1>5, <2>1
  <2>3. PICK q \in 1 .. Len(rs) : rs[q].record = runs[m].record
    BY <2>2 DEF Names
  <2>4. runs[q].record = runs[m].record /\ q \in 1 .. Len(runs)
    BY <1>2, <1>5, <2>3 DEF RunsExtend
  <2>5. q # Len(rs)
    BY <1>5, <2>3
  <2>6. q < m
    BY <1>1, <2>5
  <2>7. runs[q].record < runs[m].record
    BY <1>1, <1>5, <2>1, <2>4, <2>6 DEF Names
  <2> QED BY <1>2, <2>1, <2>4, <2>7
<1> HIDE DEF n
<1>6. n # 0 /\ n \in Nat /\ n = Len(rl) + 1
  BY <1>1 DEF n
<1>7. k \in Len(rs) .. Len(runs)
  <2> SUFFICES ASSUME k < Len(rs) PROVE FALSE
    BY <1>1
  <2>1. k \in 1 .. Len(rs)
    BY <1>1
  <2>2. rs[k].record = n
    BY <1>4, <2>1 DEF RunsExtend
  <2>3. n <= Len(rl)
    BY <2>1, <2>2
  <2> QED BY <1>6, <2>3
<1>8. ASSUME NEW m \in Len(rs) .. k - 1 PROVE runs[m].count = 1
  <2>1. m \in 1 .. Len(runs) /\ m < k /\ m # Len(runs) /\ m \in Len(rs) .. Len(runs)
    BY <1>1
  <2>2. runs[m].record = 0
    <3> SUFFICES ASSUME runs[m].record # 0 PROVE FALSE
      OBVIOUS
    <3>1. runs[m].record < n
      BY <1>1, <1>4, <1>6, <2>1 DEF Names
    <3>2. runs[m].record > Len(rl)
      BY <1>5, <2>1
    <3> QED BY <1>2, <1>6, <2>1, <3>1, <3>2
  <2> QED BY <1>1, <2>1, <2>2 DEF Names
<1>9. runs[k].index = runlengths[n].index
  <2>1. runlengths[n] = [index |-> runs[k].index, count |-> runs[k].count]
    BY <1>1, <1>4, <1>6 DEF Names
  <2> QED BY <2>1
<1> QED BY <1>4, <1>6, <1>7, <1>8, <1>9 DEF Named

\* That is still so when a call is about to fall outside every run.
LEMMA OrphanNames ==
  ASSUME IInv, ~ orphaned, runs # <<>>, m_current_runlength = 0,
         NEW rs, NEW cs, NEW lg, NEW rl, Flushed(rs, cs, lg, rl)
  PROVE  NextNamed(rs, rl)
<1>1. /\ runs \in Seq(Run) /\ Len(runs) \in Nat /\ Len(runs) \in 1 .. Len(runs)
      /\ Len(runlengths) \in Nat
      /\ Names(runs, runlengths)
      /\ \A k \in 1 .. Len(runs) : runs[k].record <= Len(runlengths)
      /\ runs[Len(runs)].record # 0
  BY EncoderFacts, EmptySeq DEF IInv, Describes, Bounded, CurrentRun
<1>2. /\ rs \in Seq(Run) /\ rl \in Seq(Record) /\ Len(rs) \in Nat /\ Len(rl) \in Nat
      /\ rs # <<>> /\ RunsExtend(rs, runs) /\ Names(rs, rl) /\ Len(rl) <= Len(runlengths)
      /\ \A r \in 1 .. Len(rs) : rs[r].record <= Len(rl)
      /\ Len(rs) <= Len(runs)
  BY LenProperties DEF Flushed, Typed, Describes, Bounded, Extends, RunsExtend
<1>3. CASE Len(rl) < Len(runlengths)
  BY <1>2, <1>3, NextIsNamed DEF NextNamed
<1>4. CASE Len(rl) = Len(runlengths)
  <2> DEFINE N == Len(runs)
             v == runs[N].record
  <2>1. v \in Nat
    BY <1>1, RunFields
  <2>2. v \in 1 .. Len(rl) /\ v # 0
    BY <1>1, <1>2, <1>4, <2>1
  <2>3. PICK q \in 1 .. Len(rs) : rs[q].record = v
    BY <1>2, <2>2 DEF Names
  <2>4. runs[q].record = v /\ q \in 1 .. Len(runs)
    BY <1>1, <1>2, <2>2, <2>3 DEF RunsExtend
  <2>5. q = N
    <3> SUFFICES ASSUME q # N PROVE FALSE
      OBVIOUS
    <3>1. q < N
      BY <1>1, <2>4
    <3>2. runs[q].record < runs[N].record
      BY <1>1, <2>2, <2>4, <3>1 DEF Names
    <3> QED BY <2>1, <2>4, <3>2
  <2>6. q = Len(rs)
    BY <1>1, <1>2, <2>5
  <2> QED BY <2>2, <2>3, <2>6 DEF NextNamed
<1> QED BY <1>1, <1>2, <1>3, <1>4

LEMMA NextNamedStays ==
  ASSUME IInv, IInv', [EncoderNext]_encoderVars,
         NEW rs \in Seq(Run), NEW rl \in Seq(Record), Len(rs) \in Nat \ {0},
         NextNamed(rs, rl)
  PROVE  NextNamed(rs, rl)'
<1>1. Extends(runlengths, runlengths') /\ RunsExtend(runs, runs')
  BY StepsExtend
<1>2. /\ Len(runs) \in Nat /\ Len(runlengths) \in Nat /\ Len(rl) \in Nat
      /\ Len(runs') \in Nat /\ Len(runlengths') \in Nat
  <2>1. runs' \in Seq(Run) /\ runlengths' \in Seq(Record)
    BY DEF IInv, EncoderTypeOK
  <2> QED BY <2>1, EncoderFacts, LenProperties DEF IInv
<1>3. CASE rs[Len(rs)].record # 0
  BY <1>3 DEF NextNamed
<1>4. CASE Len(rl) < Len(runlengths) /\ Named(rs, rl)
  <2>1. PICK k \in Len(rs) .. Len(runs) :
          /\ runs[k].record = Len(rl) + 1
          /\ runs[k].index = runlengths[Len(rl) + 1].index
          /\ \A m \in Len(rs) .. k - 1 : runs[m].count = 1
    BY <1>4 DEF Named
  <2>2. /\ k \in 1 .. Len(runs) /\ k \in Len(rs) .. Len(runs')
        /\ Len(rl) + 1 \in 1 .. Len(runlengths) /\ Len(rl) + 1 # 0
        /\ Len(rl) < Len(runlengths')
    BY <1>1, <1>2, <1>4 DEF RunsExtend, Extends
  <2>3. runs'[k].record = Len(rl) + 1 /\ runs'[k].index = runs[k].index
    BY <1>1, <2>1, <2>2 DEF RunsExtend
  <2>4. runlengths'[Len(rl) + 1] = runlengths[Len(rl) + 1]
    BY <1>1, <2>2 DEF Extends
  <2>5. ASSUME NEW m \in Len(rs) .. k - 1 PROVE runs'[m].count = 1
    <3>1. m \in 1 .. Len(runs) /\ m < Len(runs)
      BY <1>2, <2>2
    <3> QED BY <1>1, <2>1, <3>1 DEF RunsExtend
  <2>6. Named(rs, rl)'
    BY <2>1, <2>2, <2>3, <2>4, <2>5 DEF Named
  <2> QED BY <2>2, <2>6 DEF NextNamed
<1> QED BY <1>3, <1>4 DEF NextNamed

\* What a flush has completed stays, until the next one completes.
LEMMA FlushedStays ==
  ASSUME IInv, IInv', FilesInv, FilesInv', [Next]_vars, safe' = safe,
         NEW rs, NEW cs, NEW lg, NEW rl, Flushed(rs, cs, lg, rl)
  PROVE  Flushed(rs, cs, lg, rl)'
<1>1. [EncoderNext]_encoderVars
  BY NextIsEncoderStep
<1>2. /\ Extends(calls, calls') /\ Extends(log, log')
      /\ Extends(runlengths, runlengths') /\ RunsExtend(runs, runs')
  BY <1>1, StepsExtend
<1>3. /\ rs \in Seq(Run) /\ cs \in Seq(Index) /\ lg \in Seq(Token) /\ rl \in Seq(Record)
      /\ Len(rs) \in Nat /\ Len(lg) \in Nat /\ Len(rl) \in Nat
      /\ Len(rs) \in Nat \ {0}
  BY LenProperties, EmptySeq DEF Flushed, Typed
<1>4. /\ calls' \in Seq(Index) /\ log' \in Seq(Token) /\ runlengths' \in Seq(Record)
      /\ runs' \in Seq(Run)
      /\ calls \in Seq(Index) /\ log \in Seq(Token) /\ runlengths \in Seq(Record)
      /\ runs \in Seq(Run)
  BY DEF IInv, EncoderTypeOK
<1>5. /\ Extends(cs, calls') /\ Extends(lg, log') /\ Extends(rl, runlengths')
      /\ RunsExtend(rs, runs')
  <2>1. /\ Extends(cs, calls) /\ Extends(lg, log) /\ Extends(rl, runlengths)
        /\ RunsExtend(rs, runs)
    BY DEF Flushed
  <2>2. Extends(cs, calls')
    BY <1>2, <1>3, <1>4, <2>1, ExtendsTransitive
  <2>3. Extends(lg, log')
    BY <1>2, <1>3, <1>4, <2>1, ExtendsTransitive
  <2>4. Extends(rl, runlengths')
    BY <1>2, <1>3, <1>4, <2>1, ExtendsTransitive
  <2>5. RunsExtend(rs, runs')
    BY <1>2, <1>3, <1>4, <2>1, RunsExtendTransitive
  <2> QED BY <2>2, <2>3, <2>4, <2>5
<1>6. /\ Len(lg) <= durable'["log"] /\ Len(rl) <= durable'["runlengths"]
      /\ \A r \in 1 .. Len(rs) : rs[r].index < durable'["index"]
  <2>1. \A f \in {"index", "log", "runlengths"} : durable[f] <= durable'[f]
    BY DurableGrows DEF IInv
  <2>2. \A f \in {"index", "log", "runlengths"} : durable[f] \in Nat /\ durable'[f] \in Nat
    BY DEF FilesInv
  <2>3. ASSUME NEW r \in 1 .. Len(rs) PROVE rs[r].index < durable'["index"]
    <3>1. rs[r].index \in Nat
      BY <1>3, RunFields, FormatsAssumption DEF Index
    <3>2. rs[r].index < durable["index"]
      BY DEF Flushed
    <3> QED BY <2>1, <2>2, <3>1, <3>2
  <2>4. Len(lg) <= durable["log"] /\ Len(rl) <= durable["runlengths"]
    BY DEF Flushed
  <2> QED BY <1>3, <2>1, <2>2, <2>3, <2>4
<1>7. orphaned' => NextNamed(rs, rl)'
  <2> SUFFICES ASSUME orphaned' PROVE NextNamed(rs, rl)
    BY <1>1, <1>3, NextNamedStays
  <2>1. CASE orphaned
    BY <2>1 DEF Flushed
  <2>2. CASE ~ orphaned
    <3>1. PICK i \in Index : Log(i) /\ Orphan(i)
      BY <1>1, <2>2 DEF EncoderNext, Log, Flush, Close, WriteCurrentRunlength, encoderVars, history
    <3>2. runs # <<>> /\ m_current_runlength = 0
      BY <3>1 DEF Orphan, WritesIndex, IInv
    <3> QED BY <2>2, <3>2, OrphanNames
  <2> QED BY <2>1, <2>2
<1> QED BY <1>5, <1>6, <1>7 DEF Flushed

\* A flush that completes before any call fell outside a run keeps all of them.
LEMMA FlushKeepsAll ==
  ASSUME IInv, FilesInv, FlushStages, stage = 3, ~ orphaned, calls # <<>>,
         UNCHANGED encoderVars, safe' = Len(calls),
         durable' = [durable EXCEPT !["runlengths"] = Len(runlengths)]
  PROVE  Flushed(runs, calls, log, runlengths)'
<1>1. /\ runs' = runs /\ calls' = calls /\ log' = log /\ runlengths' = runlengths
      /\ orphaned' = orphaned
  BY DEF encoderVars, encoder, history
<1>2. /\ runs \in Seq(Run) /\ Len(runs) \in Nat /\ Len(calls) \in Nat
      /\ Len(log) \in Nat /\ Len(runlengths) \in Nat
      /\ Typed(runs, calls, log, runlengths)
      /\ Describes(runs, calls, log, runlengths)
  BY EncoderFacts DEF IInv, Typed
<1>3. Settled(runs) /\ durable["log"] = Len(log)
  BY DEF FlushStages
<1>4. runs # <<>>
  BY <1>2 DEF Describes, Partition
<1>5. durable'["index"] = durable["index"] /\ durable'["log"] = Len(log)
      /\ durable'["runlengths"] = Len(runlengths)
  BY <1>3 DEF FilesInv
<1>6. ASSUME NEW r \in 1 .. Len(runs) PROVE runs[r].index < durable["index"]
  <2> DEFINE p == runs[r].pos
             t == Tokens(runs[r])
  <2>1. p \in Nat /\ p >= 1 /\ t \in Nat \ {0} /\ p + t <= Len(log) + 1
    BY <1>2, RunFields DEF Describes, Bounded
  <2>2. log[p] = IndexToken(runs[r].index)
    BY <1>2 DEF Describes, Holds
  <2> HIDE DEF p, t
  <2>3. p \in 1 .. durable["log"]
    BY <1>2, <1>3, <2>1
  <2>4. log[p].index < durable["index"]
    BY <2>3 DEF FilesInv
  <2> QED BY <2>2, <2>4 DEF IndexToken
<1>7. /\ Extends(calls, calls) /\ Extends(log, log)
      /\ Extends(runlengths, runlengths) /\ RunsExtend(runs, runs)
  BY <1>2 DEF Extends, RunsExtend
<1>8. Len(log) <= Len(log) /\ Len(runlengths) <= Len(runlengths)
  BY <1>2
<1> QED BY <1>1, <1>2, <1>3, <1>4, <1>5, <1>6, <1>7, <1>8
        DEF Flushed, Typed, Describes, Bounded, Partition, Holds, Names, Settled, Extends,
            RunsExtend, Tokens

LEMMA FlushedInvariant == Spec => []FlushedKept
<1>1. Init => FlushedKept
  BY DEF Init, FlushedKept
<1>2. /\ IInv /\ IInv' /\ FilesInv /\ FilesInv' /\ FlushStages /\ FlushedKept /\ [Next]_vars
      => FlushedKept'
  <2> SUFFICES ASSUME IInv, IInv', FilesInv, FilesInv', FlushStages, FlushedKept,
                      [Next]_vars, safe' # 0
               PROVE  \E rs, cs, lg, rl : Flushed(rs, cs, lg, rl)'
    BY DEF FlushedKept
  <2>1. CASE safe' = safe
    <3>1. PICK rs, cs, lg, rl : Flushed(rs, cs, lg, rl)
      BY <2>1 DEF FlushedKept
    <3>2. Flushed(rs, cs, lg, rl)'
      BY <2>1, <3>1, FlushedStays
    <3> QED BY <3>2
  <2>2. CASE safe' # safe
    <3>1. /\ stage = 3 /\ ~ orphaned /\ safe' = Len(calls) /\ UNCHANGED encoderVars
          /\ durable' = [durable EXCEPT !["runlengths"] = Len(runlengths)]
      BY <2>2, DurableGrows DEF IInv
    <3>2. calls # <<>>
      BY <3>1
    <3>3. Flushed(runs, calls, log, runlengths)'
      BY <3>1, <3>2, FlushKeepsAll
    <3>4. PICK rs, cs, lg, rl : rs = runs' /\ cs = calls' /\ lg = log' /\ rl = runlengths'
      OBVIOUS
    <3>5. Flushed(rs, cs, lg, rl)'
      BY <3>3, <3>4 DEF Flushed, Typed, Describes, Bounded, Partition, Holds, Names, Settled,
                        Extends, RunsExtend, Tokens, NextNamed, Named
    <3> QED BY <3>5
  <2> QED BY <2>1, <2>2
<1> QED BY <1>1, <1>2, FilesInvariant, FlushStagesInvariant, PTL DEF Spec

\* No record has a count of one or none.
RecordsCount == \A k \in 1 .. Len(runlengths) : runlengths[k].count > 1

LEMMA RecordsAlwaysCount == EncoderSpec => []RecordsCount
<1>1. EncoderInit => RecordsCount
  <2>1. Len(<<>>) = 0
    OBVIOUS
  <2> QED BY <2>1 DEF EncoderInit, RecordsCount
<1>2. IInv /\ RecordsCount /\ [EncoderNext]_encoderVars => RecordsCount'
  <2> SUFFICES ASSUME IInv, RecordsCount, [EncoderNext]_encoderVars PROVE RecordsCount'
    OBVIOUS
  <2>1. CASE runlengths' = runlengths
    BY <2>1 DEF RecordsCount
  <2>2. CASE runlengths' # runlengths
    <3> DEFINE r == [index |-> m_runlength_index, count |-> m_current_runlength]
    <3>1. runlengths' = Append(runlengths, r) /\ m_current_runlength > 1
      BY <2>2 DEF EncoderNext, Log, Flush, Close, WriteCurrentRunlength, RecordsWithCurrent,
                  EndsRepeatedRun, encoderVars, encoder
    <3>2. runlengths \in Seq(Record) /\ r \in Record /\ r.count > 1 /\ Len(runlengths) \in Nat
      BY <3>1, LenProperties DEF IInv, EncoderTypeOK, Record
    <3> HIDE DEF r
    <3>3. /\ Len(runlengths') = Len(runlengths) + 1
          /\ \A k \in 1 .. Len(runlengths) : runlengths'[k] = runlengths[k]
          /\ runlengths'[Len(runlengths) + 1] = r
      BY <3>1, <3>2, AppendFacts
    <3>4. \A k \in 1 .. Len(runlengths') : k \in 1 .. Len(runlengths) \/ k = Len(runlengths) + 1
      BY <3>2, <3>3
    <3> QED BY <3>2, <3>3, <3>4 DEF RecordsCount
  <2> QED BY <2>1, <2>2
<1> QED BY <1>1, <1>2, InductiveInvariant, PTL DEF EncoderSpec

\* The runs whose record, if any, was there when they were flushed; the last
\* may get one later.
Sure(rs) == IF rs[Len(rs)].record = 0 THEN Len(rs) - 1 ELSE Len(rs)

\* What the parser relies on to print the flushed calls.
Readable(rs) ==
  /\ rs \in Seq(Run)
  /\ rs # <<>>
  /\ \A r \in 1 .. Len(rs) : OnDisk(rs, r)
  /\ \A r \in 1 .. Sure(rs) : Fits(rs, r)
  /\ rs[Len(rs)].record = 0 => rs[Len(rs)].count = 1
  /\ EndCall(rs, Len(rs)) = safe
  /\ \A k \in 1 .. Len(disk.runlengths) : disk.runlengths[k].count > 0

LEMMA FlushedOnDisk ==
  ASSUME DiskInv, process # "running", ~ Unpacker!TornIndexFile, EncoderTypeOK, FilesInv,
         NEW rs, NEW cs, NEW lg, NEW rl, Flushed(rs, cs, lg, rl), NEW r \in 1 .. Len(rs)
  PROVE  OnDisk(rs, r)
<1>1. /\ rs \in Seq(Run) /\ Len(lg) \in Nat /\ Len(log) \in Nat /\ Len(disk.log) \in Nat
      /\ Len(disk.index) \in Nat
      /\ durable["index"] \in Nat /\ durable["log"] \in Nat
  BY EncoderFacts, LenProperties DEF Flushed, Typed, DiskInv, FilesInv
<1>2. /\ Describes(rs, cs, lg, rl) /\ Typed(rs, cs, lg, rl)
      /\ \A n \in 1 .. Len(cs) : calls[n] = cs[n]
      /\ Len(lg) <= Len(log) /\ \A k \in 1 .. Len(lg) : log[k] = lg[k]
      /\ Len(lg) <= durable["log"] /\ rs[r].index < durable["index"]
  BY DEF Flushed, Extends
<1>3. HasDurable
  BY DEF DiskInv
<1> DEFINE p == rs[r].pos
           t == Tokens(rs[r])
<1>4. /\ p \in Nat /\ p >= 1 /\ t \in Nat \ {0} /\ p + t <= Len(lg) + 1
      /\ EndPos(rs, r) = p + t - 1
  BY <1>1, <1>2, RunFields DEF Describes, Bounded, EndPos
<1> HIDE DEF p, t
<1>5. EndPos(rs, r) \in Nat /\ EndPos(rs, r) <= Len(lg)
  BY <1>1, <1>4
<1>6. EndPos(rs, r) <= Len(disk.log)
  BY <1>1, <1>2, <1>3, <1>5 DEF HasDurable
<1>7. ASSUME NEW k \in 1 .. EndPos(rs, r) PROVE disk.log[k] = lg[k]
  <2>1. k \in 1 .. Len(lg) /\ k \in 1 .. durable["log"]
    BY <1>1, <1>2, <1>5
  <2> QED BY <1>2, <1>3, <2>1 DEF HasDurable
<1>8. rs[r].index \in Nat /\ rs[r].index < Len(disk.index)
  <2>1. rs[r].index \in Nat
    BY <1>1, RunFields, FormatsAssumption DEF Index
  <2> QED BY <1>1, <1>2, <1>3, <2>1 DEF HasDurable
<1>9. disk.index[rs[r].index + 1] = "whole"
  BY <1>8, EntryWhole
<1>10. rs[r].index < Len(disk.index)
  BY <1>8
<1>11. /\ Typed(rs, cs, lg, rl) /\ Describes(rs, cs, lg, rl)
       /\ \A n \in 1 .. Len(cs) : calls[n] = cs[n]
  BY <1>2
<1> QED BY <1>6, <1>7, <1>9, <1>10, <1>11, DescribedOnDisk

\* A record that is on disk and belongs to a later run, with only single runs
\* in between, is ambiguous; whoever wrote it, and however much later.
LEMMA FlushedFits ==
  ASSUME IInv, FilesInv, DiskInv, process # "running", ~ Ambiguous,
         NEW rs, NEW cs, NEW lg, NEW rl, Flushed(rs, cs, lg, rl), NEW r \in 1 .. Sure(rs)
  PROVE  Fits(rs, r)
<1>1. /\ rs \in Seq(Run) /\ rl \in Seq(Record) /\ Len(rs) \in Nat /\ Len(rl) \in Nat
      /\ rs # <<>> /\ Len(rs) \in 1 .. Len(rs)
      /\ Names(rs, rl) /\ \A k \in 1 .. Len(rs) : rs[k].record <= Len(rl)
      /\ RunsExtend(rs, runs) /\ Extends(rl, runlengths) /\ Len(rl) <= durable["runlengths"]
  <2>1. rs \in Seq(Run) /\ rl \in Seq(Record) /\ rs # <<>>
    BY DEF Flushed, Typed
  <2>2. Names(rs, rl) /\ \A k \in 1 .. Len(rs) : rs[k].record <= Len(rl)
    BY DEF Flushed, Describes, Bounded
  <2>3. RunsExtend(rs, runs) /\ Extends(rl, runlengths) /\ Len(rl) <= durable["runlengths"]
    BY DEF Flushed
  <2> QED BY <2>1, <2>2, <2>3, LenProperties, EmptySeq
<1>2. /\ runs \in Seq(Run) /\ Len(runs) \in Nat /\ Len(runlengths) \in Nat
      /\ Len(disk.runlengths) \in Nat /\ durable["runlengths"] \in Nat
      /\ EncoderTypeOK /\ HasDurable
  BY EncoderFacts, LenProperties DEF IInv, FilesInv, DiskInv
<1>3. /\ \A k \in 1 .. Len(rs) : rs[k].record \in Nat
      /\ \A k \in 1 .. Len(runs) : runs[k].record \in Nat
  BY <1>1, <1>2, RunFields
<1>4. r \in 1 .. Len(rs) /\ r \in Nat /\ r - 1 \in Nat /\ (rs[r].record = 0 => r < Len(rs))
  <2>1. CASE rs[Len(rs)].record = 0
    BY <1>1, <2>1 DEF Sure
  <2>2. CASE rs[Len(rs)].record # 0
    <3>1. r \in 1 .. Len(rs)
      BY <2>2 DEF Sure
    <3> QED BY <1>1, <2>2, <3>1
  <2> QED BY <2>1, <2>2
<1>5. CASE rs[r].record # 0
  <2>1. rs[r].record \in 1 .. Len(rl) /\ rs[r].record \in 1 .. durable["runlengths"]
    BY <1>1, <1>2, <1>3, <1>4, <1>5
  <2>2. disk.runlengths[rs[r].record] = rl[rs[r].record]
    <3> DEFINE k == rs[r].record
    <3>1. k \in 1 .. Len(rl) /\ k \in 1 .. durable["runlengths"]
      BY <2>1
    <3> HIDE DEF k
    <3>2. runlengths[k] = rl[k]
      BY <1>1, <3>1 DEF Extends
    <3>3. disk.runlengths[k] = runlengths[k]
      BY <1>2, <3>1 DEF HasDurable
    <3> QED BY <3>2, <3>3 DEF k
  <2>3. rs[r].record <= Len(disk.runlengths)
    BY <1>2, <2>1 DEF HasDurable
  <2> QED BY <1>1, <1>2, <1>4, <1>5, <2>2, <2>3, RecordedFits
<1>6. CASE rs[r].record = 0
  <2>1. rs[r].count = 1 /\ r < Len(rs) /\ r \in 1 .. Len(runs) /\ Len(rs) <= Len(runs)
    BY <1>1, <1>2, <1>4, <1>6 DEF Names, RunsExtend
  <2>2. ASSUME NEW n \in 0 .. Len(disk.runlengths), Consumed(rs, n, r - 1),
               HasRecord(n, rs[r].index)
        PROVE  FALSE
    <3>1. n + 1 \in 1 .. Len(disk.runlengths) /\ n \in Nat
      BY <1>2, <2>2 DEF HasRecord
    <3>2. /\ n + 1 \in 1 .. Len(runlengths) /\ n < Len(runlengths)
          /\ runlengths[n + 1].index = rs[r].index
      <4>1. n + 1 \in 1 .. Len(runlengths) /\ disk.runlengths[n + 1].index = runlengths[n + 1].index
        BY <1>2, <3>1, RecordsOnDisk
      <4> QED BY <1>2, <2>2, <3>1, <4>1 DEF HasRecord
    <3>3. \E k \in r + 1 .. Len(runs) :
            /\ runs[k].record = n + 1
            /\ runs[k].index = rs[r].index
            /\ \A m \in r .. k - 1 : runs[m].count = 1
      <4>1. CASE n < Len(rl)
        <5>1. PICK k \in r + 1 .. Len(rs) :
                /\ rs[k].record = n + 1
                /\ \A m \in r .. k - 1 : rs[m].record = 0 /\ rs[m].count = 1
          BY <1>1, <1>4, <1>6, <2>2, <3>1, <4>1, NextRecordIsLater
        <5>2. k \in 1 .. Len(rs) /\ k \in r + 1 .. Len(runs)
          BY <1>1, <1>4, <2>1, <1>2
        <5>3. runs[k].record = n + 1 /\ runs[k].index = rs[k].index
          BY <1>1, <3>1, <5>1, <5>2 DEF RunsExtend
        <5>4. rs[k].index = rs[r].index
          <6>1. rl[n + 1] = [index |-> rs[k].index, count |-> rs[k].count]
            BY <1>1, <3>1, <5>1, <5>2 DEF Names
          <6>2. runlengths[n + 1] = rl[n + 1]
            BY <1>1, <3>1, <4>1 DEF Extends
          <6> QED BY <3>2, <6>1, <6>2
        <5>5. ASSUME NEW m \in r .. k - 1 PROVE runs[m].count = 1
          <6>1. m \in 1 .. Len(rs) /\ m < Len(rs)
            BY <1>1, <1>4, <5>2
          <6> QED BY <1>1, <5>1, <6>1 DEF RunsExtend
        <5> QED BY <5>2, <5>3, <5>4, <5>5
      <4>2. CASE ~ (n < Len(rl))
        <5>1. n = Len(rl)
          <6>1. CASE n = 0
            BY <1>1, <4>2, <6>1
          <6>2. CASE n # 0
            <7>1. PICK k \in 1 .. r - 1 : rs[k].record = n
              BY <2>2, <6>2 DEF Consumed
            <7>2. k \in 1 .. Len(rs)
              BY <1>1, <1>4
            <7> QED BY <1>1, <3>1, <4>2, <7>1, <7>2
          <6> QED BY <6>1, <6>2
        <5>2. ASSUME NEW m \in r .. Len(rs) PROVE rs[m].record = 0
          <6> SUFFICES ASSUME rs[m].record # 0 PROVE FALSE
            OBVIOUS
          <6>1. m \in 1 .. Len(rs)
            BY <1>1, <1>4
          <6>2. n # 0
            BY <1>1, <1>3, <5>1, <6>1
          <6>3. PICK k \in 1 .. r - 1 : rs[k].record = n
            BY <2>2, <6>2 DEF Consumed
          <6>4. k \in 1 .. Len(rs) /\ k < m
            BY <1>1, <1>4
          <6>5. rs[k].record < rs[m].record
            BY <1>1, <6>1, <6>2, <6>3, <6>4 DEF Names
          <6> QED BY <1>1, <1>3, <5>1, <6>1, <6>3, <6>5
        <5>3. rs[Len(rs)].record = 0
          BY <1>1, <1>4, <5>2
        <5>4. Named(rs, rl)
          <6>1. CASE orphaned
            BY <5>3, <6>1 DEF Flushed, NextNamed
          <6>2. CASE ~ orphaned
            BY <1>1, <3>2, <5>1, <5>3, <6>2, NextIsNamed
          <6> QED BY <6>1, <6>2
        <5>5. PICK k \in Len(rs) .. Len(runs) :
                /\ runs[k].record = n + 1
                /\ runs[k].index = runlengths[n + 1].index
                /\ \A m \in Len(rs) .. k - 1 : runs[m].count = 1
          BY <5>1, <5>4 DEF Named
        <5>6. k \in r + 1 .. Len(runs)
          BY <1>1, <1>2, <1>4, <2>1
        <5>7. ASSUME NEW m \in r .. k - 1 PROVE runs[m].count = 1
          <6>1. CASE m < Len(rs)
            <7>1. m \in 1 .. Len(rs) /\ m \in r .. Len(rs) /\ m # Len(rs)
              BY <1>1, <1>4, <6>1
            <7>2. rs[m].count = 1
              BY <1>1, <5>2, <7>1 DEF Names
            <7> QED BY <1>1, <6>1, <7>1, <7>2 DEF RunsExtend
          <6>2. CASE ~ (m < Len(rs))
            <7>1. m \in Len(rs) .. k - 1
              BY <1>1, <1>4, <6>2
            <7> QED BY <5>5, <7>1
          <6> QED BY <6>1, <6>2
        <5> QED BY <3>2, <5>5, <5>6, <5>7
      <4> QED BY <4>1, <4>2
    <3>4. PICK k \in r + 1 .. Len(runs) :
            /\ runs[k].record = n + 1
            /\ runs[k].index = rs[r].index
            /\ \A m \in r .. k - 1 : runs[m].count = 1
      BY <3>3
    <3>5. k \in 1 .. Len(runs) /\ r < k /\ runs[r].index = rs[r].index
      <4>1. k \in 1 .. Len(runs) /\ r < k
        BY <1>2, <1>4
      <4> QED BY <1>1, <1>4, <4>1 DEF RunsExtend
    <3> QED BY <2>1, <3>1, <3>4, <3>5 DEF Ambiguous
  <2> QED BY <1>6, <2>1, <2>2 DEF Fits
<1> QED BY <1>5, <1>6

LEMMA FlushedReadable ==
  ASSUME IInv, FilesInv, DiskInv, RecordsCount, process # "running", ~ Ambiguous,
         ~ Unpacker!TornIndexFile, ~ TornRunlengthFile,
         NEW rs, NEW cs, NEW lg, NEW rl, Flushed(rs, cs, lg, rl)
  PROVE  Readable(rs)
<1>1. /\ rs \in Seq(Run) /\ rs # <<>> /\ Len(rs) \in Nat /\ Len(rs) \in 1 .. Len(rs)
      /\ Len(cs) \in Nat /\ Len(cs) = safe /\ Len(rs) # 0
  BY LenProperties, EmptySeq DEF Flushed, Typed
<1>2. \A r \in 1 .. Len(rs) : OnDisk(rs, r)
  BY FlushedOnDisk DEF IInv
<1>3. \A r \in 1 .. Sure(rs) : Fits(rs, r)
  BY FlushedFits
<1>4. rs[Len(rs)].record = 0 => rs[Len(rs)].count = 1
  BY DEF Flushed, Settled
<1>5. EndCall(rs, Len(rs)) = safe
  <2> DEFINE f == rs[Len(rs)].first
             c == rs[Len(rs)].count
  <2>1. f \in Nat /\ c \in Nat /\ f + c = Len(cs) + 1 /\ EndCall(rs, Len(rs)) = f + c - 1
    BY <1>1, RunFields DEF Flushed, Describes, Partition, EndCall
  <2> HIDE DEF f, c
  <2> QED BY <1>1, <2>1
<1>6. ASSUME NEW k \in 1 .. Len(disk.runlengths) PROVE disk.runlengths[k].count > 0
  <2>1. k \in 1 .. Len(runlengths)
    <3>1. Len(runlengths) \in Nat
      BY EncoderFacts DEF IInv
    <3> QED BY <3>1 DEF DiskInv
  <2>2. runlengths[k] \in Record /\ runlengths[k].count > 1
    BY <2>1, EncoderFacts, ElementOfSeq DEF IInv, RecordsCount
  <2>3. CASE disk.runlengths[k] = runlengths[k]
    BY <2>2, <2>3 DEF Record
  <2>4. CASE k = Len(disk.runlengths) /\ disk.runlengths[k] = [runlengths[k] EXCEPT !.count = 0]
    <3>1. disk.runlengths[k].count = 0 /\ Len(<<>>) = 0
      BY <2>2, <2>4 DEF Record
    <3>2. disk.runlengths # <<>>
      BY <3>1
    <3> QED BY <2>4, <3>1, <3>2 DEF TornRunlengthFile
  <2> QED BY <2>3, <2>4 DEF DiskInv
<1> QED BY <1>1, <1>2, <1>3, <1>4, <1>5, <1>6 DEF Readable

(***************************************************************************)
(* The flushed calls are read first.  Until they are all printed the       *)
(* unpacker is at a place in the runs of the last flush, and each of these *)
(* takes its own record, but perhaps the last, which has one call.         *)
(***************************************************************************)
\* The flushed calls are printed.
Kept ==
  /\ safe <= Len(printed)
  /\ \A k \in 1 .. safe : printed[k] = LineOf(k)

\* The unpacker has read the index of the last run, with the length it got
\* after the flush, if it got one.
InLast(rs) ==
  /\ rs[Len(rs)].record = 0
  /\ left > 0
  /\ current = rs[Len(rs)].index
  /\ m_logfile_index = EndPos(rs, Len(rs) - 1) + 1
  /\ printed = Lines(EndCall(rs, Len(rs) - 1))

OnTheWay(rs) ==
  \/ parser = "waiting" /\ Past(rs, 0)
  \/ parser = "parsing" /\ Track(rs, Sure(rs))
  \/ parser = "parsing" /\ InLast(rs)

LEMMA KeptStays ==
  ASSUME Kept, safe \in Nat, Unpacker!ParserTypeOK, Unpacker!ParserNext,
         calls' = calls, safe' = safe
  PROVE  Kept'
<1>1. printed \in Seq([index : Nat, call : Nat]) /\ Len(printed) \in Nat
  BY LenProperties DEF Unpacker!ParserTypeOK
<1>2. \A k : LineOf(k)' = LineOf(k)
  BY DEF LineOf
<1>3. CASE printed' = printed
  BY <1>2, <1>3 DEF Kept
<1>4. CASE \E e : printed' = Append(printed, e)
  <2>1. PICK e : printed' = Append(printed, e)
    BY <1>4
  <2> DEFINE S == [index : Nat, call : Nat] \cup {e}
  <2>2. e \in S /\ [index : Nat, call : Nat] \subseteq S
    OBVIOUS
  <2> HIDE DEF S
  <2>3. printed \in Seq(S)
    BY <1>1, <2>2, SeqMonotonic
  <2>4. /\ Len(printed') = Len(printed) + 1
        /\ \A k \in 1 .. Len(printed) : printed'[k] = printed[k]
    BY <2>1, <2>2, <2>3, AppendFacts
  <2>5. \A k \in 1 .. safe : k \in 1 .. Len(printed)
    BY <1>1 DEF Kept
  <2>6. safe <= Len(printed')
    BY <1>1, <2>4 DEF Kept
  <2> QED BY <1>2, <2>4, <2>5, <2>6 DEF Kept
<1> QED BY <1>3, <1>4 DEF Unpacker!ParserNext, Unpacker!Open, Unpacker!ParseIndex,
               Unpacker!PrintLine, Unpacker!Derail, Unpacker!Finish

\* Past the runs before the last, if its length was not recorded when it was
\* flushed: whatever record it takes, it has at least one call.
LEMMA LastBegins ==
  ASSUME NEW rs, Readable(rs), rs[Len(rs)].record = 0, Past(rs, Len(rs) - 1),
         DiskInv, Unpacker!ParserTypeOK, parser = "parsing",
         Unpacker!ParserNext, calls' = calls
  PROVE  parser' = "parsing" /\ InLast(rs)'
<1> DEFINE r == Len(rs)
<1>1. rs \in Seq(Run) /\ r \in 1 .. Len(rs) /\ OnDisk(rs, r) /\ Len(rs) \in Nat
  BY LenProperties, EmptySeq DEF Readable
<1>2. /\ left = 0 /\ m_logfile_index < Len(disk.log)
      /\ Unpacker!CurrentToken.index = rs[r].index
      /\ Unpacker!Runlength > 0 => Unpacker!OnIndex
  BY <1>1, AtNextRun
<1>3. /\ m_runlengthfile_index \in 0 .. Len(disk.runlengths) /\ Len(disk.runlengths) \in Nat
      /\ Len(disk.log) \in Nat /\ m_logfile_index \in Nat
  BY LenProperties DEF DiskInv, Unpacker!ParserTypeOK
<1>4. Unpacker!Runlength > 0
  <2>1. CASE Unpacker!TakesRecord
    <3>1. m_runlengthfile_index + 1 \in 1 .. Len(disk.runlengths)
      BY <1>3, <2>1 DEF Unpacker!TakesRecord
    <3> QED BY <2>1, <3>1 DEF Readable, Unpacker!Runlength, Unpacker!CurrentRecord
  <2>2. CASE ~ Unpacker!TakesRecord
    BY <2>2 DEF Unpacker!Runlength
  <2> QED BY <2>1, <2>2
<1>5. Unpacker!ParseIndex
  BY <1>2, <1>3, <1>4 DEF Unpacker!ParserNext, Unpacker!Open, Unpacker!PrintLine,
                    Unpacker!Derail, Unpacker!Finish
<1>6. /\ current' = rs[r].index /\ left' > 0 /\ m_logfile_index' = m_logfile_index + 1
      /\ printed' = printed /\ parser' = "parsing"
  BY <1>2, <1>4, <1>5 DEF Unpacker!ParseIndex
<1>7. /\ EndPos(rs, r - 1)' = EndPos(rs, r - 1)
      /\ (Lines(EndCall(rs, r - 1)))' = Lines(EndCall(rs, r - 1))
  BY DEF EndPos, EndCall, Lines, LineOf, Tokens
<1>8. m_logfile_index = EndPos(rs, r - 1) /\ printed = Lines(EndCall(rs, r - 1))
  BY DEF Past
<1> QED BY <1>6, <1>7, <1>8 DEF InLast

\* The one flushed call of that run is then printed first.
LEMMA LastPrinted ==
  ASSUME NEW rs, Readable(rs), InLast(rs), DiskInv, Unpacker!ParserTypeOK,
         parser = "parsing", Unpacker!ParserNext, calls' = calls, safe' = safe
  PROVE  Kept'
<1> DEFINE r == Len(rs)
           a == EndPos(rs, r - 1)
           b == EndPos(rs, r)
           e == EndCall(rs, r - 1)
           i == rs[r].index
<1>1. rs \in Seq(Run) /\ r \in 1 .. Len(rs) /\ OnDisk(rs, r) /\ rs[r].count = 1
  BY LenProperties, EmptySeq DEF Readable, InLast
<1>2. /\ a \in Nat /\ e \in Nat /\ b = a + 1 + (IF i \in NoArgs THEN 0 ELSE 1)
      /\ EndCall(rs, r) = e + 1 /\ b <= Len(disk.log)
      /\ calls[EndCall(rs, r) - 0] = i
      /\ i \notin NoArgs => disk.log[b - 0] = ArgsToken(i, EndCall(rs, r) - 0)
  BY <1>1 DEF OnDisk
<1>3. safe = e + 1 /\ EndCall(rs, r) - 0 = e + 1 /\ b \in Nat /\ b - 0 = b
  BY <1>2 DEF Readable
<1>4. /\ left > 0 /\ current = i /\ m_logfile_index = a + 1 /\ printed = Lines(e)
  BY DEF InLast
<1>5. Len(disk.log) \in Nat /\ left \in Nat /\ left # 0
  BY <1>4, LenProperties DEF DiskInv, Unpacker!ParserTypeOK
<1> HIDE DEF a, b, e, i
<1>6. LineOf(e + 1) = Unpacker!Line(current, IF current \in NoArgs THEN 0 ELSE e + 1)
  BY <1>2, <1>3, <1>4 DEF LineOf
<1>7. ASSUME current \notin NoArgs
      PROVE  Unpacker!OnValues /\ Unpacker!CurrentToken = ArgsToken(current, e + 1)
  <2>1. m_logfile_index + 1 = b /\ m_logfile_index < Len(disk.log)
    BY <1>2, <1>4, <1>5, <1>7
  <2>2. Unpacker!CurrentToken = ArgsToken(current, e + 1)
    BY <1>2, <1>3, <1>4, <1>7, <2>1 DEF Unpacker!CurrentToken
  <2> QED BY <2>1, <2>2 DEF Unpacker!OnValues, ArgsToken
<1>8. Unpacker!PrintLine
  BY <1>4, <1>5, <1>7 DEF Unpacker!ParserNext, Unpacker!Open, Unpacker!ParseIndex,
                    Unpacker!Derail, Unpacker!Finish
<1>9. printed' = Append(printed, LineOf(e + 1))
  <2>1. CASE current \in NoArgs
    BY <1>6, <1>8, <2>1 DEF Unpacker!PrintLine
  <2>2. CASE current \notin NoArgs
    <3>1. printed' = Append(printed, Unpacker!Line(current, Unpacker!CurrentToken.call))
      BY <1>8, <2>2 DEF Unpacker!PrintLine
    <3> QED BY <1>6, <1>7, <2>2, <3>1 DEF ArgsToken
  <2> QED BY <2>1, <2>2
<1>10. printed' = Lines(e + 1)
  BY <1>2, <1>4, <1>9, LinesFacts
<1>11. /\ Len(printed') = e + 1 /\ \A k \in 1 .. e + 1 : printed'[k] = LineOf(k)
  <2> DEFINE n == e + 1
  <2>1. n \in Nat /\ printed' = Lines(n)
    BY <1>2, <1>10
  <2> HIDE DEF n
  <2>2. Len(printed') = n /\ \A k \in 1 .. n : printed'[k] = LineOf(k)
    BY <2>1, LinesFacts
  <2> QED BY <2>2 DEF n
<1>12. \A k : LineOf(k)' = LineOf(k)
  BY DEF LineOf
<1> QED BY <1>2, <1>3, <1>11, <1>12 DEF Kept

LEMMA OnTheWayStep ==
  ASSUME NEW rs, Readable(rs), OnTheWay(rs), DiskInv, Unpacker!ParserTypeOK,
         ~ Unpacker!TornIndexFile, Unpacker!ParserNext, calls' = calls, safe' = safe
  PROVE  Kept' \/ OnTheWay(rs)'
<1>1. /\ rs \in Seq(Run) /\ Len(rs) \in Nat /\ Len(rs) \in 1 .. Len(rs)
      /\ Sure(rs) \in 0 .. Len(rs)
      /\ \A r \in 1 .. Sure(rs) : OnDisk(rs, r) /\ Fits(rs, r)
  <2>1. /\ rs \in Seq(Run) /\ Len(rs) \in Nat /\ Len(rs) \in 1 .. Len(rs)
    BY LenProperties, EmptySeq DEF Readable
  <2>2. Sure(rs) \in 0 .. Len(rs)
    BY <2>1 DEF Sure
  <2>3. \A r \in 1 .. Sure(rs) : r \in 1 .. Len(rs)
    BY <2>1, <2>2
  <2> QED BY <2>1, <2>2, <2>3 DEF Readable
<1>2. Sure(rs)' = Sure(rs)
  BY DEF Sure
<1>3. CASE parser = "waiting" /\ Past(rs, 0)
  <2>1. disk.log # <<>> /\ disk.index # <<>>
    <3>1. 1 \in 1 .. Len(rs) /\ Len(<<>>) = 0
      BY <1>1
    <3>2. OnDisk(rs, 1) /\ rs[1].index \in Nat
      BY <1>1, <3>1, RunFields, FormatsAssumption DEF Readable, Index
    <3>3. disk.index # <<>>
      BY <3>1, <3>2 DEF OnDisk
    <3>4. disk.log # <<>>
      <4> DEFINE a == EndPos(rs, 1 - 1)
                 b == EndPos(rs, 1)
                 c == rs[1].count
      <4>1. /\ a \in Nat /\ c \in Nat /\ b <= Len(disk.log)
            /\ b = a + 1 + IF rs[1].index \in NoArgs THEN 0 ELSE c
        BY <3>2 DEF OnDisk
      <4> HIDE DEF a, b, c
      <4> QED BY <3>1, <4>1
    <3> QED BY <3>3, <3>4
  <2>2. parser' = "parsing" /\ Past(rs, 0)'
    BY <1>3, <2>1, OpenStep
  <2>3. 0 \in 0 .. Sure(rs)
    BY <1>1
  <2> QED BY <1>2, <2>2, <2>3 DEF OnTheWay, Track
<1>4. CASE parser = "parsing" /\ Track(rs, Sure(rs)) /\ ~ Past(rs, Sure(rs))
  <2> DEFINE J == Sure(rs)
  <2>1. J \in 0 .. Len(rs) /\ \A r \in 1 .. J : OnDisk(rs, r) /\ Fits(rs, r)
    BY <1>1
  <2>2. Track(rs, J) /\ ~ Past(rs, J)
    BY <1>4
  <2>3. J' = J
    BY <1>2
  <2> HIDE DEF J
  <2>4. parser' = "parsing" /\ Track(rs, J)'
    BY <1>1, <1>4, <2>1, <2>2, TrackStep
  <2>5. Track(rs, Sure(rs))' <=> Track(rs, J)'
    BY <1>2 DEF J, Track
  <2> QED BY <2>4, <2>5 DEF OnTheWay
<1>5. CASE parser = "parsing" /\ Past(rs, Sure(rs))
  <2>1. CASE rs[Len(rs)].record = 0
    <3>1. Past(rs, Len(rs) - 1)
      BY <1>5, <2>1 DEF Sure
    <3> QED BY <1>5, <2>1, <3>1, LastBegins DEF OnTheWay
  <2>2. CASE rs[Len(rs)].record # 0
    <3>1. printed = Lines(safe) /\ EndCall(rs, Len(rs)) = safe /\ OnDisk(rs, Len(rs))
      BY <1>1, <1>5, <2>2 DEF Sure, Past, Readable
    <3>2. safe \in Nat
      <4> DEFINE c == rs[Len(rs)].count
                 f == EndCall(rs, Len(rs) - 1)
      <4>1. c \in Nat /\ f \in Nat /\ safe = f + c
        BY <3>1 DEF OnDisk
      <4> HIDE DEF c, f
      <4> QED BY <4>1
    <3>3. Kept
      <4> DEFINE n == safe
      <4>1. n \in Nat /\ printed = Lines(n)
        BY <3>1, <3>2
      <4> HIDE DEF n
      <4>2. Len(printed) = n /\ \A k \in 1 .. n : printed[k] = LineOf(k)
        BY <4>1, LinesFacts
      <4> QED BY <4>1, <4>2 DEF Kept, n
    <3> QED BY <3>2, <3>3, KeptStays
  <2> QED BY <2>1, <2>2
<1>6. CASE parser = "parsing" /\ InLast(rs)
  BY <1>6, LastPrinted
<1> QED BY <1>3, <1>4, <1>5, <1>6 DEF OnTheWay

Survives ==
  /\ process # "running" /\ ~ Ambiguous
  /\ ~ Unpacker!TornIndexFile /\ ~ TornRunlengthFile
  /\ safe # 0
  => Kept \/ \E rs : Readable(rs) /\ OnTheWay(rs)

LEMMA FreshSurvives ==
  IInv /\ FilesInv /\ DiskInv /\ RecordsCount /\ FlushedKept /\ Unpacker!ParserInit
    => Survives
<1> SUFFICES ASSUME IInv, FilesInv, DiskInv, RecordsCount, FlushedKept,
                    Unpacker!ParserInit,
                    process # "running", ~ Ambiguous, ~ Unpacker!TornIndexFile,
                    ~ TornRunlengthFile, safe # 0
             PROVE  \E rs : Readable(rs) /\ OnTheWay(rs)
  BY DEF Survives
<1>1. PICK rs, cs, lg, rl : Flushed(rs, cs, lg, rl)
  BY DEF FlushedKept
<1>2. Readable(rs)
  BY <1>1, FlushedReadable
<1>3. Past(rs, 0) /\ parser = "waiting"
  BY FreshIsPast
<1> QED BY <1>2, <1>3 DEF OnTheWay

\* The unpacker changes neither the files nor what was logged.
LEMMA ReadableStays ==
  ASSUME NEW rs, Readable(rs), disk' = disk, calls' = calls, safe' = safe
  PROVE  Readable(rs)'
<1>1. ASSUME NEW r
      PROVE  (OnDisk(rs, r)' <=> OnDisk(rs, r)) /\ (Fits(rs, r)' <=> Fits(rs, r))
  BY DEF OnDisk, Fits, HasRecord, Consumed, EndPos, EndCall, Tokens
<1>2. Sure(rs)' = Sure(rs) /\ (EndCall(rs, Len(rs)))' = EndCall(rs, Len(rs))
  BY DEF Sure, EndCall
<1>3. \A r \in 1 .. Len(rs) : OnDisk(rs, r)'
  BY <1>1 DEF Readable
<1>4. \A r \in 1 .. Sure(rs) : Fits(rs, r)'
  BY <1>1 DEF Readable
<1> QED BY <1>2, <1>3, <1>4 DEF Readable

LEMMA NextSurvives ==
  ASSUME FilesInv, EncoderTypeOK, DiskInv, Unpacker!ParserTypeOK, Survives,
         Unpacker!ParserNext, UNCHANGED <<encoderVars, files>>
  PROVE  Survives'
<1>1. /\ calls' = calls /\ disk' = disk /\ process' = process
      /\ runs' = runs /\ safe' = safe
  BY DEF encoderVars, history, files
<1> SUFFICES ASSUME process # "running", ~ Ambiguous, ~ Unpacker!TornIndexFile,
                    ~ TornRunlengthFile, safe # 0
             PROVE  Kept' \/ \E rs : Readable(rs)' /\ OnTheWay(rs)'
  BY <1>1 DEF Survives, Ambiguous, Unpacker!TornIndexFile, TornRunlengthFile
<1>2. safe \in Nat
  <2>1. Len(calls) \in Nat
    BY EncoderFacts
  <2> QED BY <2>1 DEF FilesInv
<1>3. CASE Kept
  BY <1>1, <1>2, <1>3, KeptStays
<1>4. ASSUME NEW rs, Readable(rs), OnTheWay(rs)
      PROVE  Kept' \/ (Readable(rs)' /\ OnTheWay(rs)')
  <2>1. Readable(rs)'
    BY <1>1, <1>4, ReadableStays
  <2>2. Kept' \/ OnTheWay(rs)'
    BY <1>1, <1>4, OnTheWayStep
  <2> QED BY <2>1, <2>2
<1> QED BY <1>3, <1>4 DEF Survives

LEMMA SurvivesInvariant == Spec => []Survives
<1>1. Init => Survives
  BY DEF Init, Survives
<1>2. /\ IInv /\ FilesInv /\ DiskInv /\ Unpacker!ParserTypeOK /\ Survives
      /\ (IInv /\ FilesInv /\ DiskInv /\ RecordsCount /\ FlushedKept)' /\ [Next]_vars
      => Survives'
  <2> SUFFICES ASSUME IInv, FilesInv, DiskInv, Unpacker!ParserTypeOK, Survives,
                      (IInv /\ FilesInv /\ DiskInv /\ RecordsCount /\ FlushedKept)',
                      [Next]_vars
               PROVE  Survives'
    OBVIOUS
  <2>1. CASE process = "running" /\ UNCHANGED parserVars
    <3>1. Unpacker!ParserInit'
      BY <2>1 DEF DiskInv, parserVars, Unpacker!ParserInit
    <3> QED BY <3>1, FreshSurvives, PTL
  <2>2. CASE UNCHANGED vars
    <3>1. /\ calls' = calls /\ disk' = disk /\ process' = process
          /\ runs' = runs /\ safe' = safe /\ UNCHANGED parserVars
      BY <2>2 DEF vars, encoderVars, history, files
    <3> SUFFICES ASSUME process # "running", ~ Ambiguous, ~ Unpacker!TornIndexFile,
                        ~ TornRunlengthFile, safe # 0
                 PROVE  Kept' \/ \E rs : Readable(rs)' /\ OnTheWay(rs)'
      BY <3>1 DEF Survives, Ambiguous, Unpacker!TornIndexFile, TornRunlengthFile
    <3>2. CASE Kept
      BY <3>1, <3>2 DEF Kept, LineOf, parserVars
    <3>3. ASSUME NEW rs, Readable(rs), OnTheWay(rs)
          PROVE  Readable(rs)' /\ OnTheWay(rs)'
      <4>1. Readable(rs)'
        BY <3>1, <3>3, ReadableStays
      <4>2. ASSUME NEW r
            PROVE  /\ Past(rs, r)' <=> Past(rs, r)
                   /\ Inside(rs, r)' <=> Inside(rs, r)
        BY <3>1 DEF parserVars, Past, Inside, EndPos, EndCall, Consumed, Lines, LineOf, Tokens
      <4>3. /\ Sure(rs)' = Sure(rs) /\ (InLast(rs)' <=> InLast(rs))
            /\ parser' = parser
        BY <3>1 DEF parserVars, Sure, InLast, EndPos, EndCall, Lines, LineOf, Tokens
      <4> QED BY <3>3, <4>1, <4>2, <4>3 DEF OnTheWay, Track
    <3> QED BY <3>2, <3>3 DEF Survives
  <2>3. CASE /\ process # "running" /\ Unpacker!ParserNext
             /\ UNCHANGED <<encoderVars, files>>
    <3>1. EncoderTypeOK
      BY DEF IInv
    <3> QED BY <2>3, <3>1, NextSurvives
  <2> QED BY <2>1, <2>2, <2>3, StepsOfUnpacker
<1> QED BY <1>1, <1>2, FilesInvariant, DiskInvariant, ParserInvariant, FlushedInvariant,
           RecordsAlwaysCount, SpecImpliesEncoderSpec, PTL DEF Spec

\* The calls made before the last completed flush are printed first, whatever a
\* crash left in the files after it.
THEOREM FlushedAreKept == Spec => []FlushedCallsSurvive
<1>1. FilesInv /\ EncoderTypeOK /\ DiskInv /\ Unpacker!ParserTypeOK /\ Survives
        => FlushedCallsSurvive
  <2> SUFFICES ASSUME FilesInv, EncoderTypeOK, DiskInv, Unpacker!ParserTypeOK, Survives,
                      Finished, ~ Ambiguous, ~ Unpacker!TornIndexFile,
                      ~ TornRunlengthFile
               PROVE  Len(printed) >= safe /\ SubSeq(printed, 1, safe) = Lines(safe)
    BY DEF FlushedCallsSurvive
  <2>1. safe \in Nat /\ Len(printed) \in Nat
    <3>1. Len(calls) \in Nat
      BY EncoderFacts
    <3> QED BY <3>1, LenProperties DEF FilesInv, Unpacker!ParserTypeOK
  <2>2. process # "running"
    BY DEF DiskInv, Finished, Unpacker!ParserInit
  <2>3. Kept
    <3>1. CASE safe = 0
      BY <2>1, <3>1 DEF Kept
    <3>2. CASE safe # 0
      BY <2>2, <3>2 DEF Survives, OnTheWay, Finished
    <3> QED BY <3>1, <3>2
  <2> DEFINE S == [index : Nat, call : Nat]
             n == safe
             q == SubSeq(printed, 1, n)
  <2>4. printed \in Seq(S) /\ n \in Nat /\ n <= Len(printed)
    BY <2>1, <2>3 DEF Kept, Unpacker!ParserTypeOK
  <2>5. \A k \in 1 .. n : printed[k] \in S
    <3>1. \A k \in 1 .. n : k \in 1 .. Len(printed)
      BY <2>1, <2>4
    <3> QED BY <2>4, <3>1, ElementOfSeq
  <2> HIDE DEF S, n
  <2>6. /\ q \in Seq(S)
        /\ Len(q) = IF 1 <= n THEN n - 1 + 1 ELSE 0
        /\ \A k \in 1 .. n - 1 + 1 : q[k] = printed[1 + k - 1]
    <3>1. 1 \in Int /\ n \in Int
      BY <2>4
    <3> QED BY <2>5, <3>1, SubSeqProperties
  <2>7. /\ (IF 1 <= n THEN n - 1 + 1 ELSE 0) = n /\ n - 1 + 1 = n
        /\ \A k \in 1 .. n : 1 + k - 1 = k
    BY <2>4
  <2>8. q \in Seq(S) /\ Len(q) = n /\ \A k \in 1 .. n : q[k] = printed[k]
    BY <2>6, <2>7
  <2>9. \A k \in 1 .. n : printed[k] = LineOf(k)
    BY <2>3 DEF Kept, n
  <2> HIDE DEF q
  <2>10. q = Lines(n)
    <3> DEFINE T == S \cup {LineOf(k) : k \in Nat}
    <3>1. S \subseteq T /\ {LineOf(k) : k \in Nat} \subseteq T
      OBVIOUS
    <3> HIDE DEF T
    <3>2. /\ Lines(n) \in Seq({LineOf(k) : k \in Nat}) /\ Len(Lines(n)) = n
          /\ \A k \in 1 .. n : Lines(n)[k] = LineOf(k)
      BY <2>4, LinesFacts
    <3>3. q \in Seq(T) /\ Lines(n) \in Seq(T)
      BY <2>8, <3>1, <3>2, SeqMonotonic
    <3>4. \A k \in 1 .. Len(q) : q[k] = Lines(n)[k]
      BY <2>8, <2>9, <3>2
    <3>5. Len(q) = Len(Lines(n))
      BY <2>8, <3>2
    <3> QED BY <3>3, <3>4, <3>5, SeqEqual
  <2> QED BY <2>1, <2>4, <2>10 DEF n, q
<1> QED BY <1>1, SurvivesInvariant, FilesInvariant, DiskInvariant, ParserInvariant,
           PTL DEF IInv
=============================================================================
