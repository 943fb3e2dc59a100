------------------------- MODULE BufferedFileProofs -------------------------
(***************************************************************************)
(* Proofs about BufferedFile, for every array size, every set of inputs    *)
(* and every number of bytes: the array is never overrun, no byte is lost, *)
(* repeated or reordered unless the operating system fails to write, and   *)
(* the file implements AppendOnlyFile.                                     *)
(***************************************************************************)
EXTENDS BufferedFile, SequenceInduction, FiniteSetTheorems

\* What the copy loop needs: a source pointer that advances, or writes that
\* are over after one iteration.
SourceIsFollowed == SourceAdvances \/ \A b \in Inputs : Len(b) <= MaxCopy

\* The inductive invariant.  Beyond the properties themselves it records that
\* an unbuffered FILE is empty, that the write in progress is an input, that a
\* loop which does not advance its source is still in its first iteration, and
\* that no more bytes are in memory than were accepted.
IInv ==
  /\ TypeOK
  /\ BufferInBounds
  /\ StreamIntact
  /\ Len(buffer) + bytesLeft <= Len(accepted)
  /\ Unbuffered => stdio = <<>>
  /\ bytesLeft > 0 => input \in Inputs
  /\ SourceAdvances \/ bytesLeft \in {0, Len(input)}

-----------------------------------------------------------------------------

\* A sequence is a prefix of anything that continues it.
LEMMA PrefixOfConcat ==
  ASSUME NEW S, NEW s \in Seq(S), NEW t \in Seq(S)
  PROVE  IsPrefix(s, s \o t)
<1>1. Len(s \o t) = Len(s) + Len(t) /\ Len(s) \in Nat /\ Len(t) \in Nat
  BY ConcatProperties, LenProperties
<1>2. s \o t \in Seq(S)
  BY ConcatProperties
<1>3. SubSeq(s \o t, 1, Len(s)) = SubSeq(s, 1, Len(s))
  <2>1. CASE Len(s) = 0
    BY <2>1, <1>1, SubSeqEmpty
  <2>2. CASE Len(s) > 0
    BY <2>2, <1>1, SubSeqOfConcat1
  <2> QED BY <2>1, <2>2, <1>1
<1> QED BY <1>1, <1>3 DEF IsPrefix

\* Concatenation under a name the solvers leave alone: they reason about \o
\* element by element, and only its algebra is needed here.
Cat(s, t) == s \o t

LEMMA CatBytes ==
  /\ \A a, b \in Seq(Byte) : Cat(a, b) \in Seq(Byte)
  /\ \A a, b, c \in Seq(Byte) : Cat(Cat(a, b), c) = Cat(a, Cat(b, c))
<1>1. \A a, b \in Seq(Byte) : a \o b \in Seq(Byte)
  BY ConcatProperties
<1>2. \A a, b, c \in Seq(Byte) : (a \o b) \o c = a \o (b \o c)
  BY ConcatAssociative, SMT
<1> QED BY <1>1, <1>2, Zenon DEF Cat

\* The iteration copies the first bytes of what is pending.
LEMMA ChunkIsHeadOfPending ==
  ASSUME IInv, SourceIsFollowed, bytesLeft > 0
  PROVE  /\ CopySize \in 1 .. bytesLeft
         /\ CopySize <= MaxCopy
         /\ Chunk \in Seq(Byte)
         /\ Len(Chunk) = CopySize
         /\ SubSeq(input, Len(input) - (bytesLeft - CopySize) + 1, Len(input))
              \in Seq(Byte)
         /\ Chunk \o SubSeq(input, Len(input) - (bytesLeft - CopySize) + 1, Len(input))
              = Pending
<1>1. input \in Seq(Byte) /\ Len(input) \in Nat /\ bytesLeft \in 1 .. Len(input)
  BY LenProperties DEF IInv, TypeOK
<1>2. CopySize \in 1 .. bytesLeft /\ CopySize <= MaxCopy
  BY <1>1, SizesAssumption DEF CopySize
<1>3. SourceOffset = Len(input) - bytesLeft
  <2>1. CASE SourceAdvances
    BY <2>1 DEF SourceOffset
  <2>2. CASE ~ SourceAdvances
    BY <2>2, <1>1 DEF SourceOffset, IInv
  <2> QED BY <2>1, <2>2
<1> DEFINE m == Len(input) - bytesLeft + 1
           k == Len(input) - bytesLeft + CopySize
<1>4. Chunk = SubSeq(input, m, k)
  BY <1>3 DEF Chunk
<1>5. m \in 1 .. Len(input) + 1 /\ k \in m - 1 .. Len(input) /\ Len(input) \in k .. Len(input)
  BY <1>1, <1>2
<1>6. SubSeq(input, m, k) \o SubSeq(input, k + 1, Len(input)) = SubSeq(input, m, Len(input))
  BY <1>1, <1>5, ConcatAdjacentSubSeq
<1>7. k + 1 = Len(input) - (bytesLeft - CopySize) + 1
  BY <1>1, <1>2
<1>8. /\ SubSeq(input, m, k) \in Seq(Byte)
      /\ Len(SubSeq(input, m, k)) = CopySize
  <2>1. \A i \in m .. k : input[i] \in Byte
    BY <1>1, <1>5, ElementOfSeq
  <2>2. m \in Int /\ k \in Int /\ m <= k /\ k - m + 1 = CopySize
    BY <1>1, <1>2
  <2> QED BY <2>1, <2>2, SubSeqProperties
<1>9. SubSeq(input, k + 1, Len(input)) \in Seq(Byte)
  <2>1. \A i \in k + 1 .. Len(input) : input[i] \in Byte
    BY <1>1, <1>5, ElementOfSeq
  <2>2. k + 1 \in Int /\ Len(input) \in Int
    BY <1>1, <1>5
  <2> QED BY <2>1, <2>2, SubSeqProperties
<1> QED BY <1>2, <1>4, <1>6, <1>7, <1>8, <1>9 DEF Pending

\* Between two writes nothing is pending.
LEMMA NothingPending ==
  ASSUME IInv, bytesLeft = 0
  PROVE  Pending = <<>>
<1>1. input \in Seq(Byte) /\ Len(input) \in Nat
  BY LenProperties DEF IInv, TypeOK
<1> QED BY <1>1, SubSeqEmpty DEF Pending

-----------------------------------------------------------------------------

\* A short write appends to the file, and what it loses was accepted.
LEMMA ShortWriteAppends ==
  ASSUME IInv, NEW bytes \in Seq(Byte), ShortWrite(bytes),
         Len(bytes) + bytesLeft <= Len(accepted)
  PROVE  /\ file' \in Seq(Byte) /\ IsPrefix(file, file')
         /\ lost' \subseteq 1 .. Len(accepted)
         /\ failures' = failures + 1 /\ failures' \in Nat /\ failures' # 0
         /\ Unbuffered /\ stdio' = stdio /\ stdio = <<>>
<1>1. PICK n \in 0 .. Len(bytes) - 1 :
        /\ file' = file \o SubSeq(bytes, 1, n)
        /\ lost' = lost \cup (Len(accepted) - bytesLeft - Len(bytes) + n + 1
                              .. Len(accepted) - bytesLeft - Len(bytes) + Len(bytes))
  BY DEF ShortWrite
<1>2. /\ Len(bytes) \in Nat /\ Len(accepted) \in Nat /\ bytesLeft \in Nat
      /\ file \in Seq(Byte) /\ lost \subseteq 1 .. Len(accepted)
  BY LenProperties DEF IInv, TypeOK
<1>3. SubSeq(bytes, 1, n) \in Seq(Byte)
  <2>1. \A i \in 1 .. n : bytes[i] \in Byte
    BY <1>2, ElementOfSeq
  <2> QED BY <1>2, <2>1, SubSeqProperties
<1>4. file' \in Seq(Byte) /\ IsPrefix(file, file')
  BY <1>1, <1>2, <1>3, ConcatProperties, PrefixOfConcat
<1>5. lost' \subseteq 1 .. Len(accepted)
  <2>1. ASSUME NEW k \in Len(accepted) - bytesLeft - Len(bytes) + n + 1
                         .. Len(accepted) - bytesLeft - Len(bytes) + Len(bytes)
        PROVE  k \in 1 .. Len(accepted)
    BY <1>2
  <2> QED BY <1>1, <1>2, <2>1
<1>6. failures' = failures + 1 /\ failures \in Nat /\ Unbuffered /\ stdio' = stdio
  BY DEF ShortWrite, IInv, TypeOK
<1> QED BY <1>4, <1>5, <1>6 DEF IInv

LEMMA InitEstablishesIInv == Init => IInv
<1> SUFFICES ASSUME Init PROVE IInv
  OBVIOUS
<1>1. TypeOK
  BY EmptySeq DEF Init, TypeOK
<1>2. BufferInBounds
  BY SizesAssumption DEF Init, BufferInBounds
<1>3. StreamIntact
  <2>1. Pending = <<>>
    BY SubSeqEmpty DEF Init, Pending
  <2>2. <<>> \in Seq(Byte) /\ <<>> \o <<>> = <<>>
    BY EmptySeq, ConcatEmptySeq
  <2> QED BY <2>1, <2>2 DEF Init, StreamIntact
<1> QED BY <1>1, <1>2, <1>3, EmptySeq DEF Init, IInv

\* A write is accepted whole: all of it is pending.
LEMMA CallPreservesIInv ==
  ASSUME IInv, NEW bytes \in Inputs, Call(bytes)
  PROVE  IInv'
<1>1. bytes \in Seq(Byte) /\ Len(bytes) \in Nat
  BY InputsAssumption, LenProperties
<1>2. accepted \o bytes \in Seq(Byte) /\ Len(accepted \o bytes) = Len(accepted) + Len(bytes)
  BY <1>1, ConcatProperties DEF IInv, TypeOK
<1>3. TypeOK'
  <2>1. Len(accepted) \in Nat
    BY LenProperties DEF IInv, TypeOK
  <2>2. lost \subseteq 1 .. Len(accepted \o bytes)
    BY <1>1, <1>2, <2>1 DEF IInv, TypeOK
  <2> QED BY <1>1, <1>2, <2>1, <2>2 DEF Call, IInv, TypeOK, trouble
<1>4. ASSUME failures' = 0
      PROVE  file' \o stdio' \o buffer' \o Pending' = accepted'
  <2>0. failures = 0
    BY <1>4 DEF Call, trouble
  <2>1. file \o stdio \o buffer = accepted
    <3>1. Pending = <<>>
      BY NothingPending DEF Call, Idle
    <3>2. file \o stdio \o buffer \in Seq(Byte)
      BY ConcatProperties DEF IInv, TypeOK
    <3> QED BY <2>0, <3>1, <3>2, ConcatEmptySeq DEF IInv, StreamIntact, Call, Idle
  <2>2. Pending' = bytes
    <3>1. input' = bytes /\ bytesLeft' = Len(bytes)
      BY DEF Call
    <3>2. Pending' = SubSeq(bytes, 1, Len(bytes))
      BY <3>1, <1>1 DEF Pending
    <3>3. SubSeq(bytes, 1, Len(bytes)) = bytes
      BY <1>1, SubSeqFull
    <3> QED BY <3>2, <3>3
  <2> QED BY <2>1, <2>2 DEF Call
<1>5. BufferInBounds' /\ (Unbuffered' => stdio' = <<>>)
  BY DEF Call, IInv, BufferInBounds
<1>6. /\ bytesLeft' > 0 => input' \in Inputs
      /\ SourceAdvances \/ bytesLeft' \in {0, Len(input')}
  BY DEF Call
<1>7. Len(buffer') + bytesLeft' <= Len(accepted')
  <2>1. Len(buffer) \in Nat /\ Len(accepted) \in Nat
    BY LenProperties DEF IInv, TypeOK
  <2>2. Len(buffer) <= Len(accepted)
    BY <2>1 DEF IInv, Call, Idle
  <2> QED BY <1>1, <1>2, <2>1, <2>2 DEF Call
<1> QED BY <1>3, <1>4, <1>5, <1>6, <1>7 DEF IInv, StreamIntact

\* An iteration moves the array's bytes on, or leaves them, and appends the
\* head of what is pending to the array.
LEMMA IteratePreservesIInv ==
  ASSUME IInv, SourceIsFollowed, Iterate
  PROVE  IInv'
<1> DEFINE rest == SubSeq(input, Len(input) - (bytesLeft - CopySize) + 1, Len(input))
           spilled == IF MustSpill THEN buffer ELSE <<>>
           kept == IF MustSpill THEN <<>> ELSE buffer
<1>1. /\ CopySize \in 1 .. bytesLeft
      /\ CopySize <= MaxCopy
      /\ Chunk \in Seq(Byte)
      /\ Len(Chunk) = CopySize
      /\ rest \in Seq(Byte)
      /\ Chunk \o rest = Pending
  BY ChunkIsHeadOfPending DEF Iterate
<1>2. /\ buffer \in Seq(Byte) /\ Len(buffer) \in Nat
      /\ file \in Seq(Byte) /\ stdio \in Seq(Byte)
      /\ spilled \in Seq(Byte) /\ kept \in Seq(Byte) /\ Len(kept) \in Nat
      /\ spilled \o kept = buffer
  BY EmptySeq, LenProperties, ConcatEmptySeq DEF IInv, TypeOK
<1>3. /\ buffer' = kept \o Chunk
      /\ bytesLeft' = bytesLeft - CopySize
      /\ failures' = 0 => failures = 0 /\ file' \o stdio' = (file \o stdio) \o spilled
      /\ file' \in Seq(Byte) /\ stdio' \in Seq(Byte)
      /\ Unbuffered => stdio' = <<>>
      /\ failures' \in Nat /\ lost' \subseteq 1 .. Len(accepted)
  <2>0. failures \in Nat /\ lost \subseteq 1 .. Len(accepted)
    BY DEF IInv, TypeOK
  <2>1. buffer' = kept \o Chunk /\ bytesLeft' = bytesLeft - CopySize /\ Fwrite(spilled)
    BY DEF Iterate
  <2>4. CASE ShortWrite(spilled)
    <3>1. Len(spilled) + bytesLeft <= Len(accepted)
      <4>1. Len(buffer) + bytesLeft <= Len(accepted) /\ bytesLeft \in Nat /\ Len(accepted) \in Nat
        BY LenProperties DEF IInv, TypeOK
      <4> QED BY <4>1, <1>2, EmptySeq
    <3> HIDE DEF spilled, kept
    <3>2. /\ file' \in Seq(Byte) /\ lost' \subseteq 1 .. Len(accepted)
          /\ failures' \in Nat /\ failures' # 0
          /\ stdio' = stdio /\ stdio = <<>>
      BY <2>4, <3>1, <1>2, ShortWriteAppends
    <3> QED BY <2>1, <3>2, <1>2
  <2>2. CASE FullWrite(spilled) /\ Unbuffered
    <3>1. stdio = <<>> /\ stdio' = <<>> /\ file' = file \o spilled /\ UNCHANGED trouble
      BY <2>1, <2>2 DEF FullWrite, IInv
    <3>2. file \o spilled \in Seq(Byte)
      BY <1>2, ConcatProperties
    <3>3. file \o <<>> = file /\ (file \o spilled) \o <<>> = file \o spilled
      BY <1>2, <3>2, ConcatEmptySeq
    <3> QED BY <2>0, <2>1, <1>2, <3>1, <3>2, <3>3 DEF trouble
  <2>3. CASE FullWrite(spilled) /\ ~ Unbuffered
    <3>1. file' = file /\ stdio' = stdio \o spilled /\ UNCHANGED trouble
      BY <2>1, <2>3 DEF FullWrite
    <3>2. stdio \o spilled \in Seq(Byte) /\ file \o (stdio \o spilled) = (file \o stdio) \o spilled
      <4> HIDE DEF spilled
      <4>1. Cat(stdio, spilled) \in Seq(Byte)
        BY <1>2, CatBytes
      <4>2. Cat(file, Cat(stdio, spilled)) = Cat(Cat(file, stdio), spilled)
        BY <1>2, CatBytes
      <4> QED BY <4>1, <4>2 DEF Cat
    <3> QED BY <2>0, <2>1, <2>3, <1>2, <3>1, <3>2 DEF trouble
  <2> QED BY <2>1, <2>2, <2>3, <2>4 DEF Fwrite
<1>4. input \in Seq(Byte) /\ Len(input) \in Nat /\ bytesLeft \in 1 .. Len(input)
  BY LenProperties DEF IInv, TypeOK, Iterate
<1>5. TypeOK'
  <2>1. kept \o Chunk \in Seq(Byte)
    BY <1>1, <1>2, ConcatProperties
  <2>2. bytesLeft' \in 0 .. Len(input)
    BY <1>1, <1>3, <1>4
  <2> QED BY <2>1, <2>2, <1>3 DEF TypeOK, IInv, Iterate
<1>6. BufferInBounds'
  <2>1. Len(kept \o Chunk) = Len(kept) + CopySize
    BY <1>1, <1>2, ConcatProperties
  <2>2. CASE MustSpill
    <3>1. Len(kept) = 0
      BY <2>2, EmptySeq
    <3> QED BY <2>1, <3>1, <1>1, <1>2, <1>3, <1>4, SizesAssumption DEF BufferInBounds
  <2>3. CASE ~ MustSpill
    BY <2>1, <2>3, <1>1, <1>2, <1>3, <1>4, SizesAssumption DEF BufferInBounds, MustSpill
  <2> QED BY <2>2, <2>3
<1>7. ASSUME failures' = 0
      PROVE  file' \o stdio' \o buffer' \o Pending' = accepted
  <2>1. Pending' = rest
    BY <1>3 DEF Pending, Iterate
  <2>2. file \o stdio \o buffer \o Pending = accepted
    BY <1>3, <1>7 DEF Iterate, IInv, StreamIntact
  <2> DEFINE out == file \o stdio
  <2>3. /\ out \in Seq(Byte) /\ spilled \in Seq(Byte) /\ kept \in Seq(Byte)
        /\ Chunk \in Seq(Byte) /\ rest \in Seq(Byte)
    BY <1>1, <1>2, ConcatProperties
  <2> HIDE DEF out, spilled, kept, rest
  <2>4. Cat(Cat(Cat(out, spilled), Cat(kept, Chunk)), rest)
          = Cat(Cat(out, Cat(spilled, kept)), Cat(Chunk, rest))
    BY <2>3, CatBytes
  <2>5. file' \o stdio' \o buffer' \o Pending'
          = ((out \o spilled) \o (kept \o Chunk)) \o rest
    BY <1>3, <1>7, <2>1 DEF out
  <2>6. (out \o (spilled \o kept)) \o (Chunk \o rest) = accepted
    BY <2>2, <1>1, <1>2 DEF out
  <2>7. ((out \o spilled) \o (kept \o Chunk)) \o rest
          = (out \o (spilled \o kept)) \o (Chunk \o rest)
    BY <2>4 DEF Cat
  <2> QED BY <2>5, <2>6, <2>7
<1>8. /\ bytesLeft' > 0 => input' \in Inputs
      /\ SourceAdvances \/ bytesLeft' \in {0, Len(input')}
  <2>1. input \in Inputs /\ input' = input
    BY <1>4 DEF IInv, Iterate
  <2>2. CASE SourceAdvances
    BY <2>1, <2>2
  <2>3. CASE ~ SourceAdvances
    <3>1. bytesLeft = Len(input) /\ Len(input) <= MaxCopy
      BY <2>1, <2>3, <1>4 DEF IInv, SourceIsFollowed
    <3> QED BY <2>1, <3>1, <1>3, <1>4 DEF CopySize
  <2> QED BY <2>2, <2>3
<1>9. Len(buffer') + bytesLeft' <= Len(accepted')
  <2>1. Len(kept \o Chunk) = Len(kept) + CopySize
    BY <1>1, <1>2, ConcatProperties
  <2>2. Len(kept) <= Len(buffer)
    BY <1>2, EmptySeq
  <2>3. Len(buffer) + bytesLeft <= Len(accepted) /\ Len(accepted) \in Nat /\ accepted' = accepted
    BY LenProperties DEF IInv, TypeOK, Iterate
  <2> HIDE DEF kept
  <2> QED BY <2>1, <2>2, <2>3, <1>1, <1>2, <1>3, <1>4
<1>10. StreamIntact'
  BY <1>7 DEF StreamIntact, Iterate
<1> QED BY <1>3, <1>5, <1>6, <1>8, <1>9, <1>10 DEF IInv

\* A drain, by flush() or by the destructor, leaves exactly what was accepted
\* in the file, unless writing fails; then it leaves more than there was.
LEMMA DrainCompletesFile ==
  ASSUME IInv, Idle, Drain
  PROVE  /\ failures' = 0 => file' = accepted
         /\ file' \in Seq(Byte) /\ IsPrefix(file, file')
         /\ stdio' = <<>>
         /\ failures' \in {failures, failures + 1} /\ failures' \in Nat
         /\ lost' \subseteq 1 .. Len(accepted)
<1>1. /\ file \in Seq(Byte) /\ stdio \in Seq(Byte) /\ buffer \in Seq(Byte)
      /\ failures \in Nat /\ lost \subseteq 1 .. Len(accepted)
      /\ Len(buffer) + bytesLeft <= Len(accepted)
  BY DEF IInv, TypeOK
<1>2. CASE ShortWrite(buffer)
  BY <1>1, <1>2, ShortWriteAppends
<1>3. CASE ~ ShortWrite(buffer)
  <2>1. file' = file \o stdio \o buffer /\ stdio' = <<>> /\ failures' = failures /\ lost' = lost
    BY <1>3 DEF Drain, trouble
  <2>2. file \o stdio \o buffer \in Seq(Byte) /\ IsPrefix(file, file \o stdio \o buffer)
    <3>1. Cat(stdio, buffer) \in Seq(Byte) /\ Cat(file, Cat(stdio, buffer)) = Cat(Cat(file, stdio), buffer)
      BY <1>1, CatBytes
    <3>2. Cat(file, Cat(stdio, buffer)) \in Seq(Byte)
      BY <1>1, <3>1, CatBytes
    <3>3. IsPrefix(file, file \o Cat(stdio, buffer))
      BY <1>1, <3>1, PrefixOfConcat
    <3> QED BY <3>1, <3>2, <3>3 DEF Cat
  <2>3. ASSUME failures = 0 PROVE file \o stdio \o buffer = accepted
    <3>1. Pending = <<>>
      BY NothingPending DEF Idle
    <3>2. file \o stdio \o buffer \o <<>> = file \o stdio \o buffer
      BY <2>2, ConcatEmptySeq
    <3> QED BY <2>3, <3>1, <3>2 DEF IInv, StreamIntact, Idle
  <2> QED BY <1>1, <2>1, <2>2, <2>3
<1> QED BY <1>2, <1>3

LEMMA DrainPreservesIInv ==
  ASSUME IInv, Idle, Drain, UNCHANGED <<input, bytesLeft, accepted>>,
         state' \in {"open", "closed"}
  PROVE  IInv'
<1>1. /\ failures' = 0 => file' = accepted
      /\ file' \in Seq(Byte) /\ stdio' = <<>>
      /\ failures' \in Nat /\ lost' \subseteq 1 .. Len(accepted)
  BY DrainCompletesFile
<1>2. buffer' = <<>> /\ Len(buffer') = 0 /\ durable' = Len(accepted)
  BY EmptySeq DEF Drain
<1>3. TypeOK'
  <2>1. accepted \in Seq(Byte) /\ Len(accepted) \in Nat /\ <<>> \in Seq(Byte)
    BY LenProperties, EmptySeq DEF IInv, TypeOK
  <2> QED BY <1>1, <1>2, <2>1 DEF IInv, TypeOK
<1>4. BufferInBounds'
  BY <1>2, SizesAssumption DEF BufferInBounds
<1>5. StreamIntact'
  <2>1. accepted \o <<>> = accepted
    BY ConcatEmptySeq DEF IInv, TypeOK
  <2>2. Pending = <<>>
    BY NothingPending DEF Idle
  <2>3. Pending' = <<>>
    BY <2>2 DEF Pending
  <2> QED BY <1>1, <1>2, <2>1, <2>3 DEF StreamIntact
<1>6. Len(buffer') + bytesLeft' <= Len(accepted')
  BY <1>2, LenProperties DEF Idle, IInv, TypeOK
<1> QED BY <1>1, <1>3, <1>4, <1>5, <1>6 DEF IInv

\* The C library moves bytes from the FILE to the file, in order.
LEMMA StdioDrainPreservesIInv ==
  ASSUME IInv, StdioDrain
  PROVE  IInv' /\ IsPrefix(file, file') /\ file' \o stdio' = file \o stdio
<1>1. PICK n \in 1 .. Len(stdio) :
        /\ file' = file \o SubSeq(stdio, 1, n)
        /\ stdio' = SubSeq(stdio, n + 1, Len(stdio))
  BY DEF StdioDrain
<1> DEFINE head == SubSeq(stdio, 1, n)
           tail == SubSeq(stdio, n + 1, Len(stdio))
<1>2. stdio \in Seq(Byte) /\ file \in Seq(Byte) /\ Len(stdio) \in Nat /\ n \in 1 .. Len(stdio)
  BY LenProperties DEF IInv, TypeOK
<1>3. head \in Seq(Byte)
  <2>1. \A i \in 1 .. n : stdio[i] \in Byte
    BY <1>2, ElementOfSeq
  <2> QED BY <1>2, <2>1, SubSeqProperties
<1>4. tail \in Seq(Byte)
  <2>1. \A i \in n + 1 .. Len(stdio) : stdio[i] \in Byte
    BY <1>2, ElementOfSeq
  <2>2. n + 1 \in Int /\ Len(stdio) \in Int
    BY <1>2
  <2> QED BY <2>1, <2>2, SubSeqProperties
<1>5. head \o tail = stdio
  <2>1. SubSeq(stdio, 1, n) \o SubSeq(stdio, n + 1, Len(stdio)) = SubSeq(stdio, 1, Len(stdio))
    BY <1>2, ConcatAdjacentSubSeq
  <2>2. SubSeq(stdio, 1, Len(stdio)) = stdio
    BY <1>2, SubSeqFull
  <2> QED BY <2>1, <2>2
<1> HIDE DEF head, tail
<1>6. file' \o stdio' = file \o stdio
  <2>1. file' = file \o head /\ stdio' = tail
    BY <1>1 DEF head, tail
  <2>2. Cat(Cat(file, head), tail) = Cat(file, Cat(head, tail))
    BY <1>2, <1>3, <1>4, CatBytes
  <2> QED BY <2>1, <2>2, <1>5 DEF Cat
<1>7. file' \in Seq(Byte) /\ IsPrefix(file, file')
  BY <1>1, <1>2, <1>3, ConcatProperties, PrefixOfConcat DEF head
<1>8. ~ Unbuffered
  BY <1>2, EmptySeq DEF IInv
<1>9. IInv'
  <2>1. TypeOK'
    BY <1>1, <1>4, <1>7 DEF tail, StdioDrain, IInv, TypeOK, trouble
  <2>2. BufferInBounds' /\ Pending' = Pending
    BY DEF StdioDrain, IInv, BufferInBounds, Pending
  <2>3. StreamIntact'
    BY <1>6, <2>2 DEF StdioDrain, IInv, StreamIntact, trouble
  <2> QED BY <1>8, <2>1, <2>2, <2>3 DEF StdioDrain, IInv
<1> QED BY <1>6, <1>7, <1>9

LEMMA CrashPreservesIInv ==
  ASSUME IInv, Crash
  PROVE  IInv'
<1>1. TypeOK'
  <2>1. Len(input) \in Nat /\ <<>> \in Seq(Byte)
    BY LenProperties, EmptySeq DEF IInv, TypeOK
  <2> QED BY <2>1 DEF IInv, TypeOK, Crash, trouble
<1>2. BufferInBounds'
  BY SizesAssumption, EmptySeq DEF Crash, BufferInBounds
<1>3. StreamIntact'
  BY DEF Crash, StreamIntact
<1>4. Len(buffer') + bytesLeft' <= Len(accepted')
  BY LenProperties, EmptySeq DEF Crash, IInv, TypeOK
<1> QED BY <1>1, <1>2, <1>3, <1>4 DEF Crash, IInv

LEMMA NextPreservesIInv ==
  ASSUME IInv, SourceIsFollowed, [Next]_vars
  PROVE  IInv'
<1>1. ASSUME NEW bytes \in Inputs, Call(bytes) PROVE IInv'
  BY <1>1, CallPreservesIInv
<1>2. CASE Iterate
  BY <1>2, IteratePreservesIInv
<1>3. CASE Flush
  BY <1>3, DrainPreservesIInv DEF Flush, Idle
<1>4. CASE Close
  BY <1>4, DrainPreservesIInv DEF Close
<1>5. CASE StdioDrain
  BY <1>5, StdioDrainPreservesIInv
<1>6. CASE Crash
  BY <1>6, CrashPreservesIInv
<1>7. CASE UNCHANGED vars
  BY <1>7 DEF vars, trouble, IInv, TypeOK, BufferInBounds, StreamIntact, Pending
<1> QED BY <1>1, <1>2, <1>3, <1>4, <1>5, <1>6, <1>7 DEF Next, Terminated

\* The inductive invariant holds in every reachable state.
THEOREM InductiveInvariant ==
  ASSUME SourceIsFollowed
  PROVE  Spec => []IInv
<1>1. Init => IInv
  BY InitEstablishesIInv
<1>2. IInv /\ [Next]_vars => IInv'
  BY NextPreservesIInv
<1> QED BY <1>1, <1>2, PTL DEF Spec

-----------------------------------------------------------------------------

\* Every variable keeps its type.
THEOREM TypeCorrect ==
  ASSUME SourceIsFollowed
  PROVE  Spec => []TypeOK
<1>1. IInv => TypeOK
  BY DEF IInv
<1> QED BY <1>1, InductiveInvariant, PTL

\* m_buffer_index stays within the array, whatever the sizes of the writes and
\* of the array and wherever flushes fall.
THEOREM ArrayNeverOverrun ==
  ASSUME SourceIsFollowed
  PROVE  Spec => []BufferInBounds
<1>1. IInv => BufferInBounds
  BY DEF IInv
<1> QED BY <1>1, InductiveInvariant, PTL

\* Until an fwrite falls short, no byte handed to a write is lost, repeated or
\* reordered between the array, the FILE and the file.
THEOREM NoByteLost ==
  ASSUME SourceIsFollowed
  PROVE  Spec => []StreamIntact
<1>1. IInv => StreamIntact
  BY DEF IInv
<1> QED BY <1>1, InductiveInvariant, PTL

-----------------------------------------------------------------------------

\* One short write loses at most what the array holds.
LEMMA ShortWriteLosesArray ==
  ASSUME IInv, LossIsBounded, NEW bytes \in Seq(Byte), ShortWrite(bytes),
         Len(bytes) <= BufferSize
  PROVE  LossIsBounded'
<1> DEFINE first == Len(accepted) - bytesLeft - Len(bytes)
<1>1. PICK n \in 0 .. Len(bytes) - 1 :
        lost' = lost \cup (first + n + 1 .. first + Len(bytes))
  BY DEF ShortWrite
<1>2. /\ Len(bytes) \in Nat /\ first \in Int /\ n \in Nat
      /\ BufferSize \in Nat /\ failures \in Nat /\ failures' = failures + 1
  BY LenProperties, SizesAssumption DEF IInv, TypeOK, ShortWrite
<1> HIDE DEF first
<1> DEFINE gap == first + n + 1 .. first + Len(bytes)
<1>3. IsFiniteSet(gap) /\ Cardinality(gap) <= BufferSize /\ Cardinality(gap) \in Nat
  <2> DEFINE low == first + n + 1
             high == first + Len(bytes)
  <2>1. low \in Int /\ high \in Int
    BY <1>2
  <2> HIDE DEF low, high
  <2>2. /\ IsFiniteSet(low .. high)
        /\ Cardinality(low .. high) = IF low > high THEN 0 ELSE high - low + 1
    BY <2>1, FS_Interval
  <2> QED BY <1>2, <2>2 DEF low, high
<1>4. /\ IsFiniteSet(lost \cup gap)
      /\ Cardinality(lost \cup gap) = Cardinality(lost) + Cardinality(gap) - Cardinality(lost \cap gap)
      /\ Cardinality(lost) \in Nat /\ Cardinality(lost \cap gap) \in Nat
  <2>1. IsFiniteSet(lost) /\ IsFiniteSet(lost \cap gap)
    BY <1>3, FS_Intersection DEF LossIsBounded
  <2> HIDE DEF gap
  <2> QED BY <1>3, <2>1, FS_Union, FS_CardinalityType
<1>5. (failures + 1) * BufferSize = failures * BufferSize + BufferSize
  BY <1>2
<1>6. failures * BufferSize \in Nat
  BY <1>2
<1> HIDE DEF gap
<1>7. Cardinality(lost \cup gap) <= failures * BufferSize + BufferSize
  BY <1>2, <1>3, <1>4, <1>6 DEF LossIsBounded
<1> QED BY <1>1, <1>2, <1>4, <1>5, <1>7 DEF LossIsBounded, gap

LEMMA NextPreservesLoss ==
  ASSUME IInv, LossIsBounded, [Next]_vars
  PROVE  LossIsBounded'
<1>1. buffer \in Seq(Byte) /\ Len(buffer) <= BufferSize /\ <<>> \in Seq(Byte) /\ Len(<<>>) <= BufferSize
  BY EmptySeq, SizesAssumption DEF IInv, TypeOK, BufferInBounds
<1>2. ASSUME UNCHANGED trouble PROVE LossIsBounded'
  BY <1>2 DEF trouble, LossIsBounded
<1>3. CASE Iterate
  BY <1>1, <1>2, <1>3, ShortWriteLosesArray DEF Iterate, Fwrite, FullWrite
<1>4. CASE Flush \/ Close
  BY <1>1, <1>2, <1>4, ShortWriteLosesArray DEF Flush, Close, Drain
<1>5. CASE (\E bytes \in Inputs : Call(bytes)) \/ StdioDrain \/ Crash \/ UNCHANGED vars
  BY <1>2, <1>5 DEF Call, StdioDrain, Crash, vars
<1> QED BY <1>3, <1>4, <1>5 DEF Next, Terminated

\* However often fwrite falls short, no more is lost each time than the array
\* holds.
THEOREM LossBounded ==
  ASSUME SourceIsFollowed
  PROVE  Spec => []LossIsBounded
<1>1. Init => LossIsBounded
  <2>1. BufferSize \in Nat
    BY SizesAssumption
  <2>2. 0 * BufferSize = 0
    BY <2>1
  <2> QED BY <2>2, FS_EmptySet DEF Init, LossIsBounded
<1>2. IInv /\ LossIsBounded /\ [Next]_vars => LossIsBounded'
  BY NextPreservesLoss
<1> QED BY <1>1, <1>2, InductiveInvariant, PTL DEF Spec

-----------------------------------------------------------------------------

\* The elements of s whose positions are not in l.
Kept(s, l) == FlattenSeq([k \in DOMAIN s |-> IF k \in l THEN <<>> ELSE <<s[k]>>])

LEMMA SurvivingIsKept == Surviving = Kept(accepted, lost)
BY DEF Surviving, Kept

\* Only the positions of s count.
LEMMA KeptLocal ==
  ASSUME NEW s \in Seq(Byte), NEW l, NEW m,
         \A k \in 1 .. Len(s) : k \in l <=> k \in m
  PROVE  Kept(s, l) = Kept(s, m)
<1>1. DOMAIN s = 1 .. Len(s)
  BY LenProperties
<1>2. [k \in DOMAIN s |-> IF k \in l THEN <<>> ELSE <<s[k]>>]
        = [k \in DOMAIN s |-> IF k \in m THEN <<>> ELSE <<s[k]>>]
  BY <1>1
<1> QED BY <1>2 DEF Kept

LEMMA KeptNothing == ASSUME NEW l PROVE Kept(<<>>, l) = <<>>
<1>1. [k \in DOMAIN <<>> |-> IF k \in l THEN <<>> ELSE <<(<<>>)[k]>>] = <<>>
  OBVIOUS
<1> QED BY <1>1, FlattenNothing DEF Kept

\* One more element at the end is kept or not.
LEMMA KeptAppend ==
  ASSUME NEW s \in Seq(Byte), NEW e \in Byte, NEW l
  PROVE  /\ Kept(s, l) \in Seq(Byte)
         /\ Kept(Append(s, e), l) = IF Len(s) + 1 \in l THEN Kept(s, l) ELSE Append(Kept(s, l), e)
<1> DEFINE piece(t, k) == IF k \in l THEN <<>> ELSE <<t[k]>>
           pieces == [k \in 1 .. Len(s) |-> piece(s, k)]
           last == IF Len(s) + 1 \in l THEN <<>> ELSE <<e>>
           longer == Append(s, e)
<1>1. /\ Len(s) \in Nat /\ DOMAIN s = 1 .. Len(s)
      /\ \A k \in 1 .. Len(s) : s[k] \in Byte
  BY LenProperties, ElementOfSeq
<1>2. /\ longer \in Seq(Byte) /\ Len(longer) = Len(s) + 1 /\ DOMAIN longer = 1 .. Len(s) + 1
      /\ longer[Len(s) + 1] = e
      /\ \A k \in 1 .. Len(s) : longer[k] = s[k]
  BY <1>1, AppendProperties, LenProperties
<1>3. last \in Seq(Byte)
  BY EmptySeq
<1>4. pieces \in Seq(Seq(Byte)) /\ Len(pieces) = Len(s)
  <2>1. \A k \in 1 .. Len(s) : piece(s, k) \in Seq(Byte)
    BY <1>1, EmptySeq
  <2> HIDE DEF piece
  <2>2. pieces \in [1 .. Len(s) -> Seq(Byte)]
    BY <2>1
  <2> QED BY <1>1, <2>2
<1>5. [k \in 1 .. Len(s) + 1 |-> piece(longer, k)] = Append(pieces, last)
  <2> DEFINE a == [k \in 1 .. Len(s) + 1 |-> piece(longer, k)]
             b == Append(pieces, last)
  <2>1. /\ b \in Seq(Seq(Byte)) /\ Len(b) = Len(s) + 1 /\ b[Len(s) + 1] = last
        /\ \A k \in 1 .. Len(s) : b[k] = pieces[k]
    BY <1>1, <1>3, <1>4, AppendProperties
  <2>2. b = [k \in 1 .. Len(s) + 1 |-> b[k]]
    BY <2>1, LenProperties
  <2>3. ASSUME NEW k \in 1 .. Len(s) + 1 PROVE a[k] = b[k]
    <3>1. CASE k \in 1 .. Len(s)
      <4>1. b[k] = piece(s, k)
        BY <2>1, <3>1
      <4>2. a[k] = piece(longer, k) /\ longer[k] = s[k]
        BY <1>2, <3>1
      <4> QED BY <4>1, <4>2
    <3>2. CASE k = Len(s) + 1
      <4>1. b[k] = last
        BY <2>1, <3>2
      <4>2. a[k] = piece(longer, k) /\ longer[k] = e
        BY <1>2, <3>2
      <4> QED BY <3>2, <4>1, <4>2
    <3> QED BY <1>1, <3>1, <3>2
  <2>4. a = [k \in 1 .. Len(s) + 1 |-> a[k]]
    OBVIOUS
  <2> HIDE DEF a, b
  <2> QED BY <2>2, <2>3, <2>4 DEF a, b
<1>6. Kept(s, l) = FlattenSeq(pieces) /\ Kept(longer, l) = FlattenSeq(Append(pieces, last))
  BY <1>1, <1>2, <1>5 DEF Kept
<1> HIDE DEF pieces, last, longer
<1>7. /\ FlattenSeq(pieces) \in Seq(Byte)
      /\ FlattenSeq(Append(pieces, last)) = FlattenSeq(pieces) \o last
  BY <1>3, <1>4, FlattenType, FlattenAppend
<1>8. FlattenSeq(pieces) \o last = IF Len(s) + 1 \in l THEN FlattenSeq(pieces) ELSE Append(FlattenSeq(pieces), e)
  BY <1>7, ConcatEmptySeq, AppendIsConcat DEF last
<1> QED BY <1>6, <1>7, <1>8 DEF longer

LEMMA KeptType ==
  ASSUME NEW s \in Seq(Byte), NEW l
  PROVE  Kept(s, l) \in Seq(Byte)
<1> DEFINE A == {t \in Seq(Byte) : Kept(t, l) \in Seq(Byte)}
<1>1. <<>> \in A
  BY KeptNothing, EmptySeq
<1>2. \A t \in Seq(Byte) : t \in A => \A e \in Byte : Append(t, e) \in A
  BY KeptAppend, AppendProperties
<1> HIDE DEF A
<1>3. Seq(Byte) \subseteq A
  BY <1>1, <1>2, SeqSetInduction
<1> QED BY <1>3 DEF A

\* What comes after the last lost position is kept whole, ...
LEMMA KeptRest ==
  ASSUME NEW s \in Seq(Byte), NEW t \in Seq(Byte), NEW l,
         \A k \in l : k <= Len(s)
  PROVE  Kept(s \o t, l) = Kept(s, l) \o t
<1> DEFINE A == {u \in Seq(Byte) : Kept(s \o u, l) = Kept(s, l) \o u}
<1>0. Kept(s, l) \in Seq(Byte) /\ Len(s) \in Nat
  BY KeptType, LenProperties
<1>1. <<>> \in A
  BY <1>0, EmptySeq, ConcatEmptySeq
<1>2. ASSUME NEW u \in Seq(Byte), u \in A, NEW e \in Byte PROVE Append(u, e) \in A
  <2>1. s \o u \in Seq(Byte) /\ Len(s \o u) = Len(s) + Len(u) /\ Len(u) \in Nat
    BY ConcatProperties, LenProperties
  <2>2. s \o Append(u, e) = Append(s \o u, e)
    BY ConcatProperties, AppendProperties
  <2>3. Len(s \o u) + 1 \notin l
    BY <1>0, <2>1
  <2>4. Kept(Append(s \o u, e), l) = Append(Kept(s, l) \o u, e)
    <3>1. Kept(Append(s \o u, e), l) = Append(Kept(s \o u, l), e)
      BY <2>1, <2>3, KeptAppend, Zenon
    <3>2. Kept(s \o u, l) = Kept(s, l) \o u
      BY <1>2, Zenon
    <3> QED BY <3>1, <3>2, Zenon
  <2>5. Append(Kept(s, l) \o u, e) = Kept(s, l) \o Append(u, e)
    <3> DEFINE a == Kept(s, l)
    <3>1. a \in Seq(Byte)
      BY <1>0
    <3> HIDE DEF a
    <3>2. a \o Append(u, e) = Append(a \o u, e)
      BY <3>1, AppendToConcat
    <3> QED BY <3>2 DEF a
  <2> QED BY <2>2, <2>4, <2>5, AppendProperties
<1> HIDE DEF A
<1>3. Seq(Byte) \subseteq A
  BY <1>1, <1>2, SeqSetInduction
<1> QED BY <1>3 DEF A

\* ... and of a stretch that is lost nothing is.
LEMMA KeptGap ==
  ASSUME NEW s \in Seq(Byte), NEW t \in Seq(Byte), NEW l,
         Len(s) + 1 .. Len(s) + Len(t) \subseteq l
  PROVE  Kept(s \o t, l) = Kept(s, l)
<1> DEFINE A == {u \in Seq(Byte) : Len(u) <= Len(t) => Kept(s \o u, l) = Kept(s, l)}
<1>0. Len(s) \in Nat /\ Len(t) \in Nat
  BY LenProperties
<1>1. <<>> \in A
  BY EmptySeq, ConcatEmptySeq
<1>2. ASSUME NEW u \in Seq(Byte), u \in A, NEW e \in Byte PROVE Append(u, e) \in A
  <2>1. s \o u \in Seq(Byte) /\ Len(s \o u) = Len(s) + Len(u) /\ Len(u) \in Nat
    BY ConcatProperties, LenProperties
  <2>2. s \o Append(u, e) = Append(s \o u, e) /\ Len(Append(u, e)) = Len(u) + 1
    BY ConcatProperties, AppendProperties
  <2>3. Kept(Append(s \o u, e), l) = IF Len(s \o u) + 1 \in l THEN Kept(s \o u, l) ELSE Append(Kept(s \o u, l), e)
    BY <2>1, KeptAppend
  <2>4. ASSUME Len(Append(u, e)) <= Len(t) PROVE Kept(s \o Append(u, e), l) = Kept(s, l)
    <3>1. Len(s \o u) + 1 \in Len(s) + 1 .. Len(s) + Len(t) /\ Len(u) <= Len(t)
      BY <1>0, <2>1, <2>2, <2>4
    <3> QED BY <1>2, <2>2, <2>3, <3>1
  <2> QED BY <2>4, AppendProperties
<1> HIDE DEF A
<1>3. Seq(Byte) \subseteq A
  BY <1>1, <1>2, SeqSetInduction
<1> QED BY <1>0, <1>3 DEF A

-----------------------------------------------------------------------------

\* Everything accepted falls into what has been handed to fwrite, of which
\* file and FILE have all but what is lost, and what is still in memory.
HandedOn(out) ==
  /\ lost \subseteq 1 .. Len(out)
  /\ accepted = out \o (buffer \o Pending)
  /\ file \o stdio = Kept(out, lost)

OutputGapped == state # "crashed" => \E out \in Seq(Byte) : HandedOn(out)

LEMMA PendingType ==
  ASSUME IInv
  PROVE  Pending \in Seq(Byte) /\ Len(Pending) = bytesLeft
<1>1. input \in Seq(Byte) /\ Len(input) \in Nat /\ bytesLeft \in 0 .. Len(input)
  BY LenProperties DEF IInv, TypeOK
<1>2. \A i \in Len(input) - bytesLeft + 1 .. Len(input) : input[i] \in Byte
  BY <1>1, ElementOfSeq
<1> DEFINE m == Len(input) - bytesLeft + 1
<1>3. m \in Int /\ Len(input) \in Int /\ Len(input) - m + 1 = bytesLeft /\ (m > Len(input) => bytesLeft = 0)
  BY <1>1
<1> HIDE DEF m
<1>4. /\ SubSeq(input, m, Len(input)) \in Seq(Byte)
      /\ Len(SubSeq(input, m, Len(input))) = IF m <= Len(input) THEN Len(input) - m + 1 ELSE 0
  BY <1>2, <1>3, SubSeqProperties DEF m
<1> QED BY <1>3, <1>4 DEF Pending, m

\* A short write leaves a gap in the file and in what is kept alike.
LEMMA ShortWriteKeeps ==
  ASSUME IInv, NEW out \in Seq(Byte), NEW bytes \in Seq(Byte),
         lost \subseteq 1 .. Len(out), file = Kept(out, lost),
         Len(out) = Len(accepted) - bytesLeft - Len(bytes),
         ShortWrite(bytes)
  PROVE  /\ lost' \subseteq 1 .. Len(out \o bytes)
         /\ file' = Kept(out \o bytes, lost')
<1>1. PICK n \in 0 .. Len(bytes) - 1 :
        /\ file' = file \o SubSeq(bytes, 1, n)
        /\ lost' = lost \cup (Len(out) + n + 1 .. Len(out) + Len(bytes))
  BY DEF ShortWrite
<1> DEFINE head == SubSeq(bytes, 1, n)
           tail == SubSeq(bytes, n + 1, Len(bytes))
<1>2. Len(bytes) \in Nat /\ Len(out) \in Nat /\ n \in Nat /\ n < Len(bytes)
  BY LenProperties
<1>3. /\ head \in Seq(Byte) /\ Len(head) = n
      /\ tail \in Seq(Byte) /\ Len(tail) = Len(bytes) - n
      /\ head \o tail = bytes
  <2>1. \A i \in 1 .. Len(bytes) : bytes[i] \in Byte
    BY ElementOfSeq
  <2>2. head \in Seq(Byte) /\ Len(head) = n
    <3>1. \A i \in 1 .. n : bytes[i] \in Byte
      BY <1>2, <2>1
    <3>2. head \in Seq(Byte) /\ Len(head) = IF 1 <= n THEN n - 1 + 1 ELSE 0
      BY <1>2, <3>1, SubSeqProperties
    <3> QED BY <1>2, <3>2
  <2>3. tail \in Seq(Byte) /\ Len(tail) = Len(bytes) - n
    <3>1. \A i \in n + 1 .. Len(bytes) : bytes[i] \in Byte
      BY <1>2, <2>1
    <3>2. n + 1 \in Int /\ Len(bytes) \in Int
      BY <1>2
    <3>3. tail \in Seq(Byte) /\ Len(tail) = IF n + 1 <= Len(bytes) THEN Len(bytes) - (n + 1) + 1 ELSE 0
      BY <3>1, <3>2, SubSeqProperties
    <3> QED BY <1>2, <3>3
  <2>4. head \o tail = bytes
    <3>1. head \o tail = SubSeq(bytes, 1, Len(bytes))
      BY <1>2, ConcatAdjacentSubSeq
    <3> QED BY <3>1, SubSeqFull
  <2> QED BY <2>2, <2>3, <2>4
<1> HIDE DEF head, tail
<1>4. out \o bytes = (out \o head) \o tail
  <2>1. Cat(Cat(out, head), tail) = Cat(out, Cat(head, tail))
    BY <1>3, CatBytes
  <2> QED BY <1>3, <2>1 DEF Cat
<1>5. out \o head \in Seq(Byte) /\ Len(out \o head) = Len(out) + n
  BY <1>3, ConcatProperties
<1>6. Kept(out \o bytes, lost') = Kept(out \o head, lost')
  <2>1. Len(out \o head) + 1 .. Len(out \o head) + Len(tail) \subseteq lost'
    BY <1>1, <1>2, <1>3, <1>5
  <2>2. Kept((out \o head) \o tail, lost') = Kept(out \o head, lost')
    BY <1>3, <1>5, <2>1, KeptGap, Zenon
  <2> QED BY <1>4, <2>2, Zenon
<1>7. Kept(out \o head, lost') = Kept(out \o head, lost)
  <2>1. \A k \in 1 .. Len(out \o head) : k \in lost' <=> k \in lost
    BY <1>1, <1>2, <1>5
  <2> QED BY <1>5, <2>1, KeptLocal
<1>8. Kept(out \o head, lost) = Kept(out, lost) \o head
  <2>1. \A k \in lost : k <= Len(out)
    BY <1>2
  <2> QED BY <1>3, <2>1, KeptRest
<1>9. lost' \subseteq 1 .. Len(out \o bytes)
  <2>1. Len(out \o bytes) = Len(out) + Len(bytes)
    BY ConcatProperties
  <2> DEFINE size == Len(out \o bytes)
  <2>2. size = Len(out) + Len(bytes)
    BY <2>1
  <2> HIDE DEF size
  <2>3. lost' \subseteq 1 .. size
    <3>1. \A k \in 1 .. Len(out) : k \in 1 .. size
      BY <1>2, <2>2
    <3>2. \A k \in Len(out) + n + 1 .. Len(out) + Len(bytes) : k \in 1 .. size
      BY <1>2, <2>2
    <3> QED BY <1>1, <3>1, <3>2
  <2> QED BY <2>3 DEF size
<1> QED BY <1>1, <1>6, <1>7, <1>8, <1>9 DEF head

\* A write that falls short of nothing adds all of its bytes to both.
LEMMA FullWriteKeeps ==
  ASSUME IInv, NEW out \in Seq(Byte), NEW bytes \in Seq(Byte),
         lost \subseteq 1 .. Len(out), file \o stdio = Kept(out, lost)
  PROVE  /\ lost \subseteq 1 .. Len(out \o bytes)
         /\ (file \o stdio) \o bytes = Kept(out \o bytes, lost)
<1>1. Len(bytes) \in Nat /\ Len(out) \in Nat /\ Len(out \o bytes) = Len(out) + Len(bytes)
  BY LenProperties, ConcatProperties
<1>2. lost \subseteq 1 .. Len(out \o bytes)
  BY <1>1
<1>3. \A k \in lost : k <= Len(out)
  BY <1>1
<1>4. Kept(out \o bytes, lost) = Kept(out, lost) \o bytes
  BY <1>3, KeptRest, Zenon
<1> QED BY <1>2, <1>4, Zenon

LEMMA FwriteKeeps ==
  ASSUME IInv, NEW out \in Seq(Byte), NEW bytes \in Seq(Byte),
         lost \subseteq 1 .. Len(out), file \o stdio = Kept(out, lost),
         Len(out) = Len(accepted) - bytesLeft - Len(bytes) \/ bytes = <<>>,
         Fwrite(bytes)
  PROVE  /\ lost' \subseteq 1 .. Len(out \o bytes)
         /\ file' \o stdio' = Kept(out \o bytes, lost')
<1>1. file \in Seq(Byte) /\ stdio \in Seq(Byte)
  BY DEF IInv, TypeOK
<1>2. CASE ShortWrite(bytes)
  <2>1. stdio = <<>> /\ stdio' = <<>> /\ bytes # <<>>
    BY <1>2, EmptySeq DEF ShortWrite, IInv
  <2>2. file \o <<>> = file
    BY <1>1, ConcatEmptySeq
  <2>3. lost' \subseteq 1 .. Len(out \o bytes) /\ file' = Kept(out \o bytes, lost')
    BY <1>2, <2>1, <2>2, ShortWriteKeeps
  <2>4. out \o bytes \in Seq(Byte)
    BY ConcatProperties
  <2>5. file' \o <<>> = file'
    BY <2>3, <2>4, KeptType, ConcatEmptySeq
  <2> QED BY <2>1, <2>3, <2>5
<1>3. CASE FullWrite(bytes)
  <2>1. lost' = lost /\ file' \o stdio' = (file \o stdio) \o bytes
    <3>1. (file \o bytes) \o <<>> = (file \o <<>>) \o bytes
      <4>1. file \o bytes \in Seq(Byte)
        BY <1>1, ConcatProperties
      <4> QED BY <1>1, <4>1, ConcatEmptySeq
    <3>2. file \o (stdio \o bytes) = (file \o stdio) \o bytes
      <4>1. Cat(file, Cat(stdio, bytes)) = Cat(Cat(file, stdio), bytes)
        BY <1>1, CatBytes
      <4> QED BY <4>1 DEF Cat
    <3> QED BY <1>3, <3>1, <3>2 DEF FullWrite, trouble, IInv
  <2> QED BY <2>1, FullWriteKeeps
<1> QED BY <1>2, <1>3 DEF Fwrite

LEMMA CallKeepsGaps ==
  ASSUME IInv, OutputGapped, NEW bytes \in Inputs, Call(bytes)
  PROVE  OutputGapped'
<1>1. bytes \in Seq(Byte) /\ Len(bytes) \in Nat /\ buffer \in Seq(Byte)
  BY InputsAssumption, LenProperties DEF IInv, TypeOK
<1>2. Pending = <<>> /\ Pending' = bytes
  <2>1. Pending' = SubSeq(bytes, 1, Len(bytes))
    BY <1>1 DEF Pending, Call
  <2> QED BY <1>1, <2>1, SubSeqFull, NothingPending DEF Call, Idle
<1>3. PICK out \in Seq(Byte) : HandedOn(out)
  BY DEF OutputGapped, Call, Idle
<1>4. accepted' = out \o (buffer' \o Pending')
  <2>1. Cat(Cat(out, buffer), bytes) = Cat(out, Cat(buffer, bytes)) /\ buffer \o <<>> = buffer
    BY <1>1, CatBytes, ConcatEmptySeq
  <2> QED BY <1>2, <1>3, <2>1 DEF Cat, HandedOn, Call
<1>5. HandedOn(out)'
  BY <1>3, <1>4 DEF HandedOn, Call, trouble
<1> QED BY <1>5 DEF OutputGapped

LEMMA IterateKeepsGaps ==
  ASSUME IInv, OutputGapped, SourceIsFollowed, Iterate
  PROVE  OutputGapped'
<1> DEFINE rest == SubSeq(input, Len(input) - (bytesLeft - CopySize) + 1, Len(input))
           spilled == IF MustSpill THEN buffer ELSE <<>>
           kept == IF MustSpill THEN <<>> ELSE buffer
<1>1. /\ Chunk \in Seq(Byte) /\ rest \in Seq(Byte) /\ Chunk \o rest = Pending
  BY ChunkIsHeadOfPending DEF Iterate
<1>2. /\ buffer \in Seq(Byte) /\ Len(buffer) \in Nat /\ bytesLeft \in Nat
      /\ spilled \in Seq(Byte) /\ kept \in Seq(Byte)
      /\ spilled \o kept = buffer
  BY EmptySeq, LenProperties, ConcatEmptySeq DEF IInv, TypeOK
<1>3. PICK out \in Seq(Byte) : HandedOn(out)
  BY DEF OutputGapped, Iterate
<1>4. Pending \in Seq(Byte) /\ Len(Pending) = bytesLeft
  BY PendingType
<1>5. Len(accepted) = Len(out) + Len(buffer) + bytesLeft /\ Len(out) \in Nat
  <2>1. buffer \o Pending \in Seq(Byte) /\ Len(buffer \o Pending) = Len(buffer) + bytesLeft
    BY <1>2, <1>4, ConcatProperties
  <2>2. Len(out \o (buffer \o Pending)) = Len(out) + Len(buffer \o Pending)
    BY <2>1, ConcatProperties
  <2>3. accepted = out \o (buffer \o Pending) /\ Len(out) \in Nat
    BY <1>3, LenProperties DEF HandedOn
  <2> QED BY <1>2, <2>1, <2>2, <2>3
<1>6. Len(out) = Len(accepted) - bytesLeft - Len(spilled) \/ spilled = <<>>
  BY <1>2, <1>5
<1>7. Fwrite(spilled) /\ buffer' = kept \o Chunk /\ Pending' = rest /\ accepted' = accepted
  BY DEF Iterate, Pending
<1> HIDE DEF spilled, kept, rest
<1>8. /\ lost' \subseteq 1 .. Len(out \o spilled)
      /\ file' \o stdio' = Kept(out \o spilled, lost')
  BY <1>2, <1>3, <1>6, <1>7, FwriteKeeps DEF HandedOn
<1>9. accepted = (out \o spilled) \o ((kept \o Chunk) \o rest)
  <2>1. Cat(out, Cat(Cat(spilled, kept), Cat(Chunk, rest)))
          = Cat(Cat(out, spilled), Cat(Cat(kept, Chunk), rest))
    BY <1>1, <1>2, CatBytes
  <2>2. accepted = out \o ((spilled \o kept) \o (Chunk \o rest))
    BY <1>1, <1>2, <1>3 DEF HandedOn
  <2> QED BY <2>1, <2>2 DEF Cat
<1>10. out \o spilled \in Seq(Byte)
  BY <1>2, ConcatProperties
<1> QED BY <1>7, <1>8, <1>9, <1>10 DEF OutputGapped, HandedOn

LEMMA DrainKeepsGaps ==
  ASSUME IInv, OutputGapped, Idle, Drain, UNCHANGED <<input, bytesLeft, accepted>>
  PROVE  OutputGapped'
<1>1. PICK out \in Seq(Byte) : HandedOn(out)
  BY DEF OutputGapped, Idle
<1>2. /\ buffer \in Seq(Byte) /\ file \in Seq(Byte) /\ stdio \in Seq(Byte)
      /\ Len(buffer) \in Nat /\ bytesLeft = 0
  BY LenProperties DEF IInv, TypeOK, Idle
<1>3. Pending = <<>> /\ Pending' = <<>> /\ buffer \o <<>> = buffer
  <2>1. Pending = <<>>
    BY <1>2, NothingPending
  <2> QED BY <1>2, <2>1, ConcatEmptySeq DEF Pending
<1>4. accepted = out \o buffer /\ Len(out) = Len(accepted) - bytesLeft - Len(buffer)
  <2>1. accepted = out \o buffer
    BY <1>1, <1>3 DEF HandedOn
  <2>2. Len(out \o buffer) = Len(out) + Len(buffer) /\ Len(out) \in Nat
    BY <1>2, ConcatProperties, LenProperties
  <2> QED BY <1>2, <2>1, <2>2
<1>5. lost' \subseteq 1 .. Len(out \o buffer) /\ file' \o stdio' = Kept(out \o buffer, lost')
  <2>1. CASE ShortWrite(buffer)
    BY <1>1, <1>2, <1>4, <2>1, FwriteKeeps DEF HandedOn, Fwrite
  <2>2. CASE file' = file \o stdio \o buffer /\ stdio' = <<>> /\ UNCHANGED trouble
    <3>1. lost \subseteq 1 .. Len(out \o buffer) /\ (file \o stdio) \o buffer = Kept(out \o buffer, lost)
      BY <1>1, <1>2, FullWriteKeeps DEF HandedOn
    <3>2. out \o buffer \in Seq(Byte)
      BY <1>2, ConcatProperties
    <3>3. Kept(out \o buffer, lost) \o <<>> = Kept(out \o buffer, lost)
      BY <3>2, KeptType, ConcatEmptySeq
    <3> QED BY <2>2, <3>1, <3>3 DEF trouble
  <2> QED BY <2>1, <2>2 DEF Drain
<1>6. accepted' = (out \o buffer) \o (buffer' \o Pending')
  <2>1. buffer' = <<>> /\ accepted' = accepted /\ <<>> \o <<>> = <<>>
    BY EmptySeq, ConcatEmptySeq DEF Drain
  <2>2. out \o buffer \in Seq(Byte)
    BY <1>2, ConcatProperties
  <2>3. (out \o buffer) \o <<>> = out \o buffer
    BY <2>2, ConcatEmptySeq
  <2> QED BY <1>3, <1>4, <2>1, <2>3
<1>7. out \o buffer \in Seq(Byte)
  BY <1>2, ConcatProperties
<1> QED BY <1>5, <1>6, <1>7 DEF OutputGapped, HandedOn

LEMMA NextKeepsGaps ==
  ASSUME IInv, OutputGapped, SourceIsFollowed, [Next]_vars
  PROVE  OutputGapped'
<1>1. ASSUME NEW bytes \in Inputs, Call(bytes) PROVE OutputGapped'
  BY <1>1, CallKeepsGaps
<1>2. CASE Iterate
  BY <1>2, IterateKeepsGaps
<1>3. CASE Flush \/ Close
  BY <1>3, DrainKeepsGaps DEF Flush, Close
<1>4. CASE StdioDrain
  <2>1. file' \o stdio' = file \o stdio
    BY <1>4, StdioDrainPreservesIInv
  <2>2. UNCHANGED <<buffer, input, bytesLeft, state, accepted, lost>>
    BY <1>4 DEF StdioDrain, trouble
  <2> QED BY <2>1, <2>2 DEF OutputGapped, HandedOn, Pending
<1>5. CASE Crash
  BY <1>5 DEF Crash, OutputGapped
<1>6. CASE UNCHANGED vars
  BY <1>6 DEF vars, trouble, OutputGapped, HandedOn, Pending
<1> QED BY <1>1, <1>2, <1>3, <1>4, <1>5, <1>6 DEF Next, Terminated

LEMMA GapsAreTheLoss ==
  ASSUME IInv, OutputGapped, state # "crashed"
  PROVE  file \o stdio \o buffer \o Pending = Surviving
<1>1. PICK out \in Seq(Byte) : HandedOn(out)
  BY DEF OutputGapped
<1>2. /\ buffer \in Seq(Byte) /\ file \in Seq(Byte) /\ stdio \in Seq(Byte)
      /\ Pending \in Seq(Byte) /\ buffer \o Pending \in Seq(Byte)
  BY PendingType, ConcatProperties DEF IInv, TypeOK
<1>3. (file \o stdio) \o (buffer \o Pending) = Kept(out \o (buffer \o Pending), lost)
  BY <1>1, <1>2, FullWriteKeeps DEF HandedOn
<1>4. (file \o stdio) \o (buffer \o Pending) = file \o stdio \o buffer \o Pending
  <2>1. Cat(Cat(file, stdio), Cat(buffer, Pending)) = Cat(Cat(Cat(file, stdio), buffer), Pending)
    BY <1>2, CatBytes
  <2> QED BY <2>1 DEF Cat
<1> QED BY <1>1, <1>3, <1>4, SurvivingIsKept DEF HandedOn

\* However often fwrite falls short: fewer bytes are lost each time than the
\* array holds, and all the others reach the file once and in order.
THEOREM ShortWritesBounded ==
  ASSUME SourceIsFollowed
  PROVE  Spec => []ShortWritesLoseAtMostTheArray
<1>1. Init => OutputGapped
  <2>1. SUFFICES ASSUME Init PROVE HandedOn(<<>>)
    BY EmptySeq DEF OutputGapped
  <2>2. Pending = <<>> /\ <<>> \o <<>> = <<>> /\ Kept(<<>>, {}) = <<>>
    BY <2>1, SubSeqEmpty, ConcatEmptySeq, EmptySeq, KeptNothing DEF Init, Pending
  <2> QED BY <2>1, <2>2 DEF Init, HandedOn
<1>2. IInv /\ OutputGapped /\ [Next]_vars => OutputGapped'
  BY NextKeepsGaps
<1>3. IInv /\ OutputGapped /\ LossIsBounded => ShortWritesLoseAtMostTheArray
  BY GapsAreTheLoss DEF ShortWritesLoseAtMostTheArray
<1> QED BY <1>1, <1>2, <1>3, InductiveInvariant, LossBounded, PTL DEF Spec

-----------------------------------------------------------------------------

\* The file is a prefix of what was accepted: the layers above hold the rest.
FileInOrder == state = "open" /\ failures = 0 => IsPrefix(file, accepted)

LEMMA FileIsPrefix == IInv => FileInOrder
<1> SUFFICES ASSUME IInv, state = "open", failures = 0 PROVE IsPrefix(file, accepted)
  BY DEF FileInOrder
<1>1. /\ file \in Seq(Byte) /\ stdio \in Seq(Byte) /\ buffer \in Seq(Byte)
      /\ Pending \in Seq(Byte)
  <2>1. input \in Seq(Byte) /\ Len(input) \in Nat /\ bytesLeft \in 0 .. Len(input)
    BY LenProperties DEF IInv, TypeOK
  <2>2. \A i \in Len(input) - bytesLeft + 1 .. Len(input) : input[i] \in Byte
    BY <2>1, ElementOfSeq
  <2>3. Len(input) - bytesLeft + 1 \in Int /\ Len(input) \in Int
    BY <2>1
  <2>4. SubSeq(input, Len(input) - bytesLeft + 1, Len(input)) \in Seq(Byte)
    BY <2>2, <2>3, SubSeqProperties
  <2> QED BY <2>4 DEF Pending, IInv, TypeOK
<1> DEFINE above == Cat(Cat(stdio, buffer), Pending)
<1>2. above \in Seq(Byte)
  BY <1>1, CatBytes
<1>3. Cat(file, above) = Cat(Cat(Cat(file, stdio), buffer), Pending)
  BY <1>1, CatBytes
<1>4. Cat(Cat(Cat(file, stdio), buffer), Pending) = accepted
  BY DEF Cat, IInv, StreamIntact
<1> HIDE DEF above
<1>5. file \o above = accepted
  BY <1>3, <1>4 DEF Cat
<1>6. IsPrefix(file, file \o above)
  BY <1>1, <1>2, PrefixOfConcat
<1> QED BY <1>5, <1>6

\* What one iteration writes out is appended to the file.
LEMMA IterateAppends ==
  ASSUME IInv, Iterate
  PROVE  IsPrefix(file, file') /\ failures' \in {failures, failures + 1}
<1> DEFINE spilled == IF MustSpill THEN buffer ELSE <<>>
<1>1. file \in Seq(Byte) /\ spilled \in Seq(Byte) /\ <<>> \in Seq(Byte)
  BY EmptySeq DEF IInv, TypeOK
<1>2. Fwrite(spilled)
  BY DEF Iterate
<1>3. Len(spilled) + bytesLeft <= Len(accepted)
  <2>1. /\ Len(buffer) + bytesLeft <= Len(accepted) /\ bytesLeft \in Nat
        /\ Len(buffer) \in Nat /\ Len(accepted) \in Nat
    BY LenProperties DEF IInv, TypeOK
  <2> QED BY <2>1, EmptySeq
<1> HIDE DEF spilled
<1>4. IsPrefix(file, file \o spilled) /\ IsPrefix(file, file \o <<>>) /\ file \o <<>> = file
  BY <1>1, PrefixOfConcat, ConcatEmptySeq
<1>5. CASE FullWrite(spilled)
  BY <1>4, <1>5 DEF FullWrite, trouble
<1>6. CASE ShortWrite(spilled)
  BY <1>1, <1>3, <1>6, ShortWriteAppends
<1> QED BY <1>2, <1>5, <1>6 DEF Fwrite

\* Each step of the buffered file is a step of AppendOnlyFile, or changes
\* nothing that it speaks of.
LEMMA StepRefines ==
  ASSUME IInv, FileInOrder', [Next]_vars
  PROVE  [AppendOnly!Next]_AppendOnly!vars
<1> USE DEF AppendOnly!vars
<1>1. ASSUME NEW bytes \in Inputs, Call(bytes) PROVE AppendOnly!Accept
  <2>1. IsPrefix(accepted, accepted \o bytes)
    <3>1. accepted \in Seq(Byte) /\ bytes \in Seq(Byte)
      BY InputsAssumption DEF IInv, TypeOK
    <3> QED BY <3>1, PrefixOfConcat
  <2> QED BY <1>1, <2>1 DEF Call, Idle, trouble, AppendOnly!Accept, AppendOnly!IsPrefix, IsPrefix
<1>2. CASE Iterate
  <2>1. /\ IsPrefix(file, file') /\ failures' \in {failures, failures + 1}
        /\ state = "open" /\ UNCHANGED <<accepted, durable, state>>
    BY <1>2, IterateAppends DEF Iterate
  <2>2. failures' = 0 => IsPrefix(file', accepted')
    BY <2>1 DEF FileInOrder
  <2>3. AppendOnly!Persist
    BY <2>1, <2>2 DEF AppendOnly!Persist, AppendOnly!Attempt, AppendOnly!IsPrefix, IsPrefix
  <2> QED BY <2>3 DEF AppendOnly!Next
<1>3. CASE Flush \/ Close
  <2>1. /\ failures' = 0 => file' = accepted
        /\ IsPrefix(file, file') /\ failures' \in {failures, failures + 1}
        /\ durable' = Len(accepted) /\ accepted' = accepted
    BY <1>3, DrainCompletesFile DEF Flush, Close, Drain
  <2>2. state = "open" /\ state' \in {"open", "closed"}
    BY <1>3 DEF Flush, Close, Idle
  <2>3. AppendOnly!Flush
    BY <2>1, <2>2 DEF AppendOnly!Flush, AppendOnly!Attempt, AppendOnly!IsPrefix, IsPrefix
  <2> QED BY <2>3 DEF AppendOnly!Next
<1>4. CASE StdioDrain
  <2>1. /\ IsPrefix(file, file') /\ failures' = failures
        /\ state = "open" /\ UNCHANGED <<accepted, durable, state>>
    BY <1>4, StdioDrainPreservesIInv DEF StdioDrain, trouble
  <2>2. failures' = 0 => IsPrefix(file', accepted')
    BY <2>1 DEF FileInOrder
  <2>3. AppendOnly!Persist
    BY <2>1, <2>2 DEF AppendOnly!Persist, AppendOnly!Attempt, AppendOnly!IsPrefix, IsPrefix
  <2> QED BY <2>3 DEF AppendOnly!Next
<1>5. CASE Crash
  BY <1>5 DEF Crash, trouble, AppendOnly!Crash, AppendOnly!Next
<1>6. CASE UNCHANGED vars
  BY <1>6 DEF vars, trouble
<1> QED BY <1>1, <1>2, <1>3, <1>4, <1>5, <1>6 DEF Next, Terminated, AppendOnly!Next

\* The array and the FILE are invisible: each of the three files behaves as
\* one to which bytes are simply appended.
THEOREM Refinement ==
  ASSUME SourceIsFollowed
  PROVE  Spec => ImplementsAppendOnlyFile
<1>1. Init => AppendOnly!Init
  BY DEF Init, AppendOnly!Init
<1>2. IInv /\ FileInOrder' /\ [Next]_vars => [AppendOnly!Next]_AppendOnly!vars
  BY StepRefines
<1> QED BY <1>1, <1>2, FileIsPrefix, InductiveInvariant, PTL DEF Spec, AppendOnly!Spec, ImplementsAppendOnlyFile
=============================================================================
