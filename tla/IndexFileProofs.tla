-------------------------- MODULE IndexFileProofs --------------------------
(***************************************************************************)
(* What is read back of the index file and of the log file, for any call   *)
(* sites, any arguments, any values, any widths of lengths and counts, and *)
(* any number of calls.                                                    *)
(*                                                                         *)
(* The files are concatenations: Entries, a part per site, and LogEntries, *)
(* a part per call; these are concatenations of fields themselves.  What   *)
(* is Ahead of a parser is the Rest of the parts from the one it is at, so *)
(* a field is Held where its part begins, and behind it is the Rest from   *)
(* the next part on.  IndexTrack says this of index_file_parser, LogTrack  *)
(* of log_file_parser, state by state.  There are two ways to leave the    *)
(* parts, and none leads back: Stuck, at types or at bytes of a constant   *)
(* that were not counted, and Off, at the values of a call whose entry     *)
(* counts no arguments.  Both need an entry that is not Representable.     *)
(***************************************************************************)
EXTENDS IndexFile, SequenceInduction

(***************************************************************************)
(* Files made of parts.  The parts of parts from number n + 1 on.          *)
(***************************************************************************)
Rest(parts, n) == FlattenSeq(SubSeq(parts, n + 1, Len(parts)))

\* The rest from the beginning on is everything.
LEMMA RestAll ==
  ASSUME NEW S, NEW parts \in Seq(Seq(S))
  PROVE  Rest(parts, 0) = FlattenSeq(parts)
<1>1. SubSeq(parts, 1, Len(parts)) = parts
  BY SubSeqFull
<1>2. 0 + 1 = 1
  OBVIOUS
<1> QED BY <1>1, <1>2 DEF Rest

\* Behind the last part there is nothing.
LEMMA RestNone ==
  ASSUME NEW S, NEW parts \in Seq(Seq(S))
  PROVE  Rest(parts, Len(parts)) = <<>>
<1> DEFINE m == Len(parts)
<1>1. m \in Nat
  BY LenProperties
<1> HIDE DEF m
<1>2. SubSeq(parts, m + 1, m) = <<>>
  BY <1>1, SubSeqEmpty
<1> QED BY <1>2, FlattenNothing DEF Rest, m

\* The rest is a sequence of the same elements.
LEMMA RestType ==
  ASSUME NEW S, NEW parts \in Seq(Seq(S)), NEW n \in 0 .. Len(parts)
  PROVE  Rest(parts, n) \in Seq(S)
<1> DEFINE m == Len(parts)
<1>1. m \in Nat /\ n + 1 \in Int /\ m \in Int /\ \A i \in n + 1 .. m : parts[i] \in Seq(S)
  BY LenProperties, ElementOfSeq
<1> HIDE DEF m
<1>2. SubSeq(parts, n + 1, m) \in Seq(Seq(S))
  BY <1>1, SubSeqProperties
<1> QED BY <1>2, FlattenType DEF Rest, m

\* The rest is the next part and the rest behind it.
LEMMA RestStep ==
  ASSUME NEW S, NEW parts \in Seq(Seq(S)), NEW n \in Nat, n < Len(parts)
  PROVE  /\ parts[n + 1] \in Seq(S)
         /\ Rest(parts, n) = parts[n + 1] \o Rest(parts, n + 1)
<1> DEFINE m == Len(parts)
           i == n + 1
           part == parts[i]
           more == SubSeq(parts, i + 1, m)
<1>1. m \in Nat /\ i \in 1 .. m /\ m \in i .. m /\ i + 1 \in Int /\ m \in Int
  BY LenProperties
<1>2. \A k \in i + 1 .. m : parts[k] \in Seq(S)
  BY <1>1, ElementOfSeq
<1>3. part \in Seq(S)
  BY <1>1, ElementOfSeq
<1>4. SubSeq(parts, i, m) = <<part>> \o more
  BY <1>1, SubSeqRecursiveFirst
<1> HIDE DEF m, i
<1>5. more \in Seq(Seq(S))
  BY <1>1, <1>2, SubSeqProperties
<1> HIDE DEF part, more
<1>6. <<part>> \in Seq(Seq(S))
  BY <1>3
<1>7. FlattenSeq(<<part>> \o more) = FlattenSeq(<<part>>) \o FlattenSeq(more)
  BY <1>5, <1>6, FlattenConcat
<1>8. FlattenSeq(<<part>>) = part
  BY <1>3, FlattenOne
<1>9. Rest(parts, n) = part \o FlattenSeq(more)
  BY <1>4, <1>7, <1>8 DEF Rest, m, i
<1> QED BY <1>3, <1>9 DEF Rest, m, i, part, more

-----------------------------------------------------------------------------

\* A function on 1 .. n is a sequence.
LEMMA FunctionSeq ==
  ASSUME NEW S, NEW n \in Nat, NEW f, f = [k \in 1 .. n |-> f[k]],
         \A k \in 1 .. n : f[k] \in S
  PROVE  f \in Seq(S) /\ Len(f) = n
<1>1. f \in [1 .. n -> S]
  BY Zenon
<1>2. f \in Seq(S)
  BY <1>1
<1>3. DOMAIN f = 1 .. n
  BY <1>1
<1>4. Len(f) \in Nat /\ DOMAIN f = 1 .. Len(f)
  BY <1>2, LenProperties
<1>5. 1 .. n = 1 .. Len(f)
  BY <1>3, <1>4
<1>6. Len(f) = n
  <2> DEFINE m == Len(f)
  <2>1. m \in Nat /\ 1 .. n = 1 .. m
    BY <1>4, <1>5
  <2> HIDE DEF m
  <2>2. ~ (n < m)
    <3> SUFFICES ASSUME n < m PROVE FALSE
      OBVIOUS
    <3>1. m \in 1 .. m /\ ~ (m \in 1 .. n)
      BY <2>1
    <3> QED BY <2>1, <3>1
  <2>3. ~ (m < n)
    <3> SUFFICES ASSUME m < n PROVE FALSE
      OBVIOUS
    <3>1. n \in 1 .. n /\ ~ (n \in 1 .. m)
      BY <2>1
    <3> QED BY <2>1, <3>1
  <2> QED BY <2>1, <2>2, <2>3 DEF m
<1> QED BY <1>2, <1>6

-----------------------------------------------------------------------------

(***************************************************************************)
(* Fields.                                                                 *)
(***************************************************************************)
ArgTypes == {get_arg_type(t) : t \in Types}

Ids ==
  UNION {UNION {{values[k].id : k \in 1 .. Len(s.args)} : values \in Passes[s]} : s \in Site}

Byte ==
  [kind : {"length", "index"}, of : Nat, byte : Nat \ {0}]
    \cup [kind : {"count"}, of : 0 .. CountMod - 1, byte : Nat \ {0}]
    \cup [kind : {"constness"}, of : BOOLEAN, byte : Nat \ {0}]
    \cup [kind : {"type"}, of : ArgTypes, byte : Nat \ {0}]
    \cup [kind : {"text"}, of : {s.format : s \in Site}, byte : Nat \ {0}]
    \cup [kind : {"value"}, of : Ids, byte : Nat \ {0}]

\* A byte of this kind is possible.
Fits(kind, of) == [kind |-> kind, of |-> of, byte |-> 1] \in Byte

\* A field is w bytes of one kind and of one thing, numbered.
LEMMA FieldFacts ==
  ASSUME NEW kind, NEW of, Fits(kind, of), NEW w \in Nat
  PROVE  /\ Field(kind, of, w) \in Seq(Byte)
         /\ Len(Field(kind, of, w)) = w
         /\ \A b \in 1 .. w : Field(kind, of, w)[b] = [kind |-> kind, of |-> of, byte |-> b]
<1> DEFINE f == Field(kind, of, w)
<1>1. \A b \in 1 .. w : f[b] = [kind |-> kind, of |-> of, byte |-> b]
  BY DEF Field
<1>2. ASSUME NEW b \in Nat \ {0}
      PROVE  [kind |-> kind, of |-> of, byte |-> b] \in Byte
  BY DEF Fits, Byte
<1>3. ASSUME NEW b \in 1 .. w PROVE f[b] \in Byte
  <2>1. b \in Nat \ {0}
    OBVIOUS
  <2> QED BY <1>1, <1>2, <2>1
<1>4. f = [b \in 1 .. w |-> f[b]]
  BY DEF Field
<1> HIDE DEF f
<1>5. f \in Seq(Byte) /\ Len(f) = w
  BY <1>3, <1>4, FunctionSeq
<1> QED BY <1>1, <1>5 DEF f

\* Bytes(file, pos, w) is what there is.
LEMMA BytesAre ==
  ASSUME NEW file, NEW pos \in Nat, NEW s \in Seq(Byte),
         \A k \in 1 .. Len(s) : file[pos + k] = s[k]
  PROVE  Bytes(file, pos, Len(s)) = s
<1> DEFINE w == Len(s)
           t == SubSeq(file, pos + 1, pos + w)
<1>1. w \in Nat
  BY LenProperties
<1>2. \A k \in 1 .. w : s[k] \in Byte
  BY ElementOfSeq
<1> HIDE DEF w
<1>3. ASSUME NEW i \in pos + 1 .. pos + w PROVE file[i] \in Byte
  <2>1. i - pos \in 1 .. w /\ pos + (i - pos) = i
    BY <1>1
  <2>2. file[pos + (i - pos)] = s[i - pos]
    BY <2>1 DEF w
  <2> QED BY <1>2, <2>1, <2>2
<1>4. /\ t \in Seq(Byte)
      /\ Len(t) = IF pos + 1 <= pos + w THEN (pos + w) - (pos + 1) + 1 ELSE 0
      /\ \A i \in 1 .. (pos + w) - (pos + 1) + 1 : t[i] = file[(pos + 1) + i - 1]
  <2> DEFINE a == pos + 1
             b == pos + w
  <2>1. a \in Int /\ b \in Int
    BY <1>1
  <2>2. \A i \in a .. b : file[i] \in Byte
    BY <1>3
  <2> HIDE DEF a, b
  <2>3. /\ SubSeq(file, a, b) \in Seq(Byte)
        /\ Len(SubSeq(file, a, b)) = IF a <= b THEN b - a + 1 ELSE 0
        /\ \A i \in 1 .. b - a + 1 : SubSeq(file, a, b)[i] = file[a + i - 1]
    BY <2>1, <2>2, SubSeqProperties
  <2> QED BY <2>3 DEF a, b
<1> HIDE DEF t
<1>5. /\ (IF pos + 1 <= pos + w THEN (pos + w) - (pos + 1) + 1 ELSE 0) = w
      /\ (pos + w) - (pos + 1) + 1 = w
      /\ \A i \in 1 .. w : (pos + 1) + i - 1 = pos + i
  BY <1>1
<1>6. Len(t) = w
  BY <1>4, <1>5
<1>7. \A i \in 1 .. w : t[i] = file[pos + i]
  BY <1>4, <1>5
<1>8. \A i \in 1 .. Len(t) : t[i] = s[i]
  BY <1>6, <1>7 DEF w
<1>9. t = s
  BY <1>4, <1>6, <1>8, SeqEqual DEF w
<1> QED BY <1>9 DEF Bytes, t, w

\* A field that is ahead is held, read as it was written, and what follows is
\* ahead behind it.
LEMMA AheadField ==
  ASSUME NEW file \in Seq(Byte), NEW pos \in Nat, NEW kind, NEW of, Fits(kind, of),
         NEW w \in Nat, NEW t \in Seq(Byte), Ahead(file, pos, Field(kind, of, w) \o t)
  PROVE  /\ Holds(file, pos, kind, w)
         /\ w # 0 => file[pos + 1].kind = kind /\ file[pos + 1].of = of
         /\ Bytes(file, pos, w) = Field(kind, of, w)
         /\ Ahead(file, pos + w, t)
         /\ pos + w <= Len(file)
<1> DEFINE s == Field(kind, of, w)
<1>1. /\ s \in Seq(Byte) /\ Len(s) = w
      /\ \A b \in 1 .. w : s[b] = [kind |-> kind, of |-> of, byte |-> b]
  BY FieldFacts
<1>0. Ahead(file, pos, s \o t)
  OBVIOUS
<1> HIDE DEF s
<1>2. /\ Ahead(file, pos + w, t) /\ pos + w <= Len(file)
      /\ \A k \in 1 .. Len(s) : file[pos + k] = s[k]
  <2>1. s \in Seq(Byte)
    BY <1>1
  <2>2. /\ Ahead(file, pos + Len(s), t) /\ pos + Len(s) <= Len(file)
        /\ \A k \in 1 .. Len(s) : file[pos + k] = s[k]
    BY <2>1, <1>0, AheadConcat
  <2> QED BY <1>1, <2>2
<1>3. \A b \in 1 .. w : file[pos + b] = [kind |-> kind, of |-> of, byte |-> b]
  BY <1>1, <1>2
<1>4. w # 0 => file[pos + 1].kind = kind /\ file[pos + 1].of = of
  <2> SUFFICES ASSUME w # 0
               PROVE  file[pos + 1].kind = kind /\ file[pos + 1].of = of
    OBVIOUS
  <2>1. 1 \in 1 .. w
    OBVIOUS
  <2>2. file[pos + 1] = [kind |-> kind, of |-> of, byte |-> 1]
    BY <1>3, <2>1
  <2> QED BY <2>2
<1>5. Holds(file, pos, kind, w)
  <2>1. ASSUME NEW b \in 1 .. w
        PROVE  /\ file[pos + b].kind = kind /\ file[pos + b].byte = b
               /\ file[pos + b].of = file[pos + 1].of
    <3>1. w # 0
      OBVIOUS
    <3>2. file[pos + b] = [kind |-> kind, of |-> of, byte |-> b]
      BY <1>3
    <3> QED BY <1>4, <3>1, <3>2
  <2> QED BY <1>2, <2>1 DEF Holds
<1>6. Bytes(file, pos, w) = s
  <2>1. s \in Seq(Byte) /\ \A k \in 1 .. Len(s) : file[pos + k] = s[k]
    BY <1>1, <1>2
  <2>2. Bytes(file, pos, Len(s)) = s
    BY <2>1, BytesAre
  <2> QED BY <1>1, <2>2
<1> QED BY <1>2, <1>4, <1>5, <1>6 DEF s

\* Where a byte of another kind comes next, there is no such field.
LEMMA NotHeld ==
  ASSUME NEW file, NEW pos, NEW kind, NEW w \in Nat \ {0}, file[pos + 1].kind # kind
  PROVE  ~ Holds(file, pos, kind, w)
<1>1. 1 \in 1 .. w
  OBVIOUS
<1> QED BY <1>1 DEF Holds

-----------------------------------------------------------------------------

\* What a length says fits.
LEMMA CutFacts ==
  ASSUME NEW n \in Nat
  PROVE  /\ Cut(n) \in Nat
         /\ Fits("length", Cut(n))
         /\ Cut(n) <= n
         /\ n < LengthMod <=> Cut(n) = n
<1> DEFINE m == LengthMod
<1>1. m \in Nat \ {0}
  BY CodecAssumption
<1>2. n % m \in 0 .. m - 1 /\ n % m <= n /\ (n < m <=> n % m = n)
  <2> HIDE DEF m
  <2>1. n % m \in 0 .. m - 1
    BY <1>1
  <2>2. n < m => n % m = n
    BY <1>1
  <2>3. n % m <= n
    BY <1>1, <2>1, <2>2
  <2> QED BY <1>1, <2>1, <2>2, <2>3
<1>3. Cut(n) = n % m
  BY DEF Cut
<1> HIDE DEF m
<1>4. Cut(n) \in Nat
  BY <1>1, <1>2, <1>3
<1> QED BY <1>2, <1>3, <1>4 DEF Fits, Byte, m

\* A string: two bytes of length and the bytes it says.
LEMMA AheadString ==
  ASSUME NEW file \in Seq(Byte), NEW pos \in Nat, NEW kind, NEW of, Fits(kind, of),
         NEW n \in Nat, NEW t \in Seq(Byte),
         Ahead(file, pos, Length(n) \o (Field(kind, of, Cut(n)) \o t))
  PROVE  /\ HoldsString(file, pos, kind)
         /\ file[pos + 1].of = Cut(n)
         /\ StringBytes(file, pos) = Field(kind, of, Cut(n))
         /\ Ahead(file, pos + 2 + Cut(n), t)
         /\ pos + 2 + Cut(n) <= Len(file)
<1>1. Cut(n) \in Nat /\ Fits("length", Cut(n))
  BY CutFacts
<1> DEFINE u == Field(kind, of, Cut(n)) \o t
<1>2. Field(kind, of, Cut(n)) \in Seq(Byte)
  BY <1>1, FieldFacts
<1>3. u \in Seq(Byte)
  BY <1>2, ConcatProperties
<1>4. Ahead(file, pos, Field("length", Cut(n), 2) \o u)
  BY DEF Length
<1> HIDE DEF u
<1>5. /\ Holds(file, pos, "length", 2) /\ file[pos + 1].of = Cut(n)
      /\ Ahead(file, pos + 2, u)
  BY <1>1, <1>3, <1>4, AheadField
<1>6. pos + 2 \in Nat
  OBVIOUS
<1>7. /\ Holds(file, pos + 2, kind, Cut(n))
      /\ Bytes(file, pos + 2, Cut(n)) = Field(kind, of, Cut(n))
      /\ Ahead(file, pos + 2 + Cut(n), t)
      /\ pos + 2 + Cut(n) <= Len(file)
  BY <1>1, <1>5, <1>6, AheadField DEF u
<1> QED BY <1>5, <1>7 DEF HoldsString, StringBytes

-----------------------------------------------------------------------------

(***************************************************************************)
(* Values.                                                                 *)
(***************************************************************************)
Arg == [type : Types, constant : BOOLEAN]

\* The unpacker knows the size of every type but the strings'.
LEMMA TypeFacts ==
  ASSUME NEW t \in Types
  PROVE  /\ t \in Strings => get_arg_type(t) = "type_string"
         /\ t \notin Strings =>
              /\ get_arg_type(t) # "type_string"
              /\ sizeof_arg_type(get_arg_type(t)) = SizeOf(t)
              /\ SizeOf(t) \in Nat \ {0}
<1>1. ASSUME t \in Strings PROVE get_arg_type(t) = "type_string"
  BY <1>1 DEF get_arg_type, Strings
<1>2. /\ get_arg_type("bool") = "type_bool"
      /\ get_arg_type("char") = "type_char"
      /\ get_arg_type("uint8_t") = "type_uint8"
      /\ get_arg_type("uint16_t") = "type_uint16"
      /\ get_arg_type("uint32_t") = "type_uint32"
      /\ get_arg_type("uint64_t") = "type_uint64"
  BY DEF get_arg_type, Strings
<1>3. /\ get_arg_type("int8_t") = "type_int8"
      /\ get_arg_type("int16_t") = "type_int16"
      /\ get_arg_type("int32_t") = "type_int32"
      /\ get_arg_type("int64_t") = "type_int64"
      /\ get_arg_type("float") = "type_float"
      /\ get_arg_type("double") = "type_double"
  BY DEF get_arg_type, Strings
<1>4. /\ \A u \in {"bool", "char", "uint8_t", "int8_t"} : SizeOf(u) = 1
      /\ \A u \in {"uint16_t", "int16_t"} : SizeOf(u) = 2
      /\ \A u \in {"uint32_t", "int32_t", "float"} : SizeOf(u) = 4
      /\ \A u \in {"uint64_t", "int64_t", "double"} : SizeOf(u) = 8
  BY DEF SizeOf
<1>5. /\ \A u \in {"type_bool", "type_char", "type_uint8", "type_int8"} : sizeof_arg_type(u) = 1
      /\ \A u \in {"type_uint16", "type_int16"} : sizeof_arg_type(u) = 2
      /\ \A u \in {"type_uint32", "type_int32", "type_float"} : sizeof_arg_type(u) = 4
      /\ \A u \in {"type_uint64", "type_int64", "type_double"} : sizeof_arg_type(u) = 8
  BY DEF sizeof_arg_type
<1>6. ASSUME t \notin Strings
      PROVE  get_arg_type(t) # "type_string" /\ sizeof_arg_type(get_arg_type(t)) = SizeOf(t)
             /\ SizeOf(t) \in Nat \ {0}
  <2>1. CASE t \in {"bool", "char", "uint8_t", "int8_t"}
    BY <1>2, <1>3, <1>4, <1>5, <2>1
  <2>2. CASE t \in {"uint16_t", "int16_t"}
    BY <1>2, <1>3, <1>4, <1>5, <2>2
  <2>3. CASE t \in {"uint32_t", "int32_t", "float"}
    BY <1>2, <1>3, <1>4, <1>5, <2>3
  <2>4. CASE t \in {"uint64_t", "int64_t", "double"}
    BY <1>2, <1>3, <1>4, <1>5, <2>4
  <2> QED BY <1>6, <2>1, <2>2, <2>3, <2>4 DEF Types
<1> QED BY <1>1, <1>6

\* Concatenations of bytes may be bracketed either way.
LEMMA BytesAssociative ==
  \A s, t, u \in Seq(Byte) : (s \o t) \o u = s \o (t \o u)
BY ConcatAssociative

Bracketed(s, t, u) == (s \o t) \o u = s \o (t \o u)

\* The same, for longer concatenations.
LEMMA BytesBracketed ==
  \A s, t, u \in Seq(Byte) : Bracketed(s, t, u)
BY BytesAssociative DEF Bracketed

\* What is written and kept of a value are bytes.
LEMMA LogValueType ==
  ASSUME NEW a \in Arg, NEW v, v.length \in Nat, Fits("value", v.id)
  PROVE  /\ LogValue(a, v) \in Seq(Byte)
         /\ IndexValue(a, v) \in Seq(Byte)
         /\ Stored(a, v) \in Seq(Byte)
         /\ Length(v.length) \in Seq(Byte)
         /\ a.type \in Strings => Value(v, Cut(v.length)) \in Seq(Byte)
<1>1. a.type \in Types /\ (a.type \notin Strings => SizeOf(a.type) \in Nat)
  BY TypeFacts DEF Arg
<1>2. Cut(v.length) \in Nat /\ Fits("length", Cut(v.length))
  BY CutFacts
<1>3. Length(v.length) \in Seq(Byte)
  BY <1>2, FieldFacts DEF Length
<1>4. \A w \in Nat : Value(v, w) \in Seq(Byte)
  BY FieldFacts DEF Value
<1>5. ASSUME NEW w \in Nat PROVE Length(v.length) \o Value(v, w) \in Seq(Byte)
  BY <1>3, <1>4, ConcatProperties
<1>6. LogValue(a, v) \in Seq(Byte)
  BY <1>1, <1>2, <1>4, <1>5 DEF LogValue
<1>7. IndexValue(a, v) \in Seq(Byte)
  BY <1>5, <1>6 DEF IndexValue
<1>8. Stored(a, v) \in Seq(Byte)
  BY <1>1, <1>2, <1>4 DEF Stored
<1> QED BY <1>2, <1>3, <1>4, <1>6, <1>7, <1>8

\* A value as log writes it is read back, but for what of a string is cut.
LEMMA AheadValue ==
  ASSUME NEW file \in Seq(Byte), NEW pos \in Nat,
         NEW a \in Arg, NEW v, v.length \in Nat, Fits("value", v.id),
         NEW t \in Seq(Byte), Ahead(file, pos, LogValue(a, v) \o t)
  PROVE  /\ HoldsValue(file, pos, get_arg_type(a.type))
         /\ ValueBytes(file, pos, get_arg_type(a.type)) = Stored(a, v)
         /\ ValueSize(file, pos, get_arg_type(a.type)) \in Nat
         /\ Ahead(file, pos + ValueSize(file, pos, get_arg_type(a.type)), t)
         /\ pos + ValueSize(file, pos, get_arg_type(a.type)) <= Len(file)
<1> DEFINE type == get_arg_type(a.type)
<1>1. /\ a.type \in Strings => type = "type_string"
      /\ a.type \notin Strings =>
           type # "type_string" /\ sizeof_arg_type(type) = SizeOf(a.type)
             /\ SizeOf(a.type) \in Nat
  BY TypeFacts DEF Arg
<1> HIDE DEF type
<1>2. CASE a.type \in Strings
  <2> DEFINE n == v.length
             text == Value(v, Cut(n))
             len == Length(n)
  <2>1. n \in Nat /\ Cut(n) \in Nat /\ len \in Seq(Byte) /\ text \in Seq(Byte)
    BY <1>2, CutFacts, LogValueType
  <2>2. LogValue(a, v) = len \o text
    BY <1>2 DEF LogValue
  <2> HIDE DEF n, text, len
  <2>3. (len \o text) \o t = len \o (text \o t)
    <3>1. Bracketed(len, text, t)
      BY <2>1, BytesBracketed
    <3> QED BY <3>1 DEF Bracketed
  <2>4. Ahead(file, pos, len \o (text \o t))
    BY <2>2, <2>3
  <2>5. Ahead(file, pos, Length(n) \o (Field("value", v.id, Cut(n)) \o t))
    BY <2>4 DEF text, len, Value
  <2>6. /\ HoldsString(file, pos, "value") /\ file[pos + 1].of = Cut(n)
        /\ StringBytes(file, pos) = Field("value", v.id, Cut(n))
        /\ Ahead(file, pos + 2 + Cut(n), t) /\ pos + 2 + Cut(n) <= Len(file)
    BY <2>1, <2>5, AheadString
  <2>7. ValueSize(file, pos, type) = 2 + Cut(n)
    BY <1>1, <1>2, <2>6 DEF ValueSize
  <2>8. pos + (2 + Cut(n)) = pos + 2 + Cut(n) /\ 2 + Cut(n) \in Nat
    BY <2>1
  <2>9. HoldsValue(file, pos, type) /\ ValueBytes(file, pos, type) = Stored(a, v)
    BY <1>1, <1>2, <2>6 DEF HoldsValue, ValueBytes, Stored, Value, n
  <2> QED BY <2>6, <2>7, <2>8, <2>9 DEF type
<1>3. CASE a.type \notin Strings
  <2> DEFINE w == SizeOf(a.type)
             i == v.id
  <2>1. w \in Nat /\ Ahead(file, pos, Field("value", i, w) \o t) /\ Fits("value", i)
    BY <1>1, <1>3 DEF LogValue, Value
  <2> HIDE DEF w, i
  <2>2. /\ Holds(file, pos, "value", w) /\ Bytes(file, pos, w) = Field("value", i, w)
        /\ Ahead(file, pos + w, t) /\ pos + w <= Len(file)
    BY <2>1, AheadField
  <2>3. ValueSize(file, pos, type) = w
    BY <1>1, <1>3 DEF ValueSize, w
  <2>4. HoldsValue(file, pos, type) /\ ValueBytes(file, pos, type) = Stored(a, v)
    BY <1>1, <1>3, <2>2 DEF HoldsValue, ValueBytes, Stored, Value, w, i
  <2> QED BY <2>1, <2>2, <2>3, <2>4 DEF type
<1> QED BY <1>2, <1>3

\* A text longer than its length says.
Long(a, v) == a.type \in Strings \ {"const char*"} /\ v.length >= LengthMod

\* A field is its first m bytes and the others.
LEMMA FieldSplit ==
  ASSUME NEW of, Fits("value", of), NEW n \in Nat, NEW m \in 0 .. n
  PROVE  \E extra \in Seq(Byte) :
           /\ Field("value", of, n) = Field("value", of, m) \o extra
           /\ Len(extra) = n - m
           /\ m # n => extra[1].kind = "value"
<1> DEFINE e == [b \in 1 .. n - m |-> [kind |-> "value", of |-> of, byte |-> m + b]]
           f == Field("value", of, m)
           g == Field("value", of, n)
<1>0. m \in Nat /\ n - m \in Nat /\ m + (n - m) = n
  OBVIOUS
<1>1. /\ f \in Seq(Byte) /\ Len(f) = m /\ g \in Seq(Byte) /\ Len(g) = n
      /\ \A b \in 1 .. m : f[b] = [kind |-> "value", of |-> of, byte |-> b]
      /\ \A b \in 1 .. n : g[b] = [kind |-> "value", of |-> of, byte |-> b]
  BY <1>0, FieldFacts
<1>2. e \in Seq(Byte) /\ Len(e) = n - m
  <2>1. \A b \in Nat \ {0} : [kind |-> "value", of |-> of, byte |-> b] \in Byte
    BY DEF Fits, Byte
  <2>2. \A b \in 1 .. n - m : e[b] \in Byte
    <3> SUFFICES ASSUME NEW b \in 1 .. n - m PROVE e[b] \in Byte
      OBVIOUS
    <3>1. m + b \in Nat \ {0}
      BY <1>0
    <3>2. e[b] = [kind |-> "value", of |-> of, byte |-> m + b]
      OBVIOUS
    <3> QED BY <2>1, <3>1, <3>2
  <2>3. e = [b \in 1 .. n - m |-> e[b]]
    OBVIOUS
  <2> HIDE DEF e
  <2> QED BY <1>0, <2>2, <2>3, FunctionSeq
<1>3. \A b \in 1 .. n - m : e[b] = [kind |-> "value", of |-> of, byte |-> m + b]
  OBVIOUS
<1> HIDE DEF e, f, g
<1>4. /\ f \o e \in Seq(Byte) /\ Len(f \o e) = n
      /\ \A i \in 1 .. n : (f \o e)[i] = IF i <= m THEN f[i] ELSE e[i - m]
  <2>0. f \in Seq(Byte) /\ e \in Seq(Byte)
    BY <1>1, <1>2
  <2>1. /\ f \o e \in Seq(Byte) /\ Len(f \o e) = Len(f) + Len(e)
        /\ \A i \in 1 .. Len(f) + Len(e) : (f \o e)[i] = IF i <= Len(f) THEN f[i] ELSE e[i - Len(f)]
    BY <2>0, ConcatProperties
  <2>2. Len(f) = m /\ Len(e) = n - m /\ Len(f) + Len(e) = n
    BY <1>0, <1>1, <1>2
  <2> QED BY <2>1, <2>2
<1>5. ASSUME NEW i \in 1 .. n PROVE g[i] = (f \o e)[i]
  <2>1. CASE i <= m
    <3>1. i \in 1 .. m
      BY <2>1, <1>0
    <3> QED BY <1>1, <1>4, <2>1, <3>1
  <2>2. CASE ~ (i <= m)
    <3>1. i - m \in 1 .. n - m /\ m + (i - m) = i
      BY <2>2, <1>0
    <3>2. e[i - m] = [kind |-> "value", of |-> of, byte |-> m + (i - m)]
      BY <1>3, <3>1
    <3> QED BY <1>1, <1>4, <2>2, <3>1, <3>2
  <2> QED BY <2>1, <2>2
<1>6. g = f \o e
  BY <1>1, <1>4, <1>5, SeqEqual
<1>7. m # n => e[1].kind = "value"
  <2> SUFFICES ASSUME m # n PROVE e[1].kind = "value"
    OBVIOUS
  <2>1. 1 \in 1 .. n - m
    BY <1>0
  <2>2. e[1] = [kind |-> "value", of |-> of, byte |-> m + 1]
    BY <1>3, <2>1
  <2> QED BY <2>2
<1> QED BY <1>2, <1>6, <1>7 DEF f, g

\* What update_index_file writes of a constant is what log writes, and bytes
\* the parser does not expect if it is too long.
LEMMA IndexValueSplit ==
  ASSUME NEW a \in Arg, NEW v, v.length \in Nat, Fits("value", v.id)
  PROVE  \E extra \in Seq(Byte) :
           /\ IndexValue(a, v) = LogValue(a, v) \o extra
           /\ IF Long(a, v) THEN extra # <<>> /\ extra[1].kind = "value" ELSE extra = <<>>
<1>1. LogValue(a, v) \in Seq(Byte) /\ Length(v.length) \in Seq(Byte)
  BY LogValueType
<1>2. CASE a.type \notin Strings \ {"const char*"}
  <2>1. IndexValue(a, v) = LogValue(a, v) /\ ~ Long(a, v)
    BY <1>2 DEF IndexValue, Long
  <2>2. LogValue(a, v) \o <<>> = LogValue(a, v)
    BY <1>1, ConcatEmptySeq
  <2>3. <<>> \in Seq(Byte)
    BY EmptySeq
  <2> QED BY <2>1, <2>2, <2>3
<1>3. CASE a.type \in Strings \ {"const char*"}
  <2> DEFINE n == v.length
             m == Cut(n)
             text == Value(v, n)
             short == Value(v, m)
             len == Length(n)
  <2>1. n \in Nat /\ m \in 0 .. n /\ (m = n <=> n < LengthMod) /\ short \in Seq(Byte)
    <3>1. n \in Nat /\ m \in Nat /\ m <= n /\ (m = n <=> n < LengthMod)
      BY CutFacts
    <3>2. short \in Seq(Byte)
      BY <1>3, LogValueType
    <3> QED BY <3>1, <3>2
  <2>2. IndexValue(a, v) = len \o text /\ LogValue(a, v) = len \o short /\ len \in Seq(Byte)
    BY <1>1, <1>3 DEF IndexValue, LogValue
  <2>3. Long(a, v) <=> m # n
    <3>1. LengthMod \in Nat
      BY CodecAssumption
    <3>2. Long(a, v) <=> n >= LengthMod
      BY <1>3 DEF Long
    <3> HIDE DEF n, m
    <3> QED BY <2>1, <3>1, <3>2
  <2> HIDE DEF n, m
  <2>4. PICK extra \in Seq(Byte) :
          text = short \o extra /\ Len(extra) = n - m /\ (m # n => extra[1].kind = "value")
    <3> DEFINE i == v.id
    <3>1. Fits("value", i)
      OBVIOUS
    <3> HIDE DEF i
    <3>2. \A p \in Nat : \A q \in 0 .. p : \E extra \in Seq(Byte) :
            /\ Field("value", i, p) = Field("value", i, q) \o extra
            /\ Len(extra) = p - q
            /\ q # p => extra[1].kind = "value"
      BY <3>1, FieldSplit
    <3> HIDE DEF text, short
    <3>3. PICK extra \in Seq(Byte) :
            /\ Field("value", i, n) = Field("value", i, m) \o extra
            /\ Len(extra) = n - m
            /\ m # n => extra[1].kind = "value"
      BY <2>1, <3>2
    <3>4. text = Field("value", i, n) /\ short = Field("value", i, m)
      BY DEF text, short, Value, i
    <3> QED BY <3>3, <3>4
  <2> HIDE DEF text, short, len
  <2>5. len \o (short \o extra) = (len \o short) \o extra
    BY <2>1, <2>2, BytesAssociative
  <2>6. extra = <<>> <=> m = n
    <3>1. n - m = 0 <=> m = n
      BY <2>1
    <3>2. extra = <<>> <=> Len(extra) = 0
      BY EmptySeq
    <3> QED BY <2>4, <3>1, <3>2
  <2> QED BY <2>2, <2>3, <2>4, <2>5, <2>6
<1> QED BY <1>2, <1>3

-----------------------------------------------------------------------------

(***************************************************************************)
(* Entries, part by part.                                                  *)
(***************************************************************************)
Count(s) == Len(s.args) % CountMod

TypePart(s, k) == Field("type", get_arg_type(s.args[k].type), 1)
TypeParts(s) == [k \in 1 .. Len(s.args) |-> TypePart(s, k)]

ConstPart(s, values, k) == Constness(s.args[k], values[k])
ConstParts(s, values) == [k \in 1 .. Len(s.args) |-> ConstPart(s, values, k)]

ValuePart(s, values, k) ==
  IF s.args[k].constant THEN <<>> ELSE LogValue(s.args[k], values[k])
ValueParts(s, values) == [k \in 1 .. Len(s.args) |-> ValuePart(s, values, k)]

Args(s, values) ==
  IF Count(s) > 0
  THEN FlattenSeq(TypeParts(s)) \o FlattenSeq(ConstParts(s, values))
  ELSE <<>>

\* What the assumptions say of a site and of the values of a pass.
LEMMA SiteFacts ==
  ASSUME NEW s \in Site, NEW values \in Passes[s]
  PROVE  /\ s.length \in Nat /\ Fits("text", s.format)
         /\ s.args \in Seq(Arg) /\ Len(s.args) \in Nat /\ DOMAIN s.args = 1 .. Len(s.args)
         /\ Len(values) = Len(s.args)
         /\ \A k \in 1 .. Len(s.args) :
              /\ s.args[k] \in Arg
              /\ values[k].length \in Nat
              /\ Fits("value", values[k].id)
              /\ Fits("constness", s.args[k].constant)
              /\ Fits("type", get_arg_type(s.args[k].type))
<1>1. /\ s.length \in Nat /\ s.args \in Seq(Arg) /\ Len(values) = Len(s.args)
      /\ \A k \in 1 .. Len(s.args) : values[k].length \in Nat
  BY CodecAssumption DEF Arg
<1>2. Len(s.args) \in Nat /\ DOMAIN s.args = 1 .. Len(s.args)
  BY <1>1, LenProperties
<1>3. Fits("text", s.format)
  BY DEF Fits, Byte
<1>4. ASSUME NEW k \in 1 .. Len(s.args)
      PROVE  /\ s.args[k] \in Arg
             /\ Fits("value", values[k].id)
             /\ Fits("constness", s.args[k].constant)
             /\ Fits("type", get_arg_type(s.args[k].type))
  <2>1. s.args[k] \in Arg
    BY <1>1, ElementOfSeq
  <2>2. values[k].id \in Ids
    BY DEF Ids
  <2>3. Fits("value", values[k].id)
    BY <2>2 DEF Fits, Byte
  <2>4. Fits("constness", s.args[k].constant)
    BY <2>1 DEF Fits, Byte, Arg
  <2>5. Fits("type", get_arg_type(s.args[k].type))
    <3>1. get_arg_type(s.args[k].type) \in ArgTypes
      BY <2>1 DEF ArgTypes, Arg
    <3> QED BY <3>1 DEF Fits, Byte
  <2> QED BY <2>1, <2>3, <2>4, <2>5
<1> QED BY <1>1, <1>2, <1>3, <1>4

\* A part for the type of every argument ...
LEMMA TypePartsFacts ==
  ASSUME NEW s \in Site, NEW values \in Passes[s]
  PROVE  /\ TypeParts(s) \in Seq(Seq(Byte)) /\ Len(TypeParts(s)) = Len(s.args)
         /\ \A k \in 1 .. Len(s.args) : TypeParts(s)[k] = TypePart(s, k)
<1> DEFINE n == Len(s.args)
           f == TypeParts(s)
<1>1. n \in Nat
  BY SiteFacts
<1>2. \A k \in 1 .. n : f[k] = TypePart(s, k)
  BY DEF TypeParts
<1>3. ASSUME NEW k \in 1 .. n PROVE TypePart(s, k) \in Seq(Byte)
  BY SiteFacts, FieldFacts DEF TypePart
<1>4. f = [k \in 1 .. n |-> f[k]]
  BY DEF TypeParts
<1> HIDE DEF n, f
<1>5. f \in Seq(Seq(Byte)) /\ Len(f) = n
  BY <1>1, <1>2, <1>3, <1>4, FunctionSeq
<1> QED BY <1>2, <1>5 DEF n, f

\* ... for the constness, and the value of a constant ...
LEMMA ConstPartsFacts ==
  ASSUME NEW s \in Site, NEW values \in Passes[s]
  PROVE  /\ ConstParts(s, values) \in Seq(Seq(Byte)) /\ Len(ConstParts(s, values)) = Len(s.args)
         /\ \A k \in 1 .. Len(s.args) : ConstParts(s, values)[k] = ConstPart(s, values, k)
<1> DEFINE n == Len(s.args)
           f == ConstParts(s, values)
<1>1. n \in Nat
  BY SiteFacts
<1>2. \A k \in 1 .. n : f[k] = ConstPart(s, values, k)
  BY DEF ConstParts
<1>3. ASSUME NEW k \in 1 .. n PROVE ConstPart(s, values, k) \in Seq(Byte)
  <2> DEFINE a == s.args[k]
             v == values[k]
             c == a.constant
  <2>1. a \in Arg /\ v.length \in Nat /\ Fits("value", v.id) /\ Fits("constness", c)
    BY SiteFacts
  <2> HIDE DEF a, v
  <2>2. IndexValue(a, v) \in Seq(Byte) /\ <<>> \in Seq(Byte)
    BY <2>1, LogValueType, EmptySeq
  <2>3. Field("constness", c, 1) \in Seq(Byte)
    <3> HIDE DEF c
    <3> QED BY <2>1, FieldFacts
  <2> DEFINE g == Field("constness", c, 1)
             h == IF c THEN IndexValue(a, v) ELSE <<>>
  <2>4. g \in Seq(Byte) /\ h \in Seq(Byte)
    BY <2>2, <2>3
  <2> HIDE DEF g, h
  <2>5. g \o h \in Seq(Byte)
    BY <2>4, ConcatProperties
  <2> QED BY <2>5 DEF ConstPart, Constness, a, v, g, h
<1>4. f = [k \in 1 .. n |-> f[k]]
  BY DEF ConstParts
<1> HIDE DEF n, f
<1>5. f \in Seq(Seq(Byte)) /\ Len(f) = n
  BY <1>1, <1>2, <1>3, <1>4, FunctionSeq
<1> QED BY <1>2, <1>5 DEF n, f

\* ... and, in the log file, for a value that is none.
LEMMA ValuePartsFacts ==
  ASSUME NEW s \in Site, NEW values \in Passes[s]
  PROVE  /\ ValueParts(s, values) \in Seq(Seq(Byte)) /\ Len(ValueParts(s, values)) = Len(s.args)
         /\ \A k \in 1 .. Len(s.args) : ValueParts(s, values)[k] = ValuePart(s, values, k)
<1> DEFINE n == Len(s.args)
           f == ValueParts(s, values)
<1>1. n \in Nat
  BY SiteFacts
<1>2. \A k \in 1 .. n : f[k] = ValuePart(s, values, k)
  BY DEF ValueParts
<1>3. ASSUME NEW k \in 1 .. n PROVE ValuePart(s, values, k) \in Seq(Byte)
  <2> DEFINE a == s.args[k]
             v == values[k]
  <2>1. a \in Arg /\ v.length \in Nat /\ Fits("value", v.id)
    BY SiteFacts
  <2> HIDE DEF a, v
  <2>2. LogValue(a, v) \in Seq(Byte) /\ <<>> \in Seq(Byte)
    BY <2>1, LogValueType, EmptySeq
  <2> QED BY <2>2 DEF ValuePart, a, v
<1>4. f = [k \in 1 .. n |-> f[k]]
  BY DEF ValueParts
<1> HIDE DEF n, f
<1>5. f \in Seq(Seq(Byte)) /\ Len(f) = n
  BY <1>1, <1>2, <1>3, <1>4, FunctionSeq
<1> QED BY <1>2, <1>5 DEF n, f

\* The uint8_t that counts arguments is right below its limit only.
LEMMA CountFacts ==
  ASSUME NEW s \in Site, NEW values \in Passes[s]
  PROVE  /\ Count(s) \in 0 .. CountMod - 1 /\ Count(s) \in Nat /\ Count(s) <= Len(s.args)
         /\ Len(s.args) < CountMod <=> Count(s) = Len(s.args)
<1> DEFINE m == CountMod
           n == Len(s.args)
<1>1. m \in Nat \ {0} /\ n \in Nat
  BY CodecAssumption, SiteFacts
<1> HIDE DEF m, n
<1>2. n % m \in 0 .. m - 1
  BY <1>1
<1>3. n < m => n % m = n
  BY <1>1
<1>4. n % m <= n
  BY <1>1, <1>2, <1>3
<1>5. Count(s) = n % m
  BY DEF Count, n, m
<1>6. Count(s) \in 0 .. m - 1 /\ Count(s) <= n /\ (n < m <=> Count(s) = n)
  BY <1>1, <1>2, <1>3, <1>4, <1>5
<1> QED BY <1>1, <1>6 DEF m, n

\* An entry of the index file: format string, number of arguments, arguments.
LEMMA EntryIs ==
  ASSUME NEW s \in Site, NEW values \in Passes[s]
  PROVE  /\ Args(s, values) \in Seq(Byte)
         /\ Field("text", s.format, Cut(s.length)) \in Seq(Byte)
         /\ Field("count", Count(s), 1) \in Seq(Byte)
         /\ Fits("count", Count(s))
         /\ Entry(s, values) \in Seq(Byte)
         /\ Entry(s, values)
              = Length(s.length) \o (Field("text", s.format, Cut(s.length))
                  \o (Field("count", Count(s), 1) \o Args(s, values)))
<1> DEFINE l == Length(s.length)
           f == Field("text", s.format, Cut(s.length))
           c == Field("count", Count(s), 1)
           a == Args(s, values)
<1>1. FlattenSeq(TypeParts(s)) \in Seq(Byte) /\ FlattenSeq(ConstParts(s, values)) \in Seq(Byte)
  BY TypePartsFacts, ConstPartsFacts, FlattenType
<1>2. FlattenSeq(TypeParts(s)) \o FlattenSeq(ConstParts(s, values)) \in Seq(Byte)
  BY <1>1, ConcatProperties
<1>3. a \in Seq(Byte)
  BY <1>2, EmptySeq DEF Args
<1>4. Cut(s.length) \in Nat /\ Fits("length", Cut(s.length)) /\ Fits("text", s.format)
  BY SiteFacts, CutFacts
<1>5. l \in Seq(Byte)
  BY <1>4, FieldFacts DEF Length
<1>6. f \in Seq(Byte)
  BY <1>4, FieldFacts
<1>7. Fits("count", Count(s))
  BY CountFacts DEF Fits, Byte
<1>8. c \in Seq(Byte)
  BY <1>7, FieldFacts
<1>9. Entry(s, values) = ((l \o f) \o c) \o a
  <2>1. update_index_file(s, values)
          = FlattenSeq(TypeParts(s)) \o FlattenSeq(ConstParts(s, values))
    BY DEF update_index_file, Concat, TypeParts, TypePart, ConstParts, ConstPart
  <2> QED BY <2>1 DEF Entry, Args, Count
<1> HIDE DEF l, f, c, a
<1>10. /\ c \o a \in Seq(Byte) /\ l \o f \in Seq(Byte)
  BY <1>3, <1>5, <1>6, <1>8, ConcatProperties
<1>11. ((l \o f) \o c) \o a = (l \o f) \o (c \o a)
  <2>1. Bracketed(l \o f, c, a)
    BY <1>3, <1>8, <1>10, BytesBracketed
  <2> QED BY <2>1 DEF Bracketed
<1>12. (l \o f) \o (c \o a) = l \o (f \o (c \o a))
  BY <1>5, <1>6, <1>10, BytesAssociative
<1>13. (l \o f) \o (c \o a) \in Seq(Byte)
  BY <1>10, ConcatProperties
<1> QED BY <1>3, <1>6, <1>7, <1>8, <1>9, <1>11, <1>12, <1>13 DEF l, f, c, a

\* A call in the log file: the index, then the values.
LEMMA LogEntryIs ==
  ASSUME NEW s \in Site, NEW values \in Passes[s], NEW i \in Nat
  PROVE  /\ LogEntry(s, i, values) = Field("index", i, 2) \o FlattenSeq(ValueParts(s, values))
         /\ LogEntry(s, i, values) \in Seq(Byte)
         /\ FlattenSeq(ValueParts(s, values)) \in Seq(Byte)
         /\ Fits("index", i)
<1>1. FlattenSeq(ValueParts(s, values)) \in Seq(Byte)
  BY ValuePartsFacts, FlattenType
<1>2. Fits("index", i)
  BY DEF Fits, Byte
<1>3. Field("index", i, 2) \in Seq(Byte)
  BY <1>2, FieldFacts
<1>4. LogEntry(s, i, values) = Field("index", i, 2) \o FlattenSeq(ValueParts(s, values))
  BY DEF LogEntry, Concat, ValueParts, ValuePart
<1>5. Field("index", i, 2) \o FlattenSeq(ValueParts(s, values)) \in Seq(Byte)
  BY <1>1, <1>3, ConcatProperties
<1> QED BY <1>1, <1>2, <1>4, <1>5

-----------------------------------------------------------------------------

\* The parser at the beginning of an entry.
LEMMA AheadEntry ==
  ASSUME NEW file \in Seq(Byte), NEW pos \in Nat, NEW s \in Site, NEW values \in Passes[s],
         NEW t \in Seq(Byte), Ahead(file, pos, Entry(s, values) \o t),
         NEW at, at = pos + 2 + file[pos + 1].of
  PROVE  /\ HoldsString(file, pos, "text")
         /\ StringBytes(file, pos) = Field("text", s.format, Cut(s.length))
         /\ Holds(file, at, "count", 1)
         /\ file[at + 1].of = Count(s)
         /\ at + 1 \in Nat
         /\ Ahead(file, at + 1, Args(s, values) \o t)
         /\ at + 1 <= Len(file)
         /\ pos < Len(file)
<1> DEFINE l == Length(s.length)
           f == Field("text", s.format, Cut(s.length))
           c == Field("count", Count(s), 1)
           a == Args(s, values)
           n == Cut(s.length)
<1>1. /\ s.length \in Nat /\ n \in Nat /\ Fits("length", n) /\ Fits("text", s.format)
      /\ a \in Seq(Byte) /\ f \in Seq(Byte) /\ c \in Seq(Byte) /\ Fits("count", Count(s))
      /\ Entry(s, values) = l \o (f \o (c \o a))
  BY SiteFacts, CutFacts, EntryIs
<1>2. l \in Seq(Byte)
  BY <1>1, FieldFacts DEF Length
<1>3. Ahead(file, pos, (l \o (f \o (c \o a))) \o t)
  BY <1>1
<1>4. (l \o (f \o (c \o a))) \o t = l \o (f \o (c \o (a \o t)))
  <2> HIDE DEF l, f, c, a
  <2>1. c \o a \in Seq(Byte) /\ a \o t \in Seq(Byte)
    BY <1>1, ConcatProperties
  <2>2. f \o (c \o a) \in Seq(Byte)
    BY <1>1, <2>1, ConcatProperties
  <2>3. (l \o (f \o (c \o a))) \o t = l \o ((f \o (c \o a)) \o t)
    <3>1. Bracketed(l, f \o (c \o a), t)
      BY <1>2, <2>2, BytesBracketed
    <3> QED BY <3>1 DEF Bracketed
  <2>4. (f \o (c \o a)) \o t = f \o ((c \o a) \o t)
    <3>1. Bracketed(f, c \o a, t)
      BY <1>1, <2>1, BytesBracketed
    <3> QED BY <3>1 DEF Bracketed
  <2>5. (c \o a) \o t = c \o (a \o t)
    BY <1>1, BytesAssociative
  <2> QED BY <2>3, <2>4, <2>5
<1> DEFINE u == c \o (a \o t)
<1>5. a \o t \in Seq(Byte) /\ u \in Seq(Byte)
  <2> HIDE DEF c, a
  <2>1. a \o t \in Seq(Byte)
    BY <1>1, ConcatProperties
  <2> QED BY <1>1, <2>1, ConcatProperties
<1>6. Ahead(file, pos, l \o (f \o u))
  BY <1>3, <1>4
<1> HIDE DEF u
<1>7. /\ HoldsString(file, pos, "text") /\ file[pos + 1].of = n
      /\ StringBytes(file, pos) = f
      /\ Ahead(file, pos + 2 + n, u)
  BY SMTT(30), <1>1, <1>5, <1>6, AheadString
<1> DEFINE b == a \o t
<1>8. Ahead(file, at, Field("count", Count(s), 1) \o b) /\ b \in Seq(Byte)
  BY <1>5, <1>7 DEF u
<1>9. at \in Nat
  BY <1>1, <1>7
<1> HIDE DEF n, b
<1>10. /\ Holds(file, at, "count", 1) /\ file[at + 1].of = Count(s)
       /\ Ahead(file, at + 1, b) /\ at + 1 <= Len(file)
  <2> DEFINE i == Count(s)
  <2>1. Fits("count", i)
    BY <1>1
  <2>2. Ahead(file, at, Field("count", i, 1) \o b)
    BY <1>8
  <2> HIDE DEF i
  <2>3. /\ Holds(file, at, "count", 1) /\ file[at + 1].of = i
        /\ Ahead(file, at + 1, b) /\ at + 1 <= Len(file)
    BY <1>8, <1>9, <2>1, <2>2, AheadField
  <2> QED BY <2>3 DEF i
<1>11. pos < Len(file) /\ at + 1 \in Nat
  <2>1. Len(file) \in Nat
    BY LenProperties
  <2> QED BY SMTT(30), <1>1, <1>7, <1>10, <2>1 DEF n
<1> QED BY <1>7, <1>10, <1>11 DEF b

\* Parts that are left: the next one, and then the others.
LEMMA AheadRest ==
  ASSUME NEW file, NEW pos, NEW parts \in Seq(Seq(Byte)), NEW k \in Nat, k < Len(parts),
         NEW t \in Seq(Byte), Ahead(file, pos, Rest(parts, k) \o t)
  PROVE  /\ parts[k + 1] \in Seq(Byte)
         /\ Rest(parts, k + 1) \o t \in Seq(Byte)
         /\ Ahead(file, pos, parts[k + 1] \o (Rest(parts, k + 1) \o t))
<1> DEFINE p == parts[k + 1]
           r == Rest(parts, k + 1)
<1>1. p \in Seq(Byte) /\ Rest(parts, k) = p \o r
  BY RestStep
<1>2. k + 1 \in 0 .. Len(parts)
  BY LenProperties
<1>3. r \in Seq(Byte)
  BY <1>2, RestType
<1> HIDE DEF p, r
<1>4. r \o t \in Seq(Byte)
  BY <1>3, ConcatProperties
<1>5. (p \o r) \o t = p \o (r \o t)
  BY <1>1, <1>3, BytesAssociative
<1> QED BY <1>1, <1>4, <1>5 DEF p, r

\* Behind the last part comes what follows the parts.
LEMMA AheadNoRest ==
  ASSUME NEW file, NEW pos, NEW parts \in Seq(Seq(Byte)), NEW k, k = Len(parts),
         NEW t \in Seq(Byte), Ahead(file, pos, Rest(parts, k) \o t)
  PROVE  Ahead(file, pos, t)
<1>1. Rest(parts, k) = <<>>
  BY RestNone
<1>2. <<>> \o t = t
  BY ConcatEmptySeq
<1> QED BY <1>1, <1>2

\* The next type is held and is the type of the argument.
LEMMA AheadType ==
  ASSUME NEW file \in Seq(Byte), NEW pos \in Nat, NEW s \in Site, NEW values \in Passes[s],
         NEW k \in Nat, k < Len(s.args),
         NEW t \in Seq(Byte), Ahead(file, pos, Rest(TypeParts(s), k) \o t)
  PROVE  /\ Holds(file, pos, "type", 1)
         /\ file[pos + 1].kind = "type"
         /\ file[pos + 1].of = get_arg_type(s.args[k + 1].type)
         /\ Ahead(file, pos + 1, Rest(TypeParts(s), k + 1) \o t)
         /\ pos + 1 <= Len(file)
<1> DEFINE parts == TypeParts(s)
           g == get_arg_type(s.args[k + 1].type)
           u == Rest(parts, k + 1) \o t
<1>1. k + 1 \in 1 .. Len(s.args)
  BY SiteFacts
<1>2. /\ parts \in Seq(Seq(Byte)) /\ k < Len(parts)
      /\ parts[k + 1] = Field("type", g, 1) /\ Fits("type", g)
  BY <1>1, TypePartsFacts, SiteFacts DEF TypePart
<1> HIDE DEF parts, g
<1>3. u \in Seq(Byte) /\ Ahead(file, pos, Field("type", g, 1) \o u)
  BY <1>2, AheadRest DEF parts
<1> HIDE DEF u
<1>4. /\ Holds(file, pos, "type", 1) /\ file[pos + 1].kind = "type" /\ file[pos + 1].of = g
      /\ Ahead(file, pos + 1, u) /\ pos + 1 <= Len(file)
  BY <1>2, <1>3, AheadField
<1> QED BY <1>4 DEF parts, g, u

\* Of a constant that is too long some bytes are left, which no parser expects.
ConstRead(file, pos, s, values, k, t) ==
  LET a == s.args[k + 1]
      type == get_arg_type(a.type)
      size == IF a.constant THEN ValueSize(file, pos + 1, type) ELSE 0
  IN  /\ Holds(file, pos, "constness", 1)
      /\ file[pos + 1].kind = "constness"
      /\ file[pos + 1].of = a.constant
      /\ a.constant =>
           /\ HoldsValue(file, pos + 1, type)
           /\ ValueBytes(file, pos + 1, type) = Stored(a, values[k + 1])
      /\ size \in Nat
      /\ pos + 1 + size <= Len(file)
      /\ IF a.constant /\ Long(a, values[k + 1])
         THEN pos + 1 + size < Len(file) /\ file[pos + 1 + size + 1].kind = "value"
         ELSE Ahead(file, pos + 1 + size, Rest(ConstParts(s, values), k + 1) \o t)

\* The next constness is held, and if it says so a constant behind it.
LEMMA AheadConst ==
  ASSUME NEW file \in Seq(Byte), NEW pos \in Nat, NEW s \in Site, NEW values \in Passes[s],
         NEW k \in Nat, k < Len(s.args),
         NEW t \in Seq(Byte), Ahead(file, pos, Rest(ConstParts(s, values), k) \o t)
  PROVE  ConstRead(file, pos, s, values, k, t)
<1> SUFFICES ASSUME NEW type, type = get_arg_type(s.args[k + 1].type),
                    NEW size,
                    size = IF s.args[k + 1].constant THEN ValueSize(file, pos + 1, type) ELSE 0
             PROVE  /\ Holds(file, pos, "constness", 1)
                    /\ file[pos + 1].kind = "constness"
                    /\ file[pos + 1].of = s.args[k + 1].constant
                    /\ s.args[k + 1].constant =>
                         /\ HoldsValue(file, pos + 1, type)
                         /\ ValueBytes(file, pos + 1, type) = Stored(s.args[k + 1], values[k + 1])
                    /\ size \in Nat
                    /\ pos + 1 + size <= Len(file)
                    /\ IF s.args[k + 1].constant /\ Long(s.args[k + 1], values[k + 1])
                       THEN pos + 1 + size < Len(file) /\ file[pos + 1 + size + 1].kind = "value"
                       ELSE Ahead(file, pos + 1 + size, Rest(ConstParts(s, values), k + 1) \o t)
  BY Zenon DEF ConstRead
<1> DEFINE parts == ConstParts(s, values)
           a == s.args[k + 1]
           v == values[k + 1]
           c == a.constant
           u == Rest(parts, k + 1) \o t
           d == IF c THEN IndexValue(a, v) ELSE <<>>
<1>1. k + 1 \in 1 .. Len(s.args)
  BY SiteFacts
<1>2. /\ parts \in Seq(Seq(Byte)) /\ k < Len(parts)
      /\ parts[k + 1] = Field("constness", c, 1) \o d /\ Fits("constness", c)
      /\ a \in Arg /\ v.length \in Nat /\ Fits("value", v.id)
  BY <1>1, ConstPartsFacts, SiteFacts DEF ConstPart, Constness
<1> HIDE DEF parts, a, v
<1>3. u \in Seq(Byte) /\ Ahead(file, pos, (Field("constness", c, 1) \o d) \o u)
  BY <1>2, AheadRest DEF parts
<1>4. d \in Seq(Byte)
  BY <1>2, LogValueType, EmptySeq
<1> HIDE DEF u, c, d
<1> DEFINE f == Field("constness", c, 1)
           w == d \o u
<1>5. f \in Seq(Byte) /\ w \in Seq(Byte)
  <2>1. f \in Seq(Byte)
    BY <1>2, FieldFacts
  <2> QED BY <1>3, <1>4, <2>1, ConcatProperties
<1>6. Ahead(file, pos, f \o w)
  <2>1. f \in Seq(Byte) /\ Ahead(file, pos, (f \o d) \o u)
    BY <1>3, <1>5
  <2> HIDE DEF f
  <2>2. (f \o d) \o u = f \o (d \o u)
    <3>1. Bracketed(f, d, u)
      BY <1>3, <1>4, <2>1, BytesBracketed
    <3> QED BY <3>1 DEF Bracketed
  <2> QED BY <2>1, <2>2
<1> HIDE DEF w
<1>7. /\ Holds(file, pos, "constness", 1) /\ file[pos + 1].kind = "constness"
      /\ file[pos + 1].of = c
      /\ Ahead(file, pos + 1, w) /\ pos + 1 <= Len(file)
  BY <1>2, <1>5, <1>6, AheadField
<1>8. CASE ~ c
  <2>1. d = <<>> /\ size = 0
    BY <1>8 DEF d, c, a
  <2>2. w = u
    BY <1>3, <2>1, ConcatEmptySeq DEF w
  <2>3. pos + 1 + 0 = pos + 1
    OBVIOUS
  <2>4. size \in Nat /\ pos + 1 + size <= Len(file) /\ Ahead(file, pos + 1 + size, u)
    BY <1>7, <2>1, <2>2, <2>3
  <2> QED BY <1>7, <1>8, <2>4 DEF parts, a, v, c, u
<1>9. CASE c
  <2>1. PICK extra \in Seq(Byte) :
          /\ IndexValue(a, v) = LogValue(a, v) \o extra
          /\ IF Long(a, v) THEN extra # <<>> /\ extra[1].kind = "value" ELSE extra = <<>>
    BY <1>2, IndexValueSplit
  <2> DEFINE x == LogValue(a, v)
             y == extra \o u
  <2>2. x \in Seq(Byte) /\ y \in Seq(Byte)
    BY <1>2, <1>3, LogValueType, ConcatProperties
  <2>3. w = x \o y
    <3>1. w = (x \o extra) \o u
      BY <1>9, <2>1 DEF w, d
    <3>2. x \in Seq(Byte) /\ extra \in Seq(Byte) /\ u \in Seq(Byte)
      BY <1>3, <2>2
    <3> HIDE DEF x
    <3>3. (x \o extra) \o u = x \o (extra \o u)
      <4>1. Bracketed(x, extra, u)
        BY <3>2, BytesBracketed
      <4> QED BY <4>1 DEF Bracketed
    <3> QED BY <3>1, <3>3
  <2>4. pos + 1 \in Nat
    OBVIOUS
  <2>5. Ahead(file, pos + 1, LogValue(a, v) \o y)
    BY <1>7, <2>3
  <2> HIDE DEF x, y
  <2>6. type = get_arg_type(a.type) /\ size = ValueSize(file, pos + 1, type)
    BY <1>9 DEF a, c
  <2>7. /\ HoldsValue(file, pos + 1, type)
        /\ ValueBytes(file, pos + 1, type) = Stored(a, v)
        /\ size \in Nat
        /\ Ahead(file, pos + 1 + size, y)
        /\ pos + 1 + size <= Len(file)
    BY SMTT(30), <1>2, <2>2, <2>4, <2>5, <2>6, AheadValue
  <2>8. CASE Long(a, v)
    <3>1. extra # <<>> /\ extra[1].kind = "value" /\ Len(extra) \in Nat \ {0}
      BY <2>1, <2>8, EmptySeq
    <3>2. pos + 1 + size \in Nat /\ Ahead(file, pos + 1 + size, extra \o u)
      BY <2>7 DEF y
    <3> DEFINE q == pos + 1 + size
    <3>3. q \in Nat /\ Ahead(file, q, extra \o u)
      BY <3>2
    <3> HIDE DEF q
    <3>4. /\ \A i \in 1 .. Len(extra) : file[q + i] = extra[i]
          /\ q + Len(extra) <= Len(file)
      BY <1>3, <3>3, AheadConcat
    <3>5. 1 \in 1 .. Len(extra) /\ Len(file) \in Nat
      BY <3>1, LenProperties
    <3>6. file[q + 1].kind = "value" /\ q < Len(file)
      BY SMTT(30), <3>1, <3>3, <3>4, <3>5
    <3>7. size \in Nat /\ q <= Len(file)
      BY <2>7 DEF q
    <3> QED BY <1>7, <1>9, <2>7, <2>8, <3>6, <3>7 DEF parts, a, v, c, q
  <2>9. CASE ~ Long(a, v)
    <3>1. y = u
      BY <1>3, <2>1, <2>9, ConcatEmptySeq DEF y
    <3> QED BY <1>7, <1>9, <2>7, <2>9, <3>1 DEF parts, a, v, c, u
  <2> QED BY <2>8, <2>9
<1> QED BY <1>8, <1>9

\* The next argument of a call, as its line needs it.
ValueRead(file, pos, s, values, k, t) ==
  LET a == s.args[k + 1]
      type == get_arg_type(a.type)
      more == Rest(ValueParts(s, values), k + 1) \o t
  IN  IF a.constant
      THEN Ahead(file, pos, more)
      ELSE /\ HoldsValue(file, pos, type)
           /\ ValueBytes(file, pos, type) = Stored(a, values[k + 1])
           /\ Ahead(file, pos + ValueSize(file, pos, type), more)

\* The next value of a call is held unless it is a constant.
LEMMA AheadArgument ==
  ASSUME NEW file \in Seq(Byte), NEW pos \in Nat, NEW s \in Site, NEW values \in Passes[s],
         NEW k \in Nat, k < Len(s.args),
         NEW t \in Seq(Byte), Ahead(file, pos, Rest(ValueParts(s, values), k) \o t)
  PROVE  ValueRead(file, pos, s, values, k, t)
<1> SUFFICES ASSUME NEW type, type = get_arg_type(s.args[k + 1].type)
             PROVE  IF s.args[k + 1].constant
                    THEN Ahead(file, pos, Rest(ValueParts(s, values), k + 1) \o t)
                    ELSE /\ HoldsValue(file, pos, type)
                         /\ ValueBytes(file, pos, type) = Stored(s.args[k + 1], values[k + 1])
                         /\ Ahead(file, pos + ValueSize(file, pos, type),
                                  Rest(ValueParts(s, values), k + 1) \o t)
  BY Zenon DEF ValueRead
<1> DEFINE parts == ValueParts(s, values)
           a == s.args[k + 1]
           v == values[k + 1]
           c == a.constant
           u == Rest(parts, k + 1) \o t
<1>1. k + 1 \in 1 .. Len(s.args)
  BY SiteFacts
<1>2. /\ parts \in Seq(Seq(Byte)) /\ k < Len(parts)
      /\ parts[k + 1] = IF c THEN <<>> ELSE LogValue(a, v)
      /\ a \in Arg /\ v.length \in Nat /\ Fits("value", v.id)
  BY <1>1, ValuePartsFacts, SiteFacts DEF ValuePart
<1> HIDE DEF parts, a, v
<1>3. u \in Seq(Byte) /\ Ahead(file, pos, parts[k + 1] \o u)
  BY <1>2, AheadRest DEF parts
<1> HIDE DEF u, c
<1>4. CASE c
  <2>1. Ahead(file, pos, u)
    BY <1>2, <1>3, <1>4, ConcatEmptySeq
  <2> QED BY <1>4, <2>1 DEF parts, a, c, u
<1>5. CASE ~ c
  <2>1. Ahead(file, pos, LogValue(a, v) \o u)
    BY <1>2, <1>3, <1>5
  <2>2. type = get_arg_type(a.type)
    BY DEF a
  <2>3. /\ HoldsValue(file, pos, type)
        /\ ValueBytes(file, pos, type) = Stored(a, v)
        /\ Ahead(file, pos + ValueSize(file, pos, type), u)
    BY SMTT(30), <1>2, <1>3, <2>1, <2>2, AheadValue
  <2> QED BY <1>5, <2>3 DEF parts, a, v, c, u
<1> QED BY <1>4, <1>5

\* A call's bytes: two of the index, then the values.
LEMMA AheadCall ==
  ASSUME NEW file \in Seq(Byte), NEW pos \in Nat, NEW s \in Site, NEW values \in Passes[s],
         NEW i \in Nat, NEW t \in Seq(Byte), Ahead(file, pos, LogEntry(s, i, values) \o t)
  PROVE  /\ Holds(file, pos, "index", 2)
         /\ file[pos + 1].of = i
         /\ pos < Len(file)
         /\ Ahead(file, pos + 2, FlattenSeq(ValueParts(s, values)) \o t)
<1> DEFINE f == Field("index", i, 2)
           x == FlattenSeq(ValueParts(s, values))
           u == x \o t
<1>1. LogEntry(s, i, values) = f \o x /\ x \in Seq(Byte) /\ Fits("index", i)
  BY LogEntryIs
<1>2. f \in Seq(Byte)
  BY <1>1, FieldFacts
<1>3. u \in Seq(Byte)
  <2> HIDE DEF x
  <2> QED BY <1>1, ConcatProperties
<1>4. Ahead(file, pos, f \o u)
  <2>1. Ahead(file, pos, (f \o x) \o t)
    BY <1>1
  <2> HIDE DEF f, x
  <2>2. (f \o x) \o t = f \o (x \o t)
    BY <1>1, <1>2, BytesAssociative
  <2> QED BY <2>1, <2>2
<1> HIDE DEF u
<1>5. /\ Holds(file, pos, "index", 2) /\ file[pos + 1].of = i
      /\ Ahead(file, pos + 2, u) /\ pos + 2 <= Len(file)
  <2>1. Fits("index", i) /\ u \in Seq(Byte)
    BY <1>1, <1>3
  <2>2. Ahead(file, pos, Field("index", i, 2) \o u)
    BY <1>4
  <2>3. 2 \in Nat
    OBVIOUS
  <2> QED BY <2>1, <2>2, <2>3, AheadField
<1>6. pos < Len(file)
  BY <1>5, LenProperties
<1> QED BY <1>5, <1>6 DEF u

-----------------------------------------------------------------------------

(***************************************************************************)
(* What the program has written.                                           *)
(***************************************************************************)
Pass == UNION {Passes[s] : s \in Site}

PlaceIn(list, s) == CHOOSE k \in 1 .. Len(list) : list[k] = s
Place(s) == PlaceIn(sites, s)

Entries == [k \in 1 .. Len(sites) |-> Entry(sites[k], recorded[k])]

CallEntry(c) == LogEntry(c.site, Place(c.site) - 1, c.values)
LogEntries == [c \in 1 .. Len(calls) |-> CallEntry(calls[c])]

Registered ==
  /\ sites \in Seq(Site)
  /\ \A i, j \in 1 .. Len(sites) : sites[i] = sites[j] => i = j
  /\ recorded \in Seq(Pass) /\ Len(recorded) = Len(sites)
  /\ \A k \in 1 .. Len(sites) : recorded[k] \in Passes[sites[k]]

Called ==
  /\ calls \in Seq([site : Site, values : Pass])
  /\ \A c \in 1 .. Len(calls) :
       /\ calls[c].values \in Passes[calls[c].site]
       /\ Contains(sites, calls[c].site)

\* What is recorded of a site was a call.
FirstPasses ==
  \A k \in 1 .. Len(sites) : \E c \in 1 .. Len(calls) :
    calls[c].site = sites[k] /\ calls[c].values = recorded[k]

Written ==
  /\ index_file = FlattenSeq(Entries)
  /\ log = FlattenSeq(LogEntries)

ProgramInv == Registered /\ Called /\ FirstPasses /\ Written

\* A site on a list has a place there.
LEMMA PlaceFacts ==
  ASSUME NEW list \in Seq(Site), NEW s, Contains(list, s)
  PROVE  PlaceIn(list, s) \in 1 .. Len(list) /\ list[PlaceIn(list, s)] = s
BY DEF Contains, PlaceIn

EntriesSay ==
  /\ Entries \in Seq(Seq(Byte)) /\ Len(Entries) = Len(sites)
  /\ \A k \in 1 .. Len(sites) : Entries[k] = Entry(sites[k], recorded[k])

LogEntriesSay ==
  /\ LogEntries \in Seq(Seq(Byte)) /\ Len(LogEntries) = Len(calls)
  /\ \A c \in 1 .. Len(calls) :
       LogEntries[c] = LogEntry(calls[c].site, PlaceIn(sites, calls[c].site) - 1, calls[c].values)

\* The parts of the index file: an entry for every site.
LEMMA EntriesFacts ==
  ASSUME Registered
  PROVE  /\ Entries \in Seq(Seq(Byte)) /\ Len(Entries) = Len(sites) /\ Len(sites) \in Nat
         /\ \A k \in 1 .. Len(sites) : Entries[k] = Entry(sites[k], recorded[k])
         /\ \A k \in 1 .. Len(sites) : sites[k] \in Site /\ recorded[k] \in Passes[sites[k]]
<1> DEFINE n == Len(sites)
           f == Entries
<1>1. n \in Nat /\ \A k \in 1 .. n : sites[k] \in Site /\ recorded[k] \in Passes[sites[k]]
  BY LenProperties, ElementOfSeq DEF Registered
<1>2. \A k \in 1 .. n : f[k] = Entry(sites[k], recorded[k])
  BY DEF Entries
<1>3. \A k \in 1 .. n : f[k] \in Seq(Byte)
  BY <1>1, <1>2, EntryIs
<1>4. f = [k \in 1 .. n |-> f[k]]
  BY DEF Entries
<1> HIDE DEF n, f
<1>5. f \in Seq(Seq(Byte)) /\ Len(f) = n
  BY <1>1, <1>3, <1>4, FunctionSeq
<1> QED BY <1>1, <1>2, <1>5 DEF n, f

\* The parts of the log file: a call each, whose index leads to its site.
LEMMA LogEntriesFacts ==
  ASSUME Registered, Called
  PROVE  /\ LogEntries \in Seq(Seq(Byte)) /\ Len(LogEntries) = Len(calls) /\ Len(calls) \in Nat
         /\ \A c \in 1 .. Len(calls) :
              /\ LogEntries[c] = CallEntry(calls[c])
              /\ calls[c].site \in Site /\ calls[c].values \in Passes[calls[c].site]
              /\ Place(calls[c].site) \in 1 .. Len(sites)
              /\ Place(calls[c].site) - 1 \in Nat
              /\ sites[Place(calls[c].site)] = calls[c].site
              /\ CallEntry(calls[c]) \in Seq(Byte)
<1> DEFINE n == Len(calls)
           f == LogEntries
<1>1. n \in Nat
  BY LenProperties DEF Called
<1>2. ASSUME NEW c \in 1 .. n
      PROVE  /\ calls[c].site \in Site /\ calls[c].values \in Passes[calls[c].site]
             /\ Place(calls[c].site) \in 1 .. Len(sites)
             /\ Place(calls[c].site) - 1 \in Nat
             /\ sites[Place(calls[c].site)] = calls[c].site
  <2>1. calls[c] \in [site : Site, values : Pass]
    BY <1>1, ElementOfSeq DEF Called
  <2>2. calls[c].values \in Passes[calls[c].site] /\ Contains(sites, calls[c].site)
    BY DEF Called
  <2>3. Place(calls[c].site) \in 1 .. Len(sites) /\ sites[Place(calls[c].site)] = calls[c].site
    BY <2>2, PlaceFacts DEF Place, Registered
  <2>4. Len(sites) \in Nat
    BY EntriesFacts
  <2> QED BY <2>1, <2>2, <2>3, <2>4
<1>3. \A c \in 1 .. n : f[c] = CallEntry(calls[c])
  BY DEF LogEntries
<1>4. ASSUME NEW c \in 1 .. n PROVE CallEntry(calls[c]) \in Seq(Byte)
  BY <1>2, LogEntryIs DEF CallEntry
<1>5. f = [c \in 1 .. n |-> f[c]]
  BY DEF LogEntries
<1>6. \A c \in 1 .. n : f[c] \in Seq(Byte)
  BY <1>3, <1>4
<1> HIDE DEF n, f
<1>7. f \in Seq(Seq(Byte)) /\ Len(f) = n
  BY <1>1, <1>5, <1>6, FunctionSeq
<1> QED BY <1>1, <1>2, <1>3, <1>4, <1>7 DEF n, f

\* EntriesFacts as an implication between state predicates.
LEMMA EntriesSaid == Registered => EntriesSay
BY EntriesFacts DEF EntriesSay

\* LogEntriesFacts as an implication between state predicates.
LEMMA LogEntriesSaid == Registered /\ Called => LogEntriesSay
BY LogEntriesFacts DEF LogEntriesSay, CallEntry, Place

\* Both files consist of bytes.
LEMMA FilesFacts ==
  ASSUME ProgramInv
  PROVE  /\ index_file \in Seq(Byte) /\ Len(index_file) \in Nat
         /\ log \in Seq(Byte) /\ Len(log) \in Nat
<1>1. index_file \in Seq(Byte)
  BY EntriesFacts, FlattenType DEF ProgramInv, Written
<1>2. log \in Seq(Byte)
  BY LogEntriesFacts, FlattenType DEF ProgramInv, Written
<1> QED BY <1>1, <1>2, LenProperties

-----------------------------------------------------------------------------

\* Two lists that say the same of each member are the same.
LEMMA SameLists ==
  ASSUME NEW S, NEW s \in Seq(S), NEW t \in Seq(S), Len(s) = Len(t),
         \A k \in 1 .. Len(s) : s[k] = t[k]
  PROVE  s = t
BY SeqEqual

\* At first nothing is written.
LEMMA ProgramInit == Init => ProgramInv
<1> SUFFICES ASSUME Init PROVE ProgramInv
  OBVIOUS
<1>1. sites = <<>> /\ recorded = <<>> /\ calls = <<>> /\ index_file = <<>> /\ log = <<>>
  BY DEF Init
<1>2. Len(<<>>) = 0 /\ 1 .. 0 = {} /\ \A S : <<>> \in Seq(S)
  BY EmptySeq
<1>3. Registered /\ Called /\ FirstPasses
  BY <1>1, <1>2 DEF Registered, Called, FirstPasses
<1>4. Entries = <<>> /\ LogEntries = <<>>
  <2>1. Entries \in Seq(Seq(Byte)) /\ Len(Entries) = 0
    BY <1>1, <1>2, <1>3, EntriesFacts
  <2>2. LogEntries \in Seq(Seq(Byte)) /\ Len(LogEntries) = 0
    BY <1>1, <1>2, <1>3, LogEntriesFacts
  <2> QED BY <2>1, <2>2, EmptySeq
<1> QED BY <1>1, <1>3, <1>4, FlattenNothing DEF ProgramInv, Written

\* The unpacker does not write.
LEMMA ProgramUnchanged == ProgramInv /\ UNCHANGED program => ProgramInv'
BY DEF ProgramInv, Registered, Called, FirstPasses, Written, Entries, LogEntries,
       CallEntry, Place, program

\* The list of the sites after a pass: the site is on it, and the places of
\* the others are what they were.
LEMMA SitesStep ==
  ASSUME ProgramInv, NEW s \in Site, NEW values \in Passes[s], Call(s, values)
  PROVE  /\ Registered'
         /\ Len(sites) <= Len(sites')
         /\ \A k \in 1 .. Len(sites) : sites'[k] = sites[k] /\ recorded'[k] = recorded[k]
         /\ Contains(sites', s)
         /\ \A k \in Len(sites) + 1 .. Len(sites') : sites'[k] = s /\ recorded'[k] = values
         /\ index_file' = FlattenSeq(Entries')
<1> DEFINE n == Len(sites)
<1>1. n \in Nat /\ Registered
  BY EntriesFacts DEF ProgramInv
<1>2. CASE FirstPass(s)
  <2>1. sites' = Append(sites, s) /\ recorded' = Append(recorded, values)
        /\ index_file' = index_file \o Entry(s, values)
    BY <1>2 DEF Call
  <2>2. values \in Pass
    BY DEF Pass
  <2>3. /\ sites' \in Seq(Site) /\ Len(sites') = n + 1 /\ sites'[n + 1] = s
        /\ \A k \in 1 .. n : sites'[k] = sites[k]
    BY <1>1, <2>1, AppendProperties DEF Registered
  <2>4. /\ recorded' \in Seq(Pass) /\ Len(recorded') = n + 1 /\ recorded'[n + 1] = values
        /\ \A k \in 1 .. n : recorded'[k] = recorded[k]
    BY <1>1, <2>1, <2>2, AppendProperties DEF Registered
  <2>5. \A k \in 1 .. n : sites[k] # s
    BY <1>2 DEF FirstPass, Contains
  <2>6. \A i, j \in 1 .. n : sites[i] = sites[j] => i = j
    BY <1>1 DEF Registered
  <2>7. \A k \in 1 .. n : recorded[k] \in Passes[sites[k]]
    BY <1>1 DEF Registered
  <2> HIDE DEF n
  <2>8. \A k \in 1 .. n + 1 : k \in 1 .. n \/ k = n + 1
    BY <1>1
  <2>9. \A i, j \in 1 .. n + 1 : sites'[i] = sites'[j] => i = j
    BY <2>3, <2>5, <2>6, <2>8
  <2>10. \A k \in 1 .. n + 1 : recorded'[k] \in Passes[sites'[k]]
    BY <2>3, <2>4, <2>7, <2>8
  <2>11. Registered'
    BY <2>3, <2>4, <2>9, <2>10 DEF Registered
  <2>12. Contains(sites', s)
    <3>1. n + 1 \in 1 .. n + 1
      BY <1>1
    <3> QED BY <2>3, <3>1 DEF Contains
  <2>13. /\ Entries \in Seq(Seq(Byte)) /\ Len(Entries) = n
         /\ \A k \in 1 .. n : Entries[k] = Entry(sites[k], recorded[k])
    BY <1>1, EntriesFacts DEF n
  <2>14. /\ Entries' \in Seq(Seq(Byte)) /\ Len(Entries') = n + 1
         /\ \A k \in 1 .. n + 1 : Entries'[k] = Entry(sites'[k], recorded'[k])
    <3>1. EntriesSay'
      BY <2>11, EntriesSaid, PTL
    <3> QED BY <2>3, <3>1 DEF EntriesSay
  <2>15. Entry(s, values) \in Seq(Byte)
    BY EntryIs
  <2> DEFINE e == Entry(s, values)
             longer == Append(Entries, e)
  <2>16. /\ longer \in Seq(Seq(Byte)) /\ Len(longer) = n + 1 /\ longer[n + 1] = e
         /\ \A k \in 1 .. n : longer[k] = Entries[k]
    BY <2>13, <2>15, AppendProperties
  <2>17. \A k \in 1 .. n + 1 : Entries'[k] = longer[k]
    BY <2>3, <2>4, <2>8, <2>13, <2>14, <2>16
  <2> HIDE DEF longer
  <2>18. Entries' = longer
    BY <2>14, <2>16, <2>17, SeqEqual
  <2>19. FlattenSeq(longer) = FlattenSeq(Entries) \o e
    BY <2>13, <2>15, FlattenAppend DEF longer
  <2>20. index_file' = FlattenSeq(Entries')
    BY <2>1, <2>18, <2>19 DEF ProgramInv, Written
  <2>21. \A k \in n + 1 .. n + 1 : sites'[k] = s /\ recorded'[k] = values
    <3> SUFFICES ASSUME NEW k \in n + 1 .. n + 1 PROVE sites'[k] = s /\ recorded'[k] = values
      OBVIOUS
    <3>1. k = n + 1
      BY <1>1
    <3> QED BY <2>3, <2>4, <3>1
  <2>22. n <= n + 1
    BY <1>1
  <2> QED BY <2>3, <2>4, <2>11, <2>12, <2>20, <2>21, <2>22 DEF n
<1>3. CASE ~ FirstPass(s)
  <2>1. sites' = sites /\ recorded' = recorded /\ index_file' = index_file
    BY <1>3 DEF Call
  <2>2. Registered'
    BY <1>1, <2>1 DEF Registered
  <2>3. Contains(sites', s)
    BY <1>3, <2>1 DEF FirstPass
  <2>4. Entries' = Entries
    BY <2>1 DEF Entries
  <2>5. n + 1 .. n = {}
    BY <1>1
  <2> QED BY <1>1, <2>1, <2>2, <2>3, <2>4, <2>5 DEF ProgramInv, Written
<1> QED BY <1>2, <1>3

\* A site on the list keeps its place.
LEMMA PlaceKept ==
  ASSUME Registered', Len(sites) <= Len(sites'), Len(sites) \in Nat, Len(sites') \in Nat,
         \A k \in 1 .. Len(sites) : sites'[k] = sites[k],
         sites \in Seq(Site), NEW s, Contains(sites, s)
  PROVE  PlaceIn(sites', s) = PlaceIn(sites, s)
<1>1. PlaceIn(sites, s) \in 1 .. Len(sites) /\ sites[PlaceIn(sites, s)] = s
  BY PlaceFacts
<1>2. PlaceIn(sites, s) \in 1 .. Len(sites') /\ sites'[PlaceIn(sites, s)] = s
  BY <1>1
<1>3. PlaceIn(sites', s) \in 1 .. Len(sites') /\ sites'[PlaceIn(sites', s)] = s
  <2>1. sites' \in Seq(Site) /\ Contains(sites', s)
    BY <1>2 DEF Registered, Contains
  <2> QED BY <2>1, PlaceFacts
<1> QED BY <1>2, <1>3 DEF Registered

\* A call appends its entry if it is the first of its site, and its values.
LEMMA ProgramCall ==
  ASSUME ProgramInv, NEW s \in Site, NEW values \in Passes[s], Call(s, values)
  PROVE  ProgramInv'
<1> DEFINE n == Len(calls)
           c == [site |-> s, values |-> values]
<1>1. /\ Registered' /\ Len(sites) <= Len(sites') /\ Contains(sites', s)
      /\ \A k \in 1 .. Len(sites) : sites'[k] = sites[k] /\ recorded'[k] = recorded[k]
      /\ \A k \in Len(sites) + 1 .. Len(sites') : sites'[k] = s /\ recorded'[k] = values
      /\ index_file' = FlattenSeq(Entries')
  BY SitesStep
<1>2. Registered /\ Called /\ sites \in Seq(Site) /\ Len(sites) \in Nat /\ Len(sites') \in Nat
  BY <1>1, LenProperties DEF ProgramInv, Registered
<1>3. /\ calls' = Append(calls, c)
      /\ log' = log \o LogEntry(s, IndexOf(s) - 1, values)
  BY DEF Call
<1>4. c \in [site : Site, values : Pass]
  BY DEF Pass
<1>5. n \in Nat
  BY <1>2, LogEntriesFacts
<1>6. /\ calls' \in Seq([site : Site, values : Pass]) /\ Len(calls') = n + 1
      /\ calls'[n + 1] = c /\ \A k \in 1 .. n : calls'[k] = calls[k]
  BY <1>2, <1>3, <1>4, AppendProperties DEF Called
<1>7. \A k \in 1 .. n + 1 : k \in 1 .. n \/ k = n + 1
  BY <1>5
<1>8. ASSUME NEW k \in 1 .. n
      PROVE  /\ Contains(sites, calls[k].site) /\ Contains(sites', calls[k].site)
             /\ calls[k].values \in Passes[calls[k].site]
  <2>1. Contains(sites, calls[k].site) /\ calls[k].values \in Passes[calls[k].site]
    BY <1>2 DEF Called
  <2>2. PICK i \in 1 .. Len(sites) : sites[i] = calls[k].site
    BY <2>1 DEF Contains
  <2>3. i \in 1 .. Len(sites') /\ sites'[i] = calls[k].site
    BY <1>1, <1>2, <2>2
  <2> QED BY <2>1, <2>3 DEF Contains
<1>9. c.site = s /\ c.values = values
  OBVIOUS
<1> HIDE DEF c, n
<1>10. Called'
  BY <1>1, <1>6, <1>7, <1>8, <1>9 DEF Called
<1>11. FirstPasses'
  <2> SUFFICES ASSUME NEW k \in 1 .. Len(sites')
               PROVE  \E i \in 1 .. n + 1 :
                        calls'[i].site = sites'[k] /\ calls'[i].values = recorded'[k]
    BY <1>6 DEF FirstPasses
  <2>1. CASE k \in 1 .. Len(sites)
    <3>1. PICK i \in 1 .. Len(calls) : calls[i].site = sites[k] /\ calls[i].values = recorded[k]
      BY <2>1 DEF ProgramInv, FirstPasses
    <3>2. i \in 1 .. n + 1 /\ calls'[i] = calls[i]
      BY <1>5, <1>6, <3>1 DEF n
    <3> QED BY <1>1, <2>1, <3>1, <3>2
  <2>2. CASE k \notin 1 .. Len(sites)
    <3>1. k \in Len(sites) + 1 .. Len(sites')
      BY <1>2, <2>2
    <3>2. n + 1 \in 1 .. n + 1
      BY <1>5
    <3> QED BY <1>1, <1>6, <1>9, <3>1, <3>2
  <2> QED BY <2>1, <2>2
<1>12. LogEntries' = Append(LogEntries, LogEntry(s, IndexOf(s) - 1, values))
       /\ LogEntry(s, IndexOf(s) - 1, values) \in Seq(Byte)
  <2> DEFINE e == LogEntry(s, IndexOf(s) - 1, values)
             longer == Append(LogEntries, e)
  <2>1. /\ LogEntries \in Seq(Seq(Byte)) /\ Len(LogEntries) = n
        /\ \A k \in 1 .. n : LogEntries[k] = LogEntry(calls[k].site, PlaceIn(sites, calls[k].site) - 1, calls[k].values)
    BY <1>2, LogEntriesFacts DEF CallEntry, Place, n
  <2>3. LogEntriesSay'
    BY <1>1, <1>10, LogEntriesSaid, PTL
  <2>4. /\ LogEntries' \in Seq(Seq(Byte)) /\ Len(LogEntries') = n + 1
        /\ \A k \in 1 .. n + 1 : LogEntries'[k] = LogEntry(calls'[k].site, PlaceIn(sites', calls'[k].site) - 1, calls'[k].values)
    BY <1>6, <2>3 DEF LogEntriesSay
  <2>5. LogEntries'[n + 1] = e
    <3>1. n + 1 \in 1 .. n + 1
      BY <1>5
    <3>2. IndexOf(s) = PlaceIn(sites', s)
      BY DEF IndexOf, PlaceIn
    <3> QED BY <1>6, <1>9, <2>4, <3>1, <3>2
  <2>6. \A k \in 1 .. n : LogEntries'[k] = LogEntries[k]
    <3> SUFFICES ASSUME NEW k \in 1 .. n PROVE LogEntries'[k] = LogEntries[k]
      OBVIOUS
    <3>1. k \in 1 .. n + 1 /\ calls'[k] = calls[k]
      BY <1>5, <1>6
    <3>2. PlaceIn(sites', calls[k].site) = PlaceIn(sites, calls[k].site)
      BY <1>1, <1>2, <1>8, PlaceKept
    <3> QED BY <2>1, <2>4, <3>1, <3>2
  <2>7. e \in Seq(Byte)
    <3>1. n + 1 \in 1 .. n + 1 /\ LogEntries' \in Seq(Seq(Byte)) /\ Len(LogEntries') = n + 1
      BY <1>5, <2>4
    <3>2. LogEntries'[n + 1] \in Seq(Byte)
      BY <3>1, ElementOfSeq
    <3> QED BY <2>5, <3>2
  <2> HIDE DEF e
  <2>8. /\ longer \in Seq(Seq(Byte)) /\ Len(longer) = n + 1 /\ longer[n + 1] = e
        /\ \A k \in 1 .. n : longer[k] = LogEntries[k]
    BY <2>1, <2>7, AppendProperties
  <2> HIDE DEF longer
  <2>9. \A k \in 1 .. n + 1 : LogEntries'[k] = longer[k]
    BY <1>7, <2>5, <2>6, <2>8
  <2>10. LogEntries' = longer
    BY <2>4, <2>8, <2>9, SeqEqual
  <2> QED BY <2>7, <2>10 DEF longer, e
<1>13. log' = FlattenSeq(LogEntries')
  <2> DEFINE e == LogEntry(s, IndexOf(s) - 1, values)
  <2>1. LogEntries \in Seq(Seq(Byte)) /\ e \in Seq(Byte)
    BY <1>2, <1>12, LogEntriesFacts
  <2>2. LogEntries' = Append(LogEntries, e) /\ log' = log \o e /\ log = FlattenSeq(LogEntries)
    BY <1>3, <1>12 DEF ProgramInv, Written
  <2> HIDE DEF e
  <2> QED BY <2>1, <2>2, FlattenAppend
<1> QED BY <1>1, <1>10, <1>11, <1>13 DEF ProgramInv, Written

\* No step breaks what is known of the files.
LEMMA ProgramStep == ProgramInv /\ [Next]_vars => ProgramInv'
<1> SUFFICES ASSUME ProgramInv, [Next]_vars PROVE ProgramInv'
  OBVIOUS
<1>1. CASE \E s \in Site : \E values \in Passes[s] : Call(s, values)
  BY <1>1, ProgramCall
<1>2. CASE Unpack
  BY <1>2, ProgramUnchanged DEF Unpack
<1>3. CASE ParseFormat \/ ParseType \/ ParseArg
  BY <1>3, ProgramUnchanged DEF ParseFormat, ParseType, ParseArg
<1>4. CASE IndexParsed \/ ParseIndex \/ ParseValue
  BY <1>4, ProgramUnchanged DEF IndexParsed, ParseIndex, ParseValue
<1>5. CASE PrintLine \/ LogParsed \/ Derail
  BY <1>5, ProgramUnchanged DEF PrintLine, LogParsed, Derail
<1>6. CASE Terminated \/ UNCHANGED vars
  BY <1>6, ProgramUnchanged DEF Terminated, vars
<1> QED BY <1>1, <1>2, <1>3, <1>4, <1>5, <1>6 DEF Next

-----------------------------------------------------------------------------

(***************************************************************************)
(* The types of what the parsers keep.                                     *)
(***************************************************************************)
KnownArg == [type : ArgTypes, is_constant : BOOLEAN, arg_data : Seq(Byte)]
Known == [format : Seq(Byte), types : Seq(ArgTypes), args : Seq(KnownArg)]

ParserInv ==
  /\ parser \in {"idle", "entry", "types", "args", "log", "values", "done", "derailed"}
  /\ m_index \in 0 .. Len(index_file)
  /\ num_args \in 0 .. CountMod - 1
  /\ table \in Seq(Known)
  /\ parser = "types" =>
       entry \in Known /\ entry.args = <<>> /\ Len(entry.types) < num_args
  /\ parser = "args" =>
       entry \in Known /\ Len(entry.types) = num_args /\ Len(entry.args) < num_args
  /\ m_logfile_index \in 0 .. Len(log)
  /\ current \in 0 .. Len(table)
  /\ parser = "values" =>
       /\ current \in 1 .. Len(table)
       /\ line \in Seq(Seq(Byte)) /\ Len(line) <= Len(table[current].args)
  /\ parser = "idle" =>
       m_index = 0 /\ table = <<>> /\ m_logfile_index = 0 /\ current = 0 /\ printed = <<>>
  /\ parser \in {"entry", "types", "args"} =>
       m_logfile_index = 0 /\ current = 0 /\ printed = <<>>

TypeInv == ProgramInv /\ ParserInv

\* What a byte can be of, by its kind.
LEMMA ByteFacts ==
  ASSUME NEW b \in Byte
  PROVE  /\ b.kind \in {"length", "index"} => b.of \in Nat
         /\ b.kind = "count" => b.of \in 0 .. CountMod - 1
         /\ b.kind = "constness" => b.of \in BOOLEAN
         /\ b.kind = "type" => b.of \in ArgTypes
         /\ b.byte \in Nat \ {0}
BY DEF Byte

\* Where a field is held there is a byte of its kind.
LEMMA HoldsFacts ==
  ASSUME NEW file \in Seq(Byte), NEW pos \in Nat, NEW kind, NEW w \in Nat \ {0},
         Holds(file, pos, kind, w)
  PROVE  /\ pos < Len(file) /\ pos + w <= Len(file)
         /\ file[pos + 1] \in Byte /\ file[pos + 1].kind = kind
<1>1. Len(file) \in Nat
  BY LenProperties
<1>2. 1 \in 1 .. w /\ pos + w <= Len(file) /\ file[pos + 1].kind = kind
  BY DEF Holds
<1>3. pos + 1 \in 1 .. Len(file) /\ pos < Len(file)
  BY <1>1, <1>2
<1>4. file[pos + 1] \in Byte
  BY <1>3, ElementOfSeq
<1> QED BY <1>2, <1>3, <1>4

\* Bytes taken from inside a file are bytes.
LEMMA BytesType ==
  ASSUME NEW file \in Seq(Byte), NEW pos \in Nat, NEW w \in Nat, pos + w <= Len(file)
  PROVE  Bytes(file, pos, w) \in Seq(Byte)
<1>1. Len(file) \in Nat
  BY LenProperties
<1> DEFINE a == pos + 1
           b == pos + w
<1>2. a \in Int /\ b \in Int /\ \A i \in a .. b : i \in 1 .. Len(file)
  BY <1>1
<1>3. \A i \in a .. b : file[i] \in Byte
  BY <1>2, ElementOfSeq
<1> HIDE DEF a, b
<1>4. SubSeq(file, a, b) \in Seq(Byte)
  BY <1>2, <1>3, SubSeqProperties
<1> QED BY <1>4 DEF Bytes, a, b

\* The parser knows a size for every type it may read, and it is not zero.
LEMMA SizeFacts == \A type : sizeof_arg_type(type) \in Nat \ {0}
BY DEF sizeof_arg_type

\* A value that is there is inside the file.
LEMMA ValueFacts ==
  ASSUME NEW file \in Seq(Byte), NEW pos \in Nat, NEW type, HoldsValue(file, pos, type)
  PROVE  /\ ValueSize(file, pos, type) \in Nat \ {0}
         /\ pos + ValueSize(file, pos, type) <= Len(file)
         /\ ValueBytes(file, pos, type) \in Seq(Byte)
<1>1. CASE type = "type_string"
  <2> DEFINE n == file[pos + 1].of
  <2>1. Holds(file, pos, "length", 2) /\ Holds(file, pos + 2, "value", n)
    BY <1>1 DEF HoldsValue, HoldsString
  <2>2. n \in Nat
    <3>1. file[pos + 1] \in Byte /\ file[pos + 1].kind = "length"
      BY <2>1, HoldsFacts
    <3> QED BY <3>1, ByteFacts
  <2>3. ValueSize(file, pos, type) = 2 + n
        /\ ValueBytes(file, pos, type) = Bytes(file, pos + 2, n)
    BY <1>1 DEF ValueSize, ValueBytes, StringBytes
  <2> HIDE DEF n
  <2>4. pos + 2 + n <= Len(file) /\ pos + 2 \in Nat
    BY <2>1 DEF Holds
  <2>5. Bytes(file, pos + 2, n) \in Seq(Byte)
    BY <2>2, <2>4, BytesType
  <2>6. 2 + n \in Nat \ {0} /\ pos + (2 + n) = pos + 2 + n
    BY <2>2
  <2> QED BY <2>3, <2>4, <2>5, <2>6
<1>2. CASE type # "type_string"
  <2> DEFINE w == sizeof_arg_type(type)
  <2>1. w \in Nat \ {0}
    BY SizeFacts
  <2>2. /\ Holds(file, pos, "value", w) /\ ValueSize(file, pos, type) = w
        /\ ValueBytes(file, pos, type) = Bytes(file, pos, w)
    BY <1>2 DEF HoldsValue, ValueSize, ValueBytes
  <2> HIDE DEF w
  <2>3. pos + w <= Len(file)
    BY <2>2 DEF Holds
  <2>4. Bytes(file, pos, w) \in Seq(Byte)
    BY <2>1, <2>3, BytesType
  <2> QED BY <2>1, <2>2, <2>3, <2>4
<1> QED BY <1>1, <1>2

-----------------------------------------------------------------------------

Sized == Len(index_file) \in Nat /\ Len(log) \in Nat

\* FilesFacts on the lengths, as an implication between state predicates.
LEMMA FilesSized == ProgramInv => Sized
BY FilesFacts DEF Sized

\* At first the parsers have read nothing.
LEMMA ParserInit == Init => ParserInv
<1> SUFFICES ASSUME Init PROVE ParserInv
  OBVIOUS
<1>1. /\ parser = "idle" /\ m_index = 0 /\ num_args = 0 /\ table = <<>>
      /\ m_logfile_index = 0 /\ current = 0 /\ printed = <<>>
      /\ index_file = <<>> /\ log = <<>>
  BY DEF Init
<1>2. Len(<<>>) = 0 /\ 0 \in 0 .. 0 /\ <<>> \in Seq(Known) /\ 0 \in 0 .. CountMod - 1
  BY CodecAssumption, EmptySeq
<1> QED BY <1>1, <1>2 DEF ParserInv

\* A stuttering step changes no types.
LEMMA ParserUnchanged == ParserInv /\ UNCHANGED vars => ParserInv'
BY DEF ParserInv, vars, program, indexParser, logParser

\* While the files grow the parsers are at their beginnings.
LEMMA ParserCall ==
  ASSUME TypeInv, ProgramInv', NEW s \in Site, NEW values \in Passes[s], Call(s, values)
  PROVE  ParserInv'
<1>1. /\ parser = "idle" /\ parser' = "idle" /\ m_index' = m_index /\ table' = table
      /\ num_args' = num_args /\ m_logfile_index' = m_logfile_index /\ current' = current
      /\ printed' = printed
  BY DEF Call, indexParser, logParser
<1>3. Sized'
  BY FilesSized, PTL
<1>4. 0 \in 0 .. Len(index_file') /\ 0 \in 0 .. Len(log') /\ 0 \in 0 .. Len(<<>>)
  BY <1>3, EmptySeq DEF Sized
<1> QED BY <1>1, <1>4 DEF TypeInv, ParserInv

\* A format string and a number of arguments are read inside the file.
LEMMA ParserFormat == TypeInv /\ ParseFormat => ParserInv'
<1> SUFFICES ASSUME TypeInv, ParseFormat PROVE ParserInv'
  OBVIOUS
<1> DEFINE n == index_file[m_index + 1].of
           at == CountAt
<1>1. /\ index_file \in Seq(Byte) /\ Len(index_file) \in Nat /\ m_index \in Nat
      /\ log' = log /\ index_file' = index_file
  BY FilesFacts DEF TypeInv, ParserInv, ParseFormat, program
<1>2. Holds(index_file, m_index, "length", 2) /\ Holds(index_file, m_index + 2, "text", n)
      /\ Holds(index_file, at, "count", 1)
  BY DEF ParseFormat, OnFormat, HoldsString
<1>3. n \in Nat
  <2>1. index_file[m_index + 1] \in Byte /\ index_file[m_index + 1].kind = "length"
    BY <1>1, <1>2, HoldsFacts
  <2> QED BY <2>1, ByteFacts
<1>4. at = m_index + 2 + n
  BY DEF CountAt
<1> HIDE DEF at, n
<1>5. at \in Nat
  BY <1>1, <1>3, <1>4
<1>6. at + 1 <= Len(index_file) /\ index_file[at + 1] \in Byte
      /\ index_file[at + 1].kind = "count"
  BY <1>1, <1>2, <1>5, HoldsFacts
<1>7. index_file[at + 1].of \in 0 .. CountMod - 1
  BY <1>6, ByteFacts
<1>8. StringBytes(index_file, m_index) \in Seq(Byte)
  <2>1. m_index + 2 + n <= Len(index_file) /\ m_index + 2 \in Nat
    BY <1>1, <1>2 DEF Holds
  <2>2. Bytes(index_file, m_index + 2, n) \in Seq(Byte)
    BY <1>1, <1>3, <2>1, BytesType
  <2> QED BY <2>2 DEF StringBytes, n
<1>9. /\ parser = "entry" /\ num_args' = index_file[at + 1].of
      /\ entry' = [format |-> StringBytes(index_file, m_index), types |-> <<>>, args |-> <<>>]
      /\ m_index' = at + 1
      /\ IF num_args' = 0
         THEN table' = Append(table, entry') /\ UNCHANGED parser
         ELSE parser' = "types" /\ UNCHANGED table
      /\ UNCHANGED logParser
  BY DEF ParseFormat, at
<1>10. m_index' \in 0 .. Len(index_file') /\ num_args' \in 0 .. CountMod - 1
  BY <1>1, <1>5, <1>6, <1>7, <1>9
<1>11. entry' \in Known /\ entry'.args = <<>> /\ entry'.types = <<>> /\ Len(<<>>) = 0
  BY <1>8, <1>9, EmptySeq DEF Known
<1>12. m_logfile_index' = 0 /\ current' = 0 /\ printed' = <<>> /\ table \in Seq(Known)
  BY <1>9 DEF TypeInv, ParserInv, logParser
<1>13. 0 \in 0 .. Len(log')
  BY <1>1, FilesFacts DEF TypeInv
<1>14. CASE num_args' = 0
  <2>1. parser' = "entry" /\ table' = Append(table, entry')
    BY <1>9, <1>14
  <2>2. table' \in Seq(Known)
    BY <1>11, <1>12, <2>1, AppendProperties
  <2>3. 0 \in 0 .. Len(table')
    BY <2>2, LenProperties
  <2> QED BY <1>10, <1>12, <1>13, <2>1, <2>2, <2>3 DEF ParserInv
<1>15. CASE num_args' # 0
  <2>1. parser' = "types" /\ table' = table
    BY <1>9, <1>15
  <2>2. 0 \in 0 .. Len(table')
    BY <1>12, <2>1, LenProperties
  <2>3. Len(entry'.types) < num_args'
    BY <1>10, <1>11, <1>15
  <2> QED BY <1>10, <1>11, <1>12, <1>13, <2>1, <2>2, <2>3 DEF ParserInv
<1> QED BY <1>14, <1>15

\* A type is read inside the file, and not more of them than are counted.
LEMMA ParserType == TypeInv /\ ParseType => ParserInv'
<1> SUFFICES ASSUME TypeInv, ParseType PROVE ParserInv'
  OBVIOUS
<1> DEFINE b == index_file[m_index + 1]
           types == entry.types
<1>1. /\ index_file \in Seq(Byte) /\ Len(index_file) \in Nat /\ m_index \in Nat
      /\ log' = log /\ index_file' = index_file
  BY FilesFacts DEF TypeInv, ParserInv, ParseType, program
<1>2. m_index + 1 <= Len(index_file) /\ b \in Byte /\ b.kind = "type"
  BY <1>1, HoldsFacts DEF ParseType
<1>3. b.of \in ArgTypes
  BY <1>2, ByteFacts
<1>4. /\ parser = "types" /\ entry' = [entry EXCEPT !.types = Append(types, b.of)]
      /\ m_index' = m_index + 1
      /\ parser' = IF Len(entry'.types) = num_args THEN "args" ELSE "types"
      /\ UNCHANGED <<num_args, table, logParser>>
  BY DEF ParseType
<1>5. /\ entry \in Known /\ entry.args = <<>> /\ Len(types) < num_args
      /\ num_args \in 0 .. CountMod - 1
  BY <1>4 DEF TypeInv, ParserInv
<1>6. types \in Seq(ArgTypes) /\ Len(types) \in Nat
  BY <1>5, LenProperties DEF Known
<1>7. Append(types, b.of) \in Seq(ArgTypes) /\ Len(Append(types, b.of)) = Len(types) + 1
  BY <1>3, <1>6, AppendProperties
<1> HIDE DEF b
<1>8. entry' \in Known /\ entry'.args = <<>> /\ entry'.types = Append(types, b.of)
  BY <1>4, <1>5, <1>7 DEF Known
<1>9. num_args \in Nat /\ Len(entry'.types) <= num_args
  <2> HIDE DEF types
  <2>1. num_args \in Nat /\ Len(types) + 1 <= num_args
    BY <1>5, <1>6, CodecAssumption
  <2> QED BY <1>7, <1>8, <2>1
<1>10. m_index' \in 0 .. Len(index_file')
  BY <1>1, <1>2, <1>4
<1>11. /\ m_logfile_index' = 0 /\ current' = 0 /\ printed' = <<>> /\ table' \in Seq(Known)
       /\ current' \in 0 .. Len(table') /\ m_logfile_index' \in 0 .. Len(log')
       /\ num_args' = num_args
  BY <1>1, <1>4 DEF TypeInv, ParserInv, logParser
<1>12. Len(<<>>) = 0 /\ Len(entry'.types) \in Nat
  BY <1>6, <1>7, <1>8, EmptySeq
<1>13. CASE Len(entry'.types) = num_args
  <2>1. parser' = "args"
    BY <1>4, <1>13
  <2>2. Len(entry'.args) < num_args
    <3>1. num_args # 0
      BY <1>6, <1>7, <1>8, <1>13
    <3> QED BY <1>8, <1>9, <1>12, <3>1
  <2> QED BY <1>5, <1>8, <1>10, <1>11, <1>13, <2>1, <2>2 DEF ParserInv
<1>14. CASE Len(entry'.types) # num_args
  <2>1. parser' = "types"
    BY <1>4, <1>14
  <2>2. Len(entry'.types) < num_args
    BY <1>9, <1>12, <1>14
  <2> QED BY <1>5, <1>8, <1>10, <1>11, <2>1, <2>2 DEF ParserInv
<1> QED BY <1>13, <1>14

\* An argument is read inside the file, and not more than are counted.
LEMMA ParserArg == TypeInv /\ ParseArg => ParserInv'
<1> SUFFICES ASSUME TypeInv, ParseArg PROVE ParserInv'
  OBVIOUS
<1> DEFINE c == IsConstant
           type == TypeOfNextArg
           value == IF c THEN ValueBytes(index_file, m_index + 1, type) ELSE <<>>
           size == IF c THEN ValueSize(index_file, m_index + 1, type) ELSE 0
           arg == [type |-> type, is_constant |-> c, arg_data |-> value]
           args == entry.args
<1>1. /\ index_file \in Seq(Byte) /\ Len(index_file) \in Nat /\ m_index \in Nat
      /\ log' = log /\ index_file' = index_file
  BY FilesFacts DEF TypeInv, ParserInv, ParseArg, program
<1>2. /\ parser = "args" /\ OnArg
      /\ entry' = [entry EXCEPT !.args = Append(args, arg)]
      /\ m_index' = m_index + 1 + size
      /\ IF Len(entry'.args) = num_args
         THEN table' = Append(table, entry') /\ parser' = "entry"
         ELSE UNCHANGED <<table, parser>>
      /\ UNCHANGED <<num_args, logParser>>
  BY DEF ParseArg
<1>3. /\ entry \in Known /\ Len(entry.types) = num_args /\ Len(args) < num_args
      /\ num_args \in 0 .. CountMod - 1
  BY <1>2 DEF TypeInv, ParserInv
<1>4. /\ args \in Seq(KnownArg) /\ Len(args) \in Nat /\ entry.types \in Seq(ArgTypes)
      /\ num_args \in Nat
  BY <1>3, LenProperties, CodecAssumption DEF Known
<1>5. type \in ArgTypes
  <2>1. Len(args) + 1 \in 1 .. Len(entry.types)
    BY <1>3, <1>4
  <2>2. entry.types[Len(args) + 1] \in ArgTypes
    BY <1>4, <2>1, ElementOfSeq
  <2> QED BY <2>2 DEF TypeOfNextArg
<1>6. /\ m_index + 1 <= Len(index_file) /\ c \in BOOLEAN
  <2>1. /\ m_index + 1 <= Len(index_file) /\ index_file[m_index + 1] \in Byte
        /\ index_file[m_index + 1].kind = "constness"
    BY <1>1, <1>2, HoldsFacts DEF OnArg
  <2> QED BY <2>1, ByteFacts DEF IsConstant
<1>7. c => HoldsValue(index_file, m_index + 1, type)
  BY <1>2 DEF OnArg
<1> HIDE DEF c, type
<1>8. size \in Nat /\ m_index + 1 + size <= Len(index_file) /\ value \in Seq(Byte)
  <2>1. CASE c
    <3>1. m_index + 1 \in Nat
      BY <1>1
    <3> QED BY <1>1, <1>7, <2>1, <3>1, ValueFacts
  <2>2. CASE ~ c
    BY <1>1, <1>6, <2>2, EmptySeq
  <2> QED BY <2>1, <2>2
<1> HIDE DEF value, size
<1>9. arg \in KnownArg
  BY <1>5, <1>6, <1>8 DEF KnownArg
<1> HIDE DEF arg
<1>10. Append(args, arg) \in Seq(KnownArg) /\ Len(Append(args, arg)) = Len(args) + 1
  BY <1>4, <1>9, AppendProperties
<1>11. entry' \in Known /\ entry'.types = entry.types /\ entry'.args = Append(args, arg)
  BY <1>2, <1>3, <1>10 DEF Known
<1>12. m_index' \in 0 .. Len(index_file')
  BY <1>1, <1>2, <1>8
<1>13. /\ m_logfile_index' = 0 /\ current' = 0 /\ printed' = <<>> /\ table \in Seq(Known)
       /\ m_logfile_index' \in 0 .. Len(log')
       /\ num_args' = num_args
  BY <1>1, <1>2 DEF TypeInv, ParserInv, logParser
<1>14. CASE Len(entry'.args) = num_args
  <2>1. parser' = "entry" /\ table' = Append(table, entry')
    BY <1>2, <1>14
  <2>2. table' \in Seq(Known)
    BY <1>11, <1>13, <2>1, AppendProperties
  <2>3. 0 \in 0 .. Len(table')
    BY <2>2, LenProperties
  <2> QED BY <1>3, <1>12, <1>13, <2>1, <2>2, <2>3 DEF ParserInv
<1>15. CASE Len(entry'.args) # num_args
  <2>1. parser' = "args" /\ table' = table
    BY <1>2, <1>15
  <2>2. Len(entry'.args) < num_args
    <3> HIDE DEF args
    <3> QED BY <1>3, <1>4, <1>10, <1>11, <1>15
  <2>3. 0 \in 0 .. Len(table')
    BY <1>13, <2>1, LenProperties
  <2> QED BY <1>3, <1>11, <1>12, <1>13, <2>1, <2>2, <2>3 DEF ParserInv
<1> QED BY <1>14, <1>15

\* An index leads into the table.
LEMMA ParserIndex == TypeInv /\ ParseIndex => ParserInv'
<1> SUFFICES ASSUME TypeInv, ParseIndex PROVE ParserInv'
  OBVIOUS
<1> DEFINE b == log[m_logfile_index + 1]
<1>1. log \in Seq(Byte) /\ Len(log) \in Nat /\ m_logfile_index \in Nat
  BY FilesFacts DEF TypeInv, ParserInv
<1>2. m_logfile_index + 2 <= Len(log) /\ b \in Byte /\ b.kind = "index"
  BY <1>1, HoldsFacts DEF ParseIndex, OnIndex
<1>3. b.of \in Nat /\ b.of < Len(table)
  BY <1>2, ByteFacts DEF ParseIndex, OnIndex
<1>4. table \in Seq(Known) /\ Len(table) \in Nat
  BY LenProperties DEF TypeInv, ParserInv
<1>5. /\ current' = b.of + 1 /\ line' = <<>> /\ m_logfile_index' = m_logfile_index + 2
      /\ parser' = "values" /\ UNCHANGED <<program, indexParser, printed>>
  BY DEF ParseIndex
<1> HIDE DEF b
<1>6. current' \in 1 .. Len(table) /\ current' \in 0 .. Len(table)
  BY <1>3, <1>4, <1>5
<1>7. m_logfile_index' \in 0 .. Len(log)
  BY <1>1, <1>2, <1>5
<1>8. line' \in Seq(Seq(Byte)) /\ Len(line') = 0
  BY <1>5, EmptySeq
<1>9. Len(table[current'].args) \in Nat
  <2>1. table[current'] \in Known
    BY <1>4, <1>6, ElementOfSeq
  <2> QED BY <2>1, LenProperties DEF Known
<1>10. Len(line') <= Len(table[current'].args)
  BY <1>8, <1>9
<1> QED BY <1>5, <1>6, <1>7, <1>8, <1>10 DEF TypeInv, ParserInv, program, indexParser

\* A value is read inside the file, and not more than the entry has.
LEMMA ParserValue == TypeInv /\ ParseValue => ParserInv'
<1> SUFFICES ASSUME TypeInv, ParseValue PROVE ParserInv'
  OBVIOUS
<1> DEFINE args == table[current].args
           arg == ArgInfo
<1>1. log \in Seq(Byte) /\ Len(log) \in Nat /\ m_logfile_index \in Nat
      /\ m_logfile_index <= Len(log)
  BY FilesFacts DEF TypeInv, ParserInv
<1>2. /\ parser = "values" /\ Len(line) < Len(args)
      /\ IF arg.is_constant
         THEN line' = Append(line, arg.arg_data) /\ UNCHANGED m_logfile_index
         ELSE /\ HoldsValue(log, m_logfile_index, arg.type)
              /\ line' = Append(line, ValueBytes(log, m_logfile_index, arg.type))
              /\ m_logfile_index' =
                   m_logfile_index + ValueSize(log, m_logfile_index, arg.type)
      /\ UNCHANGED <<program, parser, indexParser, current, printed>>
  BY DEF ParseValue
<1>3. /\ current \in 1 .. Len(table) /\ line \in Seq(Seq(Byte)) /\ table \in Seq(Known)
  BY <1>2 DEF TypeInv, ParserInv
<1>4. args \in Seq(KnownArg) /\ Len(args) \in Nat /\ Len(line) \in Nat
  <2>1. table[current] \in Known
    BY <1>3, ElementOfSeq
  <2> QED BY <1>3, <2>1, LenProperties DEF Known
<1>5. arg \in KnownArg
  <2>1. Len(line) + 1 \in 1 .. Len(args)
    BY <1>2, <1>4
  <2>2. args[Len(line) + 1] \in KnownArg
    BY <1>4, <2>1, ElementOfSeq
  <2> QED BY <2>2 DEF ArgInfo
<1> HIDE DEF arg
<1>6. /\ line' \in Seq(Seq(Byte)) /\ Len(line') = Len(line) + 1
      /\ m_logfile_index' \in 0 .. Len(log)
  <2>1. CASE arg.is_constant
    <3>1. arg.arg_data \in Seq(Byte)
      BY <1>5 DEF KnownArg
    <3>2. line' = Append(line, arg.arg_data) /\ m_logfile_index' = m_logfile_index
      BY <1>2, <2>1
    <3> QED BY <1>1, <1>3, <3>1, <3>2, AppendProperties
  <2>2. CASE ~ arg.is_constant
    <3> DEFINE w == ValueSize(log, m_logfile_index, arg.type)
               v == ValueBytes(log, m_logfile_index, arg.type)
    <3>1. line' = Append(line, v) /\ m_logfile_index' = m_logfile_index + w
          /\ HoldsValue(log, m_logfile_index, arg.type)
      BY <1>2, <2>2
    <3>2. w \in Nat \ {0} /\ m_logfile_index + w <= Len(log) /\ v \in Seq(Byte)
      BY <1>1, <3>1, ValueFacts
    <3> HIDE DEF v, w
    <3> QED BY <1>1, <1>3, <3>1, <3>2, AppendProperties
  <2> QED BY <2>1, <2>2
<1>7. Len(line') <= Len(args)
  BY <1>2, <1>4, <1>6
<1> QED BY <1>2, <1>6, <1>7 DEF TypeInv, ParserInv, program, indexParser

\* No step breaks the types of what the parsers keep.
LEMMA ParserStep == TypeInv /\ ProgramInv' /\ [Next]_vars => ParserInv'
<1> SUFFICES ASSUME TypeInv, ProgramInv', [Next]_vars PROVE ParserInv'
  OBVIOUS
<1>1. CASE \E s \in Site : \E values \in Passes[s] : Call(s, values)
  BY <1>1, ParserCall
<1>2. CASE Unpack \/ IndexParsed
  BY <1>2 DEF TypeInv, ParserInv, Unpack, IndexParsed, program, indexParser, logParser
<1>3. CASE ParseFormat \/ ParseType \/ ParseArg \/ ParseIndex \/ ParseValue
  BY <1>3, ParserFormat, ParserType, ParserArg, ParserIndex, ParserValue
<1>4. CASE PrintLine
  BY <1>4 DEF TypeInv, ParserInv, PrintLine, program, indexParser
<1>5. CASE LogParsed \/ Derail
  BY <1>5 DEF TypeInv, ParserInv, LogParsed, Derail, program, indexParser, logParser
<1>6. CASE Terminated \/ UNCHANGED vars
  BY <1>6, ParserUnchanged DEF TypeInv, Terminated
<1> QED BY <1>1, <1>2, <1>3, <1>4, <1>5, <1>6 DEF Next

\* The files and the parsers at first ...
LEMMA TypeInvInit == Init => TypeInv
BY ProgramInit, ParserInit DEF TypeInv

\* ... and after every step ...
LEMMA TypeInvStep == TypeInv /\ [Next]_vars => TypeInv'
<1>1. TypeInv => ProgramInv
  BY DEF TypeInv
<1>2. TypeInv' <=> ProgramInv' /\ ParserInv'
  BY DEF TypeInv
<1> QED BY <1>1, <1>2, ProgramStep, ParserStep

\* ... hence always.
LEMMA TypeInvHolds == Spec => []TypeInv
BY TypeInvInit, TypeInvStep, PTL DEF Spec

\* TypeOK says no more than this.
LEMMA TypeInvTypeOK == TypeInv => TypeOK
<1> SUFFICES ASSUME TypeInv PROVE TypeOK
  OBVIOUS
<1>1. /\ index_file \in Seq(Byte) /\ log \in Seq(Byte)
      /\ DOMAIN index_file = 1 .. Len(index_file) /\ DOMAIN log = 1 .. Len(log)
  BY FilesFacts, LenProperties DEF TypeInv
<1>2. \A file \in {index_file, log} : \A k \in DOMAIN file : file[k].byte \in Nat \ {0}
  <2> SUFFICES ASSUME NEW file \in Seq(Byte), NEW k \in 1 .. Len(file)
               PROVE  file[k].byte \in Nat \ {0}
    BY <1>1
  <2>1. file[k] \in Byte
    BY ElementOfSeq
  <2> QED BY <2>1, ByteFacts
<1>3. sites \in Seq(Site) /\ IsInjective(sites) /\ Len(recorded) = Len(sites)
      /\ \A k \in DOMAIN sites : recorded[k] \in Passes[sites[k]]
  <2>1. Registered
    BY DEF TypeInv, ProgramInv
  <2>2. sites \in Seq(Site) /\ DOMAIN sites = 1 .. Len(sites)
    BY <2>1, LenProperties DEF Registered
  <2> QED BY <2>1, <2>2 DEF Registered, IsInjective
<1>4. \A k \in DOMAIN calls :
        Contains(sites, calls[k].site) /\ calls[k].values \in Passes[calls[k].site]
  <2>1. Called
    BY DEF TypeInv, ProgramInv
  <2>2. DOMAIN calls = 1 .. Len(calls)
    BY <2>1, LenProperties DEF Called
  <2> QED BY <2>1, <2>2 DEF Called
<1> QED BY <1>2, <1>3, <1>4 DEF TypeInv, ParserInv, TypeOK

(* The types of the files and of the parsers' state, for every set of call  *)
(* sites, every width of a length and of a count, and any number of calls.  *)
THEOREM TypeCorrect == Spec => []TypeOK
BY TypeInvHolds, TypeInvTypeOK, PTL

-----------------------------------------------------------------------------

(***************************************************************************)
(* Where index_file_parser is.                                             *)
(***************************************************************************)
ArgRead(s, values, k) ==
  [type |-> get_arg_type(s.args[k].type),
   is_constant |-> s.args[k].constant,
   arg_data |-> IF s.args[k].constant THEN Stored(s.args[k], values[k]) ELSE <<>>]

\* An entry tells of a site as much as it has.
Reads(e, s, values) ==
  /\ e.format = Field("text", s.format, Cut(s.length))
  /\ \A k \in 1 .. Len(e.types) : e.types[k] = get_arg_type(s.args[k].type)
  /\ \A k \in 1 .. Len(e.args) : e.args[k] = ArgRead(s, values, k)

\* No constant among the first n arguments is too long.
Short(s, values, n) ==
  \A k \in 1 .. n : ~ (s.args[k].constant /\ Long(s.args[k], values[k]))

\* The parser gets over an entry that counts all arguments, and over one that
\* counts none and has none.
Whole(s, values) ==
  \/ Count(s) = 0
  \/ Count(s) = Len(s.args) /\ Short(s, values, Len(s.args))

Complete(e, s, values) ==
  /\ Reads(e, s, values)
  /\ Len(e.types) = Count(s) /\ Len(e.args) = Count(s)
  /\ Whole(s, values)

TableRead ==
  /\ Len(table) <= Len(sites)
  /\ \A k \in 1 .. Len(table) : Complete(table[k], sites[k], recorded[k])

\* The site whose entry is parsed, what its first pass was, and what follows.
Here == sites[Len(table) + 1]
Values == recorded[Len(table) + 1]
Behind == Rest(Entries, Len(table) + 1)

AtEntry == Ahead(index_file, m_index, Rest(Entries, Len(table)))

AtTypes ==
  /\ Len(table) < Len(sites)
  /\ num_args = Count(Here) /\ Reads(entry, Here, Values)
  /\ Ahead(index_file, m_index,
           Rest(TypeParts(Here), Len(entry.types))
             \o (FlattenSeq(ConstParts(Here, Values)) \o Behind))

AtArgs ==
  /\ Len(table) < Len(sites)
  /\ num_args = Count(Here) /\ Count(Here) = Len(Here.args)
  /\ Reads(entry, Here, Values) /\ Short(Here, Values, Len(entry.args))
  /\ Ahead(index_file, m_index, Rest(ConstParts(Here, Values), Len(entry.args)) \o Behind)

\* Bytes come next that were not counted.
Stuck ==
  /\ m_index < Len(index_file) /\ index_file[m_index + 1].kind \in {"type", "value"}
  /\ ~ AllRepresentable

Jammed == m_index < Len(index_file) /\ ~ AllRepresentable

IndexRead == TableRead /\ m_index = Len(index_file) /\ Len(table) = Len(sites)

IndexTrack ==
  /\ parser = "entry" => (TableRead /\ AtEntry) \/ Stuck
  /\ parser = "types" => TableRead /\ AtTypes
  /\ parser = "args" => (TableRead /\ AtArgs) \/ Stuck
  /\ parser \in {"log", "values", "done"} => IndexRead
  /\ parser = "derailed" => IndexRead \/ Jammed

\* Representable in terms of what the bytes count.
LEMMA RepresentableFacts ==
  ASSUME NEW s \in Site, NEW values \in Passes[s]
  PROVE  /\ Representable(s, values)
              <=> Count(s) = Len(s.args) /\ Short(s, values, Len(s.args))
         /\ Representable(s, values) => Whole(s, values)
<1>1. LengthMod \in Nat /\ DOMAIN s.args = 1 .. Len(s.args)
      /\ \A k \in 1 .. Len(s.args) : values[k].length \in Nat
  BY CodecAssumption, SiteFacts
<1>2. Len(s.args) < CountMod <=> Count(s) = Len(s.args)
  BY CountFacts
<1>3. (\A k \in DOMAIN s.args :
         s.args[k].constant /\ s.args[k].type \in Strings \ {"const char*"}
           => values[k].length < LengthMod)
        <=> Short(s, values, Len(s.args))
  <2>1. ASSUME NEW k \in 1 .. Len(s.args)
        PROVE  values[k].length < LengthMod <=> ~ (values[k].length >= LengthMod)
    <3> DEFINE n == values[k].length
    <3>1. n \in Nat /\ LengthMod \in Nat
      BY <1>1
    <3> HIDE DEF n
    <3>2. n < LengthMod <=> ~ (n >= LengthMod)
      BY <3>1
    <3> QED BY <3>2 DEF n
  <2> QED BY <1>1, <2>1 DEF Short, Long
<1>4. Representable(s, values) <=> Count(s) = Len(s.args) /\ Short(s, values, Len(s.args))
  BY <1>2, <1>3 DEF Representable
<1> QED BY <1>4 DEF Whole

\* One site that is not representable is enough.
LEMMA NotAll ==
  ASSUME Registered, NEW k \in 1 .. Len(sites), ~ Representable(sites[k], recorded[k])
  PROVE  ~ AllRepresentable
<1>1. DOMAIN sites = 1 .. Len(sites)
  BY LenProperties DEF Registered
<1> QED BY <1>1 DEF AllRepresentable

\* The site at hand.
LEMMA HereFacts ==
  ASSUME TypeInv, Len(table) < Len(sites)
  PROVE  /\ Len(table) \in Nat /\ Len(table) + 1 \in 1 .. Len(sites)
         /\ Here \in Site /\ Values \in Passes[Here]
         /\ Behind \in Seq(Byte)
         /\ Rest(Entries, Len(table)) = Entry(Here, Values) \o Behind
<1> DEFINE j == Len(table)
<1>1. j \in Nat /\ Len(sites) \in Nat /\ Registered
  BY LenProperties, EntriesFacts DEF TypeInv, ParserInv, ProgramInv
<1>2. j + 1 \in 1 .. Len(sites)
  BY <1>1
<1>3. /\ Entries \in Seq(Seq(Byte)) /\ Len(Entries) = Len(sites)
      /\ Entries[j + 1] = Entry(sites[j + 1], recorded[j + 1])
      /\ sites[j + 1] \in Site /\ recorded[j + 1] \in Passes[sites[j + 1]]
  BY <1>1, <1>2, EntriesFacts
<1> HIDE DEF j
<1>4. Rest(Entries, j) = Entries[j + 1] \o Rest(Entries, j + 1)
  <2>1. j < Len(Entries)
    BY <1>3 DEF j
  <2> QED BY <1>1, <1>3, <2>1, RestStep
<1>5. Rest(Entries, j + 1) \in Seq(Byte)
  <2>1. j + 1 \in 0 .. Len(Entries)
    BY <1>1, <1>2, <1>3
  <2> QED BY <1>3, <2>1, RestType
<1> QED BY <1>1, <1>2, <1>3, <1>4, <1>5 DEF Here, Values, Behind, j

\* Between entries: the file ends where the sites do, else the next entry comes.
LEMMA EntryAhead ==
  ASSUME TypeInv, TableRead, AtEntry
  PROVE  /\ m_index < Len(index_file) <=> Len(table) < Len(sites)
         /\ Len(table) < Len(sites) =>
              /\ OnFormat
              /\ StringBytes(index_file, m_index) = Field("text", Here.format, Cut(Here.length))
              /\ index_file[CountAt + 1].of = Count(Here)
              /\ Ahead(index_file, CountAt + 1, Args(Here, Values) \o Behind)
<1>1. /\ index_file \in Seq(Byte) /\ Len(index_file) \in Nat /\ m_index \in Nat
      /\ Len(table) \in Nat /\ Len(sites) \in Nat
  BY FilesFacts, EntriesFacts, LenProperties DEF TypeInv, ParserInv, ProgramInv
<1>2. ASSUME Len(table) < Len(sites)
      PROVE  /\ m_index < Len(index_file) /\ OnFormat
             /\ StringBytes(index_file, m_index) = Field("text", Here.format, Cut(Here.length))
             /\ index_file[CountAt + 1].of = Count(Here)
             /\ Ahead(index_file, CountAt + 1, Args(Here, Values) \o Behind)
  <2> DEFINE at == CountAt
             b == Behind
             s == Here
             values == Values
  <2>1. /\ s \in Site /\ values \in Passes[s] /\ b \in Seq(Byte)
        /\ Ahead(index_file, m_index, Entry(s, values) \o b)
    BY <1>2, HereFacts DEF AtEntry
  <2>2. at = m_index + 2 + index_file[m_index + 1].of
    BY DEF CountAt
  <2> HIDE DEF at, b, s, values
  <2>3. /\ HoldsString(index_file, m_index, "text")
        /\ StringBytes(index_file, m_index) = Field("text", s.format, Cut(s.length))
        /\ Holds(index_file, at, "count", 1)
        /\ index_file[at + 1].of = Count(s)
        /\ Ahead(index_file, at + 1, Args(s, values) \o b)
        /\ m_index < Len(index_file)
    BY <1>1, <2>1, <2>2, AheadEntry
  <2> QED BY <2>3 DEF OnFormat, at, b, s, values
<1>3. ASSUME ~ (Len(table) < Len(sites)) PROVE ~ (m_index < Len(index_file))
  <2>1. Len(table) = Len(Entries) /\ Entries \in Seq(Seq(Byte))
    BY <1>1, <1>3, EntriesFacts DEF TableRead, TypeInv, ProgramInv
  <2>2. Rest(Entries, Len(table)) = <<>>
    BY <2>1, RestNone
  <2>3. m_index = Len(index_file)
    BY <1>1, <2>2, AheadNone DEF AtEntry
  <2> QED BY <1>1, <2>3
<1> QED BY <1>2, <1>3

\* Between types: the next one is held.
LEMMA TypesAhead ==
  ASSUME TypeInv, parser = "types", AtTypes
  PROVE  /\ Holds(index_file, m_index, "type", 1)
         /\ Len(entry.types) \in Nat /\ Len(entry.types) < Count(Here)
         /\ Count(Here) <= Len(Here.args) /\ Len(Here.args) \in Nat
         /\ index_file[m_index + 1].kind = "type" /\ m_index + 1 <= Len(index_file)
         /\ index_file[m_index + 1].of = get_arg_type(Here.args[Len(entry.types) + 1].type)
         /\ FlattenSeq(ConstParts(Here, Values)) \o Behind \in Seq(Byte)
         /\ Ahead(index_file, m_index + 1,
                  Rest(TypeParts(Here), Len(entry.types) + 1)
                    \o (FlattenSeq(ConstParts(Here, Values)) \o Behind))
<1> DEFINE t == Len(entry.types)
           s == Here
           values == Values
           u == FlattenSeq(ConstParts(s, values)) \o Behind
<1>1. index_file \in Seq(Byte) /\ m_index \in Nat
  BY FilesFacts DEF TypeInv, ParserInv
<1>2. /\ s \in Site /\ values \in Passes[s] /\ Behind \in Seq(Byte)
  BY HereFacts DEF AtTypes
<1>3. t < Count(s) /\ entry.types \in Seq(ArgTypes)
  BY DEF TypeInv, ParserInv, AtTypes, Known
<1>4. t \in Nat /\ Count(s) \in Nat /\ Count(s) <= Len(s.args) /\ Len(s.args) \in Nat
  BY <1>2, <1>3, LenProperties, CountFacts, SiteFacts
<1>5. FlattenSeq(ConstParts(s, values)) \in Seq(Byte)
  BY <1>2, ConstPartsFacts, FlattenType
<1>6. u \in Seq(Byte)
  BY <1>2, <1>5, ConcatProperties
<1>7. Ahead(index_file, m_index, Rest(TypeParts(s), t) \o u)
  BY DEF AtTypes
<1> HIDE DEF u, t, s, values
<1>8. t < Len(s.args)
  BY <1>3, <1>4
<1>9. /\ Holds(index_file, m_index, "type", 1)
      /\ index_file[m_index + 1].kind = "type"
      /\ index_file[m_index + 1].of = get_arg_type(s.args[t + 1].type)
      /\ Ahead(index_file, m_index + 1, Rest(TypeParts(s), t + 1) \o u)
      /\ m_index + 1 <= Len(index_file)
  BY <1>1, <1>2, <1>4, <1>6, <1>7, <1>8, AheadType
<1> QED BY <1>3, <1>4, <1>6, <1>9 DEF u, t, s, values

ArgSize == IF IsConstant THEN ValueSize(index_file, m_index + 1, TypeOfNextArg) ELSE 0
ArgPlace == Len(entry.args) + 1

\* Between arguments: the next one is held, and behind a constant that is too
\* long come bytes of it.
LEMMA ArgsAhead ==
  ASSUME TypeInv, parser = "args", AtArgs
  PROVE  /\ OnArg
         /\ Len(entry.args) \in Nat /\ Len(entry.args) < Len(Here.args)
         /\ TypeOfNextArg = get_arg_type(Here.args[ArgPlace].type)
         /\ IsConstant = Here.args[ArgPlace].constant
         /\ IsConstant =>
              ValueBytes(index_file, m_index + 1, TypeOfNextArg)
                = Stored(Here.args[ArgPlace], Values[ArgPlace])
         /\ IF Here.args[ArgPlace].constant /\ Long(Here.args[ArgPlace], Values[ArgPlace])
            THEN /\ m_index + 1 + ArgSize < Len(index_file)
                 /\ index_file[m_index + 1 + ArgSize + 1].kind = "value"
            ELSE Ahead(index_file, m_index + 1 + ArgSize,
                       Rest(ConstParts(Here, Values), ArgPlace) \o Behind)
<1> DEFINE a == Len(entry.args)
           s == Here
           values == Values
           u == Behind
           type == TypeOfNextArg
           size == ArgSize
<1>1. index_file \in Seq(Byte) /\ m_index \in Nat
  BY FilesFacts DEF TypeInv, ParserInv
<1>2. /\ s \in Site /\ values \in Passes[s] /\ u \in Seq(Byte)
  BY HereFacts DEF AtArgs
<1>3. /\ a < Len(s.args) /\ entry.args \in Seq(KnownArg) /\ Len(entry.types) = Len(s.args)
      /\ num_args = Len(s.args)
  BY DEF TypeInv, ParserInv, AtArgs, Known
<1>4. a \in Nat /\ Len(s.args) \in Nat
  BY <1>2, <1>3, LenProperties, SiteFacts
<1>5. type = get_arg_type(s.args[a + 1].type)
  <2>1. a + 1 \in 1 .. Len(entry.types)
    BY <1>3, <1>4
  <2> QED BY <2>1 DEF TypeOfNextArg, AtArgs, Reads
<1>6. Ahead(index_file, m_index, Rest(ConstParts(s, values), a) \o u)
  BY DEF AtArgs
<1> HIDE DEF a, s, values, u, type
<1>11. a < Len(s.args)
  BY <1>3
<1>12. ConstRead(index_file, m_index, s, values, a, u)
  BY <1>1, <1>2, <1>4, <1>6, <1>11, AheadConst
<1> DEFINE z == IF s.args[a + 1].constant THEN ValueSize(index_file, m_index + 1, type) ELSE 0
<1>7. /\ Holds(index_file, m_index, "constness", 1)
      /\ index_file[m_index + 1].of = s.args[a + 1].constant
      /\ s.args[a + 1].constant =>
           /\ HoldsValue(index_file, m_index + 1, type)
           /\ ValueBytes(index_file, m_index + 1, type) = Stored(s.args[a + 1], values[a + 1])
      /\ IF s.args[a + 1].constant /\ Long(s.args[a + 1], values[a + 1])
         THEN /\ m_index + 1 + z < Len(index_file)
              /\ index_file[m_index + 1 + z + 1].kind = "value"
         ELSE Ahead(index_file, m_index + 1 + z, Rest(ConstParts(s, values), a + 1) \o u)
  BY <1>5, <1>12, Zenon DEF ConstRead
<1>8. IsConstant = s.args[a + 1].constant
  BY <1>7 DEF IsConstant
<1>9. ArgSize = z /\ ArgPlace = a + 1
  BY <1>8 DEF ArgSize, type, ArgPlace, a
<1>10. OnArg
  BY <1>7, <1>8 DEF OnArg, type
<1> QED BY <1>3, <1>4, <1>5, <1>7, <1>8, <1>9, <1>10 DEF a, s, values, u, type

-----------------------------------------------------------------------------

\* What does not change while the unpacker runs.
LEMMA ProgramKept ==
  ASSUME UNCHANGED program
  PROVE  /\ sites' = sites /\ recorded' = recorded /\ index_file' = index_file
         /\ calls' = calls /\ log' = log
         /\ Entries' = Entries /\ LogEntries' = LogEntries
         /\ AllRepresentable' <=> AllRepresentable
BY DEF program, Entries, LogEntries, CallEntry, Place, AllRepresentable

\* A step that leaves the table alone leaves the site at hand alone.
LEMMA TableKept ==
  ASSUME UNCHANGED program, table' = table
  PROVE  /\ TableRead' <=> TableRead
         /\ Here' = Here /\ Values' = Values /\ Behind' = Behind
BY ProgramKept DEF TableRead, Here, Values, Behind

\* An entry that is complete joins those that were read.
LEMMA TableAppend ==
  ASSUME TypeInv, TableRead, Len(table) < Len(sites), UNCHANGED program,
         NEW e \in Known, Complete(e, Here, Values), table' = Append(table, e)
  PROVE  TableRead' /\ Len(table') = Len(table) + 1
<1> DEFINE j == Len(table)
<1>1. j \in Nat /\ Len(sites) \in Nat /\ table \in Seq(Known) /\ j < Len(sites)
  BY LenProperties, EntriesFacts DEF TypeInv, ParserInv, ProgramInv
<1>2. /\ Len(table') = j + 1 /\ table'[j + 1] = e
      /\ \A k \in 1 .. j : table'[k] = table[k]
  BY <1>1, AppendProperties
<1>3. sites' = sites /\ recorded' = recorded
  BY ProgramKept
<1>4. /\ Complete(e, sites[j + 1], recorded[j + 1])
      /\ \A k \in 1 .. j : Complete(table[k], sites[k], recorded[k])
  BY DEF Here, Values, TableRead
<1> HIDE DEF j
<1>5. j + 1 <= Len(sites) /\ \A k \in 1 .. j + 1 : k \in 1 .. j \/ k = j + 1
  BY <1>1
<1>6. ASSUME NEW k \in 1 .. j + 1 PROVE Complete(table'[k], sites'[k], recorded'[k])
  <2>1. CASE k \in 1 .. j
    BY <1>2, <1>3, <1>4, <2>1
  <2>2. CASE k = j + 1
    BY <1>2, <1>3, <1>4, <2>2
  <2> QED BY <1>5, <2>1, <2>2
<1>7. TableRead'
  BY <1>2, <1>3, <1>5, <1>6 DEF TableRead
<1> QED BY <1>2, <1>7 DEF j

\* Unpack: all entries are ahead.
LEMMA TrackUnpack == TypeInv /\ Unpack => IndexTrack'
<1> SUFFICES ASSUME TypeInv, Unpack PROVE IndexTrack'
  OBVIOUS
<1>1. /\ parser = "idle" /\ parser' = "entry" /\ UNCHANGED program
      /\ table' = table /\ m_index' = m_index
  BY DEF Unpack, indexParser
<1>2. m_index = 0 /\ table = <<>> /\ Len(table) = 0
  BY <1>1, EmptySeq DEF TypeInv, ParserInv
<1>3. TableRead
  <2>1. Len(sites) \in Nat
    BY EntriesFacts DEF TypeInv, ProgramInv
  <2> QED BY <1>2, <2>1 DEF TableRead
<1>4. Ahead(index_file, 0, Rest(Entries, 0))
  <2>1. Rest(Entries, 0) = index_file /\ index_file \in Seq(Byte)
    BY EntriesFacts, FilesFacts, RestAll DEF TypeInv, ProgramInv, Written
  <2> QED BY <2>1, AheadAll
<1>5. AtEntry'
  BY <1>1, <1>2, <1>4, ProgramKept DEF AtEntry
<1>6. TableRead'
  BY <1>1, <1>3, TableKept
<1> QED BY <1>1, <1>5, <1>6 DEF IndexTrack

\* Where the parser is stuck it finds neither an entry nor an argument.
LEMMA NotOnFormat ==
  ASSUME TypeInv, Stuck
  PROVE  ~ OnFormat /\ ~ OnArg
<1>1. ~ Holds(index_file, m_index, "length", 2)
  BY NotHeld DEF Stuck
<1>2. ~ Holds(index_file, m_index, "constness", 1)
  BY NotHeld DEF Stuck
<1> QED BY <1>1, <1>2 DEF OnFormat, OnArg, HoldsString

\* ParseFormat: an entry without arguments is over, else its types are ahead.
LEMMA TrackFormat == TypeInv /\ IndexTrack /\ ParseFormat => IndexTrack'
<1> SUFFICES ASSUME TypeInv, IndexTrack, ParseFormat PROVE IndexTrack'
  OBVIOUS
<1> DEFINE s == Here
           values == Values
           b == Behind
           f == FlattenSeq(TypeParts(s))
           c == FlattenSeq(ConstParts(s, values))
<1>1. /\ parser = "entry" /\ m_index < Len(index_file) /\ OnFormat
      /\ num_args' = index_file[CountAt + 1].of
      /\ entry' = [format |-> StringBytes(index_file, m_index), types |-> <<>>, args |-> <<>>]
      /\ m_index' = CountAt + 1
      /\ IF num_args' = 0
         THEN table' = Append(table, entry') /\ UNCHANGED parser
         ELSE parser' = "types" /\ UNCHANGED table
      /\ UNCHANGED program
  BY DEF ParseFormat
<1>2. TableRead /\ AtEntry
  BY <1>1, NotOnFormat DEF IndexTrack
<1>3. /\ Len(table) < Len(sites)
      /\ StringBytes(index_file, m_index) = Field("text", s.format, Cut(s.length))
      /\ index_file[CountAt + 1].of = Count(s)
      /\ Ahead(index_file, CountAt + 1, Args(s, values) \o b)
  BY <1>1, <1>2, EntryAhead
<1>4. s \in Site /\ values \in Passes[s] /\ b \in Seq(Byte)
  BY <1>3, HereFacts
<1>5. num_args' = Count(s) /\ Count(s) \in Nat
  BY <1>1, <1>3, <1>4, CountFacts
<1>6. /\ entry'.format = Field("text", s.format, Cut(s.length))
      /\ entry'.types = <<>> /\ entry'.args = <<>> /\ Len(<<>>) = 0
  BY <1>1, <1>3, EmptySeq
<1>7. Reads(entry', s, values)
  BY <1>6 DEF Reads
<1>8. /\ index_file' = index_file /\ sites' = sites /\ Entries' = Entries
  BY <1>1, ProgramKept
<1>9. f \in Seq(Byte) /\ c \in Seq(Byte)
  BY <1>4, TypePartsFacts, ConstPartsFacts, FlattenType
<1>10. CASE num_args' = 0
  <2>1. parser' = "entry" /\ table' = Append(table, entry')
    BY <1>1, <1>10
  <2>2. Complete(entry', s, values)
    BY <1>5, <1>6, <1>7, <1>10 DEF Complete, Whole
  <2>3. entry' \in Known
    <3>1. entry' = [format |-> Field("text", s.format, Cut(s.length)), types |-> <<>>, args |-> <<>>]
      BY <1>1, <1>3
    <3>2. Field("text", s.format, Cut(s.length)) \in Seq(Byte)
      BY <1>4, EntryIs
    <3> QED BY <3>1, <3>2, EmptySeq DEF Known
  <2>4. TableRead' /\ Len(table') = Len(table) + 1
    BY <1>1, <1>2, <1>3, <2>1, <2>2, <2>3, TableAppend
  <2>5. Args(s, values) = <<>>
    BY <1>5, <1>10 DEF Args
  <2>6. Ahead(index_file, CountAt + 1, b)
    BY <1>3, <1>4, <2>5, ConcatEmptySeq
  <2>7. AtEntry'
    BY <1>1, <1>8, <2>4, <2>6 DEF AtEntry, Behind
  <2> QED BY <2>1, <2>4, <2>7 DEF IndexTrack
<1>11. CASE num_args' # 0
  <2>1. parser' = "types" /\ table' = table
    BY <1>1, <1>11
  <2>2. TableRead' /\ Here' = s /\ Values' = values /\ Behind' = b
    BY <1>1, <1>2, <2>1, TableKept
  <2>3. Args(s, values) = f \o c
    BY <1>5, <1>11 DEF Args
  <2>4. Ahead(index_file, CountAt + 1, f \o (c \o b))
    <3>1. Ahead(index_file, CountAt + 1, (f \o c) \o b)
      BY <1>3, <2>3
    <3> HIDE DEF f, c, b
    <3>2. (f \o c) \o b = f \o (c \o b)
      BY <1>4, <1>9, BytesAssociative
    <3> QED BY <3>1, <3>2
  <2>5. Rest(TypeParts(s), 0) = f
    BY <1>4, TypePartsFacts, RestAll
  <2>6. AtTypes'
    BY <1>1, <1>3, <1>5, <1>6, <1>7, <1>8, <2>1, <2>2, <2>4, <2>5 DEF AtTypes
  <2> QED BY <2>1, <2>2, <2>6 DEF IndexTrack
<1> QED BY <1>10, <1>11

\* ParseType: the next type is ahead, or the arguments if all were counted, or
\* a type that was not.
LEMMA TrackType == TypeInv /\ IndexTrack /\ ParseType => IndexTrack'
<1> SUFFICES ASSUME TypeInv, IndexTrack, ParseType PROVE IndexTrack'
  OBVIOUS
<1> DEFINE s == Here
           values == Values
           b == Behind
           c == FlattenSeq(ConstParts(s, values))
           t == Len(entry.types)
           g == index_file[m_index + 1].of
<1>1. /\ parser = "types" /\ entry' = [entry EXCEPT !.types = Append(entry.types, g)]
      /\ m_index' = m_index + 1
      /\ parser' = IF Len(entry'.types) = num_args THEN "args" ELSE "types"
      /\ UNCHANGED program /\ table' = table /\ num_args' = num_args
  BY DEF ParseType
<1>2. TableRead /\ AtTypes
  BY <1>1 DEF IndexTrack
<1>3. /\ t \in Nat /\ t < Count(s) /\ Count(s) <= Len(s.args) /\ Len(s.args) \in Nat
      /\ g = get_arg_type(s.args[t + 1].type)
      /\ c \o b \in Seq(Byte)
      /\ m_index + 1 <= Len(index_file)
      /\ Ahead(index_file, m_index + 1, Rest(TypeParts(s), t + 1) \o (c \o b))
  BY <1>1, <1>2, TypesAhead
<1>4. s \in Site /\ values \in Passes[s] /\ b \in Seq(Byte) /\ Len(table) + 1 \in 1 .. Len(sites)
  BY <1>2, HereFacts DEF AtTypes
<1>5. /\ num_args = Count(s) /\ Reads(entry, s, values) /\ Len(table) < Len(sites)
  BY <1>2 DEF AtTypes
<1>6. /\ TableRead' /\ Here' = s /\ Values' = values /\ Behind' = b
      /\ index_file' = index_file /\ sites' = sites /\ Entries' = Entries
      /\ AllRepresentable' <=> AllRepresentable
  BY <1>1, <1>2, TableKept, ProgramKept
<1>7. /\ entry \in Known /\ entry.args = <<>> /\ Len(<<>>) = 0
  BY <1>1, EmptySeq DEF TypeInv, ParserInv
<1>8. g \in ArgTypes
  <2>1. t + 1 \in 1 .. Len(s.args)
    <3>1. t \in Nat /\ t < Count(s) /\ Count(s) <= Len(s.args) /\ Len(s.args) \in Nat
          /\ Count(s) \in Nat
      BY <1>3, <1>4, CountFacts
    <3> HIDE DEF t, s
    <3> QED BY <3>1
  <2>2. s.args[t + 1].type \in Types
    BY <1>4, <2>1, SiteFacts DEF Arg
  <2> QED BY <1>3, <2>2 DEF ArgTypes
<1>9. /\ Len(Append(entry.types, g)) = t + 1 /\ Append(entry.types, g)[t + 1] = g
      /\ \A k \in 1 .. t : Append(entry.types, g)[k] = entry.types[k]
  BY <1>7, <1>8, AppendProperties DEF Known
<1>10. /\ entry'.types = Append(entry.types, g) /\ entry'.args = <<>>
       /\ entry'.format = entry.format
  BY <1>1, <1>7 DEF Known
<1>11. Reads(entry', s, values) /\ Len(entry'.types) = t + 1
  <2> HIDE DEF t, g
  <2>1. \A k \in 1 .. t + 1 : k \in 1 .. t \/ k = t + 1
    BY <1>3
  <2>2. \A k \in 1 .. t : entry.types[k] = get_arg_type(s.args[k].type)
    BY <1>5 DEF Reads, t
  <2>3. \A k \in 1 .. t + 1 : entry'.types[k] = get_arg_type(s.args[k].type)
    BY <1>3, <1>9, <1>10, <2>1, <2>2
  <2> QED BY <1>5, <1>7, <1>9, <1>10, <2>3 DEF Reads
<1>12. CASE t + 1 = num_args
  <2>1. parser' = "args"
    BY <1>1, <1>11, <1>12
  <2>2. CASE Count(s) = Len(s.args)
    <3>1. Ahead(index_file, m_index + 1, c \o b)
      <4>1. TypeParts(s) \in Seq(Seq(Byte)) /\ t + 1 = Len(TypeParts(s))
        BY <1>4, <1>5, <1>12, <2>2, TypePartsFacts
      <4> HIDE DEF t, c, b, s
      <4> QED BY <1>3, <4>1, AheadNoRest
    <3>2. Rest(ConstParts(s, values), 0) = c
      BY <1>4, ConstPartsFacts, RestAll
    <3>3. Short(s, values, 0)
      BY DEF Short
    <3>4. AtArgs'
      BY <1>1, <1>5, <1>6, <1>7, <1>10, <1>11, <2>2, <3>1, <3>2, <3>3 DEF AtArgs
    <3> QED BY <1>6, <2>1, <3>4 DEF IndexTrack
  <2>3. CASE Count(s) # Len(s.args)
    <3>1. t + 1 < Len(s.args) /\ t + 1 \in Nat /\ m_index + 1 \in Nat
      <4>1. m_index \in Nat
        BY FilesFacts DEF TypeInv, ParserInv
      <4> QED BY SMTT(30), <1>3, <1>5, <1>12, <2>3, <4>1, CountFacts, <1>4
    <3>2. /\ index_file[m_index + 1 + 1].kind = "type" /\ m_index + 1 + 1 <= Len(index_file)
      <4>1. index_file \in Seq(Byte)
        BY FilesFacts DEF TypeInv
      <4> DEFINE i == m_index + 1
                 n == t + 1
                 u == c \o b
      <4>2. /\ i \in Nat /\ n \in Nat /\ n < Len(s.args) /\ u \in Seq(Byte)
            /\ Ahead(index_file, i, Rest(TypeParts(s), n) \o u)
        BY <1>3, <3>1
      <4> HIDE DEF i, n, u, s
      <4>3. index_file[i + 1].kind = "type" /\ i + 1 <= Len(index_file)
        BY <1>4, <4>1, <4>2, AheadType
      <4> QED BY <4>3 DEF i
    <3>3. ~ Representable(s, values)
      BY <1>4, <2>3, RepresentableFacts
    <3>4. ~ AllRepresentable
      BY <1>4, <3>3, NotAll DEF TypeInv, ProgramInv, Here, Values
    <3>5. m_index' < Len(index_file)
      BY <1>1, <3>1, <3>2, FilesFacts DEF TypeInv
    <3>6. Stuck'
      BY <1>1, <1>6, <3>2, <3>4, <3>5 DEF Stuck
    <3> QED BY <2>1, <3>6 DEF IndexTrack
  <2> QED BY <2>2, <2>3
<1>13. CASE t + 1 # num_args
  <2>1. parser' = "types"
    BY <1>1, <1>11, <1>13
  <2>2. AtTypes'
    BY <1>1, <1>3, <1>5, <1>6, <1>11 DEF AtTypes
  <2> QED BY <1>6, <2>1, <2>2 DEF IndexTrack
<1> QED BY <1>12, <1>13

\* ParseArg: the next argument or entry is ahead, or bytes that were not counted.
LEMMA TrackArg == TypeInv /\ IndexTrack /\ ParseArg => IndexTrack'
<1> SUFFICES ASSUME TypeInv, IndexTrack, ParseArg PROVE IndexTrack'
  OBVIOUS
<1> DEFINE s == Here
           values == Values
           b == Behind
           a == Len(entry.args)
           type == TypeOfNextArg
           value == IF IsConstant THEN ValueBytes(index_file, m_index + 1, type) ELSE <<>>
           arg == [type |-> type, is_constant |-> IsConstant, arg_data |-> value]
<1>1. /\ parser = "args" /\ OnArg
      /\ entry' = [entry EXCEPT !.args = Append(entry.args, arg)]
      /\ m_index' = m_index + 1 + ArgSize
      /\ IF Len(entry'.args) = num_args
         THEN table' = Append(table, entry') /\ parser' = "entry"
         ELSE UNCHANGED <<table, parser>>
      /\ UNCHANGED program /\ num_args' = num_args
  BY DEF ParseArg, ArgSize
<1>2. TableRead /\ AtArgs
  BY <1>1, NotOnFormat DEF IndexTrack
<1>3. /\ a \in Nat /\ a < Len(s.args) /\ ArgPlace = a + 1
      /\ type = get_arg_type(s.args[ArgPlace].type)
      /\ IsConstant = s.args[ArgPlace].constant
      /\ IsConstant => ValueBytes(index_file, m_index + 1, type) = Stored(s.args[ArgPlace], values[ArgPlace])
      /\ IF s.args[ArgPlace].constant /\ Long(s.args[ArgPlace], values[ArgPlace])
         THEN m_index' < Len(index_file) /\ index_file[m_index' + 1].kind = "value"
         ELSE Ahead(index_file, m_index', Rest(ConstParts(s, values), ArgPlace) \o b)
  <2>1. ArgPlace = a + 1
    BY DEF ArgPlace
  <2> QED BY <1>1, <1>2, <2>1, ArgsAhead
<1>4. s \in Site /\ values \in Passes[s] /\ b \in Seq(Byte) /\ Len(table) + 1 \in 1 .. Len(sites)
  BY <1>2, HereFacts DEF AtArgs
<1>5. /\ num_args = Count(s) /\ Count(s) = Len(s.args) /\ Len(s.args) \in Nat
      /\ Reads(entry, s, values) /\ Short(s, values, a) /\ Len(table) < Len(sites)
  BY <1>2, <1>4, SiteFacts DEF AtArgs
<1>6. entry \in Known /\ Len(entry.types) = num_args
  BY <1>1 DEF TypeInv, ParserInv
<1>7. arg = ArgRead(s, values, a + 1)
  BY <1>3 DEF ArgRead
<1>8. arg \in KnownArg
  <2>1. ArgPlace \in 1 .. Len(s.args)
    BY <1>3, <1>5
  <2>2. s.args[ArgPlace] \in Arg /\ values[ArgPlace].length \in Nat /\ Fits("value", values[ArgPlace].id)
    BY <1>4, <2>1, SiteFacts
  <2>3. Stored(s.args[ArgPlace], values[ArgPlace]) \in Seq(Byte)
    BY <2>2, LogValueType
  <2>4. get_arg_type(s.args[ArgPlace].type) \in ArgTypes /\ s.args[ArgPlace].constant \in BOOLEAN
    BY <2>2 DEF Arg, ArgTypes
  <2> HIDE DEF arg
  <2> QED BY <1>3, <1>7, <2>3, <2>4, EmptySeq DEF ArgRead, KnownArg
<1> HIDE DEF arg
<1>9. /\ Append(entry.args, arg) \in Seq(KnownArg)
      /\ Len(Append(entry.args, arg)) = a + 1 /\ Append(entry.args, arg)[a + 1] = arg
      /\ \A k \in 1 .. a : Append(entry.args, arg)[k] = entry.args[k]
  BY <1>6, <1>8, AppendProperties DEF Known
<1>10. /\ entry'.args = Append(entry.args, arg) /\ entry'.types = entry.types
       /\ entry'.format = entry.format /\ entry' \in Known
  BY <1>1, <1>6, <1>9 DEF Known
<1>11. Reads(entry', s, values) /\ Len(entry'.args) = a + 1
  <2> HIDE DEF a
  <2>1. \A k \in 1 .. a + 1 : k \in 1 .. a \/ k = a + 1
    BY <1>3
  <2>2. \A k \in 1 .. a : entry.args[k] = ArgRead(s, values, k)
    BY <1>5 DEF Reads, a
  <2>3. \A k \in 1 .. a + 1 : entry'.args[k] = ArgRead(s, values, k)
    BY <1>7, <1>9, <1>10, <2>1, <2>2
  <2> QED BY <1>5, <1>9, <1>10, <2>3 DEF Reads
<1>12. /\ index_file' = index_file /\ sites' = sites /\ Entries' = Entries
       /\ AllRepresentable' <=> AllRepresentable
  BY <1>1, ProgramKept
<1>13. CASE s.args[ArgPlace].constant /\ Long(s.args[ArgPlace], values[ArgPlace])
  <2>1. ArgPlace \in 1 .. Len(s.args)
    BY <1>3, <1>5
  <2>2. ~ Representable(s, values)
    BY <1>4, <1>13, <2>1, RepresentableFacts DEF Short
  <2>3. ~ AllRepresentable
    BY <1>4, <2>2, NotAll DEF TypeInv, ProgramInv, Here, Values
  <2>4. Stuck'
    BY <1>3, <1>12, <1>13, <2>3 DEF Stuck
  <2>5. parser' \in {"entry", "args"}
    BY <1>1
  <2> QED BY <2>4, <2>5 DEF IndexTrack
<1>14. CASE ~ (s.args[ArgPlace].constant /\ Long(s.args[ArgPlace], values[ArgPlace]))
  <2>1. Ahead(index_file, m_index', Rest(ConstParts(s, values), a + 1) \o b)
    BY <1>3, <1>14
  <2>2. Short(s, values, a + 1)
    <3> HIDE DEF a, s, values
    <3>1. \A k \in 1 .. a + 1 : k \in 1 .. a \/ k = a + 1
      BY <1>3
    <3> QED BY <1>3, <1>5, <1>14, <3>1 DEF Short
  <2>3. CASE a + 1 = num_args
    <3>1. table' = Append(table, entry') /\ parser' = "entry"
      BY <1>1, <1>11, <2>3
    <3>2. Complete(entry', s, values)
      BY <1>5, <1>6, <1>10, <1>11, <2>2, <2>3 DEF Complete, Whole
    <3>3. TableRead' /\ Len(table') = Len(table) + 1
      BY <1>1, <1>2, <1>5, <1>10, <3>1, <3>2, TableAppend
    <3>4. Ahead(index_file, m_index', b)
      <4>1. ConstParts(s, values) \in Seq(Seq(Byte)) /\ a + 1 = Len(ConstParts(s, values))
        BY <1>4, <1>5, <2>3, ConstPartsFacts
      <4> HIDE DEF a, b, s, values
      <4> QED BY <1>4, <2>1, <4>1, AheadNoRest
    <3>5. AtEntry'
      BY <1>12, <3>3, <3>4 DEF AtEntry, Behind
    <3> QED BY <3>1, <3>3, <3>5 DEF IndexTrack
  <2>4. CASE a + 1 # num_args
    <3>1. table' = table /\ parser' = "args"
      BY <1>1, <1>11, <2>4
    <3>2. TableRead' /\ Here' = s /\ Values' = values /\ Behind' = b
      BY <1>1, <1>2, <3>1, TableKept
    <3>3. AtArgs'
      BY <1>1, <1>5, <1>11, <1>12, <2>1, <2>2, <3>1, <3>2 DEF AtArgs
    <3> QED BY <3>1, <3>2, <3>3 DEF IndexTrack
  <2> QED BY <2>3, <2>4
<1> QED BY <1>13, <1>14

\* IndexParsed: the parser read all entries.
LEMMA TrackParsed == TypeInv /\ IndexTrack /\ IndexParsed => IndexTrack'
<1> SUFFICES ASSUME TypeInv, IndexTrack, IndexParsed PROVE IndexTrack'
  OBVIOUS
<1>1. /\ parser = "entry" /\ m_index >= Len(index_file) /\ parser' = "log"
      /\ UNCHANGED program /\ table' = table /\ m_index' = m_index
  BY DEF IndexParsed, indexParser
<1>2. Len(index_file) \in Nat /\ m_index \in 0 .. Len(index_file) /\ Len(sites) \in Nat
      /\ Len(table) \in Nat
  BY FilesFacts, EntriesFacts, LenProperties DEF TypeInv, ParserInv, ProgramInv
<1>3. TableRead /\ AtEntry /\ m_index = Len(index_file)
  BY <1>1, <1>2 DEF IndexTrack, Stuck
<1>4. Len(table) = Len(sites)
  <2>1. ~ (Len(table) < Len(sites))
    BY <1>2, <1>3, EntryAhead
  <2> QED BY <1>2, <1>3, <2>1 DEF TableRead
<1>5. IndexRead'
  BY <1>1, <1>3, <1>4, TableKept, ProgramKept DEF IndexRead
<1> QED BY <1>1, <1>5 DEF IndexTrack

\* The index file's parser derails where bytes come that were not counted.
LEMMA DerailStuck ==
  TypeInv /\ IndexTrack /\ Derail => Stuck \/ parser \in {"log", "values"}
<1> SUFFICES ASSUME TypeInv, IndexTrack, Derail PROVE Stuck \/ parser \in {"log", "values"}
  OBVIOUS
<1>1. CASE parser = "entry" /\ m_index < Len(index_file) /\ ~ OnFormat
  BY <1>1, EntryAhead DEF IndexTrack
<1>2. CASE parser = "types" /\ ~ Holds(index_file, m_index, "type", 1)
  BY <1>2, TypesAhead DEF IndexTrack
<1>3. CASE parser = "args" /\ ~ OnArg
  BY <1>3, ArgsAhead DEF IndexTrack
<1> QED BY <1>1, <1>2, <1>3 DEF Derail

\* Derail: there was an entry that is not representable.
LEMMA TrackDerail == TypeInv /\ IndexTrack /\ Derail => IndexTrack'
<1> SUFFICES ASSUME TypeInv, IndexTrack, Derail PROVE IndexTrack'
  OBVIOUS
<1>1. /\ parser' = "derailed" /\ UNCHANGED program /\ table' = table /\ m_index' = m_index
  BY DEF Derail, indexParser
<1>2. IndexRead \/ Stuck
  BY DerailStuck DEF IndexTrack
<1>3. IndexRead' \/ Jammed'
  BY <1>1, <1>2, TableKept, ProgramKept DEF IndexRead, Jammed, Stuck
<1> QED BY <1>1, <1>3 DEF IndexTrack

\* The parser of the log file leaves the table alone.
LEMMA TrackLog ==
  ASSUME IndexTrack, parser \in {"log", "values", "done", "derailed"},
         parser' \in {"log", "values", "done"} \/ parser' = parser,
         parser = "derailed" => parser' = "derailed",
         UNCHANGED program, table' = table, m_index' = m_index
  PROVE  IndexTrack'
<1>1. parser # "derailed" => IndexRead
  BY DEF IndexTrack
<1>2. parser = "derailed" => IndexRead \/ Jammed
  BY DEF IndexTrack
<1>3. (IndexRead' <=> IndexRead) /\ (Jammed' <=> Jammed)
  BY TableKept, ProgramKept DEF IndexRead, Jammed
<1>4. parser' \in {"log", "values", "done", "derailed"}
  OBVIOUS
<1> QED BY <1>1, <1>2, <1>3, <1>4 DEF IndexTrack

\* A stuttering step leaves the parser where it is.
LEMMA TrackUnchanged == IndexTrack /\ UNCHANGED vars => IndexTrack'
<1> SUFFICES ASSUME IndexTrack, UNCHANGED vars PROVE IndexTrack'
  OBVIOUS
<1>1. /\ UNCHANGED program /\ table' = table /\ parser' = parser /\ m_index' = m_index
      /\ entry' = entry /\ num_args' = num_args
  BY DEF vars, indexParser
<1>2. /\ TableRead' <=> TableRead
      /\ Here' = Here /\ Values' = Values /\ Behind' = Behind
      /\ sites' = sites /\ index_file' = index_file /\ Entries' = Entries
      /\ AllRepresentable' <=> AllRepresentable
  BY <1>1, TableKept, ProgramKept
<1>3. /\ AtEntry' <=> AtEntry
      /\ AtTypes' <=> AtTypes
      /\ AtArgs' <=> AtArgs
      /\ Stuck' <=> Stuck
      /\ Jammed' <=> Jammed
      /\ IndexRead' <=> IndexRead
  BY <1>1, <1>2 DEF AtEntry, AtTypes, AtArgs, Stuck, Jammed, IndexRead
<1> QED BY <1>1, <1>2, <1>3 DEF IndexTrack

\* Every step keeps index_file_parser on its track.
LEMMA TrackStep == TypeInv /\ IndexTrack /\ [Next]_vars => IndexTrack'
<1> SUFFICES ASSUME TypeInv, IndexTrack, [Next]_vars PROVE IndexTrack'
  OBVIOUS
<1>1. CASE \E s \in Site : \E values \in Passes[s] : Call(s, values)
  BY <1>1 DEF Call, IndexTrack
<1>2. CASE Unpack \/ ParseFormat \/ ParseType \/ ParseArg \/ IndexParsed \/ Derail
  BY <1>2, TrackUnpack, TrackFormat, TrackType, TrackArg, TrackParsed, TrackDerail
<1>3. CASE ParseIndex
  BY <1>3, TrackLog DEF ParseIndex, indexParser
<1>4. CASE ParseValue
  BY <1>4, TrackLog DEF ParseValue, indexParser
<1>5. CASE PrintLine
  BY <1>5, TrackLog DEF PrintLine, indexParser
<1>6. CASE LogParsed
  BY <1>6, TrackLog DEF LogParsed, indexParser
<1>7. CASE Terminated \/ UNCHANGED vars
  BY <1>7, TrackUnchanged DEF Terminated
<1> QED BY <1>1, <1>2, <1>3, <1>4, <1>5, <1>6, <1>7 DEF Next

\* The track before the unpacker starts.
LEMMA TrackInit == Init => IndexTrack
BY DEF Init, IndexTrack

IndexInv == TypeInv /\ IndexTrack

\* The inductive invariant of the index file.
LEMMA IndexInvHolds == Spec => []IndexInv
<1>1. Init => IndexInv
  BY TypeInvInit, TrackInit DEF IndexInv
<1>2. IndexInv /\ [Next]_vars => IndexInv'
  BY TypeInvStep, TrackStep DEF IndexInv
<1> QED BY <1>1, <1>2, PTL DEF Spec

-----------------------------------------------------------------------------

\* A sequence is a function of its places.
LEMMA SeqFunction ==
  ASSUME NEW S, NEW s \in Seq(S), NEW n, n = Len(s)
  PROVE  s = [k \in 1 .. n |-> s[k]] /\ n \in Nat
BY LenProperties

\* What the parser has of an entry it got over is the entry, if it was
\* representable.
LEMMA EntryTold ==
  ASSUME NEW s \in Site, NEW values \in Passes[s], NEW e \in Known, Complete(e, s, values)
  PROVE  e = IndexEntry(s, values) <=> Representable(s, values)
<1> DEFINE n == Len(s.args)
           types == [k \in 1 .. n |-> get_arg_type(s.args[k].type)]
           args == [k \in 1 .. n |-> ArgRead(s, values, k)]
           f == Field("text", s.format, Cut(s.length))
           r == [format |-> f, types |-> types, args |-> args]
<1>1. n \in Nat /\ DOMAIN s.args = 1 .. n
  BY SiteFacts
<1>2. IndexEntry(s, values) = r
  BY <1>1, Zenon DEF IndexEntry, ArgRead
<1>3. e = [format |-> e.format, types |-> e.types, args |-> e.args]
      /\ e.types \in Seq(ArgTypes) /\ e.args \in Seq(KnownArg)
  BY DEF Known
<1>4. /\ e.format = f
      /\ \A k \in 1 .. Len(e.types) : e.types[k] = get_arg_type(s.args[k].type)
      /\ \A k \in 1 .. Len(e.args) : e.args[k] = ArgRead(s, values, k)
      /\ Len(e.types) = Count(s) /\ Len(e.args) = Count(s)
  BY DEF Complete, Reads
<1>5. ASSUME Representable(s, values) PROVE e = r
  <2>1. Count(s) = n
    BY <1>5, RepresentableFacts
  <2>2. e.types = [k \in 1 .. n |-> e.types[k]] /\ e.args = [k \in 1 .. n |-> e.args[k]]
    <3>1. n = Len(e.types) /\ n = Len(e.args)
      BY <1>4, <2>1
    <3> HIDE DEF n
    <3>2. e.types = [k \in 1 .. n |-> e.types[k]]
      BY <1>3, <3>1, SeqFunction
    <3>3. e.args = [k \in 1 .. n |-> e.args[k]]
      BY <1>3, <3>1, SeqFunction
    <3> QED BY <3>2, <3>3
  <2>3. e.types = types
    BY <1>4, <2>1, <2>2
  <2>4. e.args = args
    BY <1>4, <2>1, <2>2
  <2> HIDE DEF types, args, f
  <2> QED BY <1>3, <1>4, <2>3, <2>4
<1>6. ASSUME e = r PROVE Representable(s, values)
  <2>1. e.types = types
    BY <1>6
  <2>2. types \in Seq(ArgTypes) /\ Len(types) = n
    <3>1. \A k \in 1 .. n : s.args[k].type \in Types
      BY <1>1, SiteFacts DEF Arg
    <3>2. \A k \in 1 .. n : types[k] \in ArgTypes
      BY <3>1 DEF ArgTypes
    <3>3. types = [k \in 1 .. n |-> types[k]]
      OBVIOUS
    <3> HIDE DEF types, n
    <3> QED BY <1>1, <3>2, <3>3, FunctionSeq
  <2>3. Count(s) = n
    BY <1>4, <2>1, <2>2
  <2>4. Whole(s, values)
    BY DEF Complete
  <2>5. Short(s, values, n)
    <3>1. CASE Count(s) = 0
      <4>1. n = 0
        BY <2>3, <3>1
      <4> HIDE DEF n
      <4> QED BY <4>1 DEF Short
    <3>2. CASE Count(s) # 0
      BY <2>4, <3>2 DEF Whole
    <3> QED BY <3>1, <3>2
  <2> QED BY <2>3, <2>5, RepresentableFacts
<1> QED BY <1>2, <1>5, <1>6

\* At its end the table is right exactly if every entry is representable.
LEMMA IndexInvParsed == IndexInv => IndexParsedExactlyWhenRepresentable
<1> SUFFICES ASSUME IndexInv, parser \notin {"idle", "entry", "types", "args"}
             PROVE  (/\ m_index = Len(index_file)
                     /\ table = [k \in DOMAIN sites |-> IndexEntry(sites[k], recorded[k])])
                      <=> AllRepresentable
  BY DEF IndexParsedExactlyWhenRepresentable
<1> DEFINE n == Len(sites)
<1>1. IndexRead \/ Jammed
  BY DEF IndexInv, TypeInv, ParserInv, IndexTrack
<1>2. /\ Registered /\ n \in Nat /\ Len(index_file) \in Nat /\ m_index \in Nat
      /\ table \in Seq(Known)
  BY EntriesFacts, FilesFacts DEF IndexInv, TypeInv, ProgramInv, ParserInv
<1>3. DOMAIN sites = 1 .. n
  BY <1>2, LenProperties DEF Registered
<1>4. CASE Jammed
  BY <1>2, <1>4 DEF Jammed
<1>5. CASE IndexRead
  <2>1. m_index = Len(index_file) /\ n = Len(table)
        /\ \A k \in 1 .. n : Complete(table[k], sites[k], recorded[k])
    BY <1>5 DEF IndexRead, TableRead
  <2>2. table = [k \in 1 .. n |-> table[k]]
    <3> HIDE DEF n
    <3> QED BY <1>2, <2>1, SeqFunction
  <2>3. ASSUME NEW k \in 1 .. n
        PROVE  table[k] = IndexEntry(sites[k], recorded[k])
                 <=> Representable(sites[k], recorded[k])
    <3>1. sites[k] \in Site /\ recorded[k] \in Passes[sites[k]]
      BY <1>2, EntriesFacts
    <3>2. table[k] \in Known
      BY <1>2, <2>1, ElementOfSeq
    <3> QED BY <2>1, <3>1, <3>2, EntryTold
  <2>4. AllRepresentable <=> \A k \in 1 .. n : Representable(sites[k], recorded[k])
    BY <1>3 DEF AllRepresentable
  <2> DEFINE f == [k \in 1 .. n |-> IndexEntry(sites[k], recorded[k])]
  <2>5. table = f <=> \A k \in 1 .. n : table[k] = IndexEntry(sites[k], recorded[k])
    <3>1. ASSUME table = f, NEW k \in 1 .. n PROVE table[k] = IndexEntry(sites[k], recorded[k])
      BY <3>1
    <3>2. ASSUME \A k \in 1 .. n : table[k] = IndexEntry(sites[k], recorded[k]) PROVE table = f
      BY <2>2, <3>2, Zenon
    <3> QED BY <3>1, <3>2
  <2> QED BY <1>3, <2>1, <2>3, <2>4, <2>5
<1> QED BY <1>1, <1>4, <1>5

(* The table that index_file_parser builds is the entries registered, and   *)
(* it ends with the file, exactly when every site's number of arguments and *)
(* the lengths of its std::string and std::string_view constants fit their  *)
(* widths.                                                                  *)
THEOREM IndexExact == Spec => []IndexParsedExactlyWhenRepresentable
BY IndexInvHolds, IndexInvParsed, PTL

-----------------------------------------------------------------------------

(***************************************************************************)
(* Where log_file_parser is.                                               *)
(***************************************************************************)
First(c) == recorded[Place(c.site)]

ToldArg(c, k) ==
  Stored(c.site.args[k], IF c.site.args[k].constant THEN First(c)[k] ELSE c.values[k])

Tells(p, c) ==
  /\ p.format = Field("text", c.site.format, Cut(c.site.length))
  /\ Len(p.args) = Count(c.site)
  /\ \A k \in 1 .. Count(c.site) : p.args[k] = ToldArg(c, k)

Line == [format : Seq(Byte), args : Seq(Seq(Byte))]

PrintedRight ==
  /\ printed \in Seq(Line) /\ Len(printed) <= Len(calls)
  /\ \A n \in 1 .. Len(printed) : Tells(printed[n], calls[n])

\* The call that is deflated, and what follows.
Now == calls[Len(printed) + 1]
Then == Rest(LogEntries, Len(printed) + 1)

AtLine == Ahead(log, m_logfile_index, Rest(LogEntries, Len(printed)))

AtValue ==
  /\ Len(printed) < Len(calls)
  /\ current = Place(Now.site)
  /\ \A k \in 1 .. Len(line) : line[k] = ToldArg(Now, k)
  /\ Ahead(log, m_logfile_index, Rest(ValueParts(Now.site, Now.values), Len(line)) \o Then)

\* Values come next of a call whose arguments were not counted.
Off ==
  /\ m_logfile_index < Len(log) /\ log[m_logfile_index + 1].kind # "index"
  /\ ~ AllRepresentable

LogTrack ==
  /\ parser = "log" => PrintedRight /\ (AtLine \/ Off)
  /\ parser = "values" => PrintedRight /\ AtValue
  /\ parser = "done" => PrintedRight /\ Len(printed) = Len(calls)
  /\ parser = "derailed" => ~ AllRepresentable

\* The call at hand.
LEMMA NowFacts ==
  ASSUME TypeInv, PrintedRight, Len(printed) < Len(calls)
  PROVE  /\ Len(printed) \in Nat /\ Len(printed) + 1 \in 1 .. Len(calls)
         /\ Now.site \in Site /\ Now.values \in Passes[Now.site]
         /\ Place(Now.site) \in 1 .. Len(sites) /\ Place(Now.site) - 1 \in Nat
         /\ sites[Place(Now.site)] = Now.site
         /\ First(Now) \in Passes[Now.site]
         /\ Then \in Seq(Byte)
         /\ Rest(LogEntries, Len(printed))
              = LogEntry(Now.site, Place(Now.site) - 1, Now.values) \o Then
<1> DEFINE n == Len(printed)
<1>1. n \in Nat /\ Len(calls) \in Nat /\ Registered /\ Called
  BY LenProperties, LogEntriesFacts DEF TypeInv, ProgramInv, PrintedRight
<1>2. n + 1 \in 1 .. Len(calls)
  BY <1>1
<1>3. /\ LogEntries \in Seq(Seq(Byte)) /\ Len(LogEntries) = Len(calls)
      /\ LogEntries[n + 1] = LogEntry(Now.site, Place(Now.site) - 1, Now.values)
      /\ Now.site \in Site /\ Now.values \in Passes[Now.site]
      /\ Place(Now.site) \in 1 .. Len(sites) /\ Place(Now.site) - 1 \in Nat
      /\ sites[Place(Now.site)] = Now.site
  BY <1>1, <1>2, LogEntriesFacts DEF CallEntry, Now
<1>4. First(Now) \in Passes[Now.site]
  BY <1>1, <1>3, EntriesFacts DEF First
<1> HIDE DEF n
<1>5. Rest(LogEntries, n) = LogEntries[n + 1] \o Rest(LogEntries, n + 1)
  <2>1. n < Len(LogEntries)
    BY <1>3 DEF n
  <2> QED BY <1>1, <1>3, <2>1, RestStep
<1>6. Rest(LogEntries, n + 1) \in Seq(Byte)
  <2>1. n + 1 \in 0 .. Len(LogEntries)
    BY <1>1, <1>2, <1>3
  <2> QED BY <1>3, <2>1, RestType
<1> QED BY <1>1, <1>2, <1>3, <1>4, <1>5, <1>6 DEF Then, n

\* Between calls: the file ends where the calls do, else the next one comes.
LEMMA LineAhead ==
  ASSUME TypeInv, IndexRead, PrintedRight, AtLine
  PROVE  /\ m_logfile_index < Len(log) <=> Len(printed) < Len(calls)
         /\ Len(printed) < Len(calls) =>
              /\ OnIndex
              /\ log[m_logfile_index + 1].of + 1 = Place(Now.site)
              /\ Ahead(log, m_logfile_index + 2,
                       FlattenSeq(ValueParts(Now.site, Now.values)) \o Then)
<1>1. /\ log \in Seq(Byte) /\ Len(log) \in Nat /\ m_logfile_index \in Nat
      /\ Len(printed) \in Nat /\ Len(calls) \in Nat
  BY FilesFacts, LogEntriesFacts, LenProperties
  DEF TypeInv, ParserInv, ProgramInv, PrintedRight
<1>2. ASSUME Len(printed) < Len(calls)
      PROVE  /\ m_logfile_index < Len(log) /\ OnIndex
             /\ log[m_logfile_index + 1].of + 1 = Place(Now.site)
             /\ Ahead(log, m_logfile_index + 2,
                      FlattenSeq(ValueParts(Now.site, Now.values)) \o Then)
  <2> DEFINE s == Now.site
             values == Now.values
             p == Place(s)
             i == p - 1
             t == Then
  <2>1. /\ s \in Site /\ values \in Passes[s] /\ i \in Nat /\ t \in Seq(Byte)
        /\ p \in 1 .. Len(sites)
        /\ Ahead(log, m_logfile_index, LogEntry(s, i, values) \o t)
    BY <1>2, NowFacts DEF AtLine
  <2>2. Len(table) = Len(sites) /\ Len(sites) \in Nat
    BY EntriesFacts DEF IndexRead, TypeInv, ProgramInv
  <2>3. i + 1 = p /\ i < Len(table)
    <3> HIDE DEF s
    <3> QED BY <2>1, <2>2
  <2> HIDE DEF s, values, i, t
  <2>4. /\ Holds(log, m_logfile_index, "index", 2)
        /\ log[m_logfile_index + 1].of = i
        /\ m_logfile_index < Len(log)
        /\ Ahead(log, m_logfile_index + 2, FlattenSeq(ValueParts(s, values)) \o t)
    BY <1>1, <2>1, AheadCall
  <2>5. OnIndex
    BY <2>3, <2>4 DEF OnIndex
  <2> QED BY <2>3, <2>4, <2>5 DEF s, values, t
<1>3. ASSUME ~ (Len(printed) < Len(calls)) PROVE ~ (m_logfile_index < Len(log))
  <2>1. Len(printed) = Len(LogEntries) /\ LogEntries \in Seq(Seq(Byte))
    BY <1>1, <1>3, LogEntriesFacts DEF PrintedRight, TypeInv, ProgramInv
  <2>2. Rest(LogEntries, Len(printed)) = <<>>
    BY <2>1, RestNone
  <2>3. m_logfile_index = Len(log)
    BY <1>1, <2>2, AheadNone DEF AtLine
  <2> QED BY <1>1, <2>3
<1> QED BY <1>2, <1>3

\* Between values: the table has the type or the constant, the file the value.
LEMMA ValueAhead ==
  ASSUME TypeInv, IndexRead, PrintedRight, parser = "values", AtValue
  PROVE  /\ Len(line) \in Nat /\ Len(table[current].args) = Count(Now.site)
         /\ table[current].format = Field("text", Now.site.format, Cut(Now.site.length))
         /\ Whole(Now.site, First(Now))
         /\ Len(line) < Count(Now.site) =>
              /\ ArgInfo = ArgRead(Now.site, First(Now), Len(line) + 1)
              /\ ValueRead(log, m_logfile_index, Now.site, Now.values, Len(line), Then)
<1> DEFINE s == Now.site
           values == Now.values
           l == Len(line)
           t == Then
           e == table[current]
<1>1. /\ log \in Seq(Byte) /\ m_logfile_index \in Nat /\ line \in Seq(Seq(Byte))
  BY FilesFacts DEF TypeInv, ParserInv
<1>2. l \in Nat
  BY <1>1, LenProperties
<1>3. /\ s \in Site /\ values \in Passes[s] /\ t \in Seq(Byte)
      /\ Place(s) \in 1 .. Len(sites) /\ sites[Place(s)] = s
  BY NowFacts DEF AtValue
<1>4. Complete(e, s, First(Now))
  BY <1>3 DEF AtValue, IndexRead, TableRead, First
<1>5. ASSUME l < Count(s)
      PROVE  /\ ArgInfo = ArgRead(s, First(Now), l + 1)
             /\ ValueRead(log, m_logfile_index, s, values, l, t)
  <2>1. Count(s) \in Nat /\ Count(s) <= Len(s.args) /\ Len(s.args) \in Nat
    BY <1>3, CountFacts, SiteFacts
  <2>2. l < Len(s.args)
    BY <1>2, <1>5, <2>1
  <2>3. Ahead(log, m_logfile_index, Rest(ValueParts(s, values), l) \o t)
    BY DEF AtValue
  <2>4. ValueRead(log, m_logfile_index, s, values, l, t)
    <3> HIDE DEF s, values, l, t
    <3> QED BY <1>1, <1>2, <1>3, <2>2, <2>3, AheadArgument
  <2>5. l + 1 \in 1 .. Count(s)
    BY <1>2, <1>5, <2>1
  <2>6. e.args[l + 1] = ArgRead(s, First(Now), l + 1)
    BY <1>4, <2>5 DEF Complete, Reads
  <2> QED BY <2>4, <2>6 DEF ArgInfo
<1> QED BY <1>2, <1>4, <1>5 DEF Complete, Reads

-----------------------------------------------------------------------------

\* A step that prints nothing leaves the call at hand alone.
LEMMA LogKept ==
  ASSUME UNCHANGED program, printed' = printed
  PROVE  /\ PrintedRight' <=> PrintedRight
         /\ Now' = Now /\ Then' = Then
         /\ First(Now)' = First(Now)
         /\ Place(Now.site)' = Place(Now.site)
         /\ \A k : ToldArg(Now, k)' = ToldArg(Now, k)
BY ProgramKept DEF PrintedRight, Now, Then, Tells, ToldArg, First, Place

\* IndexParsed: all calls are ahead.
LEMMA LogParsedIndex == IndexInv /\ IndexParsed => LogTrack'
<1> SUFFICES ASSUME IndexInv, IndexParsed PROVE LogTrack'
  OBVIOUS
<1>1. /\ parser = "entry" /\ parser' = "log" /\ UNCHANGED program
      /\ printed' = printed /\ m_logfile_index' = m_logfile_index
  BY DEF IndexParsed, logParser
<1>2. m_logfile_index = 0 /\ printed = <<>> /\ Len(printed) = 0
  BY <1>1, EmptySeq DEF IndexInv, TypeInv, ParserInv
<1>3. PrintedRight
  <2>1. Len(calls) \in Nat /\ <<>> \in Seq(Line)
    BY LogEntriesFacts, EmptySeq DEF IndexInv, TypeInv, ProgramInv
  <2> QED BY <1>2, <2>1 DEF PrintedRight
<1>4. Ahead(log, 0, Rest(LogEntries, 0))
  <2>1. Rest(LogEntries, 0) = log /\ log \in Seq(Byte)
    BY LogEntriesFacts, FilesFacts, RestAll DEF IndexInv, TypeInv, ProgramInv, Written
  <2> QED BY <2>1, AheadAll
<1>5. AtLine'
  BY <1>1, <1>2, <1>4, ProgramKept DEF AtLine
<1>6. PrintedRight'
  BY <1>1, <1>3, LogKept
<1> QED BY <1>1, <1>5, <1>6 DEF LogTrack

\* ParseIndex: the values of the call are ahead.
LEMMA LogIndex == IndexInv /\ LogTrack /\ ParseIndex => LogTrack'
<1> SUFFICES ASSUME IndexInv, LogTrack, ParseIndex PROVE LogTrack'
  OBVIOUS
<1> DEFINE s == Now.site
           values == Now.values
<1>1. /\ parser = "log" /\ m_logfile_index < Len(log) /\ OnIndex
      /\ current' = log[m_logfile_index + 1].of + 1
      /\ line' = <<>> /\ m_logfile_index' = m_logfile_index + 2 /\ parser' = "values"
      /\ UNCHANGED program /\ printed' = printed
  BY DEF ParseIndex
<1>2. IndexRead /\ PrintedRight /\ TypeInv
  BY <1>1 DEF IndexInv, IndexTrack, LogTrack
<1>3. AtLine
  <2>1. ~ Off
    <3>1. Off => ~ Holds(log, m_logfile_index, "index", 2)
      BY NotHeld DEF Off
    <3> QED BY <1>1, <3>1 DEF OnIndex
  <2> QED BY <1>1, <2>1 DEF LogTrack
<1>4. /\ Len(printed) < Len(calls)
      /\ log[m_logfile_index + 1].of + 1 = Place(s)
      /\ Ahead(log, m_logfile_index + 2, FlattenSeq(ValueParts(s, values)) \o Then)
  BY <1>1, <1>2, <1>3, LineAhead
<1>5. s \in Site /\ values \in Passes[s]
  BY <1>2, <1>4, NowFacts
<1>6. Rest(ValueParts(s, values), 0) = FlattenSeq(ValueParts(s, values))
  BY <1>5, ValuePartsFacts, RestAll
<1>7. Len(line') = 0
  BY <1>1, EmptySeq
<1>8. /\ PrintedRight' /\ Now' = Now /\ Then' = Then /\ Place(Now.site)' = Place(Now.site)
      /\ calls' = calls /\ log' = log
  BY <1>1, <1>2, LogKept, ProgramKept
<1>9. AtValue'
  BY <1>1, <1>4, <1>6, <1>7, <1>8 DEF AtValue
<1> QED BY <1>1, <1>8, <1>9 DEF LogTrack

\* ParseValue: one value more is told, and the others are ahead.
LEMMA LogValueRead == IndexInv /\ LogTrack /\ ParseValue => LogTrack'
<1> SUFFICES ASSUME IndexInv, LogTrack, ParseValue PROVE LogTrack'
  OBVIOUS
<1> DEFINE s == Now.site
           values == Now.values
           l == Len(line)
           t == Then
           type == get_arg_type(s.args[l + 1].type)
           pos == m_logfile_index
<1>1. /\ parser = "values" /\ Len(line) < Len(table[current].args)
      /\ IF ArgInfo.is_constant
         THEN line' = Append(line, ArgInfo.arg_data) /\ UNCHANGED m_logfile_index
         ELSE /\ HoldsValue(log, pos, ArgInfo.type)
              /\ line' = Append(line, ValueBytes(log, pos, ArgInfo.type))
              /\ m_logfile_index' = pos + ValueSize(log, pos, ArgInfo.type)
      /\ UNCHANGED program /\ parser' = parser /\ current' = current /\ printed' = printed
  BY DEF ParseValue
<1>2. IndexRead /\ PrintedRight /\ TypeInv /\ AtValue
  BY <1>1 DEF IndexInv, IndexTrack, LogTrack
<1>3. /\ l \in Nat /\ l < Count(s)
      /\ ArgInfo = ArgRead(s, First(Now), l + 1)
      /\ ValueRead(log, pos, s, values, l, t)
  BY <1>1, <1>2, ValueAhead
<1>4. line \in Seq(Seq(Byte))
  BY <1>1, <1>2 DEF TypeInv, ParserInv
<1>5. s \in Site /\ values \in Passes[s] /\ First(Now) \in Passes[s]
  BY <1>2, NowFacts DEF AtValue
<1>6. /\ l + 1 \in 1 .. Len(s.args)
      /\ Stored(s.args[l + 1], values[l + 1]) \in Seq(Byte)
      /\ Stored(s.args[l + 1], First(Now)[l + 1]) \in Seq(Byte)
  <2>1. Count(s) \in Nat /\ Count(s) <= Len(s.args) /\ Len(s.args) \in Nat
    BY <1>5, CountFacts, SiteFacts
  <2>2. l + 1 \in 1 .. Len(s.args)
    <3>1. l \in Nat /\ l < Count(s)
      BY <1>3
    <3> HIDE DEF l, s
    <3> QED BY <2>1, <3>1
  <2>3. \A w \in Passes[s] : Stored(s.args[l + 1], w[l + 1]) \in Seq(Byte)
    <3> SUFFICES ASSUME NEW w \in Passes[s] PROVE Stored(s.args[l + 1], w[l + 1]) \in Seq(Byte)
      OBVIOUS
    <3> DEFINE a == s.args[l + 1]
               v == w[l + 1]
    <3>1. a \in Arg /\ v.length \in Nat /\ Fits("value", v.id)
      BY <1>5, <2>2, SiteFacts
    <3> HIDE DEF a, v
    <3>2. Stored(a, v) \in Seq(Byte)
      BY <3>1, LogValueType
    <3> QED BY <3>2 DEF a, v
  <2> QED BY <1>5, <2>2, <2>3
<1>7. /\ line' = Append(line, ToldArg(Now, l + 1)) /\ ToldArg(Now, l + 1) \in Seq(Byte)
      /\ Ahead(log, m_logfile_index', Rest(ValueParts(s, values), l + 1) \o t)
  <2>1. CASE s.args[l + 1].constant
    <3>1. ArgInfo.is_constant /\ ArgInfo.arg_data = Stored(s.args[l + 1], First(Now)[l + 1])
      BY <1>3, <2>1 DEF ArgRead
    <3>2. ToldArg(Now, l + 1) = Stored(s.args[l + 1], First(Now)[l + 1])
      BY <2>1 DEF ToldArg
    <3>3. Ahead(log, pos, Rest(ValueParts(s, values), l + 1) \o t)
      BY <1>3, <2>1 DEF ValueRead
    <3> QED BY <1>1, <1>6, <3>1, <3>2, <3>3
  <2>2. CASE ~ s.args[l + 1].constant
    <3>1. ~ ArgInfo.is_constant /\ ArgInfo.type = type
      BY <1>3, <2>2 DEF ArgRead
    <3>2. ToldArg(Now, l + 1) = Stored(s.args[l + 1], values[l + 1])
      BY <2>2 DEF ToldArg
    <3>3. /\ ValueBytes(log, pos, type) = Stored(s.args[l + 1], values[l + 1])
          /\ Ahead(log, pos + ValueSize(log, pos, type), Rest(ValueParts(s, values), l + 1) \o t)
      BY <1>3, <2>2 DEF ValueRead
    <3> HIDE DEF type
    <3> QED BY <1>1, <1>6, <3>1, <3>2, <3>3
  <2> QED BY <2>1, <2>2
<1>8. /\ PrintedRight' /\ Now' = Now /\ Then' = t /\ Place(Now.site)' = Place(Now.site)
      /\ calls' = calls /\ log' = log /\ \A k : ToldArg(Now, k)' = ToldArg(Now, k)
  BY <1>1, <1>2, LogKept, ProgramKept
<1>9. Len(line') = l + 1 /\ \A k \in 1 .. l + 1 : line'[k] = ToldArg(Now, k)
  <2>1. /\ Len(line') = l + 1 /\ line'[l + 1] = ToldArg(Now, l + 1)
        /\ \A k \in 1 .. l : line'[k] = line[k]
    BY <1>4, <1>7, AppendProperties
  <2>2. \A k \in 1 .. l : line[k] = ToldArg(Now, k)
    BY <1>2 DEF AtValue
  <2>3. \A k \in 1 .. l + 1 : k \in 1 .. l \/ k = l + 1
    <3>1. l \in Nat
      BY <1>3
    <3> HIDE DEF l
    <3> QED BY <3>1
  <2> QED BY <2>1, <2>2, <2>3
<1>10. AtValue'
  BY <1>1, <1>2, <1>7, <1>8, <1>9 DEF AtValue
<1> QED BY <1>1, <1>8, <1>10 DEF LogTrack

-----------------------------------------------------------------------------

\* Bytes no call begins with.
Inner == {u \in Seq(Byte) : u # <<>> => u[1].kind # "index"}

\* What begins with no index still does so with more behind it.
LEMMA InnerConcat ==
  ASSUME NEW s \in Inner, NEW t \in Inner
  PROVE  s \o t \in Inner
<1> DEFINE u == s \o t
<1>1. s \in Seq(Byte) /\ t \in Seq(Byte)
  BY DEF Inner
<1>2. CASE s = <<>>
  <2>1. u = t
    BY <1>1, <1>2, ConcatEmptySeq
  <2> QED BY <2>1
<1>3. CASE s # <<>>
  <2>1. Len(s) \in Nat \ {0} /\ Len(t) \in Nat
    BY <1>1, <1>3, EmptySeq, LenProperties
  <2>2. /\ u \in Seq(Byte)
        /\ \A i \in 1 .. Len(s) + Len(t) : u[i] = IF i <= Len(s) THEN s[i] ELSE t[i - Len(s)]
    BY <1>1, ConcatProperties
  <2>3. 1 \in 1 .. Len(s) + Len(t) /\ 1 <= Len(s)
    BY <2>1
  <2>4. u[1] = s[1]
    BY <2>2, <2>3
  <2> HIDE DEF u
  <2>5. s[1].kind # "index"
    BY <1>3 DEF Inner
  <2>6. u \in Inner
    BY <2>2, <2>4, <2>5 DEF Inner
  <2> QED BY <2>6 DEF u
<1> QED BY <1>2, <1>3

\* The same for any number of parts, by induction on their number.
LEMMA InnerFlatten ==
  ASSUME NEW parts \in Seq(Inner)
  PROVE  FlattenSeq(parts) \in Inner
<1> DEFINE A == {t \in Seq(Inner) : FlattenSeq(t) \in Inner}
<1>1. <<>> \in A
  <2>1. <<>> \in Seq(Inner) /\ <<>> \in Inner
    BY EmptySeq DEF Inner
  <2> QED BY <2>1, FlattenNothing
<1>2. ASSUME NEW t \in Seq(Inner), t \in A, NEW u \in Inner PROVE Append(t, u) \in A
  <2>1. Inner \subseteq Seq(Byte)
    BY DEF Inner
  <2>2. t \in Seq(Seq(Byte)) /\ u \in Seq(Byte)
    <3>1. \A k \in 1 .. Len(t) : t[k] \in Seq(Byte)
      BY <2>1, ElementOfSeq
    <3>2. Len(t) \in Nat /\ t = [k \in 1 .. Len(t) |-> t[k]]
      BY LenProperties
    <3> DEFINE n == Len(t)
    <3> HIDE DEF n
    <3>3. n \in Nat /\ t = [k \in 1 .. n |-> t[k]] /\ \A k \in 1 .. n : t[k] \in Seq(Byte)
      BY <3>1, <3>2 DEF n
    <3> QED BY <2>1, <3>3, FunctionSeq
  <2>3. FlattenSeq(Append(t, u)) = FlattenSeq(t) \o u
    BY <2>2, FlattenAppend
  <2>4. FlattenSeq(t) \o u \in Inner
    BY <1>2, InnerConcat
  <2>5. Append(t, u) \in Seq(Inner)
    BY AppendProperties
  <2> QED BY <2>3, <2>4, <2>5
<1>3. Seq(Inner) \subseteq A
  <2> HIDE DEF A
  <2> QED BY <1>1, <1>2, SeqSetInduction
<1> QED BY <1>3

\* A value begins with its length or with a byte of its own.
LEMMA InnerValue ==
  ASSUME NEW a \in Arg, NEW v, v.length \in Nat, Fits("value", v.id)
  PROVE  LogValue(a, v) \in Inner
<1>1. LogValue(a, v) \in Seq(Byte)
  BY LogValueType
<1>2. CASE a.type \in Strings
  <2> DEFINE n == Cut(v.length)
             f == Field("length", n, 2)
             t == Value(v, n)
  <2>1. /\ n \in Nat /\ Fits("length", n) /\ 2 \in Nat
    BY CutFacts
  <2>2. f \in Seq(Byte) /\ Len(f) = 2 /\ \A b \in 1 .. 2 : f[b] = [kind |-> "length", of |-> n, byte |-> b]
    <3> DEFINE w == 2
    <3>1. w \in Nat /\ Fits("length", n)
      BY <2>1
    <3> HIDE DEF n, w
    <3>2. /\ Field("length", n, w) \in Seq(Byte) /\ Len(Field("length", n, w)) = w
          /\ \A b \in 1 .. w : Field("length", n, w)[b] = [kind |-> "length", of |-> n, byte |-> b]
      BY <3>1, FieldFacts
    <3> QED BY <3>2 DEF w
  <2>3. t \in Seq(Byte)
    BY <1>2, LogValueType
  <2>4. LogValue(a, v) = f \o t
    BY <1>2 DEF LogValue, Length
  <2> HIDE DEF f, t
  <2>5. \A i \in 1 .. Len(f) + Len(t) : (f \o t)[i] = IF i <= Len(f) THEN f[i] ELSE t[i - Len(f)]
    BY <2>2, <2>3, ConcatProperties
  <2>6. Len(t) \in Nat
    BY <2>3, LenProperties
  <2>7. (f \o t)[1] = f[1]
    <3>1. 1 \in 1 .. Len(f) + Len(t) /\ 1 <= Len(f)
      BY <2>2, <2>6
    <3> QED BY <2>5, <3>1
  <2>8. f[1].kind = "length"
    <3>1. f[1] = [kind |-> "length", of |-> n, byte |-> 1]
      BY <2>2
    <3> QED BY <3>1
  <2> QED BY <1>1, <2>4, <2>7, <2>8 DEF Inner
<1>3. CASE a.type \notin Strings
  <2> DEFINE i == v.id
             w == SizeOf(a.type)
  <2>1. Fits("value", i) /\ w \in Nat \ {0} /\ LogValue(a, v) = Field("value", i, w)
    BY <1>3, TypeFacts DEF LogValue, Value, Arg
  <2> HIDE DEF i, w
  <2>2. \A b \in 1 .. w : Field("value", i, w)[b] = [kind |-> "value", of |-> i, byte |-> b]
    BY DEF Field
  <2>3. 1 \in 1 .. w
    BY <2>1
  <2>4. Field("value", i, w)[1] = [kind |-> "value", of |-> i, byte |-> 1]
    BY <2>2, <2>3
  <2> QED BY <1>1, <2>1, <2>4 DEF Inner
<1> QED BY <1>2, <1>3

\* The values of a call do not begin like a call.
LEMMA InnerValues ==
  ASSUME NEW s \in Site, NEW values \in Passes[s]
  PROVE  FlattenSeq(ValueParts(s, values)) \in Inner
<1> DEFINE f == ValueParts(s, values)
           n == Len(s.args)
<1>1. n \in Nat
  BY SiteFacts
<1>2. ASSUME NEW k \in 1 .. n PROVE f[k] \in Inner
  <2> DEFINE a == s.args[k]
             v == values[k]
  <2>1. f[k] = IF a.constant THEN <<>> ELSE LogValue(a, v)
    BY DEF ValueParts, ValuePart
  <2>2. a \in Arg /\ v.length \in Nat /\ Fits("value", v.id)
    BY SiteFacts
  <2> HIDE DEF a, v, f
  <2>3. <<>> \in Inner
    BY EmptySeq DEF Inner
  <2>4. LogValue(a, v) \in Inner
    BY <2>2, InnerValue
  <2> QED BY <2>1, <2>3, <2>4
<1>3. f = [k \in 1 .. n |-> f[k]]
  BY DEF ValueParts
<1> HIDE DEF f, n
<1>4. f \in Seq(Inner)
  BY <1>1, <1>2, <1>3, FunctionSeq
<1> QED BY <1>4, InnerFlatten DEF f

-----------------------------------------------------------------------------

\* The call whose line is complete has been read to its end, or its values are
\* still there.
LEMMA LineDone ==
  ASSUME TypeInv, IndexRead, PrintedRight, parser = "values", AtValue,
         Len(line) = Count(Now.site)
  PROVE  Ahead(log, m_logfile_index, Then) \/ Off
<1> DEFINE s == Now.site
           values == Now.values
           l == Len(line)
           t == Then
           x == FlattenSeq(ValueParts(s, values))
<1>1. /\ log \in Seq(Byte) /\ m_logfile_index \in Nat /\ Len(log) \in Nat
  BY FilesFacts DEF TypeInv, ParserInv
<1>2. /\ s \in Site /\ values \in Passes[s] /\ t \in Seq(Byte)
      /\ Place(s) \in 1 .. Len(sites) /\ sites[Place(s)] = s
      /\ First(Now) \in Passes[s]
  BY NowFacts DEF AtValue
<1>3. Whole(s, First(Now))
  BY ValueAhead
<1>4. Ahead(log, m_logfile_index, Rest(ValueParts(s, values), l) \o t)
  BY DEF AtValue
<1>5. ValueParts(s, values) \in Seq(Seq(Byte)) /\ Len(ValueParts(s, values)) = Len(s.args)
  BY <1>2, ValuePartsFacts
<1>6. CASE Count(s) = Len(s.args)
  <2>1. l = Len(ValueParts(s, values))
    BY <1>5, <1>6
  <2> HIDE DEF l, s, values, t
  <2>2. Ahead(log, m_logfile_index, t)
    BY <1>2, <1>4, <1>5, <2>1, AheadNoRest
  <2> QED BY <2>2 DEF t
<1>7. CASE Count(s) # Len(s.args)
  <2>1. l = 0
    BY <1>3, <1>7 DEF Whole
  <2>2. x \in Inner
    BY <1>2, InnerValues
  <2>3. Ahead(log, m_logfile_index, x \o t)
    <3>1. Rest(ValueParts(s, values), 0) = x
      BY <1>5, RestAll
    <3> QED BY <1>4, <2>1, <3>1
  <2> HIDE DEF x
  <2>4. CASE x = <<>>
    BY <1>2, <2>3, <2>4, ConcatEmptySeq
  <2>5. CASE x # <<>>
    <3>1. x \in Seq(Byte) /\ x[1].kind # "index" /\ Len(x) \in Nat \ {0}
      BY <2>2, <2>5, EmptySeq, LenProperties DEF Inner
    <3>2. /\ \A k \in 1 .. Len(x) : log[m_logfile_index + k] = x[k]
          /\ m_logfile_index + Len(x) <= Len(log)
      <4> HIDE DEF t
      <4> QED BY <1>1, <1>2, <2>3, <3>1, AheadConcat
    <3>3. m_logfile_index < Len(log) /\ log[m_logfile_index + 1].kind # "index"
      <4>1. 1 \in 1 .. Len(x)
        BY <3>1
      <4> QED BY <1>1, <3>1, <3>2, <4>1
    <3>4. ~ Representable(s, First(Now))
      BY <1>2, <1>7, RepresentableFacts
    <3>5. ~ AllRepresentable
      BY <1>2, <3>4, NotAll DEF TypeInv, ProgramInv, First
    <3> QED BY <3>3, <3>5 DEF Off
  <2> QED BY <2>4, <2>5
<1> QED BY <1>6, <1>7

\* PrintLine: one line more is right.
LEMMA LogPrint == IndexInv /\ LogTrack /\ PrintLine => LogTrack'
<1> SUFFICES ASSUME IndexInv, LogTrack, PrintLine PROVE LogTrack'
  OBVIOUS
<1> DEFINE s == Now.site
           n == Len(printed)
           p == [format |-> table[current].format, args |-> line]
<1>1. /\ parser = "values" /\ Len(line) = Len(table[current].args)
      /\ printed' = Append(printed, p) /\ parser' = "log"
      /\ UNCHANGED program /\ m_logfile_index' = m_logfile_index
  BY DEF PrintLine
<1>2. IndexRead /\ PrintedRight /\ TypeInv /\ AtValue
  BY <1>1 DEF IndexInv, IndexTrack, LogTrack
<1>3. /\ Len(line) = Count(s)
      /\ table[current].format = Field("text", s.format, Cut(s.length))
  BY <1>1, <1>2, ValueAhead
<1>4. /\ n \in Nat /\ n + 1 \in 1 .. Len(calls) /\ s \in Site /\ Now.values \in Passes[s]
  BY <1>2, NowFacts DEF AtValue
<1>5. Tells(p, Now)
  <2>1. \A k \in 1 .. Count(s) : line[k] = ToldArg(Now, k)
    BY <1>2, <1>3 DEF AtValue
  <2> QED BY <1>3, <2>1 DEF Tells
<1>6. p \in Line
  <2>1. line \in Seq(Seq(Byte))
    BY <1>1, <1>2 DEF TypeInv, ParserInv
  <2>2. Field("text", s.format, Cut(s.length)) \in Seq(Byte)
    BY <1>4, EntryIs
  <2> QED BY <1>3, <2>1, <2>2 DEF Line
<1> HIDE DEF p
<1>7. /\ printed' \in Seq(Line) /\ Len(printed') = n + 1 /\ printed'[n + 1] = p
      /\ \A k \in 1 .. n : printed'[k] = printed[k]
  BY <1>1, <1>2, <1>6, AppendProperties DEF PrintedRight
<1>8. PrintedRight'
  <2>1. calls' = calls /\ sites' = sites /\ recorded' = recorded
    BY <1>1, ProgramKept
  <2>2. \A k \in 1 .. n : Tells(printed[k], calls[k])
    BY <1>2 DEF PrintedRight
  <2>3. Tells(p, calls[n + 1])
    BY <1>5 DEF Now
  <2> HIDE DEF n
  <2>4. \A k \in 1 .. n + 1 : k \in 1 .. n \/ k = n + 1
    BY <1>4
  <2>5. ASSUME NEW k \in 1 .. n + 1 PROVE Tells(printed'[k], calls'[k])
    <3>1. CASE k \in 1 .. n
      BY <1>7, <2>1, <2>2, <3>1
    <3>2. CASE k = n + 1
      BY <1>7, <2>1, <2>3, <3>2
    <3> QED BY <2>4, <3>1, <3>2
  <2>6. n + 1 <= Len(calls')
    <3>1. Len(calls) \in Nat
      BY <1>2, LogEntriesFacts DEF TypeInv, ProgramInv
    <3> QED BY <1>4, <2>1, <3>1
  <2>7. \A k \in 1 .. Len(printed') : Tells(printed'[k], calls'[k])
    BY <1>7, <2>5
  <2>8. printed' \in Seq(Line) /\ Len(printed') <= Len(calls')
    BY <1>7, <2>6
  <2> QED BY <2>1, <2>7, <2>8 DEF PrintedRight, Tells, ToldArg, First, Place
<1>9. AtLine' \/ Off'
  <2>1. Ahead(log, m_logfile_index, Then) \/ Off
    BY <1>1, <1>2, <1>3, LineDone
  <2>2. log' = log /\ LogEntries' = LogEntries /\ (AllRepresentable' <=> AllRepresentable)
    BY <1>1, ProgramKept
  <2> QED BY <1>1, <1>7, <2>1, <2>2 DEF AtLine, Off, Then
<1> QED BY <1>1, <1>8, <1>9 DEF LogTrack

-----------------------------------------------------------------------------

\* LogParsed: there is a line for every call.
LEMMA LogDone == IndexInv /\ LogTrack /\ LogParsed => LogTrack'
<1> SUFFICES ASSUME IndexInv, LogTrack, LogParsed PROVE LogTrack'
  OBVIOUS
<1>1. /\ parser = "log" /\ m_logfile_index >= Len(log) /\ parser' = "done"
      /\ UNCHANGED program /\ printed' = printed
  BY DEF LogParsed, logParser
<1>2. IndexRead /\ PrintedRight /\ TypeInv
  BY <1>1 DEF IndexInv, IndexTrack, LogTrack
<1>3. Len(log) \in Nat /\ m_logfile_index \in Nat /\ Len(printed) \in Nat /\ Len(calls) \in Nat
  BY <1>2, FilesFacts, LogEntriesFacts, LenProperties
  DEF TypeInv, ParserInv, ProgramInv, PrintedRight
<1>4. AtLine
  BY <1>1, <1>3 DEF LogTrack, Off
<1>5. Len(printed) = Len(calls)
  <2>1. ~ (Len(printed) < Len(calls))
    BY <1>1, <1>2, <1>3, <1>4, LineAhead
  <2> QED BY <1>2, <1>3, <2>1 DEF PrintedRight
<1>6. PrintedRight' /\ Len(printed') = Len(calls')
  BY <1>1, <1>2, <1>5, LogKept, ProgramKept
<1> QED BY <1>1, <1>6 DEF LogTrack

\* Derail: there was an entry that is not representable.
LEMMA LogDerail == IndexInv /\ LogTrack /\ Derail => LogTrack'
<1> SUFFICES ASSUME IndexInv, LogTrack, Derail PROVE LogTrack'
  OBVIOUS
<1>1. parser' = "derailed" /\ UNCHANGED program
  BY DEF Derail
<1>2. CASE Stuck
  <2>1. ~ AllRepresentable'
    BY <1>1, <1>2, ProgramKept DEF Stuck
  <2> QED BY <1>1, <2>1 DEF LogTrack
<1>3. CASE parser = "log"
  <2>1. IndexRead /\ PrintedRight /\ TypeInv /\ (AtLine \/ Off)
    BY <1>3 DEF IndexInv, IndexTrack, LogTrack
  <2>2. m_logfile_index < Len(log) /\ ~ OnIndex
    BY <1>3 DEF Derail
  <2>3. Off
    BY <2>1, <2>2, LineAhead
  <2>4. ~ AllRepresentable'
    BY <1>1, <2>3, ProgramKept DEF Off
  <2> QED BY <1>1, <2>4 DEF LogTrack
<1>4. CASE parser = "values"
  <2>1. IndexRead /\ PrintedRight /\ TypeInv /\ AtValue
    BY <1>4 DEF IndexInv, IndexTrack, LogTrack
  <2>2. /\ Len(line) < Len(table[current].args) /\ ~ ArgInfo.is_constant
        /\ ~ HoldsValue(log, m_logfile_index, ArgInfo.type)
    BY <1>4 DEF Derail
  <2>3. /\ ArgInfo = ArgRead(Now.site, First(Now), Len(line) + 1)
        /\ ValueRead(log, m_logfile_index, Now.site, Now.values, Len(line), Then)
    BY <1>4, <2>1, <2>2, ValueAhead
  <2>4. HoldsValue(log, m_logfile_index, ArgInfo.type)
    BY <2>2, <2>3 DEF ArgRead, ValueRead
  <2> QED BY <2>2, <2>4
<1>5. Stuck \/ parser \in {"log", "values"}
  BY DerailStuck DEF IndexInv
<1> QED BY <1>2, <1>3, <1>4, <1>5

\* A stuttering step leaves the parser where it is.
LEMMA LogUnchanged == LogTrack /\ UNCHANGED vars => LogTrack'
<1> SUFFICES ASSUME LogTrack, UNCHANGED vars PROVE LogTrack'
  OBVIOUS
<1>1. /\ UNCHANGED program /\ parser' = parser /\ printed' = printed
      /\ m_logfile_index' = m_logfile_index /\ current' = current /\ line' = line
  BY DEF vars, logParser
<1>2. /\ PrintedRight' <=> PrintedRight
      /\ Now' = Now /\ Then' = Then /\ Place(Now.site)' = Place(Now.site)
      /\ \A k : ToldArg(Now, k)' = ToldArg(Now, k)
      /\ calls' = calls /\ log' = log /\ LogEntries' = LogEntries
      /\ AllRepresentable' <=> AllRepresentable
  BY <1>1, LogKept, ProgramKept
<1>3. (AtLine' <=> AtLine) /\ (Off' <=> Off) /\ (AtValue' <=> AtValue)
  BY <1>1, <1>2 DEF AtLine, Off, AtValue
<1> QED BY <1>1, <1>2, <1>3 DEF LogTrack

\* Every step keeps log_file_parser on its track.
LEMMA LogStep == IndexInv /\ LogTrack /\ [Next]_vars => LogTrack'
<1> SUFFICES ASSUME IndexInv, LogTrack, [Next]_vars PROVE LogTrack'
  OBVIOUS
<1>1. CASE \E s \in Site : \E values \in Passes[s] : Call(s, values)
  BY <1>1 DEF Call, LogTrack
<1>2. CASE Unpack \/ ParseFormat
  BY <1>2 DEF Unpack, ParseFormat, LogTrack
<1>3. CASE ParseType \/ ParseArg
  BY <1>3 DEF ParseType, ParseArg, LogTrack
<1>4. CASE IndexParsed \/ ParseIndex \/ ParseValue \/ PrintLine \/ LogParsed \/ Derail
  BY <1>4, LogParsedIndex, LogIndex, LogValueRead, LogPrint, LogDone, LogDerail
<1>5. CASE Terminated \/ UNCHANGED vars
  BY <1>5, LogUnchanged DEF Terminated
<1> QED BY <1>1, <1>2, <1>3, <1>4, <1>5 DEF Next

LogInv == IndexInv /\ LogTrack

\* The inductive invariant of both files.
LEMMA LogInvHolds == Spec => []LogInv
<1>1. Init => LogTrack
  BY DEF Init, LogTrack
<1>2. IndexInv /\ LogTrack /\ [Next]_vars => LogTrack'
  BY LogStep
<1> QED BY <1>1, <1>2, IndexInvHolds, PTL DEF Spec, LogInv

-----------------------------------------------------------------------------

\* A call on its own.
LEMMA CallFacts ==
  ASSUME TypeInv, NEW i \in 1 .. Len(calls), NEW c, c = calls[i]
  PROVE  /\ c.site \in Site /\ c.values \in Passes[c.site]
         /\ Place(c.site) \in 1 .. Len(sites) /\ sites[Place(c.site)] = c.site
         /\ First(c) \in Passes[c.site]
         /\ First(c) = recorded[CHOOSE k \in DOMAIN sites : sites[k] = c.site]
<1>1. Registered /\ Called
  BY DEF TypeInv, ProgramInv
<1>2. /\ c.site \in Site /\ c.values \in Passes[c.site]
      /\ Place(c.site) \in 1 .. Len(sites) /\ sites[Place(c.site)] = c.site
  BY <1>1, LogEntriesFacts
<1>3. First(c) \in Passes[c.site]
  BY <1>1, <1>2, EntriesFacts DEF First
<1>4. DOMAIN sites = 1 .. Len(sites)
  BY <1>1, LenProperties DEF Registered
<1>5. First(c) = recorded[CHOOSE k \in DOMAIN sites : sites[k] = c.site]
  BY <1>4 DEF First, Place, PlaceIn
<1> QED BY <1>2, <1>3, <1>5

\* The line of a call whose arguments were counted.
LEMMA LineTold ==
  ASSUME TypeInv, NEW i \in 1 .. Len(calls), NEW c, c = calls[i],
         NEW p \in Line, Tells(p, c), Count(c.site) = Len(c.site.args)
  PROVE  p = AsRecorded(c)
<1> DEFINE s == c.site
           n == Len(s.args)
           args == [k \in 1 .. n |-> ToldArg(c, k)]
           f == Field("text", s.format, Cut(s.length))
<1>1. s \in Site /\ First(c) = recorded[CHOOSE k \in DOMAIN sites : sites[k] = s]
      /\ c.values \in Passes[s]
  BY CallFacts
<1>2. DOMAIN s.args = 1 .. n
  BY <1>1, SiteFacts
<1>3. AsRecorded(c) = [format |-> f, args |-> args]
  <2> DEFINE r == recorded[CHOOSE k \in DOMAIN sites : sites[k] = s]
             g == [k \in DOMAIN s.args |->
                     Stored(s.args[k], IF s.args[k].constant THEN r[k] ELSE c.values[k])]
  <2>1. AsRecorded(c) = [format |-> f, args |-> g]
    BY DEF AsRecorded
  <2>2. r = First(c)
    BY <1>1
  <2> HIDE DEF r
  <2>3. \A k \in 1 .. n : g[k] = ToldArg(c, k)
    BY <1>2, <2>2 DEF ToldArg
  <2>4. g = [k \in 1 .. n |-> g[k]]
    BY <1>2, Zenon
  <2> HIDE DEF g
  <2>5. g = args
    BY <2>3, <2>4, Zenon
  <2> QED BY <2>1, <2>5
<1>4. p = [format |-> p.format, args |-> p.args] /\ p.args \in Seq(Seq(Byte))
  BY DEF Line
<1>5. p.format = f /\ n = Len(p.args) /\ \A k \in 1 .. n : p.args[k] = ToldArg(c, k)
  BY DEF Tells
<1>6. p.args = [k \in 1 .. n |-> p.args[k]]
  <2> HIDE DEF n
  <2> QED BY <1>4, <1>5, SeqFunction
<1>7. p.args = args
  BY <1>5, <1>6
<1> HIDE DEF args, f
<1> QED BY <1>3, <1>4, <1>5, <1>7

\* On its track the parser has printed the first calls as they are recorded.
LEMMA LogInvMisread == LogInv => NothingMisread
<1> SUFFICES ASSUME LogInv, AllRepresentable
             PROVE  /\ parser # "derailed"
                    /\ \E n \in 0 .. Len(calls) :
                         /\ printed = [k \in 1 .. n |-> AsRecorded(calls[k])]
                         /\ parser = "done" => n = Len(calls)
  BY DEF NothingMisread
<1> DEFINE n == Len(printed)
<1>1. TypeInv /\ Registered /\ parser # "derailed"
  BY DEF LogInv, IndexInv, TypeInv, ProgramInv, LogTrack
<1>2. Len(calls) \in Nat
  BY <1>1, LogEntriesFacts DEF TypeInv, ProgramInv
<1>3. PrintedRight /\ (parser = "done" => n = Len(calls))
  <2>1. CASE parser \in {"idle", "entry", "types", "args"}
    <3>1. printed = <<>> /\ Len(<<>>) = 0 /\ <<>> \in Seq(Line)
      BY <1>1, <2>1, EmptySeq DEF TypeInv, ParserInv
    <3> QED BY <1>2, <2>1, <3>1 DEF PrintedRight
  <2>2. CASE parser \in {"log", "values", "done"}
    BY <2>2 DEF LogInv, LogTrack
  <2> QED BY <1>1, <2>1, <2>2 DEF TypeInv, ParserInv
<1>4. /\ printed \in Seq(Line) /\ n \in Nat /\ n <= Len(calls)
      /\ \A k \in 1 .. n : Tells(printed[k], calls[k])
  BY <1>3, LenProperties DEF PrintedRight
<1>5. ASSUME NEW k \in 1 .. n PROVE printed[k] = AsRecorded(calls[k])
  <2> DEFINE c == calls[k]
             p == printed[k]
  <2>1. k \in 1 .. Len(calls)
    BY <1>2, <1>4
  <2>2. p \in Line /\ Tells(p, c)
    BY <1>4, ElementOfSeq
  <2>3. /\ c.site \in Site /\ Place(c.site) \in 1 .. Len(sites)
        /\ sites[Place(c.site)] = c.site /\ First(c) \in Passes[c.site]
    BY <1>1, <2>1, CallFacts
  <2>4. Representable(c.site, First(c))
    <3>1. DOMAIN sites = 1 .. Len(sites)
      BY <1>1, LenProperties DEF Registered
    <3> QED BY <2>3, <3>1 DEF AllRepresentable, First
  <2>5. Count(c.site) = Len(c.site.args)
    BY <2>3, <2>4, RepresentableFacts
  <2>6. c = calls[k]
    OBVIOUS
  <2> HIDE DEF c, p
  <2>7. p = AsRecorded(c)
    BY <1>1, <2>1, <2>2, <2>5, <2>6, LineTold
  <2> QED BY <2>7 DEF c, p
<1>6. printed = [k \in 1 .. n |-> AsRecorded(calls[k])]
  <2>1. printed = [k \in 1 .. n |-> printed[k]]
    <3>1. n = Len(printed)
      OBVIOUS
    <3> HIDE DEF n
    <3> QED BY <1>4, <3>1, SeqFunction
  <2> QED BY <1>5, <2>1, Zenon
<1>7. n \in 0 .. Len(calls)
  BY <1>2, <1>4
<1> QED BY <1>1, <1>3, <1>6, <1>7

(* As long as every entry could be told, no value is taken for another.     *)
THEOREM NeverMisread == Spec => []NothingMisread
BY LogInvHolds, LogInvMisread, PTL

-----------------------------------------------------------------------------

\* Fields are told apart by their length, and by what they are of unless they
\* are empty.
LEMMA SameField ==
  ASSUME NEW kind, NEW i, NEW j, Fits(kind, i), Fits(kind, j), NEW m \in Nat, NEW n \in Nat
  PROVE  Field(kind, i, m) = Field(kind, j, n) <=> m = n /\ (n # 0 => i = j)
<1> DEFINE f == Field(kind, i, m)
           g == Field(kind, j, n)
<1>1. /\ f \in Seq(Byte) /\ Len(f) = m
      /\ \A b \in 1 .. m : f[b] = [kind |-> kind, of |-> i, byte |-> b]
  BY FieldFacts
<1>2. /\ g \in Seq(Byte) /\ Len(g) = n
      /\ \A b \in 1 .. n : g[b] = [kind |-> kind, of |-> j, byte |-> b]
  BY FieldFacts
<1> HIDE DEF f, g
<1>3. ASSUME f = g PROVE m = n /\ (n # 0 => i = j)
  <2>1. m = n
    BY <1>1, <1>2, <1>3
  <2>2. ASSUME n # 0 PROVE i = j
    <3>1. 1 \in 1 .. n /\ 1 \in 1 .. m
      BY <2>1, <2>2
    <3>2. f[1] = [kind |-> kind, of |-> i, byte |-> 1]
      BY <1>1, <3>1
    <3>3. f[1] = [kind |-> kind, of |-> j, byte |-> 1]
      BY <1>2, <1>3, <3>1
    <3>4. f[1].of = i /\ f[1].of = j
      <4>1. f[1].of = i
        BY <3>2
      <4>2. f[1].of = j
        BY <3>3
      <4> QED BY <4>1, <4>2
    <3> QED BY <3>4
  <2> QED BY <2>1, <2>2
<1>4. ASSUME m = n, n # 0 => i = j PROVE f = g
  <2>1. ASSUME NEW b \in 1 .. m PROVE f[b] = g[b]
    <3>1. b \in 1 .. n /\ n # 0
      BY <1>4
    <3>2. i = j
      BY <1>4, <3>1
    <3> QED BY <1>1, <1>2, <3>1, <3>2
  <2> QED BY <1>1, <1>2, <1>4, <2>1, SeqEqual
<1> QED BY <1>3, <1>4 DEF f, g

\* Of value w is stored what there is of value v.
SameBytes(a, w, v) ==
  IF a.type \in Strings
  THEN Cut(w.length) = v.length /\ (v.length # 0 => w.id = v.id)
  ELSE w.id = v.id

\* What is stored of one value is another in full exactly if they have the
\* same bytes.
LEMMA StoredInFull ==
  ASSUME NEW a \in Arg, NEW v, NEW w, v.length \in Nat, w.length \in Nat,
         Fits("value", v.id), Fits("value", w.id)
  PROVE  Stored(a, w) = Value(v, IF a.type \in Strings THEN v.length ELSE SizeOf(a.type))
           <=> SameBytes(a, w, v)
<1> DEFINE i == w.id
           j == v.id
           m == IF a.type \in Strings THEN Cut(w.length) ELSE SizeOf(a.type)
           n == IF a.type \in Strings THEN v.length ELSE SizeOf(a.type)
<1>1. Fits("value", i) /\ Fits("value", j)
  OBVIOUS
<1>2. a.type \notin Strings => SizeOf(a.type) \in Nat \ {0}
  BY TypeFacts DEF Arg
<1>3. Cut(w.length) \in Nat
  BY CutFacts
<1>4. m \in Nat /\ n \in Nat
  BY <1>2, <1>3
<1>5. Stored(a, w) = Field("value", i, m) /\ Value(v, n) = Field("value", j, n)
  BY DEF Stored, Value
<1>6. (m = n /\ (n # 0 => i = j)) <=> SameBytes(a, w, v)
  <2>1. CASE a.type \in Strings
    BY <2>1 DEF SameBytes
  <2>2. CASE a.type \notin Strings
    BY <1>2, <2>2 DEF SameBytes
  <2> QED BY <2>1, <2>2
<1> HIDE DEF i, j, m, n
<1>7. Field("value", i, m) = Field("value", j, n) <=> m = n /\ (n # 0 => i = j)
  BY <1>1, <1>4, SameField
<1>8. Stored(a, w) = Value(v, n) <=> SameBytes(a, w, v)
  BY <1>5, <1>6, <1>7
<1> QED BY <1>8 DEF n

Told(c, k) == IF c.site.args[k].constant THEN First(c)[k] ELSE c.values[k]

\* The line tells all there is of the call.
Full(c) ==
  /\ c.site.length < LengthMod
  /\ Count(c.site) = Len(c.site.args)
  /\ \A k \in 1 .. Len(c.site.args) : SameBytes(c.site.args[k], Told(c, k), c.values[k])

\* A line is its call in full exactly if the line tells all there is.
LEMMA LineInFull ==
  ASSUME TypeInv, NEW i \in 1 .. Len(calls), NEW c, c = calls[i], NEW p \in Line, Tells(p, c)
  PROVE  p = InFull(c) <=> Full(c)
<1> DEFINE s == c.site
           v == c.values
           n == Len(s.args)
           full(k) == Value(v[k], IF s.args[k].type \in Strings
                                  THEN v[k].length ELSE SizeOf(s.args[k].type))
           args == [k \in 1 .. n |-> full(k)]
           f == Field("text", s.format, s.length)
<1>1. s \in Site /\ v \in Passes[s] /\ First(c) \in Passes[s]
  BY CallFacts
<1>2. DOMAIN s.args = 1 .. n /\ n \in Nat
  BY <1>1, SiteFacts
<1>3. InFull(c) = [format |-> f, args |-> args]
  <2> DEFINE g == [k \in DOMAIN s.args |-> full(k)]
  <2>1. InFull(c) = [format |-> f, args |-> g]
    BY DEF InFull
  <2>2. g = args
    BY <1>2
  <2> QED BY <2>1, <2>2
<1>4. p = [format |-> p.format, args |-> p.args] /\ p.args \in Seq(Seq(Byte))
  BY DEF Line
<1>5. /\ p.format = Field("text", s.format, Cut(s.length)) /\ Len(p.args) = Count(s)
      /\ \A k \in 1 .. Count(s) : p.args[k] = ToldArg(c, k)
  BY DEF Tells
<1>6. p.format = f <=> s.length < LengthMod
  <2> DEFINE l == s.length
             t == s.format
  <2>1. l \in Nat /\ Fits("text", t)
    BY <1>1, SiteFacts
  <2>2. Cut(l) \in Nat /\ (l < LengthMod <=> Cut(l) = l)
    BY <2>1, CutFacts
  <2> HIDE DEF l, t
  <2>3. Field("text", t, Cut(l)) = Field("text", t, l) <=> Cut(l) = l /\ (l # 0 => t = t)
    BY <2>1, <2>2, SameField
  <2>4. p.format = Field("text", t, Cut(l)) /\ f = Field("text", t, l)
    BY <1>5 DEF l, t
  <2> HIDE DEF f
  <2> QED BY <2>2, <2>3, <2>4 DEF l
<1>7. ASSUME NEW k \in 1 .. n
      PROVE  /\ ToldArg(c, k) = full(k) <=> SameBytes(s.args[k], Told(c, k), v[k])
             /\ full(k) \in Seq(Byte)
  <2> DEFINE a == s.args[k]
             x == v[k]
             w == Told(c, k)
  <2>1. /\ a \in Arg /\ x.length \in Nat /\ Fits("value", x.id)
        /\ w.length \in Nat /\ Fits("value", w.id)
    <3>1. \A y \in Passes[s] : a \in Arg /\ y[k].length \in Nat /\ Fits("value", y[k].id)
      BY <1>1, SiteFacts
    <3>2. w \in {First(c)[k], v[k]}
      BY DEF Told
    <3> HIDE DEF a, w
    <3> QED BY <1>1, <3>1, <3>2
  <2>2. ToldArg(c, k) = Stored(a, w)
    BY DEF ToldArg, Told
  <2>3. full(k) = Value(x, IF a.type \in Strings THEN x.length ELSE SizeOf(a.type))
    OBVIOUS
  <2> HIDE DEF full
  <2>4. ToldArg(c, k) = full(k) <=> SameBytes(a, w, x)
    <3> HIDE DEF a, x, w
    <3>1. Stored(a, w) = Value(x, IF a.type \in Strings THEN x.length ELSE SizeOf(a.type))
            <=> SameBytes(a, w, x)
      BY <2>1, StoredInFull
    <3> QED BY <2>2, <2>3, <3>1
  <2>5. full(k) \in Seq(Byte)
    <3> DEFINE j == x.id
               m == IF a.type \in Strings THEN x.length ELSE SizeOf(a.type)
    <3>1. Fits("value", j)
      BY <2>1
    <3>2. m \in Nat
      BY <2>1, TypeFacts DEF Arg
    <3>3. full(k) = Field("value", j, m)
      BY <2>3 DEF Value
    <3> HIDE DEF j, m
    <3> QED BY <3>1, <3>2, <3>3, FieldFacts
  <2> QED BY <2>4, <2>5
<1>8. args \in Seq(Seq(Byte)) /\ Len(args) = n /\ \A k \in 1 .. n : args[k] = full(k)
  <2>1. \A k \in 1 .. n : args[k] = full(k)
    OBVIOUS
  <2>2. \A k \in 1 .. n : args[k] \in Seq(Byte)
    BY <1>7, <2>1
  <2>3. args = [k \in 1 .. n |-> args[k]]
    OBVIOUS
  <2> HIDE DEF args, n
  <2>4. args \in Seq(Seq(Byte)) /\ Len(args) = n
    BY <1>2, <2>2, <2>3, FunctionSeq
  <2> QED BY <2>1, <2>4
<1> HIDE DEF args, full
<1>9. p.args = args <=> Count(s) = n /\ \A k \in 1 .. n : SameBytes(s.args[k], Told(c, k), v[k])
  <2>1. ASSUME p.args = args
        PROVE  Count(s) = n /\ \A k \in 1 .. n : SameBytes(s.args[k], Told(c, k), v[k])
    <3>1. Count(s) = n
      BY <1>5, <1>8, <2>1
    <3>2. \A k \in 1 .. n : ToldArg(c, k) = full(k)
      BY <1>5, <1>8, <2>1, <3>1
    <3> QED BY <1>7, <3>1, <3>2
  <2>2. ASSUME Count(s) = n, \A k \in 1 .. n : SameBytes(s.args[k], Told(c, k), v[k])
        PROVE  p.args = args
    <3>1. Len(p.args) = n /\ \A k \in 1 .. n : p.args[k] = args[k]
      BY <1>5, <1>7, <1>8, <2>2
    <3> HIDE DEF n
    <3> QED BY <1>4, <1>8, <3>1, SeqEqual
  <2> QED BY <2>1, <2>2
<1>10. p = InFull(c) <=> p.format = f /\ p.args = args
  <2> HIDE DEF f
  <2> QED BY <1>3, <1>4
<1> QED BY <1>6, <1>9, <1>10 DEF Full

-----------------------------------------------------------------------------

\* The values of a pass are told apart by their bytes.
LEMMA SameValue ==
  ASSUME NEW s \in Site, NEW v \in Passes[s], NEW w \in Passes[s], NEW k \in 1 .. Len(s.args),
         IF s.args[k].type \in Strings
         THEN v[k].length = w[k].length /\ (v[k].length # 0 => v[k].id = w[k].id)
         ELSE v[k].id = w[k].id
  PROVE  v[k] = w[k]
BY IdentityAssumption

\* All lines tell all there is exactly when the entries could be told and the
\* calls were what the files can tell.
LEMMA FullFaithful ==
  ASSUME TypeInv, IndexRead
  PROVE  (\A i \in 1 .. Len(calls) : Full(calls[i]))
           <=> (AllRepresentable /\ \A i \in 1 .. Len(calls) : Faithful(calls[i]))
<1>1. Registered /\ FirstPasses
  BY DEF TypeInv, ProgramInv
<1>2. DOMAIN sites = 1 .. Len(sites)
  BY <1>1, LenProperties DEF Registered
<1>3. ASSUME AllRepresentable, NEW i \in 1 .. Len(calls), Faithful(calls[i])
      PROVE  Full(calls[i])
  <2> DEFINE c == calls[i]
             s == c.site
             v == c.values
  <2>1. /\ s \in Site /\ v \in Passes[s] /\ First(c) \in Passes[s]
        /\ Place(s) \in 1 .. Len(sites) /\ sites[Place(s)] = s
        /\ First(c) = recorded[CHOOSE k \in DOMAIN sites : sites[k] = s]
    BY CallFacts
  <2>2. DOMAIN s.args = 1 .. Len(s.args)
    BY <2>1, SiteFacts
  <2>3. /\ s.length < LengthMod
        /\ \A k \in 1 .. Len(s.args) :
             /\ s.args[k].type \in Strings => v[k].length < LengthMod
             /\ s.args[k].constant => v[k] = First(c)[k]
    BY <1>3, <2>1, <2>2 DEF Faithful
  <2>4. Representable(s, First(c))
    BY <1>2, <1>3, <2>1 DEF AllRepresentable, First
  <2>5. Count(s) = Len(s.args)
    BY <2>1, <2>4, RepresentableFacts
  <2>6. ASSUME NEW k \in 1 .. Len(s.args) PROVE SameBytes(s.args[k], Told(c, k), v[k])
    <3>1. Told(c, k) = v[k]
      BY <2>3 DEF Told
    <3>2. s.args[k].type \in Strings => Cut(v[k].length) = v[k].length
      <4> DEFINE l == v[k].length
      <4>1. l \in Nat /\ (s.args[k].type \in Strings => l < LengthMod)
        BY <2>1, <2>3, SiteFacts
      <4> HIDE DEF l
      <4>2. s.args[k].type \in Strings => Cut(l) = l
        BY <4>1, CutFacts
      <4> QED BY <4>2 DEF l
    <3> QED BY <3>1, <3>2 DEF SameBytes
  <2> QED BY <2>3, <2>5, <2>6 DEF Full
<1>4. ASSUME \A i \in 1 .. Len(calls) : Full(calls[i]) PROVE AllRepresentable
  <2> SUFFICES ASSUME NEW k \in 1 .. Len(sites) PROVE Representable(sites[k], recorded[k])
    BY <1>2 DEF AllRepresentable
  <2> DEFINE s == sites[k]
             w == recorded[k]
  <2>1. s \in Site /\ w \in Passes[s]
    BY <1>1, EntriesFacts
  <2>2. Whole(s, w)
    BY DEF IndexRead, TableRead, Complete
  <2>3. PICK i \in 1 .. Len(calls) : calls[i].site = s /\ calls[i].values = w
    BY <1>1 DEF FirstPasses
  <2>4. Count(s) = Len(s.args)
    BY <1>4, <2>3 DEF Full
  <2>5. Short(s, w, Len(s.args))
    <3>1. CASE Count(s) = 0
      <4>1. Len(s.args) = 0
        BY <2>4, <3>1
      <4> QED BY <4>1 DEF Short
    <3>2. CASE Count(s) # 0
      BY <2>2, <3>2 DEF Whole
    <3> QED BY <3>1, <3>2
  <2> QED BY <2>1, <2>4, <2>5, RepresentableFacts
<1>5. ASSUME \A i \in 1 .. Len(calls) : Full(calls[i]), NEW i \in 1 .. Len(calls)
      PROVE  Faithful(calls[i])
  <2> DEFINE c == calls[i]
             s == c.site
             v == c.values
             w == First(c)
  <2>1. /\ s \in Site /\ v \in Passes[s] /\ w \in Passes[s]
        /\ Place(s) \in 1 .. Len(sites) /\ sites[Place(s)] = s
        /\ w = recorded[CHOOSE k \in DOMAIN sites : sites[k] = s]
    BY CallFacts
  <2>2. DOMAIN s.args = 1 .. Len(s.args)
    BY <2>1, SiteFacts
  <2>3. s.length < LengthMod
        /\ \A k \in 1 .. Len(s.args) : SameBytes(s.args[k], Told(c, k), v[k])
    BY <1>5 DEF Full
  <2>4. PICK j \in 1 .. Len(calls) : calls[j].site = s /\ calls[j].values = w
    BY <1>1, <2>1 DEF FirstPasses, First
  <2>5. \A k \in 1 .. Len(s.args) : SameBytes(s.args[k], w[k], w[k])
    <3>1. First(calls[j]) = w
      BY <2>4 DEF First
    <3>2. \A k \in 1 .. Len(s.args) : Told(calls[j], k) = w[k]
      BY <2>4, <3>1 DEF Told
    <3>3. \A k \in 1 .. Len(s.args) : SameBytes(s.args[k], Told(calls[j], k), w[k])
      BY <1>5, <2>4 DEF Full
    <3> QED BY <3>2, <3>3
  <2>6. ASSUME NEW k \in 1 .. Len(s.args)
        PROVE  /\ s.args[k].type \in Strings => v[k].length < LengthMod
               /\ s.args[k].constant => v[k] = w[k]
    <3> DEFINE a == s.args[k]
               l == v[k].length
               m == w[k].length
    <3>1. l \in Nat /\ m \in Nat
      BY <2>1, SiteFacts
    <3>2. SameBytes(a, Told(c, k), v[k]) /\ SameBytes(a, w[k], w[k])
      BY <2>3, <2>5
    <3>3. CASE a.constant
      <4>1. Told(c, k) = w[k]
        BY <3>3 DEF Told
      <4>2. CASE a.type \in Strings
        <5>1. Cut(m) = l /\ (l # 0 => w[k].id = v[k].id) /\ Cut(m) = m
          BY <3>2, <4>1, <4>2 DEF SameBytes
        <5>2. m < LengthMod /\ l = m
          <6> HIDE DEF l, m
          <6> QED BY <3>1, <5>1, CutFacts
        <5>3. v[k].length = w[k].length /\ (v[k].length # 0 => v[k].id = w[k].id)
          BY <5>1, <5>2
        <5>4. v[k] = w[k]
          BY <2>1, <4>2, <5>3, SameValue
        <5> QED BY <5>2, <5>4
      <4>3. CASE a.type \notin Strings
        <5>1. v[k].id = w[k].id
          BY <3>2, <4>1, <4>3 DEF SameBytes
        <5>2. v[k] = w[k]
          BY <2>1, <4>3, <5>1, SameValue
        <5> QED BY <4>3, <5>2
      <4> QED BY <4>2, <4>3
    <3>4. CASE ~ a.constant
      <4>1. Told(c, k) = v[k]
        BY <3>4 DEF Told
      <4>2. a.type \in Strings => Cut(l) = l
        BY <3>2, <4>1 DEF SameBytes
      <4>3. Cut(l) = l => l < LengthMod
        <5> HIDE DEF l
        <5> QED BY <3>1, CutFacts
      <4> QED BY <3>4, <4>2, <4>3
    <3> QED BY <3>3, <3>4
  <2> QED BY <2>1, <2>2, <2>3, <2>6 DEF Faithful
<1> QED BY <1>3, <1>4, <1>5

\* At its end the parser has printed the calls in full exactly if all are
\* faithful.
LEMMA LogInvFull == LogInv => PrintsCallsInFullExactlyWhenFaithful
<1> SUFFICES ASSUME LogInv, Finished
             PROVE  (parser = "done" /\ printed = [k \in DOMAIN calls |-> InFull(calls[k])])
                      <=> (AllRepresentable /\ \A k \in DOMAIN calls : Faithful(calls[k]))
  BY DEF PrintsCallsInFullExactlyWhenFaithful
<1>1. CASE parser = "derailed"
  BY <1>1 DEF LogInv, LogTrack
<1>2. CASE parser = "done"
  <2> DEFINE n == Len(calls)
  <2>1. TypeInv /\ IndexRead /\ PrintedRight /\ Len(printed) = n
    BY <1>2 DEF LogInv, IndexInv, IndexTrack, LogTrack
  <2>2. DOMAIN calls = 1 .. n /\ n \in Nat
    BY <2>1, LenProperties DEF TypeInv, ProgramInv, Called
  <2>3. printed = [k \in 1 .. n |-> printed[k]]
    <3> HIDE DEF n
    <3> QED BY <2>1, SeqFunction DEF PrintedRight
  <2>4. ASSUME NEW k \in 1 .. n PROVE printed[k] = InFull(calls[k]) <=> Full(calls[k])
    <3>1. printed[k] \in Line /\ Tells(printed[k], calls[k])
      BY <2>1, ElementOfSeq DEF PrintedRight
    <3> QED BY <2>1, <3>1, LineInFull
  <2> DEFINE f == [k \in 1 .. n |-> InFull(calls[k])]
  <2>5. printed = f <=> \A k \in 1 .. n : printed[k] = InFull(calls[k])
    <3>1. ASSUME printed = f, NEW k \in 1 .. n PROVE printed[k] = InFull(calls[k])
      BY <3>1
    <3>2. ASSUME \A k \in 1 .. n : printed[k] = InFull(calls[k]) PROVE printed = f
      BY <2>3, <3>2, Zenon
    <3> QED BY <3>1, <3>2
  <2>6. (\A k \in 1 .. n : Full(calls[k]))
          <=> (AllRepresentable /\ \A k \in 1 .. n : Faithful(calls[k]))
    BY <2>1, FullFaithful
  <2> QED BY <1>2, <2>2, <2>4, <2>5, <2>6
<1> QED BY <1>1, <1>2 DEF Finished

(* Every call is printed as it was made exactly when the files could hold   *)
(* what there is to tell of it.                                             *)
THEOREM FullyPrinted == Spec => []PrintsCallsInFullExactlyWhenFaithful
BY LogInvHolds, LogInvFull, PTL
=============================================================================
