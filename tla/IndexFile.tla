------------------------------ MODULE IndexFile ------------------------------
(***************************************************************************)
(* What a call site stores of itself in the index file, what its calls     *)
(* store in the log file, and how the unpacker reads both back: the bytes  *)
(* of an entry and of a value, argument by argument.                       *)
(*                                                                         *)
(* A byte knows the field it belongs to and its place in that field, so    *)
(* that a reader who takes the bytes of one field for another is told from *)
(* one who does not: the parser is "derailed" then, and what the code does *)
(* depends on the values of the bytes.  Lengths are cut to uint16_t and    *)
(* the number of arguments to uint8_t as in the code, with smaller widths. *)
(*                                                                         *)
(* Two calls of one site never follow each other here, so that every call  *)
(* writes its index and none a runlength (see module RunLength for runs).  *)
(***************************************************************************)
EXTENDS Integers, Sequences, SequencesExt

CONSTANTS
  Site,       \* call sites: [format, length, args], args a sequence of
              \* [type, constant]
  Passes,     \* [Site -> SUBSET of the values a pass may have], a value for
              \* each argument: [id, length]
  LengthMod,  \* 2^16
  CountMod,   \* 2^8
  MaxCalls    \* bound: calls in one behaviour

Strings == {"const char*", "std::string", "std::string_view"}

\* The types get_arg_type is not deleted for.
Types ==
  Strings \cup {"bool", "char", "uint8_t", "int8_t", "uint16_t", "int16_t",
                "uint32_t", "int32_t", "uint64_t", "int64_t", "float", "double"}

ASSUME CodecAssumption ==
  /\ LengthMod \in Nat \ {0} /\ CountMod \in Nat \ {0}
  /\ MaxCalls \in Nat
  /\ \A s \in Site :
       /\ s.length \in Nat
       /\ s.args \in Seq([type : Types, constant : BOOLEAN])
       /\ \A values \in Passes[s] :
            /\ Len(values) = Len(s.args)
            /\ \A k \in 1 .. Len(s.args) : values[k].length \in Nat

\* A value is known by its id and its length, a number by its id, and there is
\* one text of no bytes.
ASSUME IdentityAssumption ==
  \A s \in Site : \A v, w \in Passes[s] : \A k \in 1 .. Len(s.args) :
    LET same == IF s.args[k].type \in Strings
                THEN v[k].length = w[k].length /\ (v[k].length # 0 => v[k].id = w[k].id)
                ELSE v[k].id = w[k].id
    IN  same => v[k] = w[k]

VARIABLES
  sites,            \* the sites that have run, in order
  index_file,       \* its bytes
  log,              \* bytes of the log file
  calls,            \* history: the site and the values of every call
  recorded,         \* history: the values of each site's first pass
  parser,           \* "idle", then the part the unpacker is in, see below
  m_index,          \* bytes of the index file consumed
  entry, num_args,  \* the entry being parsed, and its number of arguments
  table,            \* the entries parsed
  m_logfile_index,  \* bytes of the log file consumed
  current, line,    \* the entry of the call being deflated, its values so far
  printed           \* the lines

program == <<sites, index_file, log, calls, recorded>>
indexParser == <<m_index, entry, num_args, table>>
logParser == <<m_logfile_index, current, line, printed>>
vars == <<program, parser, indexParser, logParser>>

-----------------------------------------------------------------------------

\* sizeof
SizeOf(type) ==
  CASE type \in {"bool", "char", "uint8_t", "int8_t"} -> 1
    [] type \in {"uint16_t", "int16_t"}               -> 2
    [] type \in {"uint32_t", "int32_t", "float"}      -> 4
    [] type \in {"uint64_t", "int64_t", "double"}     -> 8

get_arg_type(type) ==
  CASE type \in Strings    -> "type_string"
    [] type = "bool"       -> "type_bool"
    [] type = "char"       -> "type_char"
    [] type = "uint8_t"    -> "type_uint8"
    [] type = "uint16_t"   -> "type_uint16"
    [] type = "uint32_t"   -> "type_uint32"
    [] type = "uint64_t"   -> "type_uint64"
    [] type = "int8_t"     -> "type_int8"
    [] type = "int16_t"    -> "type_int16"
    [] type = "int32_t"    -> "type_int32"
    [] type = "int64_t"    -> "type_int64"
    [] type = "float"      -> "type_float"
    [] type = "double"     -> "type_double"

\* Slip: a double is taken for a float.
sizeof_arg_type_float(type) ==
  CASE type \in {"type_bool", "type_char", "type_uint8", "type_int8"} -> 1
    [] type \in {"type_uint16", "type_int16"}                         -> 2
    [] type \in {"type_uint32", "type_int32", "type_float",
                 "type_double"}                                       -> 4
    [] type \in {"type_uint64", "type_int64"}                         -> 8
    [] OTHER                                                          -> 1

sizeof_arg_type(type) ==
  CASE type \in {"type_bool", "type_char", "type_uint8", "type_int8"} -> 1
    [] type \in {"type_uint16", "type_int16"}                         -> 2
    [] type \in {"type_uint32", "type_int32", "type_float"}           -> 4
    [] type \in {"type_uint64", "type_int64", "type_double"}          -> 8
    [] type \in {"type_uint128", "type_int128"}                       -> 16
    [] OTHER                                                          -> 1

-----------------------------------------------------------------------------
(* Writing. *)

\* The first w bytes of a field.
Field(kind, of, w) == [b \in 1 .. w |-> [kind |-> kind, of |-> of, byte |-> b]]

Concat(n, Part(_)) == FlattenSeq([k \in 1 .. n |-> Part(k)])

Cut(n) == n % LengthMod

Length(n) == Field("length", Cut(n), 2)

Value(v, w) == Field("value", v.id, w)

\* write_arg_value_to_log_file
LogValue(a, v) ==
  IF a.type \in Strings
  THEN Length(v.length) \o Value(v, Cut(v.length))
  ELSE Value(v, SizeOf(a.type))

\* Slip: a C string's bytes are not cut either.
IndexValueUncut(a, v) ==
  IF a.type \in Strings
  THEN Length(v.length) \o Value(v, v.length)
  ELSE Value(v, SizeOf(a.type))

\* write_arg_value_to_index_file: of a std::string all bytes are written.
IndexValue(a, v) ==
  IF a.type \in Strings \ {"const char*"}
  THEN Length(v.length) \o Value(v, v.length)
  ELSE LogValue(a, v)

\* save_arg_constness
Constness(a, v) ==
  Field("constness", a.constant, 1) \o IF a.constant THEN IndexValue(a, v) ELSE <<>>

\* update_index_file: the types of all arguments come first.
update_index_file(s, values) ==
  LET type(k) == Field("type", get_arg_type(s.args[k].type), 1)
      constness(k) == Constness(s.args[k], values[k])
  IN  Concat(Len(s.args), type) \o Concat(Len(s.args), constness)

\* log_index, where the number of arguments is a uint8_t.
Entry(s, values) ==
  LET n == Len(s.args) % CountMod
  IN  Length(s.length) \o Field("text", s.format, Cut(s.length))
        \o Field("count", n, 1)
        \o IF n > 0 THEN update_index_file(s, values) ELSE <<>>

\* Slip: the values of constants are written with every call.
LogEntryWithConstants(s, i, values) ==
  LET value(k) == LogValue(s.args[k], values[k])
  IN  Field("index", i, 2) \o Concat(Len(s.args), value)

\* log: the index and the values that are no constants.
LogEntry(s, i, values) ==
  LET value(k) ==
        IF s.args[k].constant THEN <<>> ELSE LogValue(s.args[k], values[k])
  IN  Field("index", i, 2) \o Concat(Len(s.args), value)

Init ==
  /\ sites = <<>> /\ index_file = <<>> /\ log = <<>>
  /\ calls = <<>> /\ recorded = <<>>
  /\ parser = "idle"
  /\ m_index = 0 /\ entry = <<>> /\ num_args = 0 /\ table = <<>>
  /\ m_logfile_index = 0 /\ current = 0 /\ line = <<>> /\ printed = <<>>

IndexOf(s) == CHOOSE k \in 1 .. Len(sites') : sites'[k] = s

\* Slip: no static remembers that the site has run.
AnyPass(s) == TRUE

FirstPass(s) == ~ Contains(sites, s)

\* BINARY_LOG: the static's initialiser in the first pass, then log.
Call(s, values) ==
  /\ parser = "idle"
  /\ Len(calls) < MaxCalls
  /\ calls # <<>> => Last(calls).site # s
  /\ IF FirstPass(s)
     THEN /\ sites' = Append(sites, s)
          /\ index_file' = index_file \o Entry(s, values)
          /\ recorded' = Append(recorded, values)
     ELSE UNCHANGED <<sites, index_file, recorded>>
  /\ log' = log \o LogEntry(s, IndexOf(s) - 1, values)
  /\ calls' = Append(calls, [site |-> s, values |-> values])
  /\ UNCHANGED <<parser, indexParser, logParser>>

\* The program ends, and the unpacker starts with the index file.
Unpack ==
  /\ parser = "idle" /\ calls # <<>>
  /\ parser' = "entry"
  /\ UNCHANGED <<program, indexParser, logParser>>

-----------------------------------------------------------------------------
(* Reading. *)

\* At pos of the file are the first w bytes of a field of this kind.
Holds(file, pos, kind, w) ==
  /\ pos + w <= Len(file)
  /\ \A b \in 1 .. w :
       /\ file[pos + b].kind = kind
       /\ file[pos + b].byte = b
       /\ file[pos + b].of = file[pos + 1].of

Bytes(file, pos, w) == SubSeq(file, pos + 1, pos + w)

\* A string: its length in two bytes, then as many bytes.
HoldsString(file, pos, kind) ==
  Holds(file, pos, "length", 2) /\ Holds(file, pos + 2, kind, file[pos + 1].of)

StringBytes(file, pos) == Bytes(file, pos + 2, file[pos + 1].of)

\* A value of a type the table gives.
HoldsValue(file, pos, type) ==
  IF type = "type_string"
  THEN HoldsString(file, pos, "value")
  ELSE Holds(file, pos, "value", sizeof_arg_type(type))

ValueBytes(file, pos, type) ==
  IF type = "type_string"
  THEN StringBytes(file, pos)
  ELSE Bytes(file, pos, sizeof_arg_type(type))

ValueSize(file, pos, type) ==
  IF type = "type_string" THEN 2 + file[pos + 1].of ELSE sizeof_arg_type(type)

\* parse_entry, its beginning: the format string and the number of arguments.
CountAt == m_index + 2 + index_file[m_index + 1].of

OnFormat ==
  HoldsString(index_file, m_index, "text") /\ Holds(index_file, CountAt, "count", 1)

ParseFormat ==
  /\ parser = "entry" /\ m_index < Len(index_file)
  /\ OnFormat
  /\ num_args' = index_file[CountAt + 1].of
  /\ entry' = [format |-> StringBytes(index_file, m_index), types |-> <<>>,
               args |-> <<>>]
  /\ m_index' = CountAt + 1
  /\ IF num_args' = 0
     THEN table' = Append(table, entry') /\ UNCHANGED parser
     ELSE parser' = "types" /\ UNCHANGED table
  /\ UNCHANGED <<program, logParser>>

\* The loop over the types.
ParseType ==
  /\ parser = "types"
  /\ Holds(index_file, m_index, "type", 1)
  /\ entry' = [entry EXCEPT !.types = Append(@, index_file[m_index + 1].of)]
  /\ m_index' = m_index + 1
  /\ parser' = IF Len(entry'.types) = num_args THEN "args" ELSE "types"
  /\ UNCHANGED <<program, num_args, table, logParser>>

\* The loop over the constness and the values of the constants.
TypeOfNextArg == entry.types[Len(entry.args) + 1]

IsConstant == index_file[m_index + 1].of

OnArg ==
  /\ Holds(index_file, m_index, "constness", 1)
  /\ IsConstant => HoldsValue(index_file, m_index + 1, TypeOfNextArg)

ParseArg ==
  /\ parser = "args"
  /\ OnArg
  /\ LET type == TypeOfNextArg
         value == IF IsConstant THEN ValueBytes(index_file, m_index + 1, type) ELSE <<>>
         size == IF IsConstant THEN ValueSize(index_file, m_index + 1, type) ELSE 0
     IN  /\ entry' = [entry EXCEPT !.args =
                        Append(@, [type |-> type, is_constant |-> IsConstant,
                                   arg_data |-> value])]
         /\ m_index' = m_index + 1 + size
  /\ IF Len(entry'.args) = num_args
     THEN table' = Append(table, entry') /\ parser' = "entry"
     ELSE UNCHANGED <<table, parser>>
  /\ UNCHANGED <<program, num_args, logParser>>

\* index_file_parser::parse returns.
IndexParsed ==
  /\ parser = "entry" /\ m_index >= Len(index_file)
  /\ parser' = "log"
  /\ UNCHANGED <<program, indexParser, logParser>>

\* parse_and_print_log_entry: the index, and the entry it leads to.
OnIndex ==
  Holds(log, m_logfile_index, "index", 2) /\ log[m_logfile_index + 1].of < Len(table)

ParseIndex ==
  /\ parser = "log" /\ m_logfile_index < Len(log)
  /\ OnIndex
  /\ current' = log[m_logfile_index + 1].of + 1
  /\ line' = <<>>
  /\ m_logfile_index' = m_logfile_index + 2
  /\ parser' = "values"
  /\ UNCHANGED <<program, indexParser, printed>>

ArgInfo == table[current].args[Len(line) + 1]

\* Its loop over the arguments: constants come from the table.
ParseValue ==
  /\ parser = "values" /\ Len(line) < Len(table[current].args)
  /\ IF ArgInfo.is_constant
     THEN line' = Append(line, ArgInfo.arg_data) /\ UNCHANGED m_logfile_index
     ELSE /\ HoldsValue(log, m_logfile_index, ArgInfo.type)
          /\ line' = Append(line, ValueBytes(log, m_logfile_index, ArgInfo.type))
          /\ m_logfile_index' =
               m_logfile_index + ValueSize(log, m_logfile_index, ArgInfo.type)
  /\ UNCHANGED <<program, parser, indexParser, current, printed>>

PrintLine ==
  /\ parser = "values" /\ Len(line) = Len(table[current].args)
  /\ printed' = Append(printed, [format |-> table[current].format, args |-> line])
  /\ parser' = "log"
  /\ UNCHANGED <<program, indexParser, m_logfile_index, current, line>>

LogParsed ==
  /\ parser = "log" /\ m_logfile_index >= Len(log)
  /\ parser' = "done"
  /\ UNCHANGED <<program, indexParser, logParser>>

Derail ==
  /\ \/ parser = "entry" /\ m_index < Len(index_file) /\ ~ OnFormat
     \/ parser = "types" /\ ~ Holds(index_file, m_index, "type", 1)
     \/ parser = "args" /\ ~ OnArg
     \/ parser = "log" /\ m_logfile_index < Len(log) /\ ~ OnIndex
     \/ /\ parser = "values" /\ Len(line) < Len(table[current].args)
        /\ ~ ArgInfo.is_constant
        /\ ~ HoldsValue(log, m_logfile_index, ArgInfo.type)
  /\ parser' = "derailed"
  /\ UNCHANGED <<program, indexParser, logParser>>

Finished == parser \in {"done", "derailed"}

Terminated == Finished /\ UNCHANGED vars

Next ==
  \/ \E s \in Site : \E values \in Passes[s] : Call(s, values)
  \/ Unpack
  \/ ParseFormat \/ ParseType \/ ParseArg \/ IndexParsed
  \/ ParseIndex \/ ParseValue \/ PrintLine \/ LogParsed
  \/ Derail
  \/ Terminated

Spec == Init /\ [][Next]_vars

-----------------------------------------------------------------------------

(* The two files hold bytes, the parsers stay inside them, and there is a   *)
(* first pass for every registered site and for no other.                   *)
TypeOK ==
  /\ \A file \in {index_file, log} : \A k \in DOMAIN file : file[k].byte \in Nat \ {0}
  /\ sites \in Seq(Site) /\ IsInjective(sites)
  /\ Len(recorded) = Len(sites)
  /\ \A k \in DOMAIN sites : recorded[k] \in Passes[sites[k]]
  /\ \A k \in DOMAIN calls :
       Contains(sites, calls[k].site) /\ calls[k].values \in Passes[calls[k].site]
  /\ parser \in {"idle", "entry", "types", "args", "log", "values", "done", "derailed"}
  /\ m_index \in 0 .. Len(index_file)
  /\ num_args \in 0 .. CountMod - 1
  /\ parser = "args" => Len(entry.types) = num_args /\ Len(entry.args) < num_args
  /\ m_logfile_index \in 0 .. Len(log)
  /\ current \in 0 .. Len(table)

\* The bytes of a value that has been read: a string's without its length.
Stored(a, v) == Value(v, IF a.type \in Strings THEN Cut(v.length) ELSE SizeOf(a.type))

\* What the entry of a site ought to say.
IndexEntry(s, values) ==
  [format |-> Field("text", s.format, Cut(s.length)),
   types |-> [k \in DOMAIN s.args |-> get_arg_type(s.args[k].type)],
   args |-> [k \in DOMAIN s.args |->
     [type |-> get_arg_type(s.args[k].type),
      is_constant |-> s.args[k].constant,
      arg_data |-> IF s.args[k].constant THEN Stored(s.args[k], values[k]) ELSE <<>>]]]

\* No more arguments than a uint8_t counts, and no constant std::string or
\* std::string_view longer than a uint16_t counts.
Representable(s, values) ==
  /\ Len(s.args) < CountMod
  /\ \A k \in DOMAIN s.args :
       s.args[k].constant /\ s.args[k].type \in Strings \ {"const char*"}
         => values[k].length < LengthMod

AllRepresentable == \A k \in DOMAIN sites : Representable(sites[k], recorded[k])

(* index_file_parser::parse returns the entries that were registered, each  *)
(* with its format string, types and constants (strings cut to what a       *)
(* uint16_t counts), and stops at the end of the file, exactly when all of  *)
(* them are representable.  How much is lost otherwise depends on the site: *)
(* with a multiple of CountMod arguments its entry says it has none, and    *)
(* those behind it are read as they were written; with another number of    *)
(* too many, or a constant that is too long, the parser may lose its place. *)
IndexParsedExactlyWhenRepresentable ==
  parser \notin {"idle", "entry", "types", "args"} =>
    (/\ m_index = Len(index_file)
     /\ table = [k \in DOMAIN sites |-> IndexEntry(sites[k], recorded[k])])
      <=> AllRepresentable

\* A call as the log file tells it: its own values, but the constants of the
\* first pass of its site.
AsRecorded(c) ==
  LET first == recorded[CHOOSE k \in DOMAIN sites : sites[k] = c.site]
  IN  [format |-> Field("text", c.site.format, Cut(c.site.length)),
       args |-> [k \in DOMAIN c.site.args |->
         Stored(c.site.args[k],
                IF c.site.args[k].constant THEN first[k] ELSE c.values[k])]]

(* parse_and_print never takes one value's bytes for another's: if the      *)
(* entries are representable it ends, having printed a line for every call, *)
(* and until then its lines are those of the first calls.                   *)
NothingMisread ==
  AllRepresentable =>
    /\ parser # "derailed"
    /\ \E n \in 0 .. Len(calls) :
         /\ printed = [k \in 1 .. n |-> AsRecorded(calls[k])]
         /\ parser = "done" => n = Len(calls)

\* A call in full: nothing cut, and the constants of this pass.
InFull(c) ==
  [format |-> Field("text", c.site.format, c.site.length),
   args |-> [k \in DOMAIN c.site.args |->
     Value(c.values[k], IF c.site.args[k].type \in Strings
                        THEN c.values[k].length ELSE SizeOf(c.site.args[k].type))]]

\* The call is told as it was: its texts are short enough for a uint16_t, and
\* its constants are what they were in the first pass.
Faithful(c) ==
  LET first == recorded[CHOOSE k \in DOMAIN sites : sites[k] = c.site]
  IN  /\ c.site.length < LengthMod
      /\ \A k \in DOMAIN c.site.args :
           /\ c.site.args[k].type \in Strings => c.values[k].length < LengthMod
           /\ c.site.args[k].constant => c.values[k] = first[k]

(* The unpacker prints every call as it was made exactly when the entries   *)
(* are representable, no text was cut and no "constant" changed after the   *)
(* first pass of its site.                                                  *)
PrintsCallsInFullExactlyWhenFaithful ==
  Finished =>
    (parser = "done" /\ printed = [k \in DOMAIN calls |-> InFull(calls[k])])
      <=> (AllRepresentable /\ \A k \in DOMAIN calls : Faithful(calls[k]))
=============================================================================
