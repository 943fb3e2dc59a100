---------------------------- MODULE MCIndexFile ----------------------------
(* Instances of IndexFile for TLC. *)
EXTENDS IndexFile

Arg(type) == [type |-> type, constant |-> FALSE]
Const(type) == [type |-> type, constant |-> TRUE]

\* The types with a size of their own.
Numbers == <<"bool", "char", "uint8_t", "int8_t", "uint16_t", "int16_t",
             "uint32_t", "int32_t", "uint64_t", "int64_t", "float", "double">>

Numeric == [format |-> 1, length |-> 1,
            args |-> [k \in DOMAIN Numbers |-> Arg(Numbers[k])]]

NumericConstants == [format |-> 2, length |-> 0,
                     args |-> [k \in DOMAIN Numbers |-> Const(Numbers[k])]]

\* Strings and numbers, constant and not, in one call.
Texts == [format |-> 3, length |-> 2,
          args |-> <<Arg("std::string"), Const("const char*"), Arg("double"),
                     Arg("const char*"), Const("bool")>>]

\* A constant that may be too long.
LongConstant == [format |-> 4, length |-> 2,
                 args |-> <<Const("std::string_view"), Arg("uint16_t")>>]

LongFormat == [format |-> 5, length |-> 4, args |-> <<>>]

\* As many arguments as a uint8_t can no longer count, and one more.
CodecCountMod == 13
TooMany == [format |-> 6, length |-> 1, args |-> [k \in 1 .. 13 |-> Arg("bool")]]
TooManyConstants == [format |-> 7, length |-> 1, args |-> [k \in 1 .. 13 |-> Const("char")]]
OneMore == [format |-> 8, length |-> 1, args |-> [k \in 1 .. 14 |-> Arg("bool")]]

CodecSites ==
  {Numeric, NumericConstants, Texts, LongConstant, LongFormat,
   TooMany, TooManyConstants, OneMore}

\* Values that differ from pass to pass.
Pass(s, id, length) ==
  [k \in DOMAIN s.args |->
     [id |-> 10 * id + k, length |-> IF s.args[k].type \in Strings THEN length ELSE 0]]

CodecPasses ==
  [s \in CodecSites |->
     IF s = Texts THEN {Pass(s, 1, 0), Pass(s, 1, 2), Pass(s, 2, 2), Pass(s, 1, 4)}
     ELSE IF s = LongConstant THEN {Pass(s, 1, 2), Pass(s, 1, 3), Pass(s, 1, 5)}
     ELSE IF s = NumericConstants THEN {Pass(s, 1, 0), Pass(s, 2, 0)}
     ELSE {Pass(s, 1, 0)}]
=============================================================================
