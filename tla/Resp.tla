-------------------------------- MODULE Resp --------------------------------
(***************************************************************************)
(* The wire format: RespParser (src/src/protocol/resp_parser.cpp),         *)
(* RespEncoder (src/src/protocol/resp_encoder.cpp) and the conversions     *)
(* between numbers and text that they and the handlers use.                *)
(*                                                                         *)
(* A byte string is a sequence of symbols.  A symbol is one byte, "CR",    *)
(* "LF", a digit or a letter, or a word of several bytes that nothing      *)
(* looks into, such as "SET"; such a word counts as one byte.              *)
(***************************************************************************)
EXTENDS Integers, Sequences, SequencesExt

CONSTANTS NotInt,      \* what is not a number
          IntMax,      \* LLONG_MAX, scaled down
          MaxElements  \* how many elements a vector can reserve

ASSUME RespAssumption ==
  IntMax \in Nat \ {0} /\ NotInt \notin Int /\ MaxElements \in Nat

IntMin == -IntMax - 1

Digits == <<"0", "1", "2", "3", "4", "5", "6", "7", "8", "9">>

DigitValue(c) == CHOOSE i \in 0..9 : Digits[i + 1] = c

IsDigit(c) == \E i \in 1..10 : Digits[i] = c

\* std::from_chars: the number that s begins with, and how much of s it is.
\* What follows the number is not looked at.
from_chars(s) ==
  LET sign  == IF s # << >> /\ s[1] = "-" THEN 1 ELSE 0
      end   == CHOOSE j \in sign..Len(s) :
                 /\ \A i \in sign + 1..j : IsDigit(s[i])
                 /\ j = Len(s) \/ ~ IsDigit(s[j + 1])
      value == FoldLeft(LAMBDA n, c : 10 * n + DigitValue(c), 0, SubSeq(s, sign + 1, end))
      n     == IF sign = 1 THEN -value ELSE value
  IN  [value |-> IF end = sign \/ n \notin IntMin..IntMax THEN NotInt ELSE n,
       used  |-> end]

\* Buffer::try_parse_int: the number that the whole of s is.
try_parse_int(s) ==
  IF Len(s) \in 1..20 /\ from_chars(s).used = Len(s) THEN from_chars(s).value ELSE NotInt

\* std::to_chars: the digits of every k up to m, and of n with its sign.
DecimalUpTo(m) ==
  LET decimal[k \in 0..m] ==
        IF k < 10 THEN <<Digits[k + 1]>>
        ELSE Append(decimal[k \div 10], Digits[(k % 10) + 1])
  IN  decimal

to_chars(n) == IF n < 0 THEN <<"-">> \o DecimalUpTo(-n)[-n] ELSE DecimalUpTo(n)[n]

CRLF == <<"CR", "LF">>

-----------------------------------------------------------------------------
(***************************************************************************)
(* RespValue.                                                              *)
(***************************************************************************)
Value(type, str, int_val, elements) ==
  [type |-> type, str |-> str, int_val |-> int_val, elements |-> elements]

SimpleString(s) == Value("SimpleString", s, 0, << >>)
ErrorValue(s)   == Value("Error", s, 0, << >>)
IntegerValue(n) == Value("Integer", << >>, n, << >>)
BulkString(s)   == Value("BulkString", s, 0, << >>)
NilValue        == Value("Nil", << >>, 0, << >>)
Array(elements) == Value("Array", << >>, 0, elements)

-----------------------------------------------------------------------------
(***************************************************************************)
(* RespParser.  Positions count from 0, as in the code: input[pos] is the  *)
(* symbol pos + 1 of the sequence.  A parse gives its result, the value    *)
(* and the position it has come to.                                        *)
(***************************************************************************)
Parsed(value, pos) == [result |-> "Complete", value |-> value, pos |-> pos]
Incomplete         == [result |-> "Incomplete", value |-> NilValue, pos |-> 0]
Malformed          == [result |-> "Error", value |-> NilValue, pos |-> 0]

\* The exception of a vector that cannot reserve its elements: length_error or
\* bad_alloc.  It leaves every parse that it comes up in.
Throws == [result |-> "Throws", value |-> NilValue, pos |-> 0]

\* Unsigned 64-bit arithmetic.
usize(n) == n % (2 * (IntMax + 1))

\* input[pos]; "outside" is what lies beyond the buffer.
At(input, pos) == IF pos + 1 \in DOMAIN input THEN input[pos + 1] ELSE "outside"

\* The distance of the first CR LF from pos, or -1.
find_crlf(input, pos) ==
  LET found == {i \in pos..Len(input) - 2 : At(input, i) = "CR" /\ At(input, i + 1) = "LF"}
  IN  IF found = {} THEN -1
      ELSE (CHOOSE i \in found : \A j \in found : i <= j) - pos

\* parse_line: the line at pos, and the position behind it.
parse_line(input, pos) ==
  LET crlf == find_crlf(input, pos)
  IN  [ok |-> crlf >= 0, line |-> SubSeq(input, pos + 1, pos + crlf), pos |-> pos + crlf + 2]

parse_simple(input, pos) ==
  LET prefix == At(input, pos)
      l      == parse_line(input, pos + 1)
      n      == from_chars(l.line).value
  IN  IF ~ l.ok THEN Incomplete
      ELSE CASE prefix = "+" -> Parsed(SimpleString(l.line), l.pos)
             [] prefix = "-" -> Parsed(ErrorValue(l.line), l.pos)
             [] prefix = ":" -> IF n = NotInt THEN Malformed ELSE Parsed(IntegerValue(n), l.pos)

\* Mutant: the CR LF after the payload is not waited for.
payload_end_NoCrlf(pos, length) == usize(pos + length)

payload_end(pos, length) == usize(pos + length + 2)

parse_bulk_string(input, pos) ==
  LET l      == parse_line(input, pos + 1)
      length == from_chars(l.line).value
  IN  IF ~ l.ok THEN Incomplete
      ELSE IF length = NotInt THEN Malformed
      ELSE IF length = -1 THEN Parsed(NilValue, l.pos)
      ELSE IF length < 0 THEN Malformed
      ELSE IF payload_end(l.pos, length) > Len(input) THEN Incomplete
      ELSE IF <<At(input, l.pos + length), At(input, l.pos + length + 1)>> # CRLF
           THEN Malformed
           ELSE Parsed(BulkString(SubSeq(input, l.pos + 1, l.pos + length)),
                       l.pos + length + 2)

\* One more turn of the loop of parse_array.  values[pos] is what parse_value
\* says of the value at pos.
NextElement(values, p) ==
  IF p.result # "Complete" THEN p
  ELSE LET elem == values[p.pos]
       IN  IF elem.result # "Complete" THEN elem
           ELSE Parsed(Array(Append(p.value.elements, elem.value)), elem.pos)

\* The loop of parse_array after each number of elements, the first at pos.
Elements(values, pos, count) ==
  LET after[n \in 0..count] ==
        IF n = 0 THEN Parsed(Array(<< >>), pos) ELSE NextElement(values, after[n - 1])
  IN  after

\* Mutant: a negative number of elements goes to reserve, as an unsigned one.
parse_array_Unsigned(input, pos, values) ==
  LET l     == parse_line(input, pos + 1)
      count == from_chars(l.line).value
  IN  IF ~ l.ok THEN Incomplete
      ELSE IF count = NotInt THEN Malformed
      ELSE IF count = -1 THEN Parsed(NilValue, l.pos)
      ELSE IF usize(count) > MaxElements THEN Throws
      ELSE Elements(values, l.pos, count)[count]

parse_array(input, pos, values) ==
  LET l     == parse_line(input, pos + 1)
      count == from_chars(l.line).value
  IN  IF ~ l.ok THEN Incomplete
      ELSE IF count = NotInt THEN Malformed
      ELSE IF count = -1 THEN Parsed(NilValue, l.pos)
      ELSE IF count < 0 THEN Malformed
      ELSE IF count > MaxElements THEN Throws
      ELSE Elements(values, l.pos, count)[count]

\* The value at pos; the values in it are at later positions.
ValueAt(input, pos, values) ==
  LET prefix == At(input, pos)
  IN  CASE pos >= Len(input)          -> Incomplete
        [] prefix \in {"+", "-", ":"} -> parse_simple(input, pos)
        [] prefix = "$"               -> parse_bulk_string(input, pos)
        [] prefix = "*"               -> parse_array(input, pos, values)
        [] OTHER                      -> Malformed

\* parse_value, for each position.
parse_value(input) ==
  LET values[pos \in 0..Len(input)] == ValueAt(input, pos, values) IN values

\* parse: the position of a complete message is what it consumes.
parse(input) == parse_value(input)[0]

-----------------------------------------------------------------------------
(***************************************************************************)
(* RespEncoder: what is appended to the write buffer.                      *)
(***************************************************************************)
write_integer_line(n) == to_chars(n) \o CRLF

ok               == <<"+", "OK">> \o CRLF
simple_string(s) == <<"+">> \o s \o CRLF
error(msg)       == <<"-", "ERR ">> \o msg \o CRLF
integer(n)       == <<":">> \o write_integer_line(n)
bulk_string(s)   == <<"$">> \o write_integer_line(Len(s)) \o s \o CRLF
nil              == <<"$", "-", "1">> \o CRLF
array_header(n)  == <<"*">> \o write_integer_line(n)
=============================================================================
