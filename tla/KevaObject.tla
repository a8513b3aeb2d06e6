----------------------------- MODULE KevaObject -----------------------------
(***************************************************************************)
(* keva::core::KevaObject (src/src/core/object.cpp): the objects that the  *)
(* database stores, and the 64-bit integers of the code.                   *)
(*                                                                         *)
(* An object is the text that a client reads back.  The only texts that    *)
(* can be int-encoded are the ones that parse, and create_string encodes   *)
(* all of these, so the encoding of an object is a function of its text.   *)
(* The choice between an embedded and a raw string is memory layout.       *)
(***************************************************************************)
EXTENDS Integers

CONSTANTS Text,      \* the byte strings that occur as values
          NotInt,    \* what is not a number
          IntMax,    \* LLONG_MAX, scaled down
          Parse,     \* try_parse_int, from Text to an i64 or NotInt
          Decimal    \* std::to_chars, from an i64 to Text

IntMin == -IntMax - 1   \* LLONG_MIN

i64 == IntMin..IntMax

\* Two's complement, which is what the build gives for a signed overflow.
Wrap(n) == ((n - IntMin) % (IntMax - IntMin + 1)) + IntMin

ASSUME IntAssumption == IntMax \in Nat \ {0} /\ NotInt \notin Int

ASSUME TextAssumption ==
  /\ \A s \in Text : Parse[s] \in i64 \cup {NotInt}
  /\ \A i \in i64 : Decimal[i] \in Text /\ Parse[Decimal[i]] = i

\* Mutant: the text as it came.
create_string_Verbatim(s) == s

\* create_string: what parses is kept as a number, and read back in decimal.
create_string(s) == IF Parse[s] = NotInt THEN s ELSE Decimal[Parse[s]]

create_string_from_int(i) == Decimal[i]
=============================================================================
