----------------------------- MODULE MCKeyspace -----------------------------
(***************************************************************************)
(* Instances of Keyspace for TLC: integers of three bits, and the few      *)
(* texts that matter, among them a number that is not in canonical form,   *)
(* a text that is no number and a digit string out of range.               *)
(***************************************************************************)
EXTENDS Keyspace, TLC

Numerals == [i \in -4..3 |-> CASE i = -4 -> "-4" [] i = -3 -> "-3" [] i = -2 -> "-2"
                               [] i = -1 -> "-1" [] i = 0 -> "0" [] i = 1 -> "1"
                               [] i = 2 -> "2" [] i = 3 -> "3"]

MCText == {Numerals[i] : i \in -4..3} \cup {"02", "x", "22", "x2"}

MCParse == [s \in MCText |->
              IF s = "02" THEN 2
              ELSE IF \E i \in -4..3 : Numerals[i] = s
                   THEN CHOOSE i \in -4..3 : Numerals[i] = s
                   ELSE NotInt]

MCConcat ==
  [p \in {<<"0", "2">>, <<"2", "2">>, <<"x", "2">>} |->
     CASE p = <<"0", "2">> -> "02" [] p = <<"2", "2">> -> "22" [] OTHER -> "x2"]

MCSize == [s \in MCText |->
             IF s \in {"0", "1", "2", "3", "x"} THEN 1 ELSE 2]

MCAmounts == {-4, 2, NotInt}
\* Two seconds are more than an i64 holds.
MCDelays  == {-1, 1, 2, NotInt}
MCFewDelays == {-1, 1, NotInt}
MCDates   == {1}

Symmetry == Permutations(Key)
=============================================================================
