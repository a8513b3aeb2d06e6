------------------------------- MODULE MCRdb --------------------------------
(***************************************************************************)
(* An instance of Rdb for TLC.  A text is a numeral or a name with its     *)
(* length; the lengths are those at the limits of the three forms of a     *)
(* length.  "bad" is the text that damage makes of another.                *)
(***************************************************************************)
EXTENDS Rdb

Numeral(i) == <<"num", i>>
Name(n)    == <<"name", n>>

Names == {Name(n) : n \in {0, 64, 16383, 16384}}
Bad   == {<<"bad", n>> : n \in {1, 64, 16383, 16384}}

MCText   == {Numeral(i) : i \in i64} \cup Names \cup Bad
MCParse  == [s \in MCText |-> IF s[1] = "num" THEN s[2] ELSE NotInt]
MCDecimal == [i \in i64 |-> Numeral(i)]
MCLength == [s \in MCText |-> IF s[1] = "num" THEN IF s[2] < 0 THEN 2 ELSE 1 ELSE s[2]]
MCEmpty  == Name(0)

MCKey    == {Name(0), Name(64)}
MCValues == {Numeral(3), Name(16383), Name(16384)}
MCDeadlines == {1, 4, IntMax}

MCNoise ==
  {<<"u8", n>> : n \in {0, 64, 252, 255}}
  \cup {<<"u16", n>> : n \in {0, 2}} \cup {<<"u32", 1>>} \cup {<<"i64", n>> : n \in {-1, 2}}
  \cup {<<"magic", "REDIS">>, <<"crc", << >>>>} \cup {<<"raw", s>> : s \in Bad}
=============================================================================
