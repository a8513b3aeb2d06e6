----------------------------- MODULE MCSession ------------------------------
(***************************************************************************)
(* An instance of Session for TLC: integers of eight bits; every command   *)
(* with one to four elements, one script per command; and scripts that are *)
(* about something: the lower case, the options of SET, numbers at the end *)
(* of their range, counters, deadlines, KEYS, values that are no commands, *)
(* lengths that are no lengths, numbers of elements that cannot be         *)
(* reserved, and commands behind these.                                    *)
(***************************************************************************)
EXTENDS Session, RespEncode, TLC

MCUpper == "set" :> "SET" @@ "get" :> "GET" @@ "nx" :> "NX" @@ "ex" :> "EX" @@ "a" :> "A"

MCByte ==
  {"CR", "LF", "*", "$", "+", "-", ":", "?", "a", "A", "b", "what"}
  \cup {Digits[i] : i \in 1..10} \cup {"EX", "PX", "NX", "XX"}
  \cup DOMAIN MCUpper \cup {MCUpper[x] : x \in DOMAIN MCUpper}
  \cup {"SET", "GET", "GETSET", "MSET", "MGET", "APPEND", "STRLEN", "INCR", "INCRBY",
        "DECR", "DECRBY", "SETEX", "PSETEX", "SETNX", "DEL", "EXISTS", "TYPE", "EXPIRE",
        "PEXPIRE", "EXPIREAT", "TTL", "PTTL", "PERSIST", "KEYS", "RENAME", "DBSIZE",
        "PING", "ECHO", "FLUSHDB", "INFO", "SELECT", "QUIT"}

\* A name and its arguments.
C1(n)          == Command(<<<<n>>>>)
C2(n, x)       == Command(<<<<n>>, x>>)
C3(n, x, y)    == Command(<<<<n>>, x, y>>)
C4(n, x, y, z) == Command(<<<<n>>, x, y, z>>)

a   == <<"a">>
b   == <<"b">>
ab  == <<"a", "b">>
One == <<"1">>
Top == <<"1", "2", "7">>

\* The command n with one to four elements.
Arities(n) == <<C4(n, a, One, b), C2(n, a), C3(n, a, One), C1(n)>>

Themes ==
  { <<C3("set", a, <<"0", "7">>), C2("get", a), C2("what", a), C2("INCR", a), C2("QUIT", a),
      C1("QUIT"), C2("GET", a)>>,
    <<C4("SET", a, b, <<"nx">>), Command(<<<<"SET">>, a, One, <<"ex">>, One, <<"PX">>, <<"5">>>>),
      Command(<<<<"SET">>, a, b, <<"XX">>, <<"EX">>, <<"0">>>>), C2("PTTL", a), C2("PERSIST", a),
      C4("SET", a, << >>, <<"EX">>), C2("TTL", a), C2("GET", a)>>,
    <<C3("SET", a, Top), C2("INCR", a), C3("APPEND", a, <<"9">>), C3("INCRBY", a, One),
      C3("DECRBY", b, <<"-", "1", "2", "8">>), C2("GET", b), C3("INCRBY", b, <<"1", "a">>)>>,
    <<Command(<<<<"MSET">>, a, One, ab, b, << >>, a>>), C2("KEYS", <<"*">>),
      C2("KEYS", <<"?", "*">>), C3("PEXPIRE", a, <<"-", "1">>), C2("GET", a),
      C4("MGET", a, ab, b),
      C2("KEYS", <<"*", "b", "*">>), C1("DBSIZE")>>,
    <<C3("SETNX", a, One), C4("EXISTS", a, a, b), C3("EXPIRE", a, <<"2">>), C2("PERSIST", a),
      C3("RENAME", a, b), C4("DEL", a, b, b), C4("PSETEX", ab, <<"3">>, b), C1("FLUSHDB")>>,
    <<Refused(<<":", "5">> \o CRLF), Refused(<<"+", "a">> \o CRLF), Refused(<<"*", "0">> \o CRLF),
      Refused(<<"*", "-", "1">> \o CRLF), Refused(nil), Refused(encode(Array(<<IntegerValue(1)>>))),
      Refused(encode(Array(<<Array(<<BulkString(a)>>)>>))), C2("ECHO", CRLF), C3("SET", CRLF, CRLF),
      C2("PING", CRLF)>>,
    <<C3("SET", a, b), Junk(<<"$", "-", "2">> \o CRLF), C2("GET", a)>>,
    <<C2("SELECT", <<"0">>), Junk(<<"*", "1">> \o CRLF \o <<"$", "1">> \o CRLF \o <<"a", "b", "CR", "LF">>),
      C2("GET", a)>>,
    <<Junk(<<"*", "1">> \o CRLF \o <<":", "a">> \o CRLF)>>,
    <<Junk(<<"$", "1", "2", "8">> \o CRLF), C1("PING")>>,
    <<Junk(<<"$", "1", "2", "7">> \o CRLF \o <<"a">>)>>,
    <<C3("SET", a, b), Junk(<<"*", "1", "2", "7">> \o CRLF), C2("GET", a)>>,
    <<Junk(<<"*", "2">> \o CRLF \o <<"*", "1", "0", "1">> \o CRLF)>>,
    <<Junk(<<"*", "1", "0", "0">> \o CRLF), C1("PING")>>,
    <<C1("PING"), Junk(<<"*", "-", "2">> \o CRLF)>>,
    <<Junk(<<"a", "CR", "LF">>)>> }

MCScripts == Themes \cup {Arities(c.name) : c \in Registry}

MCPatterns == UNION {[1..n -> {"*", "?", "b"}] : n \in 0..3}
=============================================================================
