------------------------------- MODULE Session ------------------------------
(***************************************************************************)
(* One client's session from bytes to bytes: the reads that cut its        *)
(* commands anywhere, RespParser, CommandRegistry::dispatch                *)
(* (src/src/command/command.cpp), the handlers of module Keyspace and the  *)
(* replies as RespEncoder writes them.  Module Network has the sockets,    *)
(* the buffers' cursors and the other clients; here all bytes arrive, in   *)
(* pieces, and all replies leave.  The commands of a session take no time, *)
(* so the clock stands at 0.  SAVE and BGSAVE are in module Persistence.   *)
(***************************************************************************)
EXTENDS Resp, FiniteSets

CONSTANTS Byte,     \* the symbols that clients send
          Upper,    \* toupper, for the symbols that it changes
          Nil,
          Scripts,  \* what clients send: sequences of messages
          Patterns  \* patterns that KEYS is asked for

(***************************************************************************)
(* A message is its bytes, and what it asks for: the arguments of a        *)
(* command, "refused" for one complete value that is no command, and       *)
(* "junk" for what cannot be parsed.                                       *)
(***************************************************************************)
Command(words) ==
  [bytes |-> array_header(Len(words))
               \o FlattenSeq([i \in DOMAIN words |-> bulk_string(words[i])]),
   asks |-> "command", args |-> [i \in DOMAIN words |-> BulkString(words[i])]]
Refused(bytes) == [bytes |-> bytes, asks |-> "refused", args |-> << >>]
Junk(bytes)    == [bytes |-> bytes, asks |-> "junk", args |-> << >>]

VARIABLES script,  \* what the client sends in this session
          wire,    \* bytes that have not been read
          buf,     \* bytes that have been read and not consumed: read_view
          out,     \* bytes that have been replied
          db,      \* the database
          dirty,   \* dirty_keys
          state,   \* ConnectionState
          pc       \* "idle", "loop" in the pipeline loop of dispatch, or
                   \* "terminated": the server has ended

vars == <<script, wire, buf, out, db, dirty, state, pc>>

Strings == Seq(Byte)

\* The symbols of a number, and the patterns, are what a client can send.
ASSUME ByteAssumption ==
  /\ \A i \in 1..10 : Digits[i] \in Byte
  /\ "-" \in Byte
  /\ Patterns \subseteq Strings

KS == INSTANCE Keyspace WITH
        Key <- Strings, Text <- Strings,
        Parse <- [s \in Strings |-> try_parse_int(s)],
        Decimal <- [i \in IntMin..IntMax |-> to_chars(i)],
        Concat <- [p \in Strings \X Strings |-> p[1] \o p[2]],
        Size <- [s \in Strings |-> Len(s)],
        SampleSize <- 1, Second <- 2, MaxTime <- 0, now <- 0,
        Values <- {}, Amounts <- {}, Delays <- {}, Dates <- {}

-----------------------------------------------------------------------------
(***************************************************************************)
(* CommandRegistry: the number of elements a command takes, with -1 for no *)
(* limit, and whether it counts as a write.                                *)
(***************************************************************************)
Row(name, min, max, write) == [name |-> name, min |-> min, max |-> max, write |-> write]

StringCommands ==
  {Row("SET", 3, -1, TRUE), Row("GET", 2, 2, FALSE),
   Row("GETSET", 3, 3, TRUE), Row("MSET", 3, -1, TRUE),
   Row("MGET", 2, -1, FALSE), Row("APPEND", 3, 3, TRUE),
   Row("STRLEN", 2, 2, FALSE), Row("INCR", 2, 2, TRUE),
   Row("INCRBY", 3, 3, TRUE), Row("DECR", 2, 2, TRUE),
   Row("DECRBY", 3, 3, TRUE), Row("SETEX", 4, 4, TRUE),
   Row("PSETEX", 4, 4, TRUE), Row("SETNX", 3, 3, TRUE)}

\* Mutant: PERSIST is taken for a command that only reads.
KeyCommands_PersistReads ==
  {Row("DEL", 2, -1, TRUE), Row("EXISTS", 2, -1, FALSE),
   Row("TYPE", 2, 2, FALSE), Row("EXPIRE", 3, 3, TRUE),
   Row("PEXPIRE", 3, 3, TRUE), Row("EXPIREAT", 3, 3, TRUE),
   Row("TTL", 2, 2, FALSE), Row("PTTL", 2, 2, FALSE),
   Row("PERSIST", 2, 2, FALSE), Row("KEYS", 2, 2, FALSE),
   Row("RENAME", 3, 3, TRUE), Row("DBSIZE", 1, 1, FALSE)}

KeyCommands ==
  {Row("DEL", 2, -1, TRUE), Row("EXISTS", 2, -1, FALSE),
   Row("TYPE", 2, 2, FALSE), Row("EXPIRE", 3, 3, TRUE),
   Row("PEXPIRE", 3, 3, TRUE), Row("EXPIREAT", 3, 3, TRUE),
   Row("TTL", 2, 2, FALSE), Row("PTTL", 2, 2, FALSE),
   Row("PERSIST", 2, 2, TRUE), Row("KEYS", 2, 2, FALSE),
   Row("RENAME", 3, 3, TRUE), Row("DBSIZE", 1, 1, FALSE)}

ServerCommands ==
  {Row("PING", 1, 2, FALSE), Row("ECHO", 2, 2, FALSE),
   Row("FLUSHDB", 1, 1, TRUE), Row("INFO", 1, 2, FALSE),
   Row("SELECT", 2, 2, FALSE), Row("QUIT", 1, 1, FALSE)}

Registry == StringCommands \cup KeyCommands \cup ServerCommands

toupper(s) == [i \in DOMAIN s |-> IF s[i] \in DOMAIN Upper THEN Upper[s[i]] ELSE s[i]]

\* The commands that `name' finds: at most one.
find(name) == {c \in Registry : <<c.name>> = toupper(name)}

WrongArity(c, argc) == argc < c.min \/ (c.max # -1 /\ argc > c.max)

-----------------------------------------------------------------------------
(***************************************************************************)
(* The handlers' side of their arguments.                                  *)
(***************************************************************************)
\* Mutant: a star needs something to match.
GlobRow_NonEmptyStar(pattern, str, n, row) ==
  LET c == pattern[Len(pattern) - n + 1]
  IN  [j \in 0..Len(str) |->
         IF c = "*" THEN \E i \in j + 1..Len(str) : row[i]
         ELSE j < Len(str) /\ c \in {"?", str[j + 1]} /\ row[j + 1]]

\* Whether the last n symbols of the pattern match what str has behind each
\* position j, where row says it of the last n - 1.
GlobRow(pattern, str, n, row) ==
  LET c == pattern[Len(pattern) - n + 1]
  IN  [j \in 0..Len(str) |->
         IF c = "*" THEN \E i \in j..Len(str) : row[i]
         ELSE j < Len(str) /\ c \in {"?", str[j + 1]} /\ row[j + 1]]

GlobRows(pattern, str) ==
  LET rows[n \in 0..Len(pattern)] ==
        IF n = 0 THEN [j \in 0..Len(str) |-> j = Len(str)]
        ELSE GlobRow(pattern, str, n, rows[n - 1])
  IN  rows

glob_match(pattern, str) == GlobRows(pattern, str)[Len(pattern)][0]

NoOptions == [at |-> 4, bad |-> FALSE, nx |-> FALSE, xx |-> FALSE, unit |-> "none", n |-> NotInt]

\* One turn of the loop over the options of SET: the last time given counts, the
\* first bad one ends the command, and a word that is no option is passed over.
OptionTurn(a, s) ==
  LET opt == toupper(a[s.at].str)
      n   == from_chars(a[s.at + 1].str).value
  IN  IF s.at > Len(a) \/ s.bad THEN s
      ELSE IF opt \in {<<"EX">>, <<"PX">>} /\ s.at < Len(a)
           THEN IF KS!BadTime(n) THEN [s EXCEPT !.bad = TRUE]
                ELSE [s EXCEPT !.at = @ + 2, !.unit = opt[1], !.n = n]
      ELSE [s EXCEPT !.at = @ + 1, !.nx = @ \/ opt = <<"NX">>, !.xx = @ \/ opt = <<"XX">>]

\* The options of SET, from element 4 on.
SetOptions(a) ==
  LET turns[i \in 0..Len(a)] == IF i = 0 THEN NoOptions ELSE OptionTurn(a, turns[i - 1])
  IN  turns[Len(a)]

\* The replies of the server commands that leave the database alone; INFO gives
\* a text of several lines, which stands for all its numbers.
handle_ping(a) == IF Len(a) = 1 THEN <<"PONG">> ELSE KS!Bulk(a[2].str)

handle_echo(a) == KS!Bulk(a[2].str)

handle_info == KS!Bulk(<<"info">> \o CRLF \o <<"info">> \o CRLF)

handle_select(a) == IF from_chars(a[2].str).value = 0 THEN KS!OK ELSE KS!Error

\* Execute is the handler called n for the elements a on the database d; KEYS
\* looks for the keys in matching.
Execute(n, d, a, matching) ==
  LET Str(i)  == a[i].str
      Num(i)  == from_chars(Str(i)).value
      k       == Str(2)
      rest    == [i \in 1..Len(a) - 1 |-> a[i + 1].str]
      options == SetOptions(a)
      pairs   == [i \in 1..(Len(a) - 1) \div 2 |-> <<Str(2 * i), Str(2 * i + 1)>>]
  IN  CASE n = "SET"     -> IF options.bad THEN KS!Reply(d, KS!Error)
                            ELSE KS!handle_set(d, 0, k, Str(3), options.nx, options.xx,
                                               options.unit, options.n)
        [] n = "GET"     -> KS!handle_get(d, 0, k)
        [] n = "GETSET"  -> KS!handle_getset(d, 0, k, Str(3))
        [] n = "MSET"    -> KS!handle_mset(d, pairs, Len(a) % 2 = 0)
        [] n = "MGET"    -> KS!handle_mget(d, 0, rest)
        [] n = "APPEND"  -> KS!handle_append(d, 0, k, Str(3))
        [] n = "STRLEN"  -> KS!handle_strlen(d, 0, k)
        [] n = "INCR"    -> KS!handle_incr(d, 0, k)
        [] n = "INCRBY"  -> KS!handle_incrby(d, 0, k, Num(3))
        [] n = "DECR"    -> KS!handle_decr(d, 0, k)
        [] n = "DECRBY"  -> KS!handle_decrby(d, 0, k, Num(3))
        [] n = "SETEX"   -> KS!handle_setex(d, 0, k, Num(3), Str(4))
        [] n = "PSETEX"  -> KS!handle_psetex(d, 0, k, Num(3), Str(4))
        [] n = "SETNX"   -> KS!handle_setnx(d, 0, k, Str(3))
        [] n = "DEL"     -> KS!handle_del(d, rest)
        [] n = "EXISTS"  -> KS!handle_exists(d, 0, rest)
        [] n = "TYPE"    -> KS!handle_type(d, 0, k)
        [] n = "EXPIRE"  -> KS!handle_expire(d, 0, k, Num(3))
        [] n = "PEXPIRE" -> KS!handle_pexpire(d, 0, k, Num(3))
        [] n = "EXPIREAT" -> KS!handle_expireat(d, 0, k, Num(3))
        [] n = "TTL"     -> KS!handle_ttl(d, 0, k)
        [] n = "PTTL"    -> KS!handle_pttl(d, 0, k)
        [] n = "PERSIST" -> KS!handle_persist(d, 0, k)
        [] n = "KEYS"    -> KS!handle_keys(d, 0, matching)
        [] n = "RENAME"  -> KS!handle_rename(d, 0, k, Str(3))
        [] n = "DBSIZE"  -> KS!handle_dbsize(d)
        [] n = "FLUSHDB" -> KS!handle_flushdb
        [] n = "PING"    -> KS!Reply(d, handle_ping(a))
        [] n = "ECHO"    -> KS!Reply(d, handle_echo(a))
        [] n = "INFO"    -> KS!Reply(d, handle_info)
        [] n = "SELECT"  -> KS!Reply(d, handle_select(a))
        [] n = "QUIT"    -> KS!Reply(d, KS!OK)

\* A reply as it is written to the connection.  KEYS gives its keys in the
\* order of the table, which is any.
Written(r) ==
  CASE r[1] = "ok"      -> ok
    [] r[1] = "error"   -> error(<<"message">>)
    [] r[1] = "nil"     -> nil
    [] r[1] = "bulk"    -> bulk_string(r[2])
    [] r[1] = "integer" -> integer(r[2])
    [] r[1] = "array"   ->
         array_header(Len(r[2]))
           \o FlattenSeq([i \in DOMAIN r[2] |->
                            IF r[2][i][1] = "nil" THEN nil ELSE bulk_string(r[2][i][2])])
    [] r[1] = "keys"    ->
         array_header(Cardinality(r[2]))
           \o FlattenSeq([i \in DOMAIN SetToSeq(r[2]) |-> bulk_string(SetToSeq(r[2])[i])])
    [] OTHER            -> simple_string(r)

-----------------------------------------------------------------------------
(***************************************************************************)
(* The session.                                                            *)
(***************************************************************************)
IsCommand(v) == v.type = "Array" /\ v.elements # << >> /\ v.elements[1].type = "BulkString"

\* The bytes of what a client sends behind its first i messages.
BytesFrom(messages) ==
  LET from[i \in 0..Len(messages)] ==
        IF i = Len(messages) THEN << >> ELSE messages[i + 1].bytes \o from[i + 1]
  IN  from

\* A client sends sequences of messages made of bytes, fewer than SIZE_MAX in all.
ASSUME ScriptAssumption ==
  \A s \in Scripts :
    /\ s \in Seq(Range(s))
    /\ \A i \in 1..Len(s) : s[i].bytes \in Strings
    /\ Len(BytesFrom(s)[0]) <= 2 * IntMax

\* A message is spelled as it is meant: a command parses as its arguments, what is
\* to be refused as some other value, and junk as none, whatever comes behind it.
\* Any stream of bytes can be cut in such messages.
ASSUME MessageAssumption ==
  \A s \in Scripts : \A i \in 1..Len(s) :
    LET p == parse(s[i].bytes)
    IN  \/ /\ s[i].asks = "command"
           /\ p = Parsed(Array(s[i].args), Len(s[i].bytes)) /\ IsCommand(p.value)
        \/ /\ s[i].asks = "refused"
           /\ p.result = "Complete" /\ p.pos = Len(s[i].bytes) /\ ~ IsCommand(p.value)
        \/ /\ s[i].asks = "junk"
           /\ parse(BytesFrom(s)[i - 1]).result # "Complete"

Init ==
  /\ script \in Scripts
  /\ wire = BytesFrom(script)[0]
  /\ buf = << >> /\ out = << >>
  /\ db = KS!EmptyDb /\ dirty = 0
  /\ state = "Connected" /\ pc = "idle"

\* A read: any number of the bytes that follow.
Read ==
  /\ pc = "idle"
  /\ \E n \in 1..Len(wire) :
       /\ buf' = buf \o SubSeq(wire, 1, n)
       /\ wire' = SubSeq(wire, n + 1, Len(wire))
  /\ pc' = "loop"
  /\ UNCHANGED <<script, out, db, dirty, state>>

\* One turn of the loop of dispatch is one of the following, for the outcome p
\* of parse(buf).  It waits for more bytes, ...
Wait(p) ==
  /\ p.result = "Incomplete"
  /\ pc' = "idle"
  /\ UNCHANGED <<script, wire, buf, out, db, dirty, state>>

\* ... or gives up: what cannot be parsed stays in the buffer, ...
ProtocolError(p) ==
  /\ p.result = "Error"
  /\ out' = out \o error(<<"Protocol error: invalid RESP2 format">>)
  /\ state' = "WriteOnly" /\ pc' = "idle"
  /\ UNCHANGED <<script, wire, buf, db, dirty>>

\* ... or does not come back from parse: nothing catches the exception, and the
\* process ends with what it has in memory.
Terminate(p) ==
  /\ p.result = "Throws"
  /\ pc' = "terminated"
  /\ UNCHANGED <<script, wire, buf, out, db, dirty, state>>

\* Mutant: the CR LF at the end of a message stays.
consume_KeepsCrlf(n) == buf' = SubSeq(buf, n - 1, Len(buf))

\* ... or consumes a message.
consume(n) == buf' = SubSeq(buf, n + 1, Len(buf))

\* Mutant: nothing is written.
Refuse_Silently(msg) ==
  /\ out' = out
  /\ UNCHANGED <<script, wire, db, dirty, state, pc>>

\* One that is no command of the server is answered with an error.
Refuse(msg) ==
  /\ out' = out \o error(msg)
  /\ UNCHANGED <<script, wire, db, dirty, state, pc>>

NotACommand(p) ==
  /\ p.result = "Complete" /\ ~ IsCommand(p.value)
  /\ consume(p.pos)
  /\ Refuse(<<"Protocol error">>)

UnknownCommand(p) ==
  /\ p.result = "Complete" /\ IsCommand(p.value) /\ find(p.value.elements[1].str) = {}
  /\ consume(p.pos)
  /\ Refuse(<<"unknown command ">> \o toupper(p.value.elements[1].str))

\* The handler runs, and a command that is marked as a write is counted.
Call(c, a) ==
  /\ \E outcome \in {Execute(c.name, db, a, {k \in DOMAIN db.keys : glob_match(a[2].str, k)})} :
       /\ db' = outcome.db
       /\ out' = out \o Written(outcome.reply)
  /\ state' = IF c.name = "QUIT" THEN "WriteOnly" ELSE state
  /\ dirty' = IF c.write THEN dirty + 1 ELSE dirty
  /\ UNCHANGED <<script, wire, pc>>

RunCommand(p) ==
  /\ p.result = "Complete" /\ IsCommand(p.value)
  /\ consume(p.pos)
  /\ \E c \in find(p.value.elements[1].str) :
       IF WrongArity(c, Len(p.value.elements))
       THEN Refuse(<<"wrong number of arguments for ", c.name>>)
       ELSE Call(c, p.value.elements)

Turn ==
  /\ pc = "loop"
  /\ \E p \in {parse(buf)} :
       \/ Wait(p) \/ ProtocolError(p) \/ Terminate(p)
       \/ NotACommand(p) \/ UnknownCommand(p) \/ RunCommand(p)

Next == Read \/ Turn

Spec == Init /\ [][Next]_vars

-----------------------------------------------------------------------------
(***************************************************************************)
(* Properties.                                                             *)
(***************************************************************************)
\* The variables have their types; the keys and the values are byte strings of
\* the client, and the deadlines are 64-bit numbers.
TypeOK ==
  /\ script \in Scripts /\ wire \in Strings /\ buf \in Strings
  /\ DOMAIN db.expires \subseteq DOMAIN db.keys
  /\ \A k \in DOMAIN db.keys : k \in Strings /\ db.keys[k] \in Strings
  /\ \A k \in DOMAIN db.expires : db.expires[k] \in IntMin..IntMax
  /\ dirty \in Nat /\ state \in {"Connected", "WriteOnly"}
  /\ pc \in {"idle", "loop", "terminated"}

\* `pattern' matches str: there is a place to cut str before each symbol of the
\* pattern such that each one fits its piece.
Matches(pattern, str) ==
  \E cut \in [0..Len(pattern) -> 0..Len(str)] :
    /\ cut[0] = 0 /\ cut[Len(pattern)] = Len(str)
    /\ \A i \in DOMAIN pattern :
         IF pattern[i] = "*" THEN cut[i] >= cut[i - 1]
         ELSE cut[i] = cut[i - 1] + 1 /\ pattern[i] \in {"?", str[cut[i]]}

\* One message after the other, as a client means them: the database after it
\* and the reply, or the error.
Serve(d, m) ==
  LET found == IF m.asks = "command" THEN find(m.args[1].str) ELSE {}
  IN  IF \E c \in found : ~ WrongArity(c, Len(m.args))
      THEN Execute((CHOOSE c \in found : TRUE).name, d, m.args,
                   {k \in DOMAIN d.keys : Matches(m.args[2].str, k)})
      ELSE KS!Reply(d, KS!Error)

\* What Serve gives for each of the messages in turn, from an empty database on.
Served(messages) ==
  LET after[i \in 0..Len(messages)] ==
        IF i = 0 THEN KS!Reply(KS!EmptyDb, KS!OK) ELSE Serve(after[i - 1].db, messages[i])
  IN  after

\* What a client makes of the bytes that it gets: at position i it parses p, and
\* from[j] is what it makes of the bytes behind j.
NextReply(p, i, from) ==
  IF p.result # "Complete" THEN << >> ELSE <<p.value>> \o from[i + p.pos]

Replies(bytes) ==
  LET from[i \in 0..Len(bytes)] ==
        NextReply(parse(SubSeq(bytes, i + 1, Len(bytes))), i, from)
  IN  from[0]

\* The value v is the reply r.
Shows(v, r) ==
  CASE r[1] = "ok"      -> v = SimpleString(<<"OK">>)
    [] r[1] = "error"   -> v.type = "Error"
    [] r[1] = "nil"     -> v = NilValue
    [] r[1] = "bulk"    -> v = BulkString(r[2])
    [] r[1] = "integer" -> v = IntegerValue(r[2])
    [] r[1] = "array"   ->
         v = Array([i \in DOMAIN r[2] |->
                      IF r[2][i][1] = "nil" THEN NilValue ELSE BulkString(r[2][i][2])])
    [] r[1] = "keys"    ->
         /\ v.type = "Array" /\ Len(v.elements) = Cardinality(r[2])
         /\ {v.elements[i] : i \in DOMAIN v.elements} = {BulkString(k) : k \in r[2]}
    [] OTHER            -> v = SimpleString(r)

\* The first i messages have been consumed, and the database is as if they had
\* been executed one by one.
Executed(i) == BytesFrom(script)[i] = buf \o wire /\ db = Served(script)[i].db

\* However the bytes are cut in reads, what has been consumed are whole messages,
\* and the database is what they make one after the other: no byte of a message
\* is left over or taken from the next, and none is executed twice or not at all.
ExecutedInOrder == \E i \in 0..Len(script) : Executed(i)

\* A client that parses what it gets back finds one reply for each message that
\* has been consumed, the right one and in the order of the messages.  Only what
\* cannot be parsed is answered more than once.
SequentialService ==
  \E i \in 0..Len(script) :
    /\ BytesFrom(script)[i] = buf \o wire
    /\ \E s \in {Served(script)}, r \in {Replies(out)} :
         /\ Len(r) >= i
         /\ \A j \in 1..i : Shows(r[j], s[j].reply)
         /\ Len(r) > i => /\ script[i + 1].asks = "junk"
                          /\ \A j \in i + 1..Len(r) : r[j].type = "Error"

\* The parser never changes its mind: wherever the reads cut the stream, it asks
\* for more or says of the next message what it would say if it had the rest of
\* the stream, for lengths up to the end of i64 too.
VerdictFinal == parse(buf) \in {Incomplete, parse(buf \o wire)}

\* At i begins an array of more elements than can be reserved.
Overlong(input, i) ==
  LET l == parse_line(input, i + 1)
      n == from_chars(l.line).value
  IN  At(input, i) = "*" /\ l.ok /\ n # NotInt /\ n > MaxElements

\* Nothing that a client sends ends the server but the header of such an array, on
\* its own or within another: of a negative number of elements, which reserve would
\* take for a huge one, of a number beyond i64 and of the length of a string there
\* is no such effect.
EndsByCountOnly == pc = "terminated" => \E i \in 0..Len(buf) - 1 : Overlong(buf, i)

\* KEYS finds the keys that its pattern matches, for every pattern: glob_match
\* tries the stars one after the other and gives up at none too early.
KeysExact ==
  \A pattern \in Patterns, k \in DOMAIN db.keys :
    glob_match(pattern, k) <=> Matches(pattern, k)

\* A change that a client could see counts as one change for the snapshots:
\* every handler that makes one belongs to a command marked as a write.
ChangesCounted ==
  [][KS!Live(db', 0) # KS!Live(db, 0) => dirty' = dirty + 1]_vars
=============================================================================
