-------------------------------- MODULE Rdb ---------------------------------
(***************************************************************************)
(* The snapshot file: what save_database_to_writer writes                  *)
(* (src/src/persistence/rdb_save.cpp), what rdb_load reads back            *)
(* (src/src/persistence/rdb_load.cpp), and what main does with the result. *)
(* Module Persistence has the files, the processes and their crashes.      *)
(*                                                                         *)
(* A file is the sequence of the values that were written to it, each with *)
(* the width it was written in; a string of no bytes writes nothing.  A    *)
(* checksum is the sequence it was computed from.  A read finds the value  *)
(* that was written in that width, or fails: a file cut within a value     *)
(* ends before it, and one in which reads and writes no longer line up is  *)
(* left to the checksum, which this module takes to be perfect.            *)
(*                                                                         *)
(* Saving takes a while.  The database that is saved does not change, as   *)
(* the server stands still (SAVE) or a child has a copy of its own         *)
(* (BGSAVE), but the clock does, between any two looks at it.              *)
(***************************************************************************)
EXTENDS KevaDatabase, Sequences

CONSTANTS Key,         \* texts that are keys
          Values,      \* texts that are stored
          Deadlines,   \* deadlines that keys are given
          Length,      \* from a text to its length
          U32Max,      \* UINT32_MAX, scaled down
          EmptyText,
          Noise,       \* values of the file that damage may put there
          MaxTime,     \* bound: the clock stops here
          MaxWrites    \* bound: writes to the database

ASSUME RdbAssumption ==
  /\ Key \subseteq Text /\ Values \subseteq Text
  /\ \A s \in Text : Length[s] \in 0..U32Max /\ (Length[s] = 0 <=> s = EmptyText)
  /\ U32Max \in Nat /\ EmptyText \in Text
  /\ Deadlines \subseteq i64 \cap Nat
  /\ MaxTime \in 0..IntMax /\ MaxWrites \in Nat

RDB_VERSION       == 1
RDB_OPCODE_DB     == 254
RDB_OPCODE_EXPIRE == 252
RDB_OPCODE_EOF    == 255
RDB_TYPE_STRING   == 0

-----------------------------------------------------------------------------
(***************************************************************************)
(* RdbWriter and save_database_to_writer.                                  *)
(***************************************************************************)
u8(n) == <<<<"u8", n>>>>

\* The cast of a length to u32 takes it modulo 2^32.
u32(n) == <<<<"u32", n % (U32Max + 1)>>>>

\* write_bytes: nothing for the empty text.
write_bytes(s) == IF s = EmptyText THEN << >> ELSE <<<<"raw", s>>>>

\* Mutant: 64 still counts as a short length.
write_string_Boundary(s) ==
  LET len == Length[s]
  IN  (IF len <= 64 THEN u8(len)
       ELSE IF len < 16384 THEN u8(128 + len \div 256) \o u8(len % 256)
       ELSE u8(192) \o u32(len)) \o write_bytes(s)

\* The length in one byte, in two, or in a mark and four more, then the text.
write_string(s) ==
  LET len == Length[s]
  IN  (IF len < 64 THEN u8(len)
       ELSE IF len < 16384 THEN u8(128 + len \div 256) \o u8(len % 256)
       ELSE u8(192) \o u32(len)) \o write_bytes(s)

Header ==
  <<<<"magic", "KEVA">>, <<"u16", RDB_VERSION>>>> \o u8(RDB_OPCODE_DB) \o u32(0)

\* One key.  Its time to live was read before, and the clock t is read again
\* to make a deadline of it.
EntryOf(k, obj, ttl_ms, t) ==
  (IF ttl_ms >= 0 THEN u8(RDB_OPCODE_EXPIRE) \o <<<<"i64", Wrap(t + ttl_ms)>>>>
                  ELSE << >>)
  \o (u8(RDB_TYPE_STRING) \o write_string(k) \o write_string(obj))

\* Writer and reader compute the same checksum, of what has gone by so far.
Checksum(f) == <<"crc", f>>

\* The end mark, and the checksum of all before it.
Sealed(f) == LET g == f \o u8(RDB_OPCODE_EOF) IN Append(g, Checksum(g))

-----------------------------------------------------------------------------
(***************************************************************************)
(* RdbReader and rdb_load.                                                 *)
(***************************************************************************)
\* The next value of f, at position i, has the width w.
NextIs(f, i, w) == i \in DOMAIN f /\ f[i][1] = w

Unreadable == [ok |-> FALSE, text |-> EmptyText, next |-> 0]

\* read_bytes of len bytes into a string.
ReadText(f, i, len) ==
  IF len = 0 THEN [ok |-> TRUE, text |-> EmptyText, next |-> i]
  ELSE IF NextIs(f, i, "raw") /\ Length[f[i][2]] = len
       THEN [ok |-> TRUE, text |-> f[i][2], next |-> i + 1]
       ELSE Unreadable

\* read_string at position i: the text and the position after it.
read_string(f, i) ==
  IF ~ NextIs(f, i, "u8") THEN Unreadable
  ELSE LET first == f[i][2]
           form  == first \div 64
       IN  IF form = 0 THEN ReadText(f, i + 1, first)
           ELSE IF form = 2 /\ NextIs(f, i + 1, "u8")
                THEN ReadText(f, i + 2, (first % 64) * 256 + f[i + 1][2])
           ELSE IF form = 3 /\ NextIs(f, i + 1, "u32")
                THEN ReadText(f, i + 2, f[i + 1][2])
           ELSE Unreadable

verify_crc64(f, i) == NextIs(f, i, "crc") /\ f[i] = Checksum(SubSeq(f, 1, i - 1))

\* Mutant: the deadline is kept for the keys that follow.
AfterKey_Keeps(expire) == expire

\* What pending_expire is once a key has been read: -1, none.
AfterKey(expire) == -1

(***************************************************************************)
(* The loop of rdb_load, between two turns: it is still reading, or has    *)
(* returned; the position in the file; pending_expire; and the database,   *)
(* which is written as the file is read.                                   *)
(***************************************************************************)
LoopState(status, at, pending, d) ==
  [status |-> status, at |-> at, pending |-> pending, db |-> d]

LoopStart == LoopState("reading", 3, -1, EmptyDb)

\* A read has failed, and rdb_load returns with what is in the database d.
IOError(d) == LoopState("failed", 0, -1, d)

\* The key and the value behind position j.
LoadString(f, j, pending, d) ==
  LET key   == read_string(f, j + 1)
      value == read_string(f, key.next)
      e     == set(d, key.text, create_string(value.text))
  IN  IF ~ key.ok \/ ~ value.ok THEN IOError(d)
      ELSE LoopState("reading", value.next, AfterKey(pending),
                     IF pending # -1 THEN set_expire(e, key.text, pending) ELSE e)

\* What follows the type at position j.  One that it does not know, like any
\* opcode that it does not know, is passed over.
LoadTyped(f, j, pending, d) ==
  IF ~ NextIs(f, j, "u8") THEN IOError(d)
  ELSE IF f[j][2] = RDB_TYPE_STRING THEN LoadString(f, j, pending, d)
  ELSE LoopState("reading", j + 1, pending, d)

\* One turn of the loop, from position i on.
ReadTurn(f, i, pending, d) ==
  IF ~ NextIs(f, i, "u8") THEN IOError(d)
  ELSE IF f[i][2] = RDB_OPCODE_EOF
       THEN IF verify_crc64(f, i + 1) THEN LoopState("ok", i + 2, pending, d) ELSE IOError(d)
  ELSE IF f[i][2] = RDB_OPCODE_DB
       THEN IF NextIs(f, i + 1, "u32") THEN LoopState("reading", i + 2, pending, d)
                                       ELSE IOError(d)
  ELSE IF f[i][2] = RDB_OPCODE_EXPIRE
       THEN IF NextIs(f, i + 1, "i64") THEN LoadTyped(f, i + 2, f[i + 1][2], d)
                                       ELSE IOError(d)
  ELSE LoadTyped(f, i, pending, d)

Turn(f, s) ==
  IF s.status = "reading" THEN ReadTurn(f, s.at, s.pending, s.db) ELSE s

\* The loop after each number of turns.  A turn that does not end it reads at
\* least one value, so that as many turns as there are values end it.
Loop(f) ==
  LET turns[n \in 0..Len(f)] == IF n = 0 THEN LoopStart ELSE Turn(f, turns[n - 1])
  IN  turns

\* rdb_load: the status, and the database as it leaves it.
rdb_load(f) ==
  IF /\ NextIs(f, 1, "magic") /\ f[1][2] = "KEVA"
     /\ NextIs(f, 2, "u16") /\ f[2][2] <= RDB_VERSION
  THEN LET last == Loop(f)[Len(f)] IN [ok |-> last.status = "ok", db |-> last.db]
  ELSE [ok |-> FALSE, db |-> EmptyDb]

\* Mutant: what was read before the error stays.
Started_Unflushed(f) == IF f = << >> THEN EmptyDb ELSE rdb_load(f).db

\* Mutant: only the keys are cleared.
Started_KeysOnly(f) ==
  IF f = << >> THEN EmptyDb
  ELSE IF rdb_load(f).ok THEN rdb_load(f).db
  ELSE [keys |-> EmptyMap, expires |-> rdb_load(f).db.expires]

\* The database that main starts with: empty without a file (the empty
\* sequence here), and emptied again when the file cannot be read.
Started(f) ==
  IF f = << >> THEN EmptyDb
  ELSE IF rdb_load(f).ok THEN rdb_load(f).db ELSE EmptyDb

-----------------------------------------------------------------------------
VARIABLES db,      \* the server's database
          now,     \* the wall clock
          dump,    \* the file dump.rdb, empty if there is none
          saver,   \* a save that is under way, or Idle
          origin,  \* what the dump was made from, or Idle if it is damaged
          writes   \* writes to the database so far

vars == <<db, now, dump, saver, origin, writes>>

Idle == [pc |-> "idle"]

Init ==
  /\ db = EmptyDb /\ now = 0 /\ dump = << >>
  /\ saver = Idle /\ origin = Idle /\ writes = 0

\* Any of the commands that write a key, with or without a deadline.
Store(k) ==
  /\ writes < MaxWrites /\ dump = << >>
  /\ writes' = writes + 1
  /\ \E s \in Values :
       \/ db' = set(db, k, create_string(s))
       \/ \E at \in Deadlines : db' = set_expire(set(db, k, create_string(s)), k, at)
  /\ UNCHANGED <<now, dump, saver, origin>>

\* The save begins: for_each reads the clock once and visits the keys that
\* have not expired by then, in the order of the table, which is any.
\* Bound: one save.
BeginSave ==
  /\ saver = Idle /\ dump = << >>
  /\ saver' = [pc |-> "next", db |-> db, start |-> now, file |-> Header,
               todo |-> for_each(db, now), key |-> Nil, ttl |-> Nil]
  /\ UNCHANGED <<db, now, dump, origin, writes>>

\* The visitor reads the time to live of its key.
ReadTtl(k) ==
  /\ saver.pc = "next" /\ k \in saver.todo
  /\ saver' = [saver EXCEPT !.pc = "write", !.todo = @ \ {k}, !.key = k,
                            !.ttl = pttl(saver.db, k, now)]
  /\ UNCHANGED <<db, now, dump, origin, writes>>

\* ... and then the clock again, and writes the entry.
WriteEntry ==
  /\ saver.pc = "write"
  /\ saver' = [saver EXCEPT !.pc = "next",
                 !.file = @ \o EntryOf(saver.key, saver.db.keys[saver.key], saver.ttl, now)]
  /\ UNCHANGED <<db, now, dump, origin, writes>>

\* The file is complete and is renamed.
EndSave ==
  /\ saver.pc = "next" /\ saver.todo = {}
  /\ dump' = Sealed(saver.file)
  /\ origin' = [pc |-> "done", db |-> saver.db, start |-> saver.start, end |-> now]
  /\ saver' = Idle
  /\ UNCHANGED <<db, now, writes>>

\* The file loses its end, or one value in it changes.
Damage ==
  /\ dump # << >> /\ origin # Idle
  /\ \/ \E n \in 1..Len(dump) - 1 : dump' = SubSeq(dump, 1, n)
     \/ \E i \in DOMAIN dump, x \in Noise :
          /\ x[1] = dump[i][1] /\ x[2] # dump[i][2]
          /\ x[1] = "raw" => Length[x[2]] = Length[dump[i][2]]
          /\ dump' = [dump EXCEPT ![i] = x]
  /\ origin' = Idle
  /\ UNCHANGED <<db, now, saver, writes>>

\* The server ends and starts again.
Restart ==
  /\ saver = Idle
  /\ db' = Started(dump)
  /\ UNCHANGED <<now, dump, saver, origin, writes>>

\* Time passes, between a save and a restart too.
Tick ==
  /\ now < MaxTime
  /\ now' = now + 1
  /\ UNCHANGED <<db, dump, saver, origin, writes>>

Next ==
  \/ \E k \in Key : Store(k) \/ ReadTtl(k)
  \/ BeginSave \/ WriteEntry \/ EndSave \/ Damage \/ Restart \/ Tick

Spec == Init /\ [][Next]_vars

-----------------------------------------------------------------------------
(***************************************************************************)
(* Properties.                                                             *)
(***************************************************************************)
DbType(d) ==
  /\ d = [keys |-> d.keys, expires |-> d.expires]
  /\ DOMAIN d.keys \subseteq Key /\ d.keys \in [DOMAIN d.keys -> Text]
  /\ DOMAIN d.expires \subseteq DOMAIN d.keys
  /\ d.expires \in [DOMAIN d.expires -> i64]

\* The variables have their types; a database that was read from a file has
\* keys of the server and no deadline without a key.
TypeOK ==
  /\ DbType(db) /\ now \in 0..MaxTime /\ writes \in 0..MaxWrites
  /\ saver # Idle => /\ DbType(saver.db) /\ saver.start \in 0..now
                     /\ saver.todo \subseteq DOMAIN saver.db.keys
  /\ origin # Idle => DbType(origin.db) /\ origin.end \in origin.start..now

\* The keys that a snapshot has: those that had not expired when it was begun.
Kept == for_each(origin.db, origin.start)

\* How much later a deadline may have become: the time to live and the clock that
\* make it are read at different instants of the save.
Late == origin.end - origin.start

\* The deadline of k, if any, is not so near the end of i64 that the sum which
\* is stored for it may wrap.
Fits(k) == k \in DOMAIN origin.db.expires => origin.db.expires[k] + Late <= IntMax

\* The keys of the snapshot that are alive now.
Alive == {k \in Kept : Fits(k) /\ ~ is_expired(origin.db, k, now)}

\* What a client can see of the database d, now, is the snapshot: every key that
\* is alive, and no other than the snapshot's, each with its value.  Nothing is
\* said of a key that has expired and is stored.
Restores(d) ==
  /\ Alive \subseteq for_each(d, now)
  /\ for_each(d, now) \subseteq Kept
  /\ \A k \in for_each(d, now) : d.keys[k] = origin.db.keys[k]

\* A dump that nobody has damaged loads, at whatever time, and gives back the keys
\* that are alive by then with the values of the moment the save began, whatever
\* the lengths and forms of the texts.
SnapshotComplete ==
  origin # Idle => rdb_load(dump).ok /\ Restores(rdb_load(dump).db)

\* A key that a restart brings back has a deadline exactly if it had one, never an
\* earlier one, and one that is later by no more than the save took.  So a key
\* that was dead for that long stays dead.
DeadlinesKept ==
  origin # Idle =>
    LET at == origin.db.expires
        d  == rdb_load(dump).db
    IN  \A k \in for_each(d, now) :
          /\ k \in DOMAIN d.expires <=> k \in DOMAIN at
          /\ k \in DOMAIN at /\ Fits(k) => d.expires[k] \in at[k]..at[k] + Late

\* A restart gives all of a snapshot that is alive, or nothing: a file that has
\* been cut short or changed anywhere, behind keys that had been read by then,
\* leaves none of them in the database.
RestartAllOrNothing ==
  [][Restart => IF origin = Idle THEN db' = EmptyDb ELSE Restores(db')]_vars

\* src/documentation.md:1059 says that loading "Discards keys whose stored TTL
\* timestamp is already in the past": a server that starts now has no such key.
ExpiredDiscarded ==
  \A k \in DOMAIN Started(dump).expires : Started(dump).expires[k] >= now
=============================================================================
