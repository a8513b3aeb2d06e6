------------------------------ MODULE Keyspace ------------------------------
(***************************************************************************)
(* The string, key and FLUSHDB command handlers (src/src/command/handlers) *)
(* over one database, the wall clock, and the active expiry of the cron.   *)
(* The reactor has one thread, so a handler runs from start to end with no *)
(* other in between; what interleaves is whole commands, the clock and the *)
(* cron.                                                                   *)
(*                                                                         *)
(* A handler is a function of the database d and the clock t that gives    *)
(* the database it leaves and the reply it sends.  No handler makes an     *)
(* object of another type than string: the WRONGTYPE branches are dead.    *)
(***************************************************************************)
EXTENDS KevaDatabase

CONSTANTS Key,
          Concat,      \* from pairs of texts to their concatenation
          Size,        \* the length of a text
          Second,      \* clock ticks in a second, 1000 in the code
          Values,      \* the texts that clients send as values
          Amounts,     \* what they send as increments
          Delays,      \* ... as relative times
          Dates,       \* ... as absolute times in seconds
          MaxTime      \* bound: the clock stops here

ASSUME InputAssumption ==
  /\ Second \in Nat \ {0} /\ MaxTime \in Nat
  /\ (Amounts \cup Delays \cup Dates) \subseteq (i64 \cup {NotInt})

ASSUME ValueAssumption ==
  /\ Values \subseteq Text
  /\ DOMAIN Concat \subseteq Text \X Text
  /\ \A p \in DOMAIN Concat : Concat[p] \in Text

Reply(d, r) == [db |-> d, reply |-> r]

OK    == <<"ok">>
Error == <<"error">>
Bulk(s)    == IF s = Nil THEN <<"nil">> ELSE <<"bulk", s>>
Integer(i) == <<"integer", i>>

-----------------------------------------------------------------------------
(***************************************************************************)
(* String commands.                                                        *)
(***************************************************************************)
\* Mutant: seconds are taken for milliseconds.
ExpireMs_NoScale(unit, n) == IF unit = "none" THEN -1 ELSE n

\* The milliseconds of `EX n' or `PX n', and -1 without an option.
ExpireMs(unit, n) ==
  CASE unit = "EX" -> Wrap(n * Second) [] unit = "PX" -> n [] unit = "none" -> -1

BadTime(n) == n = NotInt \/ n <= 0

handle_set(d, t, k, s, nx, xx, unit, n) ==
  LET d1   == AfterGet(d, k, t)
      d2   == set(d1, k, create_string(s))
      here == exists(d, k, t)
      ms   == ExpireMs(unit, n)
  IN  IF unit # "none" /\ BadTime(n) THEN Reply(d, Error)
      ELSE IF (nx /\ here) \/ (xx /\ ~ here) THEN Reply(d1, Bulk(Nil))
      ELSE Reply(IF ms > 0 THEN set_expire(d2, k, Wrap(t + ms)) ELSE d2, OK)

handle_get(d, t, k) == Reply(AfterGet(d, k, t), Bulk(peek(d, k, t)))

handle_getset(d, t, k, s) ==
  Reply(set(AfterGet(d, k, t), k, create_string(s)), Bulk(peek(d, k, t)))

\* Mutant: the deadlines of the old values stay.
handle_mset_KeepsDeadlines(d, pairs, dangling) ==
  LET written == {pairs[i][1] : i \in DOMAIN pairs}
      Last(k) == CHOOSE i \in DOMAIN pairs :
                   pairs[i][1] = k /\ \A j \in DOMAIN pairs : pairs[j][1] = k => j <= i
  IN  IF dangling THEN Reply(d, Error)
      ELSE Reply([keys |-> [k \in DOMAIN d.keys \cup written |->
                              IF k \in written
                              THEN create_string(pairs[Last(k)][2])
                              ELSE d.keys[k]],
                  expires |-> d.expires],
                 OK)

\* The arguments are key-value pairs, and `dangling' is a last key without a
\* value.  The pairs are written from left to right, so the last one counts.
handle_mset(d, pairs, dangling) ==
  LET written == {pairs[i][1] : i \in DOMAIN pairs}
      Last(k) == CHOOSE i \in DOMAIN pairs :
                   pairs[i][1] = k /\ \A j \in DOMAIN pairs : pairs[j][1] = k => j <= i
  IN  IF dangling THEN Reply(d, Error)
      ELSE Reply([keys |-> [k \in DOMAIN d.keys \cup written |->
                              IF k \in written
                              THEN create_string(pairs[Last(k)][2])
                              ELSE d.keys[k]],
                  expires |-> [k \in DOMAIN d.expires \ written |-> d.expires[k]]],
                 OK)

\* The database after get has been called for each of the keys ks.
AfterGets(d, ks, t) ==
  LET gone == {k \in ks : k \in DOMAIN d.keys /\ is_expired(d, k, t)}
  IN  [keys    |-> [k \in DOMAIN d.keys \ gone |-> d.keys[k]],
       expires |-> [k \in DOMAIN d.expires \ gone |-> d.expires[k]]]

ArgsOf(seq) == {seq[i] : i \in DOMAIN seq}

handle_mget(d, t, ks) ==
  Reply(AfterGets(d, ArgsOf(ks), t),
        <<"array", [i \in DOMAIN ks |-> Bulk(peek(d, ks[i], t))]>>)

handle_append(d, t, k, s) ==
  LET old == peek(d, k, t)
      new == IF old = Nil THEN s ELSE Concat[<<old, s>>]
  IN  Reply(set(AfterGet(d, k, t), k, create_string(new)), Integer(Size[new]))

handle_strlen(d, t, k) ==
  LET s == peek(d, k, t)
  IN  Reply(AfterGet(d, k, t), Integer(IF s = Nil THEN 0 ELSE Size[s]))

\* get_integer_obj: an absent key counts as 0.
get_integer_obj(s) == IF s = Nil THEN 0 ELSE Parse[s]

\* The common end of the counter commands: store the number and send it.
StoreInt(d, k, i) ==
  Reply(set(d, k, create_string_from_int(i)), Integer(i))

handle_incr(d, t, k) ==
  LET d1 == AfterGet(d, k, t)
      c  == get_integer_obj(peek(d, k, t))
  IN  IF c = NotInt \/ c = IntMax THEN Reply(d1, Error)
      ELSE StoreInt(d1, k, c + 1)

\* Mutant: no check for overflow.
handle_incrby_Unchecked(d, t, k, n) ==
  LET d1 == AfterGet(d, k, t)
      c  == get_integer_obj(peek(d, k, t))
  IN  IF n = NotInt THEN Reply(d, Error)
      ELSE IF c = NotInt THEN Reply(d1, Error)
      ELSE StoreInt(d1, k, Wrap(c + n))

handle_incrby(d, t, k, n) ==
  LET d1 == AfterGet(d, k, t)
      c  == get_integer_obj(peek(d, k, t))
  IN  IF n = NotInt THEN Reply(d, Error)
      ELSE IF c = NotInt THEN Reply(d1, Error)
      ELSE IF (n > 0 /\ c > IntMax - n) \/ (n < 0 /\ c < IntMin - n)
           THEN Reply(d1, Error)
           ELSE StoreInt(d1, k, c + n)

handle_decr(d, t, k) ==
  LET d1 == AfterGet(d, k, t)
      c  == get_integer_obj(peek(d, k, t))
  IN  IF c = NotInt \/ c = IntMin THEN Reply(d1, Error)
      ELSE StoreInt(d1, k, c - 1)

\* Unlike the other three, this one does not ask whether the result fits.
handle_decrby(d, t, k, n) ==
  LET d1 == AfterGet(d, k, t)
      c  == get_integer_obj(peek(d, k, t))
  IN  IF n = NotInt THEN Reply(d, Error)
      ELSE IF c = NotInt THEN Reply(d1, Error)
      ELSE StoreInt(d1, k, Wrap(c - n))

\* SETEX and PSETEX overwrite without a look at what was there.
SetWithDelay(d, t, k, s, n, ms) ==
  IF BadTime(n) THEN Reply(d, Error)
  ELSE Reply(set_expire(set(d, k, create_string(s)), k, Wrap(t + ms)), OK)

handle_setex(d, t, k, n, s)  == SetWithDelay(d, t, k, s, n, ExpireMs("EX", n))
handle_psetex(d, t, k, n, s) == SetWithDelay(d, t, k, s, n, n)

handle_setnx(d, t, k, s) ==
  LET d1 == AfterGet(d, k, t)
  IN  IF exists(d, k, t) THEN Reply(d1, Integer(0))
      ELSE Reply(set(d1, k, create_string(s)), Integer(1))

-----------------------------------------------------------------------------
(***************************************************************************)
(* Key commands.                                                           *)
(***************************************************************************)
\* A key that is named twice is deleted, and counted, once.
handle_del(d, ks) ==
  LET gone == ArgsOf(ks)
  IN  Reply([keys    |-> [k \in DOMAIN d.keys \ gone |-> d.keys[k]],
             expires |-> [k \in DOMAIN d.expires \ gone |-> d.expires[k]]],
            Integer(Cardinality({k \in gone : HasKey(d, k)})))

\* A key that is named twice counts twice.
handle_exists(d, t, ks) ==
  Reply(AfterGets(d, ArgsOf(ks), t),
        Integer(Cardinality({i \in DOMAIN ks : exists(d, ks[i], t)})))

handle_type(d, t, k) ==
  Reply(d, IF exists(d, k, t) THEN <<"string">> ELSE <<"none">>)

\* The common part of EXPIRE, PEXPIRE and EXPIREAT: a deadline for a key that
\* is there.  A deadline in the past is taken as it is.
SetDeadline(d, t, k, n, at) ==
  IF n = NotInt THEN Reply(d, Error)
  ELSE IF ~ exists(d, k, t) THEN Reply(AfterGet(d, k, t), Integer(0))
  ELSE Reply(set_expire(d, k, at), Integer(1))

handle_expire(d, t, k, n)   == SetDeadline(d, t, k, n, Wrap(t + Wrap(n * Second)))
handle_pexpire(d, t, k, n)  == SetDeadline(d, t, k, n, Wrap(t + n))
handle_expireat(d, t, k, n) == SetDeadline(d, t, k, n, Wrap(n * Second))

handle_pttl(d, t, k) == Reply(d, Integer(pttl(d, k, t)))

handle_ttl(d, t, k) ==
  LET ms == pttl(d, k, t)
  IN  Reply(d, Integer(IF ms < 0 THEN ms ELSE ms \div Second))

\* Mutant: it looks for the key and not at its deadline.
handle_persist_Revives(d, t, k) ==
  IF ~ HasKey(d, k) THEN Reply(d, Integer(0))
  ELSE Reply(remove_expire(d, k), Integer(1))

handle_persist(d, t, k) ==
  IF ~ exists(d, k, t) THEN Reply(AfterGet(d, k, t), Integer(0))
  ELSE Reply(remove_expire(d, k), Integer(1))

\* A pattern is the set of the keys that glob_match accepts for it.
handle_keys(d, t, pattern) ==
  Reply(d, <<"keys", for_each(d, t) \cap pattern>>)

\* The new object is made from the text of the old one.
handle_rename(d, t, j, k) ==
  IF ~ exists(d, j, t) THEN Reply(AfterGet(d, j, t), Error)
  ELSE Reply(set(delete_key(d, j), k, create_string(peek(d, j, t))), OK)

handle_dbsize(d) == Reply(d, Integer(dbsize(d)))

handle_flushdb == Reply(EmptyDb, OK)

-----------------------------------------------------------------------------
VARIABLES db,     \* the database
          now     \* the wall clock

vars == <<db, now>>

Init == db = EmptyDb /\ now = 0

Run(outcome) == db' = outcome.db /\ UNCHANGED now

\* The argument lists of the commands that take several keys: one key, or two
\* that may be the same.
KeyLists == {<<k>> : k \in Key} \cup (Key \X Key)

\* A relative time may come in either unit.
Options == {<<"none", NotInt>>} \cup ({"EX", "PX"} \X Delays)

Set(k) == \E s \in Values, nx, xx \in BOOLEAN, o \in Options :
            Run(handle_set(db, now, k, s, nx, xx, o[1], o[2]))
Get(k)    == Run(handle_get(db, now, k))
GetSet(k) == \E s \in Values : Run(handle_getset(db, now, k, s))
MSet      == \E j, k \in Key, s, r \in Values, dangling \in BOOLEAN :
               Run(handle_mset(db, <<<<j, s>>, <<k, r>>>>, dangling))
MGet(ks)  == Run(handle_mget(db, now, ks))
\* Bound: no concatenation beyond the texts that Concat knows.
Append(k) == \E s \in Values :
               /\ exists(db, k, now) => <<peek(db, k, now), s>> \in DOMAIN Concat
               /\ Run(handle_append(db, now, k, s))
StrLen(k) == Run(handle_strlen(db, now, k))
Incr(k)   == Run(handle_incr(db, now, k))
IncrBy(k) == \E n \in Amounts : Run(handle_incrby(db, now, k, n))
Decr(k)   == Run(handle_decr(db, now, k))
DecrBy(k) == \E n \in Amounts : Run(handle_decrby(db, now, k, n))
SetEx(k)  == \E s \in Values, n \in Delays : Run(handle_setex(db, now, k, n, s))
PSetEx(k) == \E s \in Values, n \in Delays : Run(handle_psetex(db, now, k, n, s))
SetNx(k)  == \E s \in Values : Run(handle_setnx(db, now, k, s))

Del(ks)     == Run(handle_del(db, ks))
Exists(ks)  == Run(handle_exists(db, now, ks))
Type(k)     == Run(handle_type(db, now, k))
Expire(k)   == \E n \in Delays : Run(handle_expire(db, now, k, n))
PExpire(k)  == \E n \in Delays : Run(handle_pexpire(db, now, k, n))
ExpireAt(k) == \E n \in Dates : Run(handle_expireat(db, now, k, n))
Ttl(k)      == Run(handle_ttl(db, now, k))
PTtl(k)     == Run(handle_pttl(db, now, k))
Persist(k)  == Run(handle_persist(db, now, k))
Keys        == \E pattern \in SUBSET Key : Run(handle_keys(db, now, pattern))
Rename(j)   == \E k \in Key : Run(handle_rename(db, now, j, k))
DbSize      == Run(handle_dbsize(db))
FlushDb     == Run(handle_flushdb)

\* The active expiry of server_cron, starting from the sample S.
Cron(S) == active_expire_cycle(db, now, S, db') /\ UNCHANGED now

\* The wall clock.  It never goes back: see the README.
Tick == now < MaxTime /\ now' = now + 1 /\ UNCHANGED db

StringCommand(k) ==
  \/ Set(k) \/ Get(k) \/ GetSet(k) \/ Append(k) \/ StrLen(k)
  \/ Incr(k) \/ IncrBy(k) \/ Decr(k) \/ DecrBy(k)
  \/ SetEx(k) \/ PSetEx(k) \/ SetNx(k)

KeyCommand(k) ==
  \/ Type(k) \/ Expire(k) \/ PExpire(k) \/ ExpireAt(k) \/ Ttl(k) \/ PTtl(k)
  \/ Persist(k) \/ Rename(k)

Next ==
  \/ \E k \in Key : StringCommand(k) \/ KeyCommand(k)
  \/ \E ks \in KeyLists : MGet(ks) \/ Del(ks) \/ Exists(ks)
  \/ MSet \/ Keys \/ DbSize \/ FlushDb
  \/ \E S \in Samples(db) : Cron(S)
  \/ Tick

Spec == Init /\ [][Next]_vars

\* The cron runs for as long as the loop does, and its samples start at a
\* random bucket: a key that stays in the dict of deadlines is sampled at some
\* time, with probability one.
Sampled(k) == \E S \in Samples(db) : k \in S /\ Cron(S)

FairSpec == Spec /\ \A k \in Key : WF_vars(Sampled(k))
-----------------------------------------------------------------------------
(***************************************************************************)
(* Properties.                                                             *)
(***************************************************************************)
\* A text that reads as a number is stored in the one form that to_chars gives,
\* so that get_integer_obj and a later snapshot agree with GET.
Stored == {s \in Text : Parse[s] # NotInt => s = Decimal[Parse[s]]}

DbType(d) ==
  /\ d = [keys |-> d.keys, expires |-> d.expires]
  /\ DOMAIN d.keys \subseteq Key
  /\ d.keys \in [DOMAIN d.keys -> Stored]
  /\ DOMAIN d.expires \subseteq Key
  /\ d.expires \in [DOMAIN d.expires -> i64]

\* The types of the two dicts of KevaDatabase and of the clock: every command that
\* writes, APPEND and the counters among them, stores an object as create_string
\* makes it.
TypeOK == DbType(db) /\ now \in 0..MaxTime

\* The dict of deadlines never has a key that the dict of objects lacks.  The
\* two are written one after the other by set, del, RENAME, lazy and active
\* expiry; a deadline left behind would fall on the next key of that name.
NoOrphanDeadline == DOMAIN db.expires \subseteq DOMAIN db.keys

\* What the database means: the keys that have not expired, with the time
\* they have left.
Live(d, t) ==
  [k \in for_each(d, t) |->
     [val |-> d.keys[k], at |-> Lookup(d.expires, k, Nil)]]

\* The database without the keys that have expired.
Purged(d, t) == AfterGets(d, DOMAIN d.keys, t)

\* Two runs of a handler that nobody can tell apart at time t.
SameStore(a, b) == Live(a.db, now) = Live(b.db, now)
Same(a, b)      == a.reply = b.reply /\ SameStore(a, b)

\* A key that has expired and is still stored makes no difference: every
\* string command replies, and leaves behind, what it would have if the key
\* had been deleted at its deadline.
StringCommandsSkipExpired ==
  LET p == Purged(db, now)
  IN  \A k \in Key :
        /\ Same(handle_get(db, now, k), handle_get(p, now, k))
        /\ Same(handle_strlen(db, now, k), handle_strlen(p, now, k))
        /\ Same(handle_incr(db, now, k), handle_incr(p, now, k))
        /\ Same(handle_decr(db, now, k), handle_decr(p, now, k))
        /\ \A n \in Amounts :
             /\ Same(handle_incrby(db, now, k, n), handle_incrby(p, now, k, n))
             /\ Same(handle_decrby(db, now, k, n), handle_decrby(p, now, k, n))
        /\ \A j \in Key :
             Same(handle_mget(db, now, <<j, k>>), handle_mget(p, now, <<j, k>>))
        /\ \A s \in Values :
             /\ Same(handle_getset(db, now, k, s), handle_getset(p, now, k, s))
             /\ Same(handle_setnx(db, now, k, s), handle_setnx(p, now, k, s))
             /\ (exists(db, k, now) => <<peek(db, k, now), s>> \in DOMAIN Concat)
                  => Same(handle_append(db, now, k, s), handle_append(p, now, k, s))
             /\ \A j \in Key :
                  Same(handle_mset(db, <<<<j, s>>, <<k, s>>>>, FALSE),
                       handle_mset(p, <<<<j, s>>, <<k, s>>>>, FALSE))
             /\ \A n \in Delays :
                  /\ Same(handle_setex(db, now, k, n, s), handle_setex(p, now, k, n, s))
                  /\ Same(handle_psetex(db, now, k, n, s), handle_psetex(p, now, k, n, s))
             /\ \A nx, xx \in BOOLEAN, o \in Options :
                  Same(handle_set(db, now, k, s, nx, xx, o[1], o[2]),
                       handle_set(p, now, k, s, nx, xx, o[1], o[2]))

\* The same for the key commands, but for the replies of DEL, DBSIZE, TTL and
\* PTTL, which do count a key that has expired and is still stored.
KeyCommandsSkipExpired ==
  LET p == Purged(db, now)
  IN  /\ \A k \in Key :
           /\ Same(handle_type(db, now, k), handle_type(p, now, k))
           /\ Same(handle_persist(db, now, k), handle_persist(p, now, k))
           /\ Same(handle_keys(db, now, {k}), handle_keys(p, now, {k}))
           /\ \A n \in Delays :
                /\ Same(handle_expire(db, now, k, n), handle_expire(p, now, k, n))
                /\ Same(handle_pexpire(db, now, k, n), handle_pexpire(p, now, k, n))
           /\ \A n \in Dates :
                Same(handle_expireat(db, now, k, n), handle_expireat(p, now, k, n))
           /\ \A j \in Key :
                Same(handle_rename(db, now, k, j), handle_rename(p, now, k, j))
      /\ \A ks \in KeyLists :
           /\ Same(handle_exists(db, now, ks), handle_exists(p, now, ks))
           /\ SameStore(handle_del(db, ks), handle_del(p, ks))

\* A number that a counter command sends is the exact sum, and is what a GET
\* finds next; otherwise the command fails and the store is as it was.
Exact(outcome, k, sum) ==
  \/ outcome.reply = Error /\ Live(outcome.db, now) = Live(db, now)
  \/ outcome.reply = Integer(sum) /\ peek(outcome.db, k, now) = Decimal[sum]

\* INCR, INCRBY and DECR never wrap around at the ends of an i64.
CountersExact ==
  \A k \in Key :
    LET c == get_integer_obj(peek(db, k, now))
    IN  /\ Exact(handle_incr(db, now, k), k, c + 1)
        /\ Exact(handle_decr(db, now, k), k, c - 1)
        /\ \A n \in Amounts : Exact(handle_incrby(db, now, k, n), k, c + n)

\* A lookup finds k up to the instant `at' and not from then on.
LastsUntil(outcome, k, at) ==
  \A t \in now..IntMax : exists(outcome.db, k, t) <=> t < at

\* A time to live counts from the command, to the tick: as long as the product
\* and the sum fit an i64, SET EX and PX, SETEX, PSETEX, EXPIRE and PEXPIRE
\* make the key visible for exactly that long, and EXPIRE with no time left
\* hides it at once.  (Beyond that the product wraps: SET may store the key
\* without a deadline, the others with one that has passed.)
DelaysExact ==
  \A k \in Key, n \in Delays \cap i64, unit \in {"EX", "PX"} :
    LET at == now + n * (IF unit = "EX" THEN Second ELSE 1)
    IN  at \in i64 =>
          /\ n > 0 => \A s \in Values :
               /\ LastsUntil(handle_set(db, now, k, s, FALSE, FALSE, unit, n), k, at)
               /\ LastsUntil(IF unit = "EX" THEN handle_setex(db, now, k, n, s)
                                           ELSE handle_psetex(db, now, k, n, s), k, at)
          /\ exists(db, k, now) =>
               LastsUntil(IF unit = "EX" THEN handle_expire(db, now, k, n)
                                         ELSE handle_pexpire(db, now, k, n), k, at)

\* PTTL and TTL look at the dicts without asking whether the key has expired, and
\* yet they agree with GET: PTTL gives time that is left, or says that there is no
\* deadline, exactly for a key that GET finds; TTL, which rounds, calls no key
\* missing that is there, and none permanent that is not.  (A deadline so far in the
\* past that the difference to the clock wraps is left out.  The reply for a key that
\* has expired and is stored is 0, where src/documentation.md:1251 says -2.)
TtlTellsLife ==
  \A k \in Key :
    (k \in DOMAIN db.expires => db.expires[k] - now \in i64) =>
      /\ exists(db, k, now) <=>
           \E n \in {-1} \cup 1..IntMax : handle_pttl(db, now, k).reply = Integer(n)
      /\ exists(db, k, now) => handle_ttl(db, now, k).reply # Integer(-2)
      /\ handle_ttl(db, now, k).reply = Integer(-1) => exists(db, k, now)

\* Active expiry deletes what has expired and nothing else: for a client the
\* store is the same before and after a run of the cron.
CronKeepsLive ==
  [][(\E S \in Samples(db) : Cron(S)) => Live(db', now') = Live(db, now)]_vars

\* The keyspace is a map whose entries vanish at their deadlines, no sooner
\* and no later, and change otherwise only by what a command does in one step:
\* an overwrite, a move or a removal is never seen half done.
Ideal == INSTANCE ExpiringMap WITH
           store <- Live(db, now), Val <- Text, Instants <- i64

ImplementsExpiringMap == Ideal!Spec

\* A key that has expired does not stay in memory for ever, though nobody
\* asks for it: active_expire_cycle finds it.
ExpiredKeysGo ==
  \A k \in Key : is_expired(db, k, now) ~> ~ is_expired(db, k, now)

-----------------------------------------------------------------------------
(***************************************************************************)
(* What the documentation says and the code does not do.                   *)
(***************************************************************************)
\* string_cmd.cpp, of the increment commands: "Overflow is detected by
\* checking whether the result would exceed i64 limits before adding".
DecrbyExact ==
  \A k \in Key, n \in Amounts :
    Exact(handle_decrby(db, now, k, n), k, get_integer_obj(peek(db, k, now)) - n)
=============================================================================
