----------------------- MODULE KeyspaceCommandProofs ------------------------
(***************************************************************************)
(* Proofs about what the commands of Keyspace reply and store: counters,   *)
(* times to live, and keys that have expired and are still in the dicts.   *)
(* All of it follows from the inductive invariant of KeyspaceProofs.       *)
(***************************************************************************)
EXTENDS KeyspaceProofs

-----------------------------------------------------------------------------
(***************************************************************************)
(* Counters.                                                               *)
(***************************************************************************)
LEMMA PeekAfterSet ==
  ASSUME NEW d, NEW k, NEW s, NEW t
  PROVE  peek(set(d, k, s), k, t) = s
  BY DEF peek, set, is_expired, Write, Erase

\* A number that a counter command stores is what it sends and GET finds; a
\* command that fails leaves what can be seen as it was.
LEMMA CounterOutcomes ==
  ASSUME IInv, NEW k \in Key
  PROVE  \A sum : /\ Exact(Reply(db, Error), k, sum)
                  /\ Exact(Reply(AfterGet(db, k, now), Error), k, sum)
                  /\ Exact(StoreInt(AfterGet(db, k, now), k, sum), k, sum)
  <1>1. DbOK(db) /\ now \in Int
    BY ClockType DEF IInv
  <1>2. Live(AfterGet(db, k, now), now) = Live(db, now)
    BY <1>1, AfterGetOK
  <1> QED BY <1>2, PeekAfterSet DEF Exact, Reply, StoreInt, create_string_from_int

\* INCR, DECR and INCRBY send the exact sum and store it, or fail and change
\* nothing: no number that they store has wrapped around.
THEOREM CountersAreExact == Spec => []CountersExact
  <1>1. ASSUME IInv, NEW k \in Key
        PROVE  LET c == get_integer_obj(peek(db, k, now))
               IN  /\ Exact(handle_incr(db, now, k), k, c + 1)
                   /\ Exact(handle_decr(db, now, k), k, c - 1)
                   /\ \A n \in Amounts : Exact(handle_incrby(db, now, k, n), k, c + n)
    BY <1>1, CounterOutcomes DEF handle_incr, handle_decr, handle_incrby
  <1>2. IInv => CountersExact
    BY <1>1 DEF CountersExact
  <1> QED BY <1>2, Invariance, PTL

-----------------------------------------------------------------------------
(***************************************************************************)
(* Times to live.                                                          *)
(***************************************************************************)
\* Two's complement forgets multiples of its modulus: a sum that fits is right
\* though the product in it has wrapped around.
LEMMA ModShift ==
  ASSUME NEW m \in Nat \ {0}, NEW q \in Int, NEW a \in 0..m - 1
  PROVE  (a + m * q) % m = a
  OBVIOUS

LEMMA DivMod ==
  ASSUME NEW m \in Nat \ {0}, NEW x \in Int
  PROVE  x \div m \in Int /\ x = m * (x \div m) + (x % m)
  OBVIOUS

LEMMA WrapSum ==
  ASSUME NEW t \in Int, NEW x \in Int, t + x \in i64
  PROVE  Wrap(t + Wrap(x)) = t + x
  <1> DEFINE m == IntMax - IntMin + 1
             y == x - IntMin
             q == y \div m
             a == t + x - IntMin
  <1>1. IntMin \in Int /\ IntMax \in Int /\ m \in Nat \ {0} /\ y \in Int
    BY IntAssumption DEF IntMin
  <1>2. \A n : Wrap(n) = ((n - IntMin) % m) + IntMin
    BY DEF Wrap
  <1>3. a \in 0..m - 1 /\ a + IntMin = t + x /\ a = t + y
    BY <1>1 DEF i64
  <1>4. Wrap(x) = (y % m) + IntMin
    BY <1>2
  <1> HIDE DEF m, y, a
  <1>5. q \in Int /\ y = m * q + (y % m)
    BY <1>1, DivMod
  <1> HIDE DEF q
  <1>6. PICK p \in Int : y % m = y + m * p
    <2>1. - q \in Int /\ y % m = y + m * (- q)
      BY <1>1, <1>5
    <2> QED BY <2>1
  <1> DEFINE r == m * p
  <1>7. r \in Int /\ y % m = y + r
    BY <1>1, <1>6
  <1>8. (a + r) % m = a
    BY <1>1, <1>3, ModShift
  <1> HIDE DEF r
  <1>9. (t + Wrap(x)) - IntMin = a + r
    BY <1>1, <1>3, <1>4, <1>7
  <1> QED BY <1>2, <1>3, <1>8, <1>9

\* A key with an object and a deadline is found up to the deadline.
LEMMA FoundUntil ==
  ASSUME NEW d, NEW k, k \in DOMAIN d.keys, d.keys[k] # Nil, NEW at \in Int
  PROVE  \A t \in Int : exists(set_expire(d, k, at), k, t) <=> t < at
  BY DEF exists, peek, set_expire, is_expired, Write

Factor(unit) == IF unit = "EX" THEN Second ELSE 1

\* The deadline that the code computes is the one that was asked for.
LEMMA DeadlineComputed ==
  ASSUME NEW t \in Nat, NEW n \in i64, NEW unit \in {"EX", "PX"},
         t + n * Factor(unit) \in i64
  PROVE  /\ t + n * Factor(unit) \in Int
         /\ unit = "EX" => Wrap(t + Wrap(n * Second)) = t + n * Factor(unit)
         /\ unit = "PX" => Wrap(t + n) = t + n * Factor(unit)
         /\ n > 0 => /\ ExpireMs(unit, n) > 0
                     /\ Wrap(t + ExpireMs(unit, n)) = t + n * Factor(unit)
  <1> DEFINE f == Factor(unit)
             x == n * f
  <1>1. n \in Int /\ f \in Nat \ {0} /\ IntMin \in Int /\ IntMax \in Int /\ IntMin < 0
    BY IntAssumption, InputAssumption DEF i64, IntMin, Factor
  <1>2. x \in Int /\ (n > 0 => x > 0)
    BY <1>1
  <1>3. unit = "EX" => n * Second = x
    BY DEF Factor
  <1>4. unit = "PX" => n = x
    BY <1>1 DEF Factor
  <1> HIDE DEF x, f
  <1>5. t + x \in i64 /\ t + x \in Int
    BY <1>2 DEF x, f
  <1>6. unit = "EX" => Wrap(t + Wrap(n * Second)) = t + x
    BY <1>2, <1>3, <1>5, WrapSum
  <1>7. unit = "PX" => Wrap(t + n) = t + x
    BY <1>4, <1>5, WrapInRange
  <1>8. ASSUME n > 0
        PROVE  ExpireMs(unit, n) > 0 /\ Wrap(t + ExpireMs(unit, n)) = t + x
    <2>1. x \in i64
      BY <1>1, <1>2, <1>5, <1>8 DEF i64
    <2>2. Wrap(x) = x
      BY <2>1, WrapInRange
    <2>3. ExpireMs(unit, n) = x
      BY <1>3, <1>4, <2>2 DEF ExpireMs
    <2>4. Wrap(t + x) = t + x
      BY <1>5, WrapInRange
    <2> QED BY <1>2, <1>8, <2>3, <2>4
  <1> QED BY <1>5, <1>6, <1>7, <1>8 DEF x, f

\* Writing a value with a deadline, or a deadline alone, at the database.
LEMMA LastsUntilDeadline ==
  ASSUME IInv, NEW k \in Key, NEW at \in Int
  PROVE  /\ \A d : \A s \in Values : \A r :
              LastsUntil(Reply(set_expire(set(d, k, create_string(s)), k, at), r), k, at)
         /\ \A r : exists(db, k, now) => LastsUntil(Reply(set_expire(db, k, at), r), k, at)
  <1>1. now..IntMax \subseteq Int
    BY ClockType, IntAssumption
  <1>2. ASSUME NEW d, NEW s \in Values, NEW r
        PROVE  LastsUntil(Reply(set_expire(set(d, k, create_string(s)), k, at), r), k, at)
    <2> DEFINE c == create_string(s)
               e == set(d, k, c)
    <2>1. c # Nil
      BY CreateString, StoredIsText, InputTypes
    <2>2. k \in DOMAIN e.keys /\ e.keys[k] # Nil
      BY <2>1 DEF set, Write
    <2> HIDE DEF e
    <2>3. \A t \in Int : exists(set_expire(e, k, at), k, t) <=> t < at
      BY <2>2, FoundUntil
    <2>4. Reply(set_expire(e, k, at), r).db = set_expire(e, k, at)
      BY DEF Reply
    <2> QED BY <1>1, <2>3, <2>4 DEF LastsUntil, e
  <1>3. ASSUME NEW r, exists(db, k, now)
        PROVE  LastsUntil(Reply(set_expire(db, k, at), r), k, at)
    <2>1. k \in DOMAIN db.keys /\ db.keys[k] # Nil
      BY <1>3 DEF exists, peek
    <2>2. \A t \in Int : exists(set_expire(db, k, at), k, t) <=> t < at
      BY <2>1, FoundUntil
    <2>3. Reply(set_expire(db, k, at), r).db = set_expire(db, k, at)
      BY DEF Reply
    <2> QED BY <1>1, <2>2, <2>3 DEF LastsUntil
  <1> QED BY <1>2, <1>3

\* SET EX and PX, SETEX, PSETEX, EXPIRE and PEXPIRE give the key exactly the
\* time that was asked for, whenever the instant of its end fits an i64; also
\* where the number of milliseconds does not, as in EXPIRE into the far past.
THEOREM DelaysAreExact == Spec => []DelaysExact
  <1>1. ASSUME IInv, NEW k \in Key, NEW n \in Delays \cap i64, NEW unit \in {"EX", "PX"},
               now + n * Factor(unit) \in i64
        PROVE  LET at == now + n * Factor(unit)
               IN  /\ n > 0 => \A s \in Values :
                        /\ LastsUntil(handle_set(db, now, k, s, FALSE, FALSE, unit, n), k, at)
                        /\ LastsUntil(IF unit = "EX" THEN handle_setex(db, now, k, n, s)
                                                    ELSE handle_psetex(db, now, k, n, s), k, at)
                   /\ exists(db, k, now) =>
                        LastsUntil(IF unit = "EX" THEN handle_expire(db, now, k, n)
                                                  ELSE handle_pexpire(db, now, k, n), k, at)
    <2> DEFINE at == now + n * Factor(unit)
               d1 == AfterGet(db, k, now)
               W(d, s) == Reply(set_expire(set(d, k, create_string(s)), k, at), OK)
    <2>1. now \in Nat
      BY <1>1, ClockType
    <2>2. /\ at \in Int
          /\ unit = "EX" => Wrap(now + Wrap(n * Second)) = at
          /\ unit = "PX" => Wrap(now + n) = at
          /\ n > 0 => ExpireMs(unit, n) > 0 /\ Wrap(now + ExpireMs(unit, n)) = at
      BY <1>1, <2>1, DeadlineComputed
    <2>3. n # NotInt /\ n \in Int
      BY InputTypes, IntAssumption
    <2> HIDE DEF at
    <2>4. ASSUME n > 0, NEW s \in Values
          PROVE  /\ LastsUntil(handle_set(db, now, k, s, FALSE, FALSE, unit, n), k, at)
                 /\ LastsUntil(IF unit = "EX" THEN handle_setex(db, now, k, n, s)
                                             ELSE handle_psetex(db, now, k, n, s), k, at)
      <3>1. ~ BadTime(n)
        BY <2>3, <2>4 DEF BadTime
      <3>2. handle_set(db, now, k, s, FALSE, FALSE, unit, n) = W(d1, s)
        BY <2>2, <2>4, <3>1 DEF handle_set
      <3>3. unit = "EX" => handle_setex(db, now, k, n, s) = W(db, s)
        BY <2>2, <2>4, <3>1 DEF handle_setex, SetWithDelay
      <3>4. unit = "PX" => handle_psetex(db, now, k, n, s) = W(db, s)
        BY <2>2, <2>4, <3>1 DEF handle_psetex, SetWithDelay
      <3>5. LastsUntil(W(d1, s), k, at) /\ LastsUntil(W(db, s), k, at)
        BY <1>1, <2>2, LastsUntilDeadline
      <3> HIDE DEF W
      <3> QED BY <3>2, <3>3, <3>4, <3>5
    <2>5. ASSUME exists(db, k, now)
          PROVE  LastsUntil(IF unit = "EX" THEN handle_expire(db, now, k, n)
                                           ELSE handle_pexpire(db, now, k, n), k, at)
      <3> DEFINE E == Reply(set_expire(db, k, at), Integer(1))
      <3>1. unit = "EX" => handle_expire(db, now, k, n) = E
        BY <2>2, <2>3, <2>5 DEF handle_expire, SetDeadline
      <3>2. unit = "PX" => handle_pexpire(db, now, k, n) = E
        BY <2>2, <2>3, <2>5 DEF handle_pexpire, SetDeadline
      <3>3. LastsUntil(E, k, at)
        BY <1>1, <2>2, <2>5, LastsUntilDeadline
      <3> HIDE DEF E
      <3> QED BY <3>1, <3>2, <3>3
    <2> QED BY <2>4, <2>5 DEF at
  <1>2. IInv => DelaysExact
    BY <1>1 DEF DelaysExact, Factor
  <1> QED BY <1>2, Invariance, PTL

\* PTTL finds time left, or no deadline, exactly for the keys that GET finds.
THEOREM TtlIsTrue == Spec => []TtlTellsLife
  <1>1. ASSUME IInv, NEW k \in Key,
               k \in DOMAIN db.expires => db.expires[k] - now \in i64
        PROVE  /\ exists(db, k, now) <=>
                    \E n \in {-1} \cup 1..IntMax : handle_pttl(db, now, k).reply = Integer(n)
               /\ exists(db, k, now) => handle_ttl(db, now, k).reply # Integer(-2)
               /\ handle_ttl(db, now, k).reply = Integer(-1) => exists(db, k, now)
    <2> DEFINE p == pttl(db, k, now)
               q == IF p < 0 THEN p ELSE p \div Second
    <2>1. DbOK(db) /\ now \in Int /\ IntMax \in Nat /\ Second \in Nat \ {0}
      BY <1>1, ClockType, IntAssumption, InputAssumption DEF IInv
    <2>2. exists(db, k, now) <=> k \in DOMAIN db.keys /\ ~ is_expired(db, k, now)
      BY <2>1, PeekIsLive
    <2>3. handle_pttl(db, now, k).reply = Integer(p) /\ handle_ttl(db, now, k).reply = Integer(q)
      BY DEF handle_pttl, handle_ttl, Reply
    <2>4. \A m, n : Integer(m) = Integer(n) <=> m = n
      BY DEF Integer
    <2>5. ASSUME k \in DOMAIN db.expires, k \in DOMAIN db.keys
          PROVE  /\ p \in 0..IntMax
                 /\ p > 0 <=> ~ is_expired(db, k, now)
      <3>1. db.expires[k] \in Int /\ db.expires[k] - now \in i64
        BY <1>1, <2>1, <2>5 DEF DbOK, i64, IntMin
      <3>2. Wrap(db.expires[k] - now) = db.expires[k] - now
        BY <3>1, WrapInRange
      <3>3. p = IF db.expires[k] - now > 0 THEN db.expires[k] - now ELSE 0
        BY <2>5, <3>2 DEF pttl
      <3>4. db.expires[k] - now <= IntMax
        BY <2>1, <3>1 DEF i64, IntMin
      <3> QED BY <2>1, <2>5, <3>1, <3>3, <3>4 DEF is_expired
    <2>6. k \notin DOMAIN db.keys => p = -2
      BY DEF pttl
    <2>7. k \in DOMAIN db.keys /\ k \notin DOMAIN db.expires => p = -1 /\ ~ is_expired(db, k, now)
      BY DEF pttl, is_expired
    <2>8. p \in Nat => q \in Nat
      BY <2>1
    <2> HIDE DEF p, q
    <2>9. p \in {-2, -1} => q = p
      BY DEF q
    <2>10. /\ exists(db, k, now) <=> p \in {-1} \cup 1..IntMax
           /\ q = -1 => exists(db, k, now)
      <3>1. CASE k \notin DOMAIN db.keys
        <4>1. p = -2 /\ q = p /\ ~ exists(db, k, now)
          BY <2>2, <2>6, <2>9, <3>1
        <4>2. -2 \notin {-1} \cup 1..IntMax /\ -2 # -1
          BY <2>1
        <4> QED BY <4>1, <4>2
      <3>2. CASE k \in DOMAIN db.keys /\ k \notin DOMAIN db.expires
        BY <2>2, <2>7, <3>2
      <3>3. CASE k \in DOMAIN db.keys /\ k \in DOMAIN db.expires
        <4>1. p \in 0..IntMax /\ (p > 0 <=> exists(db, k, now))
          BY <2>2, <2>5, <3>3
        <4>2. p \in Nat /\ q # -1
          BY <2>1, <2>8, <4>1
        <4>3. p > 0 <=> p \in {-1} \cup 1..IntMax
          BY <2>1, <4>1
        <4> QED BY <4>1, <4>2, <4>3
      <3> QED BY <3>1, <3>2, <3>3
    <2>11. exists(db, k, now) => q # -2
      BY <2>1, <2>8, <2>9, <2>10
    <2> QED BY <2>3, <2>4, <2>10, <2>11
  <1>2. IInv => TtlTellsLife
    BY <1>1 DEF TtlTellsLife
  <1> QED BY <1>2, Invariance, PTL

-----------------------------------------------------------------------------
(***************************************************************************)
(* Keys that have expired and are still stored.                            *)
(***************************************************************************)
\* Two databases that differ only in what has expired, and two outcomes of a
\* command that nobody can tell apart.
Alike(a, b, t) == DbOK(a) /\ DbOK(b) /\ Live(a, t) = Live(b, t)

Twin(x, y, t) == x.reply = y.reply /\ Live(x.db, t) = Live(y.db, t)

\* Whatever the handlers are made of takes alike databases to alike ones, and
\* finds the same in them.
LEMMA AlikeLookup ==
  ASSUME NEW t \in Int, NEW a, NEW b, Alike(a, b, t), NEW k
  PROVE  peek(a, k, t) = peek(b, k, t) /\ (exists(a, k, t) <=> exists(b, k, t))
  <1>1. DbOK(a) /\ DbOK(b) /\ Live(a, t) = Live(b, t)
    BY DEF Alike
  <1>2. peek(a, k, t) = peek(b, k, t)
    <2>1. CASE k \in DOMAIN Live(a, t)
      <3>1. peek(a, k, t) = Live(a, t)[k].val
        BY <1>1, <2>1, PeekIsLive
      <3>2. peek(b, k, t) = Live(b, t)[k].val
        BY <1>1, <2>1, PeekIsLive
      <3> QED BY <1>1, <3>1, <3>2
    <2>2. CASE k \notin DOMAIN Live(a, t)
      <3>1. peek(a, k, t) = Nil
        BY <1>1, <2>2, PeekIsLive
      <3>2. peek(b, k, t) = Nil
        BY <1>1, <2>2, PeekIsLive
      <3> QED BY <3>1, <3>2
    <2> QED BY <2>1, <2>2
  <1> QED BY <1>2 DEF exists

LEMMA AlikeGets ==
  ASSUME NEW t \in Int, NEW a, NEW b, Alike(a, b, t)
  PROVE  /\ \A k : Alike(AfterGet(a, k, t), AfterGet(b, k, t), t)
         /\ \A K : Alike(AfterGets(a, K, t), AfterGets(b, K, t), t)
         /\ for_each(a, t) = for_each(b, t)
  <1>1. DbOK(a) /\ DbOK(b) /\ Live(a, t) = Live(b, t)
    BY DEF Alike
  <1>2. \A k : Alike(AfterGet(a, k, t), AfterGet(b, k, t), t)
    BY <1>1, AfterGetOK DEF Alike
  <1>3. \A K : Alike(AfterGets(a, K, t), AfterGets(b, K, t), t)
    BY <1>1, AfterGetsOK DEF Alike
  <1>4. for_each(a, t) = for_each(b, t)
    <2>1. DOMAIN Live(a, t) = for_each(a, t) /\ DOMAIN Live(b, t) = for_each(b, t)
      BY DEF Live
    <2> QED BY <1>1, <2>1
  <1> QED BY <1>2, <1>3, <1>4

LEMMA AlikeWrites ==
  ASSUME NEW t \in Int, NEW a, NEW b, Alike(a, b, t), NEW k \in Key
  PROVE  /\ \A s \in Stored :
              /\ Alike(set(a, k, s), set(b, k, s), t)
              /\ \A at \in i64 :
                   Alike(set_expire(set(a, k, s), k, at), set_expire(set(b, k, s), k, at), t)
         /\ exists(a, k, t) =>
              /\ Alike(remove_expire(a, k), remove_expire(b, k), t)
              /\ \A at \in i64 : Alike(set_expire(a, k, at), set_expire(b, k, at), t)
  <1>1. DbOK(a) /\ DbOK(b) /\ Live(a, t) = Live(b, t)
    BY DEF Alike
  <1>2. \A s \in Stored : Alike(set(a, k, s), set(b, k, s), t)
    BY <1>1, SetOK DEF Alike
  <1>3. \A s \in Stored : \A at \in i64 :
          Alike(set_expire(set(a, k, s), k, at), set_expire(set(b, k, s), k, at), t)
    BY <1>1, SetTimedOK DEF Alike
  <1>4. ASSUME exists(a, k, t)
        PROVE  /\ Alike(remove_expire(a, k), remove_expire(b, k), t)
               /\ \A at \in i64 : Alike(set_expire(a, k, at), set_expire(b, k, at), t)
    <2>1. k \in DOMAIN Live(a, t) /\ k \in DOMAIN Live(b, t)
      BY <1>1, <1>4, PeekIsLive
    <2>2. Alike(remove_expire(a, k), remove_expire(b, k), t)
      BY <1>1, <2>1, RemoveExpireOK DEF Alike
    <2>3. \A at \in i64 : Alike(set_expire(a, k, at), set_expire(b, k, at), t)
      BY <1>1, <2>1, SetExpireOK DEF Alike
    <2> QED BY <2>2, <2>3
  <1> QED BY <1>2, <1>3, <1>4

LEMMA AlikeSets ==
  ASSUME NEW t \in Int, NEW a, NEW b, Alike(a, b, t)
  PROVE  /\ \A K : Alike(Without(a, K), Without(b, K), t)
         /\ \A j, k \in Key : \A s, r \in Text :
              Alike(AfterMSet(a, j, s, k, r), AfterMSet(b, j, s, k, r), t)
  <1>1. DbOK(a) /\ DbOK(b) /\ Live(a, t) = Live(b, t)
    BY DEF Alike
  <1>2. ASSUME NEW K PROVE Alike(Without(a, K), Without(b, K), t)
    <2> DEFINE L == Live(a, t)
               M == [k \in DOMAIN L \ K |-> L[k]]
    <2>1. ASSUME NEW d, DbOK(d)
          PROVE  /\ DbOK(Without(d, K))
                 /\ Live(Without(d, K), t) = [k \in DOMAIN Live(d, t) \ K |-> Live(d, t)[k]]
      BY <2>1, WithoutOK
    <2>2. ASSUME NEW d, DbOK(d), Live(d, t) = L
          PROVE  DbOK(Without(d, K)) /\ Live(Without(d, K), t) = M
      BY <2>1, <2>2
    <2> HIDE DEF M, L
    <2> QED BY <1>1, <2>2 DEF Alike, L
  <1>3. ASSUME NEW j \in Key, NEW k \in Key, NEW s \in Text, NEW r \in Text
        PROVE  Alike(AfterMSet(a, j, s, k, r), AfterMSet(b, j, s, k, r), t)
    <2> DEFINE f == Pairs(j, s, k, r)
               W == {j, k}
    <2>1. f \in [W -> Stored] /\ W \in SUBSET Key
      BY CreateString DEF Pairs
    <2>2. AfterMSet(a, j, s, k, r) = SetAll(a, f) /\ AfterMSet(b, j, s, k, r) = SetAll(b, f)
      BY MSetIsSetAll
    <2> HIDE DEF f, W
    <2> DEFINE L == Live(a, t)
               M == [x \in DOMAIN L \cup W |-> IF x \in W THEN Entry(f[x], Nil) ELSE L[x]]
    <2>3. ASSUME NEW d, DbOK(d), Live(d, t) = L
          PROVE  DbOK(SetAll(d, f)) /\ Live(SetAll(d, f), t) = M
      <3>1. /\ DbOK(SetAll(d, f))
            /\ Live(SetAll(d, f), t) =
                 [x \in DOMAIN Live(d, t) \cup W |->
                    IF x \in W THEN Entry(f[x], Nil) ELSE Live(d, t)[x]]
        BY <2>1, <2>3, SetAllOK
      <3> QED BY <2>3, <3>1
    <2> HIDE DEF M, L
    <2> QED BY <1>1, <2>2, <2>3 DEF Alike, L
  <1> QED BY <1>2, <1>3

LEMMA ReadTwins ==
  ASSUME NEW t \in Int, NEW a, NEW b, Alike(a, b, t), NEW k \in Key
  PROVE  /\ Twin(handle_get(a, t, k), handle_get(b, t, k), t)
         /\ Twin(handle_strlen(a, t, k), handle_strlen(b, t, k), t)
         /\ Twin(handle_type(a, t, k), handle_type(b, t, k), t)
         /\ \A pattern : Twin(handle_keys(a, t, pattern), handle_keys(b, t, pattern), t)
  <1>1. Live(a, t) = Live(b, t) /\ peek(a, k, t) = peek(b, k, t)
    BY AlikeLookup DEF Alike
  <1>2. Live(AfterGet(a, k, t), t) = Live(AfterGet(b, k, t), t)
    BY AlikeGets DEF Alike
  <1>3. for_each(a, t) = for_each(b, t)
    BY AlikeGets
  <1> QED BY <1>1, <1>2, <1>3
      DEF Twin, Reply, handle_get, handle_strlen, handle_type, handle_keys, exists

LEMMA ListTwins ==
  ASSUME NEW t \in Int, NEW a, NEW b, Alike(a, b, t), NEW ks \in KeyLists
  PROVE  /\ Twin(handle_mget(a, t, ks), handle_mget(b, t, ks), t)
         /\ Twin(handle_exists(a, t, ks), handle_exists(b, t, ks), t)
         /\ Live(handle_del(a, ks).db, t) = Live(handle_del(b, ks).db, t)
  <1> DEFINE K == ArgsOf(ks)
  <1>1. \A x : peek(a, x, t) = peek(b, x, t) /\ (exists(a, x, t) <=> exists(b, x, t))
    BY AlikeLookup
  <1>2. Live(AfterGets(a, K, t), t) = Live(AfterGets(b, K, t), t)
    BY AlikeGets DEF Alike
  <1>3. Live(Without(a, K), t) = Live(Without(b, K), t)
    BY AlikeSets DEF Alike
  <1>4. [i \in DOMAIN ks |-> Bulk(peek(a, ks[i], t))] = [i \in DOMAIN ks |-> Bulk(peek(b, ks[i], t))]
    BY <1>1
  <1>5. {i \in DOMAIN ks : exists(a, ks[i], t)} = {i \in DOMAIN ks : exists(b, ks[i], t)}
    BY <1>1
  <1> HIDE DEF K
  <1>6. Twin(handle_mget(a, t, ks), handle_mget(b, t, ks), t)
    BY <1>2, <1>4 DEF Twin, Reply, handle_mget, K
  <1>7. Twin(handle_exists(a, t, ks), handle_exists(b, t, ks), t)
    BY <1>2, <1>5 DEF Twin, Reply, handle_exists, K
  <1>8. \A d : handle_del(d, ks).db = Without(d, K)
    BY DEF handle_del, Without, Reply, K
  <1> QED BY <1>3, <1>6, <1>7, <1>8

\* A lookup and then a write, with or without a deadline.
LEMMA GetThenWrite ==
  ASSUME NEW t \in Int, NEW a, NEW b, Alike(a, b, t), NEW k \in Key, NEW s \in Stored
  PROVE  /\ Live(AfterGet(a, k, t), t) = Live(AfterGet(b, k, t), t)
         /\ Live(set(AfterGet(a, k, t), k, s), t) = Live(set(AfterGet(b, k, t), k, s), t)
         /\ \A at \in i64 :
              /\ Live(set_expire(set(a, k, s), k, at), t) = Live(set_expire(set(b, k, s), k, at), t)
              /\ Live(set_expire(set(AfterGet(a, k, t), k, s), k, at), t) =
                   Live(set_expire(set(AfterGet(b, k, t), k, s), k, at), t)
  <1>1. Alike(AfterGet(a, k, t), AfterGet(b, k, t), t)
    BY AlikeGets
  <1>2. ASSUME NEW c, NEW e, Alike(c, e, t)
        PROVE  /\ Live(set(c, k, s), t) = Live(set(e, k, s), t)
               /\ \A at \in i64 :
                    Live(set_expire(set(c, k, s), k, at), t) = Live(set_expire(set(e, k, s), k, at), t)
    <2>1. /\ Alike(set(c, k, s), set(e, k, s), t)
          /\ \A at \in i64 : Alike(set_expire(set(c, k, s), k, at), set_expire(set(e, k, s), k, at), t)
      BY <1>2, AlikeWrites
    <2> QED BY <2>1 DEF Alike
  <1> QED BY <1>1, <1>2 DEF Alike

LEMMA CounterTwins ==
  ASSUME NEW t \in Int, NEW a, NEW b, Alike(a, b, t), NEW k \in Key, NEW n \in Number
  PROVE  /\ Twin(handle_incr(a, t, k), handle_incr(b, t, k), t)
         /\ Twin(handle_decr(a, t, k), handle_decr(b, t, k), t)
         /\ Twin(handle_incrby(a, t, k, n), handle_incrby(b, t, k, n), t)
         /\ Twin(handle_decrby(a, t, k, n), handle_decrby(b, t, k, n), t)
  <1> DEFINE c == get_integer_obj(peek(a, k, t))
             a1 == AfterGet(a, k, t)
             b1 == AfterGet(b, k, t)
  <1>1. c = get_integer_obj(peek(b, k, t))
    BY AlikeLookup
  <1>2. c \in Number /\ (c # NotInt => c \in i64 /\ c \in Int)
    BY CounterType, InputTypes DEF Alike, Number
  <1>3. n # NotInt => n \in Int
    BY InputTypes
  <1>4. Alike(a1, b1, t)
    BY AlikeGets
  <1>5. /\ Twin(Reply(a, Error), Reply(b, Error), t)
        /\ Twin(Reply(a1, Error), Reply(b1, Error), t)
    BY <1>4 DEF Twin, Reply, Alike
  <1> HIDE DEF a1, b1
  <1>6. \A i \in i64 : Twin(StoreInt(a1, k, i), StoreInt(b1, k, i), t)
    <2>1. \A i \in i64 : Decimal[i] \in Stored
      BY CreateString DEF create_string_from_int
    <2>2. \A i \in i64 : Alike(set(a1, k, Decimal[i]), set(b1, k, Decimal[i]), t)
      BY <1>4, <2>1, AlikeWrites
    <2> QED BY <2>2 DEF Twin, StoreInt, Reply, create_string_from_int, Alike
  <1> HIDE DEF c
  <1>7. Twin(handle_incr(a, t, k), handle_incr(b, t, k), t)
    <2>1. c # NotInt /\ c # IntMax => c + 1 \in i64
      BY <1>2, IntAssumption DEF i64, IntMin
    <2> QED BY <1>1, <1>5, <1>6, <2>1 DEF handle_incr, a1, b1, c
  <1>8. Twin(handle_decr(a, t, k), handle_decr(b, t, k), t)
    <2>1. c # NotInt /\ c # IntMin => c - 1 \in i64
      BY <1>2, IntAssumption DEF i64, IntMin
    <2> QED BY <1>1, <1>5, <1>6, <2>1 DEF handle_decr, a1, b1, c
  <1>9. Twin(handle_incrby(a, t, k, n), handle_incrby(b, t, k, n), t)
    <2>1. /\ n # NotInt /\ c # NotInt
          /\ ~ ((n > 0 /\ c > IntMax - n) \/ (n < 0 /\ c < IntMin - n))
          => c + n \in i64
      BY <1>2, <1>3, IntAssumption DEF i64, IntMin
    <2> QED BY <1>1, <1>5, <1>6, <2>1 DEF handle_incrby, a1, b1, c
  <1>10. Twin(handle_decrby(a, t, k, n), handle_decrby(b, t, k, n), t)
    <2>1. n # NotInt /\ c # NotInt => Wrap(c - n) \in i64
      BY <1>2, <1>3, WrapType
    <2> QED BY <1>1, <1>5, <1>6, <2>1 DEF handle_decrby, a1, b1, c
  <1> QED BY <1>7, <1>8, <1>9, <1>10

LEMMA OverwriteTwins ==
  ASSUME NEW t \in Int, NEW a, NEW b, Alike(a, b, t), NEW k \in Key, NEW s \in Text
  PROVE  /\ Twin(handle_getset(a, t, k, s), handle_getset(b, t, k, s), t)
         /\ Twin(handle_setnx(a, t, k, s), handle_setnx(b, t, k, s), t)
         /\ (exists(a, k, t) => <<peek(a, k, t), s>> \in DOMAIN Concat)
              => Twin(handle_append(a, t, k, s), handle_append(b, t, k, s), t)
         /\ \A j \in Key : Twin(handle_mset(a, <<<<j, s>>, <<k, s>>>>, FALSE),
                                handle_mset(b, <<<<j, s>>, <<k, s>>>>, FALSE), t)
  <1> DEFINE old == peek(a, k, t)
             a1 == AfterGet(a, k, t)
             b1 == AfterGet(b, k, t)
  <1>1. create_string(s) \in Stored
    BY CreateString
  <1>2. old = peek(b, k, t) /\ (exists(a, k, t) <=> exists(b, k, t))
    BY AlikeLookup
  <1>3. Live(a1, t) = Live(b1, t)
    BY <1>1, GetThenWrite
  <1>4. \A c \in Stored : Live(set(a1, k, c), t) = Live(set(b1, k, c), t)
    BY GetThenWrite
  <1> HIDE DEF a1, b1, old
  <1>5. Twin(handle_getset(a, t, k, s), handle_getset(b, t, k, s), t)
    BY <1>1, <1>2, <1>4 DEF handle_getset, Twin, Reply, a1, b1, old
  <1>6. Twin(handle_setnx(a, t, k, s), handle_setnx(b, t, k, s), t)
    BY <1>1, <1>2, <1>3, <1>4 DEF handle_setnx, Twin, Reply, a1, b1
  <1>7. ASSUME exists(a, k, t) => <<old, s>> \in DOMAIN Concat
        PROVE  Twin(handle_append(a, t, k, s), handle_append(b, t, k, s), t)
    <2> DEFINE new == IF old = Nil THEN s ELSE Concat[<<old, s>>]
    <2>1. new \in Text
      BY <1>7, ValueAssumption DEF exists, old
    <2>2. create_string(new) \in Stored
      BY <2>1, CreateString
    <2>3. /\ handle_append(a, t, k, s) = Reply(set(a1, k, create_string(new)), Integer(Size[new]))
          /\ handle_append(b, t, k, s) = Reply(set(b1, k, create_string(new)), Integer(Size[new]))
      BY <1>2 DEF handle_append, a1, b1, old
    <2> HIDE DEF new
    <2> QED BY <1>4, <2>2, <2>3 DEF Twin, Reply
  <1>8. ASSUME NEW j \in Key
        PROVE  Twin(handle_mset(a, <<<<j, s>>, <<k, s>>>>, FALSE),
                    handle_mset(b, <<<<j, s>>, <<k, s>>>>, FALSE), t)
    <2>1. Live(AfterMSet(a, j, s, k, s), t) = Live(AfterMSet(b, j, s, k, s), t)
      BY AlikeSets DEF Alike
    <2>2. \A d : handle_mset(d, <<<<j, s>>, <<k, s>>>>, FALSE).reply = OK
      BY DEF handle_mset, Reply
    <2> QED BY <2>1, <2>2 DEF Twin, AfterMSet
  <1> QED BY <1>5, <1>6, <1>7, <1>8 DEF old

LEMMA SetTwins ==
  ASSUME NEW t \in Int, NEW a, NEW b, Alike(a, b, t), NEW k \in Key, NEW s \in Text,
         NEW nx \in BOOLEAN, NEW xx \in BOOLEAN, NEW unit \in {"none", "EX", "PX"},
         NEW n \in Number
  PROVE  Twin(handle_set(a, t, k, s, nx, xx, unit, n), handle_set(b, t, k, s, nx, xx, unit, n), t)
  <1> DEFINE c == create_string(s)
             ms == ExpireMs(unit, n)
             a1 == AfterGet(a, k, t)
             b1 == AfterGet(b, k, t)
             at == Wrap(t + ms)
  <1>1. c \in Stored
    BY CreateString
  <1>2. exists(a, k, t) <=> exists(b, k, t)
    BY AlikeLookup
  <1>3. Live(a1, t) = Live(b1, t) /\ Live(set(a1, k, c), t) = Live(set(b1, k, c), t)
    BY <1>1, GetThenWrite
  <1>4. CASE unit # "none" /\ BadTime(n)
    BY <1>4 DEF handle_set, Reply, Twin, Alike
  <1>5. CASE ~ (unit # "none" /\ BadTime(n))
    <2>1. ms \in Int
      BY <1>5, InputTypes, DelayTypes DEF ExpireMs, BadTime, Number
    <2>2. at \in i64
      BY <2>1, WrapType
    <2>3. Live(set_expire(set(a1, k, c), k, at), t) = Live(set_expire(set(b1, k, c), k, at), t)
      BY <1>1, <2>2, GetThenWrite
    <2> DEFINE refused(d) == (nx /\ exists(d, k, t)) \/ (xx /\ ~ exists(d, k, t))
    <2>4. ASSUME NEW d
          PROVE  /\ refused(d) =>
                      handle_set(d, t, k, s, nx, xx, unit, n) = Reply(AfterGet(d, k, t), Bulk(Nil))
                 /\ ~ refused(d) =>
                      handle_set(d, t, k, s, nx, xx, unit, n) =
                        Reply(IF ms > 0 THEN set_expire(set(AfterGet(d, k, t), k, c), k, at)
                                        ELSE set(AfterGet(d, k, t), k, c), OK)
      BY <1>5 DEF handle_set
    <2>5. refused(a) <=> refused(b)
      BY <1>2
    <2> HIDE DEF refused, c, ms, at
    <2>6. CASE refused(a)
      BY <1>3, <2>4, <2>5, <2>6 DEF Twin, Reply
    <2>7. CASE ~ refused(a)
      BY <1>3, <2>3, <2>4, <2>5, <2>7 DEF Twin, Reply
    <2> QED BY <2>6, <2>7
  <1> QED BY <1>4, <1>5

LEMMA TimedTwins ==
  ASSUME NEW t \in Int, NEW a, NEW b, Alike(a, b, t), NEW k \in Key, NEW n \in Number
  PROVE  /\ \A s \in Text :
              /\ Twin(handle_setex(a, t, k, n, s), handle_setex(b, t, k, n, s), t)
              /\ Twin(handle_psetex(a, t, k, n, s), handle_psetex(b, t, k, n, s), t)
         /\ Twin(handle_expire(a, t, k, n), handle_expire(b, t, k, n), t)
         /\ Twin(handle_pexpire(a, t, k, n), handle_pexpire(b, t, k, n), t)
         /\ Twin(handle_expireat(a, t, k, n), handle_expireat(b, t, k, n), t)
         /\ Twin(handle_persist(a, t, k), handle_persist(b, t, k), t)
  <1>1. n # NotInt => /\ Wrap(n * Second) \in i64
                      /\ Wrap(t + n) \in i64
                      /\ Wrap(t + Wrap(n * Second)) \in i64
    BY DelayTypes DEF Number
  <1>2. exists(a, k, t) <=> exists(b, k, t)
    BY AlikeLookup
  <1>3. /\ Live(a, t) = Live(b, t)
        /\ Live(AfterGet(a, k, t), t) = Live(AfterGet(b, k, t), t)
    BY AlikeGets DEF Alike
  <1>4. ASSUME NEW at, n # NotInt => at \in i64
        PROVE  Twin(SetDeadline(a, t, k, n, at), SetDeadline(b, t, k, n, at), t)
    <2>1. exists(a, k, t) /\ n # NotInt => Alike(set_expire(a, k, at), set_expire(b, k, at), t)
      BY <1>4, AlikeWrites
    <2>2. exists(a, k, t) /\ n # NotInt =>
            Live(set_expire(a, k, at), t) = Live(set_expire(b, k, at), t)
      BY <2>1 DEF Alike
    <2> QED BY <1>2, <1>3, <2>2 DEF SetDeadline, Reply, Twin
  <1>5. ASSUME NEW s \in Text, NEW ms, n # NotInt => Wrap(t + ms) \in i64
        PROVE  Twin(SetWithDelay(a, t, k, s, n, ms), SetWithDelay(b, t, k, s, n, ms), t)
    <2> DEFINE c == create_string(s)
               at == Wrap(t + ms)
    <2>1. c \in Stored
      BY CreateString
    <2>2. n # NotInt => Live(set_expire(set(a, k, c), k, at), t) = Live(set_expire(set(b, k, c), k, at), t)
      BY <1>5, <2>1, GetThenWrite
    <2> QED BY <1>3, <2>2 DEF SetWithDelay, BadTime, Reply, Twin
  <1>6. ExpireMs("EX", n) = Wrap(n * Second)
    BY DEF ExpireMs
  <1>7. \A s \in Text : /\ Twin(handle_setex(a, t, k, n, s), handle_setex(b, t, k, n, s), t)
                        /\ Twin(handle_psetex(a, t, k, n, s), handle_psetex(b, t, k, n, s), t)
    BY <1>1, <1>5, <1>6 DEF handle_setex, handle_psetex
  <1>8. /\ Twin(handle_expire(a, t, k, n), handle_expire(b, t, k, n), t)
        /\ Twin(handle_pexpire(a, t, k, n), handle_pexpire(b, t, k, n), t)
        /\ Twin(handle_expireat(a, t, k, n), handle_expireat(b, t, k, n), t)
    BY <1>1, <1>4 DEF handle_expire, handle_pexpire, handle_expireat
  <1>9. Twin(handle_persist(a, t, k), handle_persist(b, t, k), t)
    <2>1. exists(a, k, t) => Live(remove_expire(a, k), t) = Live(remove_expire(b, k), t)
      BY AlikeWrites DEF Alike
    <2> QED BY <1>2, <1>3, <2>1 DEF handle_persist, Reply, Twin
  <1> QED BY <1>7, <1>8, <1>9

LEMMA RenameTwins ==
  ASSUME NEW t \in Int, NEW a, NEW b, Alike(a, b, t), NEW j \in Key, NEW k \in Key
  PROVE  Twin(handle_rename(a, t, j, k), handle_rename(b, t, j, k), t)
  <1>1. peek(a, j, t) = peek(b, j, t) /\ (exists(a, j, t) <=> exists(b, j, t))
    BY AlikeLookup
  <1>2. CASE ~ exists(a, j, t)
    <2>1. Live(AfterGet(a, j, t), t) = Live(AfterGet(b, j, t), t)
      BY AlikeGets DEF Alike
    <2> QED BY <1>1, <1>2, <2>1 DEF handle_rename, Reply, Twin
  <1>3. CASE exists(a, j, t)
    <2> DEFINE v == create_string(peek(a, j, t))
    <2>1. v \in Stored
      <3>1. j \in DOMAIN Live(a, t)
        BY <1>3, PeekIsLive DEF Alike
      <3>2. peek(a, j, t) \in Stored
        BY <3>1, PeekIsLive DEF Alike
      <3> QED BY <3>2, CreateString
    <2>2. \A d : delete_key(d, j) = Without(d, {j})
      BY DEF delete_key, Without, Erase
    <2>3. Alike(delete_key(a, j), delete_key(b, j), t)
      BY <2>2, AlikeSets
    <2> HIDE DEF v
    <2>4. Alike(set(delete_key(a, j), k, v), set(delete_key(b, j), k, v), t)
      BY <2>1, <2>3, AlikeWrites
    <2> QED BY <1>1, <1>3, <2>4 DEF handle_rename, Reply, Twin, Alike, v
  <1> QED BY <1>2, <1>3

-----------------------------------------------------------------------------
LEMMA PurgedAlike ==
  ASSUME IInv
  PROVE  now \in Int /\ Alike(db, Purged(db, now), now)
  <1>1. DbOK(db) /\ now \in Int
    BY ClockType DEF IInv
  <1> QED BY <1>1, PurgedOK DEF Alike

\* A key that has expired and is still stored changes neither the reply of a
\* string command nor what it leaves behind.
THEOREM StringCommandsHideExpired == Spec => []StringCommandsSkipExpired
  <1>1. ASSUME IInv PROVE StringCommandsSkipExpired
    <2> DEFINE p == Purged(db, now)
    <2>1. now \in Int /\ Alike(db, p, now)
      BY <1>1, PurgedAlike
    <2> HIDE DEF p
    <2>2. \A x, y : Twin(x, y, now) => Same(x, y)
      BY DEF Twin, Same, SameStore
    <2>3. ASSUME NEW k \in Key
          PROVE  /\ Same(handle_get(db, now, k), handle_get(p, now, k))
                 /\ Same(handle_strlen(db, now, k), handle_strlen(p, now, k))
      BY <2>1, <2>2, ReadTwins
    <2>4. ASSUME NEW k \in Key
          PROVE  /\ Same(handle_incr(db, now, k), handle_incr(p, now, k))
                 /\ Same(handle_decr(db, now, k), handle_decr(p, now, k))
      <3>1. NotInt \in Number
        BY DEF Number
      <3> QED BY <2>1, <2>2, <3>1, CounterTwins
    <2>5. ASSUME NEW k \in Key, NEW n \in Amounts
          PROVE  /\ Same(handle_incrby(db, now, k, n), handle_incrby(p, now, k, n))
                 /\ Same(handle_decrby(db, now, k, n), handle_decrby(p, now, k, n))
      BY <2>1, <2>2, CounterTwins, InputTypes
    <2>6. ASSUME NEW k \in Key, NEW j \in Key
          PROVE  Same(handle_mget(db, now, <<j, k>>), handle_mget(p, now, <<j, k>>))
      <3>1. <<j, k>> \in KeyLists
        BY DEF KeyLists
      <3> QED BY <2>1, <2>2, <3>1, ListTwins
    <2>7. ASSUME NEW k \in Key, NEW s \in Values
          PROVE  /\ Same(handle_getset(db, now, k, s), handle_getset(p, now, k, s))
                 /\ Same(handle_setnx(db, now, k, s), handle_setnx(p, now, k, s))
                 /\ (exists(db, k, now) => <<peek(db, k, now), s>> \in DOMAIN Concat)
                      => Same(handle_append(db, now, k, s), handle_append(p, now, k, s))
                 /\ \A j \in Key :
                      Same(handle_mset(db, <<<<j, s>>, <<k, s>>>>, FALSE),
                           handle_mset(p, <<<<j, s>>, <<k, s>>>>, FALSE))
      <3>1. s \in Text
        BY InputTypes
      <3> QED BY <2>1, <2>2, <3>1, OverwriteTwins
    <2>8. ASSUME NEW k \in Key, NEW s \in Values, NEW n \in Delays
          PROVE  /\ Same(handle_setex(db, now, k, n, s), handle_setex(p, now, k, n, s))
                 /\ Same(handle_psetex(db, now, k, n, s), handle_psetex(p, now, k, n, s))
      BY <2>1, <2>2, TimedTwins, InputTypes
    <2>9. ASSUME NEW k \in Key, NEW s \in Values, NEW nx \in BOOLEAN, NEW xx \in BOOLEAN,
                 NEW o \in Options
          PROVE  Same(handle_set(db, now, k, s, nx, xx, o[1], o[2]),
                      handle_set(p, now, k, s, nx, xx, o[1], o[2]))
      <3>1. o[1] \in {"none", "EX", "PX"} /\ o[2] \in Number
        BY InputTypes DEF Options, Number
      <3> QED BY <2>1, <2>2, <3>1, SetTwins, InputTypes
    <2> QED BY <2>3, <2>4, <2>5, <2>6, <2>7, <2>8, <2>9 DEF StringCommandsSkipExpired, p
  <1> QED BY <1>1, Invariance, PTL

\* The same for the key commands: EXPIRE, PERSIST and RENAME never bring back
\* a key that has expired, and EXISTS, TYPE and KEYS never show one.
THEOREM KeyCommandsHideExpired == Spec => []KeyCommandsSkipExpired
  <1>1. ASSUME IInv PROVE KeyCommandsSkipExpired
    <2> DEFINE p == Purged(db, now)
    <2>1. now \in Int /\ Alike(db, p, now)
      BY <1>1, PurgedAlike
    <2> HIDE DEF p
    <2>2. \A x, y : Twin(x, y, now) => Same(x, y)
      BY DEF Twin, Same, SameStore
    <2>3. ASSUME NEW k \in Key
          PROVE  /\ Same(handle_type(db, now, k), handle_type(p, now, k))
                 /\ Same(handle_keys(db, now, {k}), handle_keys(p, now, {k}))
      BY <2>1, <2>2, ReadTwins
    <2>4. ASSUME NEW k \in Key
          PROVE  Same(handle_persist(db, now, k), handle_persist(p, now, k))
      <3>1. NotInt \in Number
        BY DEF Number
      <3> QED BY <2>1, <2>2, <3>1, TimedTwins
    <2>5. ASSUME NEW k \in Key, NEW n \in Delays
          PROVE  /\ Same(handle_expire(db, now, k, n), handle_expire(p, now, k, n))
                 /\ Same(handle_pexpire(db, now, k, n), handle_pexpire(p, now, k, n))
      BY <2>1, <2>2, TimedTwins, InputTypes
    <2>6. ASSUME NEW k \in Key, NEW n \in Dates
          PROVE  Same(handle_expireat(db, now, k, n), handle_expireat(p, now, k, n))
      BY <2>1, <2>2, TimedTwins, InputTypes
    <2>7. ASSUME NEW k \in Key, NEW j \in Key
          PROVE  Same(handle_rename(db, now, k, j), handle_rename(p, now, k, j))
      BY <2>1, <2>2, RenameTwins
    <2>8. ASSUME NEW ks \in KeyLists
          PROVE  /\ Same(handle_exists(db, now, ks), handle_exists(p, now, ks))
                 /\ SameStore(handle_del(db, ks), handle_del(p, ks))
      BY <2>1, <2>2, ListTwins DEF SameStore
    <2> QED BY <2>3, <2>4, <2>5, <2>6, <2>7, <2>8 DEF KeyCommandsSkipExpired, p
  <1> QED BY <1>1, Invariance, PTL
=============================================================================
