--------------------------- MODULE KeyspaceProofs ---------------------------
(***************************************************************************)
(* Proofs about Keyspace, for any keys, texts, width of the integers,      *)
(* inputs and sample size.                                                 *)
(***************************************************************************)
EXTENDS Keyspace, FiniteSetTheorems, TLAPS

-----------------------------------------------------------------------------
(***************************************************************************)
(* Integers and objects.                                                   *)
(***************************************************************************)
\* Two's complement lands in the range, and leaves what is in it alone.
LEMMA WrapType ==
  ASSUME NEW n \in Int
  PROVE  Wrap(n) \in i64
  <1> DEFINE m == IntMax - IntMin + 1
  <1>1. IntMin \in Int /\ IntMax \in Int /\ m \in Nat /\ m > 0
    BY IntAssumption DEF IntMin
  <1>2. n - IntMin \in Int
    BY <1>1
  <1> HIDE DEF m
  <1>3. (n - IntMin) % m \in 0..m - 1
    BY <1>1, <1>2
  <1>4. Wrap(n) = ((n - IntMin) % m) + IntMin
    BY DEF Wrap, m
  <1> QED BY <1>1, <1>3, <1>4 DEF i64, m

LEMMA WrapInRange ==
  ASSUME NEW n \in i64
  PROVE  Wrap(n) = n
  <1> DEFINE m == IntMax - IntMin + 1
             x == n - IntMin
  <1>1. IntMin \in Int /\ IntMax \in Int /\ m \in Nat /\ m > 0
    BY IntAssumption DEF IntMin
  <1>2. x \in 0..m - 1 /\ n \in Int
    BY <1>1 DEF i64
  <1>3. Wrap(n) = (x % m) + IntMin
    BY DEF Wrap
  <1>4. x + IntMin = n
    BY <1>1, <1>2
  <1> HIDE DEF m, x
  <1>5. x % m = x
    BY <1>1, <1>2
  <1> QED BY <1>1, <1>3, <1>4, <1>5

\* The texts that objects are given.
LEMMA CreateString ==
  /\ \A s \in Text : create_string(s) \in Stored
  /\ \A s \in Stored : create_string(s) = s
  /\ \A i \in i64 : create_string_from_int(i) \in Stored
  BY TextAssumption, IntAssumption
     DEF Stored, create_string, create_string_from_int, i64, IntMin

LEMMA StoredIsText == Stored \subseteq Text /\ Nil \notin Stored
  BY SampleAssumption DEF Stored

-----------------------------------------------------------------------------
(***************************************************************************)
(* The operations of the database: what they preserve, and what they do to *)
(* the entries that have not expired.                                      *)
(***************************************************************************)
\* The inductive invariant, of a database: types, canonical texts, and no
\* deadline without a key.
DbOK(d) ==
  /\ d = [keys |-> d.keys, expires |-> d.expires]
  /\ DOMAIN d.keys \subseteq Key
  /\ d.keys \in [DOMAIN d.keys -> Stored]
  /\ DOMAIN d.expires \subseteq DOMAIN d.keys
  /\ d.expires \in [DOMAIN d.expires -> i64]

\* What an expiring map makes of its entries at time t.
Unexpired(s, t) == Ideal!Unexpired(s, t)

Entry(v, at) == [val |-> v, at |-> at]

Without(d, K) ==
  [keys    |-> [k \in DOMAIN d.keys \ K |-> d.keys[k]],
   expires |-> [k \in DOMAIN d.expires \ K |-> d.expires[k]]]

LEMMA DeadlineType ==
  ASSUME NEW d, DbOK(d), NEW k \in DOMAIN d.expires
  PROVE  d.expires[k] \in Int /\ d.expires[k] \in i64 /\ d.expires[k] # Nil
  BY SampleAssumption, IntAssumption DEF DbOK, i64, IntMin

\* A lookup sees the entries that have not expired and no others.
LEMMA PeekIsLive ==
  ASSUME NEW d, DbOK(d), NEW t \in Int, NEW k
  PROVE  /\ exists(d, k, t) <=> k \in DOMAIN Live(d, t)
         /\ exists(d, k, t) <=> k \in DOMAIN d.keys /\ ~ is_expired(d, k, t)
         /\ k \in DOMAIN Live(d, t) => /\ peek(d, k, t) = Live(d, t)[k].val
                                       /\ peek(d, k, t) = d.keys[k]
                                       /\ peek(d, k, t) \in Stored
                                       /\ k \in Key
         /\ k \notin DOMAIN Live(d, t) => peek(d, k, t) = Nil
  BY StoredIsText DEF DbOK, exists, peek, Live, for_each

LEMMA EmptyOK == DbOK(EmptyDb) /\ \A t : Live(EmptyDb, t) = EmptyMap
  BY DEF DbOK, EmptyDb, EmptyMap, Live, for_each

LEMMA SetOK ==
  ASSUME NEW d, DbOK(d), NEW t \in Int, NEW k \in Key, NEW s \in Stored
  PROVE  /\ DbOK(set(d, k, s))
         /\ Live(set(d, k, s), t) = Write(Live(d, t), k, Entry(s, Nil))
  <1> DEFINE e == set(d, k, s)
  <1>1. /\ e.keys = Write(d.keys, k, s) /\ e.expires = Erase(d.expires, k)
        /\ e = [keys |-> e.keys, expires |-> e.expires]
    BY DEF set
  <1> HIDE DEF e
  <1>2. /\ DOMAIN e.keys = DOMAIN d.keys \cup {k}
        /\ DOMAIN e.expires = DOMAIN d.expires \ {k}
        /\ e.keys[k] = s
        /\ \A x \in DOMAIN d.keys \ {k} : e.keys[x] = d.keys[x]
        /\ \A x \in DOMAIN d.expires \ {k} : e.expires[x] = d.expires[x]
    BY <1>1 DEF Write, Erase
  <1>3. DbOK(e)
    BY <1>1, <1>2 DEF DbOK, Write, Erase
  <1>4. for_each(e, t) = for_each(d, t) \cup {k}
    BY <1>2 DEF for_each, is_expired
  <1>5. \A x \in for_each(e, t) :
          [val |-> e.keys[x], at |-> Lookup(e.expires, x, Nil)] =
            IF x = k THEN Entry(s, Nil) ELSE [val |-> d.keys[x], at |-> Lookup(d.expires, x, Nil)]
    BY <1>2, <1>4 DEF Lookup, Entry, for_each
  <1>6. Live(e, t) = Write(Live(d, t), k, Entry(s, Nil))
    BY <1>4, <1>5 DEF Live, Write
  <1> QED BY <1>3, <1>6 DEF e

\* A deadline for an entry that has not expired: a deadline that has passed
\* hides it.
LEMMA SetExpireOK ==
  ASSUME NEW d, DbOK(d), NEW t \in Int, NEW k \in DOMAIN Live(d, t), NEW at \in i64
  PROVE  /\ DbOK(set_expire(d, k, at))
         /\ Live(set_expire(d, k, at), t) =
              Unexpired(Write(Live(d, t), k, Entry(Live(d, t)[k].val, at)), t)
  <1> DEFINE e == set_expire(d, k, at)
             L == Write(Live(d, t), k, Entry(Live(d, t)[k].val, at))
  <1>1. /\ e.keys = d.keys /\ e.expires = Write(d.expires, k, at)
        /\ e = [keys |-> e.keys, expires |-> e.expires]
    BY DEF set_expire
  <1>2. at \in Int /\ at # Nil
    BY SampleAssumption, IntAssumption DEF i64, IntMin
  <1> HIDE DEF e
  <1>3. k \in for_each(d, t) /\ k \in DOMAIN d.keys
    BY DEF Live, for_each
  <1>4. /\ DOMAIN e.expires = DOMAIN d.expires \cup {k}
        /\ e.expires[k] = at
        /\ \A x \in DOMAIN d.expires \ {k} : e.expires[x] = d.expires[x]
    BY <1>1 DEF Write
  <1>5. DbOK(e)
    BY <1>1, <1>3 DEF DbOK, Write
  <1>6. /\ DOMAIN L = for_each(d, t)
        /\ L[k] = Entry(d.keys[k], at)
        /\ \A x \in for_each(d, t) \ {k} :
             L[x] = [val |-> d.keys[x], at |-> Lookup(d.expires, x, Nil)]
    BY <1>3 DEF Live, Write
  <1> HIDE DEF L
  <1>7. ASSUME NEW x \in for_each(d, t) \ {k}
        PROVE  x \in for_each(e, t) /\ ~ Ideal!Due(L[x], t)
    <2>1. x \in DOMAIN d.keys /\ ~ is_expired(d, x, t)
      BY DEF for_each
    <2>2. x \in DOMAIN d.expires => d.expires[x] \in Int /\ ~ (t >= d.expires[x])
      BY <2>1, DeadlineType DEF is_expired
    <2>3. x \in for_each(e, t)
      BY <1>1, <1>4, <2>1, <2>2 DEF for_each, is_expired
    <2>4. L[x].at = Lookup(d.expires, x, Nil)
      BY <1>6
    <2>5. ~ Ideal!Due(L[x], t)
      BY <2>2, <2>4 DEF Lookup, Ideal!Due
    <2> QED BY <2>3, <2>5
  <1>8. k \in for_each(e, t) <=> ~ Ideal!Due(L[k], t)
    BY <1>1, <1>2, <1>3, <1>4, <1>6 DEF for_each, is_expired, Ideal!Due, Entry
  <1>9. for_each(e, t) \subseteq for_each(d, t)
    BY <1>1, <1>3, <1>4 DEF for_each, is_expired
  <1>10. for_each(e, t) = {x \in DOMAIN L : ~ Ideal!Due(L[x], t)}
    BY <1>6, <1>7, <1>8, <1>9
  <1>11. \A x \in for_each(e, t) :
           [val |-> e.keys[x], at |-> Lookup(e.expires, x, Nil)] = L[x]
    BY <1>1, <1>4, <1>6, <1>9 DEF Lookup, Entry
  <1>12. Live(e, t) = Unexpired(L, t)
    BY <1>10, <1>11 DEF Live, Unexpired, Ideal!Unexpired
  <1> QED BY <1>5, <1>12 DEF e, L

LEMMA RemoveExpireOK ==
  ASSUME NEW d, DbOK(d), NEW t \in Int, NEW k \in DOMAIN Live(d, t)
  PROVE  /\ DbOK(remove_expire(d, k))
         /\ Live(remove_expire(d, k), t) =
              Write(Live(d, t), k, Entry(Live(d, t)[k].val, Nil))
  <1> DEFINE e == remove_expire(d, k)
  <1>1. /\ e.keys = d.keys /\ e.expires = Erase(d.expires, k)
        /\ e = [keys |-> e.keys, expires |-> e.expires]
    BY DEF remove_expire
  <1> HIDE DEF e
  <1>2. k \in for_each(d, t) /\ k \in DOMAIN d.keys
    BY DEF Live, for_each
  <1>3. /\ DOMAIN e.expires = DOMAIN d.expires \ {k}
        /\ \A x \in DOMAIN d.expires \ {k} : e.expires[x] = d.expires[x]
    BY <1>1 DEF Erase
  <1>4. DbOK(e)
    BY <1>1 DEF DbOK, Erase
  <1>5. for_each(e, t) = for_each(d, t)
    BY <1>1, <1>2, <1>3 DEF for_each, is_expired
  <1>6. \A x \in for_each(d, t) :
          [val |-> e.keys[x], at |-> Lookup(e.expires, x, Nil)] =
            IF x = k THEN Entry(Live(d, t)[k].val, Nil)
            ELSE [val |-> d.keys[x], at |-> Lookup(d.expires, x, Nil)]
    BY <1>1, <1>2, <1>3 DEF Lookup, Entry, Live
  <1>7. Live(e, t) = Write(Live(d, t), k, Entry(Live(d, t)[k].val, Nil))
    BY <1>2, <1>5, <1>6 DEF Live, Write
  <1> QED BY <1>4, <1>7 DEF e

\* A write with a deadline.
LEMMA SetTimedOK ==
  ASSUME NEW d, DbOK(d), NEW t \in Int, NEW k \in Key, NEW s \in Stored, NEW at \in i64
  PROVE  /\ DbOK(set_expire(set(d, k, s), k, at))
         /\ Live(set_expire(set(d, k, s), k, at), t) =
              Unexpired(Write(Live(d, t), k, Entry(s, at)), t)
  <1> DEFINE e == set(d, k, s)
             L == Live(d, t)
             M == Write(L, k, Entry(s, Nil))
  <1>1. DbOK(e) /\ Live(e, t) = M
    BY SetOK
  <1>2. k \in DOMAIN M /\ M[k].val = s
    BY DEF Write, Entry
  <1>3. Write(M, k, Entry(s, at)) = Write(L, k, Entry(s, at))
    BY DEF Write
  <1> HIDE DEF e, M, L
  <1>4. /\ DbOK(set_expire(e, k, at))
        /\ Live(set_expire(e, k, at), t) = Unexpired(Write(M, k, Entry(s, at)), t)
    BY <1>1, <1>2, SetExpireOK
  <1> QED BY <1>3, <1>4 DEF e, L

\* Any set of keys is deleted from both dicts.
LEMMA WithoutOK ==
  ASSUME NEW d, DbOK(d), NEW t \in Int, NEW K
  PROVE  /\ DbOK(Without(d, K))
         /\ Live(Without(d, K), t) = [k \in DOMAIN Live(d, t) \ K |-> Live(d, t)[k]]
  <1> DEFINE e == Without(d, K)
  <1>1. /\ e.keys = [k \in DOMAIN d.keys \ K |-> d.keys[k]]
        /\ e.expires = [k \in DOMAIN d.expires \ K |-> d.expires[k]]
        /\ e = [keys |-> e.keys, expires |-> e.expires]
    BY DEF Without
  <1> HIDE DEF e
  <1>2. DbOK(e)
    BY <1>1 DEF DbOK
  <1>3. for_each(e, t) = for_each(d, t) \ K
    BY <1>1 DEF for_each, is_expired
  <1>4. \A x \in for_each(e, t) :
          [val |-> e.keys[x], at |-> Lookup(e.expires, x, Nil)] =
            [val |-> d.keys[x], at |-> Lookup(d.expires, x, Nil)]
    BY <1>1, <1>3 DEF for_each, Lookup
  <1>5. Live(e, t) = [k \in DOMAIN Live(d, t) \ K |-> Live(d, t)[k]]
    BY <1>3, <1>4 DEF Live
  <1> QED BY <1>2, <1>5 DEF e

\* Keys that have expired are not missed.
LEMMA WithoutExpired ==
  ASSUME NEW d, DbOK(d), NEW t \in Int, NEW K, \A k \in K : is_expired(d, k, t)
  PROVE  DbOK(Without(d, K)) /\ Live(Without(d, K), t) = Live(d, t)
  <1>1. DOMAIN Live(d, t) = for_each(d, t)
    BY DEF Live
  <1>2. DOMAIN Live(d, t) \ K = DOMAIN Live(d, t)
    BY <1>1 DEF for_each
  <1>3. [k \in DOMAIN Live(d, t) |-> Live(d, t)[k]] = Live(d, t)
    BY DEF Live
  <1>4. /\ DbOK(Without(d, K))
        /\ Live(Without(d, K), t) = [k \in DOMAIN Live(d, t) \ K |-> Live(d, t)[k]]
    BY WithoutOK
  <1> QED BY <1>2, <1>3, <1>4

\* What get, for one key or several, leaves behind looks the same.
LEMMA AfterGetOK ==
  ASSUME NEW d, DbOK(d), NEW t \in Int, NEW k
  PROVE  DbOK(AfterGet(d, k, t)) /\ Live(AfterGet(d, k, t), t) = Live(d, t)
  <1>1. CASE k \in DOMAIN d.keys /\ is_expired(d, k, t)
    <2>1. AfterGet(d, k, t) = Without(d, {k})
      BY <1>1 DEF AfterGet, delete_key, Without, Erase
    <2>2. \A x \in {k} : is_expired(d, x, t)
      BY <1>1
    <2> QED BY <2>1, <2>2, WithoutExpired
  <1>2. CASE ~ (k \in DOMAIN d.keys /\ is_expired(d, k, t))
    BY <1>2 DEF AfterGet
  <1> QED BY <1>1, <1>2

LEMMA AfterGetsOK ==
  ASSUME NEW d, DbOK(d), NEW t \in Int, NEW K
  PROVE  DbOK(AfterGets(d, K, t)) /\ Live(AfterGets(d, K, t), t) = Live(d, t)
  <1> DEFINE gone == {k \in K : k \in DOMAIN d.keys /\ is_expired(d, k, t)}
  <1>1. AfterGets(d, K, t) = Without(d, gone)
    BY DEF AfterGets, Without
  <1>2. \A k \in gone : is_expired(d, k, t)
    OBVIOUS
  <1> HIDE DEF gone
  <1> QED BY <1>1, <1>2, WithoutExpired

LEMMA PurgedOK ==
  ASSUME NEW d, DbOK(d), NEW t \in Int
  PROVE  DbOK(Purged(d, t)) /\ Live(Purged(d, t), t) = Live(d, t)
  BY AfterGetsOK DEF Purged

\* Active expiry, one round and all of them.
LEMMA RoundOK ==
  ASSUME NEW d, DbOK(d), NEW t \in Int, NEW S \in Samples(d)
  PROVE  DbOK(Round(d, S, t)) /\ Live(Round(d, S, t), t) = Live(d, t)
  <1>1. Round(d, S, t) = Without(d, Expired(d, S, t))
    BY DEF Round, Without
  <1>2. \A k \in Expired(d, S, t) : is_expired(d, k, t)
    BY DEF Expired, is_expired, Samples
  <1> QED BY <1>1, <1>2, WithoutExpired

LEMMA CycleOK ==
  ASSUME NEW d, DbOK(d), NEW t \in Int, NEW S \in Samples(d), NEW e,
         active_expire_cycle(d, t, S, e)
  PROVE  DbOK(e) /\ Live(e, t) = Live(d, t)
  <1> DEFINE d1 == Round(d, S, t)
  <1>1. DbOK(d1) /\ Live(d1, t) = Live(d, t)
    BY RoundOK
  <1>2. CASE ~ GoesOn(d, S, t)
    BY <1>1, <1>2 DEF active_expire_cycle
  <1>3. CASE GoesOn(d, S, t)
    <2>1. PICK S2 \in Samples(d1) :
            IF ~ GoesOn(d1, S2, t)
            THEN e = Round(d1, S2, t)
            ELSE \E S3 \in Samples(Round(d1, S2, t)) : e = Round(Round(d1, S2, t), S3, t)
      BY <1>3 DEF active_expire_cycle
    <2> HIDE DEF d1
    <2>2. DbOK(Round(d1, S2, t)) /\ Live(Round(d1, S2, t), t) = Live(d, t)
      BY <1>1, <2>1, RoundOK
    <2> QED BY <2>1, <2>2, RoundOK
  <1> QED BY <1>2, <1>3

-----------------------------------------------------------------------------
(***************************************************************************)
(* Steps of the expiring map, as a relation between the entries before and *)
(* after a command.                                                        *)
(***************************************************************************)
Written(L, k, v, at, t) == Unexpired(Write(L, k, Entry(v, at)), t)

IdealStep(L, M, t) ==
  \/ M = L
  \/ \E K \in SUBSET Key : M = [k \in DOMAIN L \ K |-> L[k]]
  \/ \E k \in Key, v \in Text, at \in i64 \cup {Nil} : M = Written(L, k, v, at, t)
  \/ \E k \in Key, at \in i64 \cup {Nil} : k \in DOMAIN L /\ M = Written(L, k, L[k].val, at, t)
  \/ \E j, k \in Key : j \in DOMAIN L /\ M = Write(Erase(L, j), k, Entry(L[j].val, Nil))
  \/ \E K \in SUBSET Key : \E f \in [K -> Text] :
       M = [k \in DOMAIN L \cup K |-> IF k \in K THEN Entry(f[k], Nil) ELSE L[k]]

\* A command takes database d to database e: e is in order, and what has not
\* expired changes by a step of the expiring map.
Good(d, t, e) == DbOK(e) /\ IdealStep(Live(d, t), Live(e, t), t)

\* No entry of Live is due, so a write without a deadline hides nothing.
LEMMA WrittenForever ==
  ASSUME NEW d, DbOK(d), NEW t \in Int, NEW k \in Key, NEW v
  PROVE  Write(Live(d, t), k, Entry(v, Nil)) = Written(Live(d, t), k, v, Nil, t)
  <1> DEFINE L == Live(d, t)
             M == Write(L, k, Entry(v, Nil))
  <1>1. /\ DOMAIN M = DOMAIN L \cup {k}
        /\ M[k] = Entry(v, Nil)
        /\ \A x \in DOMAIN L \ {k} : M[x] = L[x]
        /\ M = [x \in DOMAIN M |-> M[x]]
    BY DEF Write
  <1>2. ~ Ideal!Due(M[k], t)
    BY <1>1 DEF Ideal!Due, Entry
  <1>3. ASSUME NEW x \in DOMAIN L PROVE ~ Ideal!Due(L[x], t)
    <2>1. /\ x \in DOMAIN d.expires => ~ (t >= d.expires[x])
          /\ L[x].at = Lookup(d.expires, x, Nil)
      BY DEF Live, for_each, is_expired
    <2> QED BY <2>1 DEF Lookup, Ideal!Due
  <1> HIDE DEF L, M
  <1>4. {x \in DOMAIN M : ~ Ideal!Due(M[x], t)} = DOMAIN M
    BY <1>1, <1>2, <1>3
  <1>5. Unexpired(M, t) = M
    BY <1>1, <1>4 DEF Unexpired, Ideal!Unexpired
  <1> QED BY <1>5 DEF Written, M, L

\* What the handlers are made of.
LEMMA BasicSteps ==
  ASSUME NEW d, DbOK(d), NEW t \in Int, NEW k \in Key
  PROVE  /\ Good(d, t, d) /\ Good(d, t, AfterGet(d, k, t))
         /\ \A s \in Stored :
              /\ Good(d, t, set(d, k, s))
              /\ Good(d, t, set(AfterGet(d, k, t), k, s))
              /\ \A at \in i64 :
                   /\ Good(d, t, set_expire(set(d, k, s), k, at))
                   /\ Good(d, t, set_expire(set(AfterGet(d, k, t), k, s), k, at))
         /\ exists(d, k, t) =>
              /\ Good(d, t, remove_expire(d, k))
              /\ \A at \in i64 : Good(d, t, set_expire(d, k, at))
  <1> DEFINE L == Live(d, t)
             d1 == AfterGet(d, k, t)
  <1>1. DbOK(d1) /\ Live(d1, t) = L
    BY AfterGetOK
  <1>2. Good(d, t, d) /\ Good(d, t, d1)
    BY <1>1 DEF Good, IdealStep
  <1> HIDE DEF d1
  <1>3. ASSUME NEW e, DbOK(e), Live(e, t) = L, NEW s \in Stored
        PROVE  /\ Good(d, t, set(e, k, s))
               /\ \A at \in i64 : Good(d, t, set_expire(set(e, k, s), k, at))
    <2>1. s \in Text
      BY StoredIsText
    <2>2. Good(d, t, set(e, k, s))
      <3>1. DbOK(set(e, k, s)) /\ Live(set(e, k, s), t) = Written(L, k, s, Nil, t)
        BY <1>3, SetOK, WrittenForever
      <3> QED BY <2>1, <3>1 DEF Good, IdealStep
    <2>3. ASSUME NEW at \in i64 PROVE Good(d, t, set_expire(set(e, k, s), k, at))
      <3>1. /\ DbOK(set_expire(set(e, k, s), k, at))
            /\ Live(set_expire(set(e, k, s), k, at), t) = Written(L, k, s, at, t)
        BY <1>3, SetTimedOK DEF Written
      <3> QED BY <2>1, <3>1 DEF Good, IdealStep
    <2> QED BY <2>2, <2>3
  <1>4. ASSUME exists(d, k, t)
        PROVE  /\ Good(d, t, remove_expire(d, k))
               /\ \A at \in i64 : Good(d, t, set_expire(d, k, at))
    <2>1. k \in DOMAIN L
      BY <1>4, PeekIsLive
    <2>2. Good(d, t, remove_expire(d, k))
      <3>1. /\ DbOK(remove_expire(d, k))
            /\ Live(remove_expire(d, k), t) = Written(L, k, L[k].val, Nil, t)
        BY <2>1, RemoveExpireOK, WrittenForever
      <3> QED BY <2>1, <3>1 DEF Good, IdealStep
    <2>3. ASSUME NEW at \in i64 PROVE Good(d, t, set_expire(d, k, at))
      <3>1. /\ DbOK(set_expire(d, k, at))
            /\ Live(set_expire(d, k, at), t) = Written(L, k, L[k].val, at, t)
        BY <2>1, SetExpireOK DEF Written
      <3> QED BY <2>1, <3>1 DEF Good, IdealStep
    <2> QED BY <2>2, <2>3
  <1>5. \A s \in Stored :
          /\ Good(d, t, set(d, k, s)) /\ Good(d, t, set(d1, k, s))
          /\ \A at \in i64 : /\ Good(d, t, set_expire(set(d, k, s), k, at))
                             /\ Good(d, t, set_expire(set(d1, k, s), k, at))
    BY <1>1, <1>3
  <1> QED BY <1>2, <1>4, <1>5 DEF d1

LEMMA WithoutGood ==
  ASSUME NEW d, DbOK(d), NEW t \in Int, NEW K \in SUBSET Key
  PROVE  Good(d, t, Without(d, K))
  <1> DEFINE L == Live(d, t)
             e == Without(d, K)
  <1>1. ASSUME NEW X
        PROVE  /\ DbOK(Without(d, X))
               /\ Live(Without(d, X), t) = [k \in DOMAIN Live(d, t) \ X |-> Live(d, t)[k]]
    BY WithoutOK
  <1>2. DbOK(e) /\ Live(e, t) = [k \in DOMAIN L \ K |-> L[k]]
    BY <1>1
  <1> HIDE DEF L, e
  <1>3. IdealStep(L, Live(e, t), t)
    BY <1>2 DEF IdealStep
  <1> QED BY <1>2, <1>3 DEF Good, L, e

-----------------------------------------------------------------------------
(***************************************************************************)
(* The handlers.                                                           *)
(***************************************************************************)
Number == i64 \cup {NotInt}

LEMMA InputTypes ==
  /\ \A n \in Number : n # NotInt => n \in Int
  /\ \A n \in i64 : n \in Int
  /\ \A n \in i64 : n * Second \in Int
  /\ \A n \in Amounts \cup Delays \cup Dates : n \in Number
  /\ \A s \in Values : s \in Text
  <1>1. i64 \subseteq Int /\ Second \in Int
    BY IntAssumption, InputAssumption DEF i64, IntMin
  <1> QED BY <1>1, InputAssumption, ValueAssumption DEF Number

LEMMA DelayTypes ==
  ASSUME NEW t \in Int, NEW n \in i64
  PROVE  /\ Wrap(n * Second) \in i64
         /\ Wrap(t + n) \in i64
         /\ Wrap(t + Wrap(n * Second)) \in i64
  <1>1. n \in Int /\ n * Second \in Int
    BY InputTypes
  <1>2. Wrap(n * Second) \in i64 /\ Wrap(n * Second) \in Int
    BY <1>1, WrapType, InputTypes
  <1> QED BY <1>1, <1>2, WrapType

LEMMA SetGood ==
  ASSUME NEW d, DbOK(d), NEW t \in Int, NEW k \in Key, NEW s \in Text,
         NEW nx, NEW xx, NEW unit \in {"none", "EX", "PX"}, NEW n \in Number
  PROVE  Good(d, t, handle_set(d, t, k, s, nx, xx, unit, n).db)
  <1> DEFINE c == create_string(s)
             d1 == AfterGet(d, k, t)
             ms == ExpireMs(unit, n)
  <1>1. c \in Stored
    BY CreateString
  <1>2. CASE unit # "none" /\ BadTime(n)
    BY <1>2, BasicSteps DEF handle_set, Reply
  <1>3. CASE ~ (unit # "none" /\ BadTime(n))
    <2>1. ms \in Int
      BY <1>3, InputTypes, DelayTypes DEF ExpireMs, BadTime, Number
    <2>2. Wrap(t + ms) \in i64
      BY <2>1, WrapType
    <2> DEFINE e == set_expire(set(d1, k, c), k, Wrap(t + ms))
    <2>3. Good(d, t, d1) /\ Good(d, t, set(d1, k, c)) /\ Good(d, t, e)
      BY <1>1, <2>2, BasicSteps
    <2>4. handle_set(d, t, k, s, nx, xx, unit, n).db \in {d1, set(d1, k, c), e}
      BY <1>3 DEF handle_set, Reply
    <2> QED BY <2>3, <2>4
  <1> QED BY <1>2, <1>3

LEMMA ReadGood ==
  ASSUME NEW d, DbOK(d), NEW t \in Int, NEW k \in Key
  PROVE  /\ Good(d, t, handle_get(d, t, k).db)
         /\ Good(d, t, handle_strlen(d, t, k).db)
         /\ Good(d, t, handle_type(d, t, k).db)
         /\ Good(d, t, handle_ttl(d, t, k).db)
         /\ Good(d, t, handle_pttl(d, t, k).db)
         /\ Good(d, t, handle_dbsize(d).db)
         /\ \A pattern : Good(d, t, handle_keys(d, t, pattern).db)
  BY BasicSteps DEF handle_get, handle_strlen, handle_type, handle_ttl, handle_pttl,
                    handle_dbsize, handle_keys, Reply

LEMMA OverwriteGood ==
  ASSUME NEW d, DbOK(d), NEW t \in Int, NEW k \in Key, NEW s \in Text
  PROVE  /\ Good(d, t, handle_getset(d, t, k, s).db)
         /\ Good(d, t, handle_setnx(d, t, k, s).db)
         /\ (exists(d, k, t) => <<peek(d, k, t), s>> \in DOMAIN Concat)
              => Good(d, t, handle_append(d, t, k, s).db)
  <1>1. create_string(s) \in Stored
    BY CreateString
  <1>2. Good(d, t, handle_getset(d, t, k, s).db)
    BY <1>1, BasicSteps DEF handle_getset, Reply
  <1>3. Good(d, t, handle_setnx(d, t, k, s).db)
    BY <1>1, BasicSteps DEF handle_setnx, Reply
  <1>4. ASSUME exists(d, k, t) => <<peek(d, k, t), s>> \in DOMAIN Concat
        PROVE  Good(d, t, handle_append(d, t, k, s).db)
    <2> DEFINE new == IF peek(d, k, t) = Nil THEN s ELSE Concat[<<peek(d, k, t), s>>]
    <2>1. new \in Text
      BY <1>4, ValueAssumption DEF exists
    <2>2. create_string(new) \in Stored
      BY <2>1, CreateString
    <2>3. handle_append(d, t, k, s).db = set(AfterGet(d, k, t), k, create_string(new))
      BY DEF handle_append, Reply
    <2> HIDE DEF new
    <2> QED BY <2>2, <2>3, BasicSteps
  <1> QED BY <1>2, <1>3, <1>4

\* The number that a counter command finds: a number, or none at all.
LEMMA CounterType ==
  ASSUME NEW d, DbOK(d), NEW t \in Int, NEW k \in Key
  PROVE  get_integer_obj(peek(d, k, t)) \in Number
  <1>1. peek(d, k, t) = Nil \/ peek(d, k, t) \in Text
    BY PeekIsLive, StoredIsText
  <1>2. 0 \in i64
    BY IntAssumption DEF i64, IntMin
  <1> QED BY <1>1, <1>2, TextAssumption DEF get_integer_obj, Number

LEMMA CounterGood ==
  ASSUME NEW d, DbOK(d), NEW t \in Int, NEW k \in Key, NEW n \in Number
  PROVE  /\ Good(d, t, handle_incr(d, t, k).db)
         /\ Good(d, t, handle_decr(d, t, k).db)
         /\ Good(d, t, handle_incrby(d, t, k, n).db)
         /\ Good(d, t, handle_decrby(d, t, k, n).db)
  <1> DEFINE c == get_integer_obj(peek(d, k, t))
             d1 == AfterGet(d, k, t)
  <1>1. c \in Number /\ (c # NotInt => c \in i64 /\ c \in Int)
    BY CounterType, InputTypes DEF Number
  <1>2. n # NotInt => n \in Int
    BY InputTypes
  <1>3. Good(d, t, d) /\ Good(d, t, d1)
    BY BasicSteps
  <1>4. \A i \in i64 : Good(d, t, StoreInt(d1, k, i).db)
    BY BasicSteps, CreateString DEF StoreInt, Reply
  <1>5. Good(d, t, handle_incr(d, t, k).db)
    <2>1. c # NotInt /\ c # IntMax => c + 1 \in i64
      BY <1>1, IntAssumption DEF i64, IntMin
    <2> QED BY <1>3, <1>4, <2>1 DEF handle_incr, Reply
  <1>6. Good(d, t, handle_decr(d, t, k).db)
    <2>1. c # NotInt /\ c # IntMin => c - 1 \in i64
      BY <1>1, IntAssumption DEF i64, IntMin
    <2> QED BY <1>3, <1>4, <2>1 DEF handle_decr, Reply
  <1>7. Good(d, t, handle_incrby(d, t, k, n).db)
    <2>1. /\ n # NotInt /\ c # NotInt
          /\ ~ ((n > 0 /\ c > IntMax - n) \/ (n < 0 /\ c < IntMin - n))
          => c + n \in i64
      BY <1>1, <1>2, IntAssumption DEF i64, IntMin
    <2> QED BY <1>3, <1>4, <2>1 DEF handle_incrby, Reply
  <1>8. Good(d, t, handle_decrby(d, t, k, n).db)
    <2>1. n # NotInt /\ c # NotInt => Wrap(c - n) \in i64
      BY <1>1, <1>2, WrapType
    <2> QED BY <1>3, <1>4, <2>1 DEF handle_decrby, Reply
  <1> QED BY <1>5, <1>6, <1>7, <1>8

LEMMA TimedGood ==
  ASSUME NEW d, DbOK(d), NEW t \in Int, NEW k \in Key, NEW n \in Number
  PROVE  /\ \A s \in Text : /\ Good(d, t, handle_setex(d, t, k, n, s).db)
                            /\ Good(d, t, handle_psetex(d, t, k, n, s).db)
         /\ Good(d, t, handle_expire(d, t, k, n).db)
         /\ Good(d, t, handle_pexpire(d, t, k, n).db)
         /\ Good(d, t, handle_expireat(d, t, k, n).db)
         /\ Good(d, t, handle_persist(d, t, k).db)
  <1>1. n # NotInt => /\ Wrap(n * Second) \in i64
                      /\ Wrap(t + n) \in i64
                      /\ Wrap(t + Wrap(n * Second)) \in i64
    BY DelayTypes DEF Number
  <1>2. ASSUME NEW at, n # NotInt => at \in i64
        PROVE  Good(d, t, SetDeadline(d, t, k, n, at).db)
    BY <1>2, BasicSteps DEF SetDeadline, Reply
  <1>3. ASSUME NEW s \in Text, NEW ms, n # NotInt => Wrap(t + ms) \in i64
        PROVE  Good(d, t, SetWithDelay(d, t, k, s, n, ms).db)
    <2>1. create_string(s) \in Stored
      BY CreateString
    <2> QED BY <1>3, <2>1, BasicSteps DEF SetWithDelay, BadTime, Reply
  <1>4. ExpireMs("EX", n) = Wrap(n * Second)
    BY DEF ExpireMs
  <1>5. \A s \in Text : /\ Good(d, t, handle_setex(d, t, k, n, s).db)
                        /\ Good(d, t, handle_psetex(d, t, k, n, s).db)
    BY <1>1, <1>3, <1>4 DEF handle_setex, handle_psetex
  <1>6. /\ Good(d, t, handle_expire(d, t, k, n).db)
        /\ Good(d, t, handle_pexpire(d, t, k, n).db)
        /\ Good(d, t, handle_expireat(d, t, k, n).db)
    BY <1>1, <1>2 DEF handle_expire, handle_pexpire, handle_expireat
  <1>7. Good(d, t, handle_persist(d, t, k).db)
    BY BasicSteps DEF handle_persist, Reply
  <1> QED BY <1>5, <1>6, <1>7

\* MSET: all the keys are written at once, without deadlines.
SetAll(d, f) ==
  [keys |-> [k \in DOMAIN d.keys \cup DOMAIN f |->
               IF k \in DOMAIN f THEN f[k] ELSE d.keys[k]],
   expires |-> [k \in DOMAIN d.expires \ DOMAIN f |-> d.expires[k]]]

LEMMA SetAllOK ==
  ASSUME NEW d, DbOK(d), NEW t \in Int, NEW W \in SUBSET Key, NEW f \in [W -> Stored]
  PROVE  /\ DbOK(SetAll(d, f))
         /\ Live(SetAll(d, f), t) =
              [k \in DOMAIN Live(d, t) \cup W |->
                 IF k \in W THEN Entry(f[k], Nil) ELSE Live(d, t)[k]]
  <1> DEFINE e == SetAll(d, f)
  <1>1. /\ e.keys = [k \in DOMAIN d.keys \cup W |-> IF k \in W THEN f[k] ELSE d.keys[k]]
        /\ e.expires = [k \in DOMAIN d.expires \ W |-> d.expires[k]]
        /\ e = [keys |-> e.keys, expires |-> e.expires]
    BY DEF SetAll
  <1> HIDE DEF e
  <1>2. DbOK(e)
    BY <1>1 DEF DbOK
  <1>3. for_each(e, t) = for_each(d, t) \cup W
    BY <1>1 DEF for_each, is_expired
  <1>4. \A x \in for_each(e, t) :
          [val |-> e.keys[x], at |-> Lookup(e.expires, x, Nil)] =
            IF x \in W THEN Entry(f[x], Nil)
            ELSE [val |-> d.keys[x], at |-> Lookup(d.expires, x, Nil)]
    BY <1>1, <1>3 DEF for_each, Lookup, Entry
  <1>5. Live(e, t) = [k \in DOMAIN Live(d, t) \cup W |->
                        IF k \in W THEN Entry(f[k], Nil) ELSE Live(d, t)[k]]
    BY <1>3, <1>4 DEF Live
  <1> QED BY <1>2, <1>5 DEF e

\* What MSET j s k r writes: the last value given for a key counts.
Pairs(j, s, k, r) == [x \in {j, k} |-> create_string(IF x = k THEN r ELSE s)]

AfterMSet(d, j, s, k, r) == handle_mset(d, <<<<j, s>>, <<k, r>>>>, FALSE).db

LEMMA MSetIsSetAll ==
  ASSUME NEW d, NEW j, NEW k, NEW s, NEW r
  PROVE  AfterMSet(d, j, s, k, r) = SetAll(d, Pairs(j, s, k, r))
  <1> DEFINE pairs == <<<<j, s>>, <<k, r>>>>
             written == {pairs[i][1] : i \in DOMAIN pairs}
             Last(x) == CHOOSE i \in DOMAIN pairs :
                          pairs[i][1] = x /\ \A h \in DOMAIN pairs : pairs[h][1] = x => h <= i
             f == Pairs(j, s, k, r)
  <1>1. /\ DOMAIN pairs = {1, 2}
        /\ pairs[1][1] = j /\ pairs[1][2] = s /\ pairs[2][1] = k /\ pairs[2][2] = r
    OBVIOUS
  <1> HIDE DEF pairs
  <1>2. written = {j, k}
    BY <1>1
  <1>3. Last(k) = 2
    BY <1>1
  <1>4. j # k => Last(j) = 1
    BY <1>1
  <1> HIDE DEF Last, written
  <1>5. \A x \in written : create_string(pairs[Last(x)][2]) = f[x]
    BY <1>1, <1>2, <1>3, <1>4 DEF Pairs
  <1>6. handle_mset(d, pairs, FALSE).db =
          [keys |-> [x \in DOMAIN d.keys \cup written |->
                       IF x \in written THEN create_string(pairs[Last(x)][2]) ELSE d.keys[x]],
           expires |-> [x \in DOMAIN d.expires \ written |-> d.expires[x]]]
    BY DEF handle_mset, Reply, written, Last
  <1>7. DOMAIN f = written
    BY <1>2 DEF Pairs
  <1> HIDE DEF f
  <1>8. handle_mset(d, pairs, FALSE).db = SetAll(d, f)
    BY <1>5, <1>6, <1>7 DEF SetAll
  <1> QED BY <1>8 DEF AfterMSet, pairs, f

LEMMA MSetGood ==
  ASSUME NEW d, DbOK(d), NEW t \in Int, NEW j \in Key, NEW k \in Key,
         NEW s \in Text, NEW r \in Text, NEW dangling \in BOOLEAN
  PROVE  Good(d, t, handle_mset(d, <<<<j, s>>, <<k, r>>>>, dangling).db)
  <1>1. CASE dangling
    <2>1. handle_mset(d, <<<<j, s>>, <<k, r>>>>, dangling).db = d
      BY <1>1 DEF handle_mset, Reply
    <2> QED BY <2>1, BasicSteps
  <1>2. CASE dangling = FALSE
    <2> DEFINE f == Pairs(j, s, k, r)
               L == Live(d, t)
               e == SetAll(d, f)
    <2>1. f \in [{j, k} -> Stored]
      BY CreateString DEF Pairs
    <2>2. f \in [{j, k} -> Text] /\ {j, k} \in SUBSET Key
      BY <2>1, StoredIsText
    <2>3. handle_mset(d, <<<<j, s>>, <<k, r>>>>, dangling).db = e
      <3>1. AfterMSet(d, j, s, k, r) = e
        BY MSetIsSetAll
      <3> QED BY <1>2, <3>1 DEF AfterMSet
    <2> HIDE DEF f
    <2>4. /\ DbOK(e)
          /\ Live(e, t) = [x \in DOMAIN L \cup {j, k} |->
                             IF x \in {j, k} THEN Entry(f[x], Nil) ELSE L[x]]
      BY <2>1, <2>2, SetAllOK
    <2> HIDE DEF e, L
    <2>5. IdealStep(L, Live(e, t), t)
      <3>1. \E K \in SUBSET Key : \E g \in [K -> Text] :
              Live(e, t) = [x \in DOMAIN L \cup K |-> IF x \in K THEN Entry(g[x], Nil) ELSE L[x]]
        BY <2>2, <2>4
      <3> QED BY <3>1 DEF IdealStep
    <2> QED BY <2>3, <2>4, <2>5 DEF Good, L
  <1> QED BY <1>1, <1>2

LEMMA ListGood ==
  ASSUME NEW d, DbOK(d), NEW t \in Int, NEW ks \in KeyLists
  PROVE  /\ Good(d, t, handle_mget(d, t, ks).db)
         /\ Good(d, t, handle_exists(d, t, ks).db)
         /\ Good(d, t, handle_del(d, ks).db)
  <1>1. ArgsOf(ks) \in SUBSET Key
    BY DEF KeyLists, ArgsOf
  <1>2. Good(d, t, AfterGets(d, ArgsOf(ks), t))
    BY AfterGetsOK DEF Good, IdealStep
  <1>3. handle_del(d, ks).db = Without(d, ArgsOf(ks))
    BY DEF handle_del, Without, Reply
  <1> QED BY <1>1, <1>2, <1>3, WithoutGood DEF handle_mget, handle_exists, Reply

LEMMA RenameGood ==
  ASSUME NEW d, DbOK(d), NEW t \in Int, NEW j \in Key, NEW k \in Key
  PROVE  Good(d, t, handle_rename(d, t, j, k).db)
  <1>1. CASE ~ exists(d, j, t)
    BY <1>1, BasicSteps DEF handle_rename, Reply
  <1>2. CASE exists(d, j, t)
    <2> DEFINE L == Live(d, t)
               v == L[j].val
               e == delete_key(d, j)
    <2>1. j \in DOMAIN L /\ peek(d, j, t) = v /\ v \in Stored
      <3>1. j \in DOMAIN L
        BY <1>2, PeekIsLive
      <3>2. peek(d, j, t) = v /\ peek(d, j, t) \in Stored
        BY <3>1, PeekIsLive
      <3> QED BY <3>1, <3>2
    <2>2. e = Without(d, {j})
      BY DEF delete_key, Without, Erase
    <2>3. DbOK(e) /\ Live(e, t) = Erase(L, j)
      <3>1. ASSUME NEW X
            PROVE  /\ DbOK(Without(d, X))
                   /\ Live(Without(d, X), t) = [x \in DOMAIN L \ X |-> L[x]]
        BY WithoutOK
      <3> QED BY <2>2, <3>1 DEF Erase
    <2>4. handle_rename(d, t, j, k).db = set(e, k, v)
      BY <1>2, <2>1, CreateString DEF handle_rename, Reply
    <2> HIDE DEF L, v, e
    <2>5. /\ DbOK(set(e, k, v))
          /\ Live(set(e, k, v), t) = Write(Erase(L, j), k, Entry(v, Nil))
      BY <2>1, <2>3, SetOK
    <2> QED BY <2>1, <2>4, <2>5 DEF Good, IdealStep, L, v
  <1> QED BY <1>1, <1>2

LEMMA FlushGood ==
  ASSUME NEW d, DbOK(d), NEW t \in Int
  PROVE  Good(d, t, handle_flushdb.db)
  <1>1. DOMAIN Live(d, t) \subseteq Key
    BY DEF Live, for_each, DbOK
  <1>2. Live(EmptyDb, t) = [k \in DOMAIN Live(d, t) \ Key |-> Live(d, t)[k]]
    BY <1>1, EmptyOK DEF EmptyMap
  <1> QED BY <1>2, EmptyOK DEF handle_flushdb, Reply, Good, IdealStep

-----------------------------------------------------------------------------
(***************************************************************************)
(* Invariance.                                                             *)
(***************************************************************************)
IInv == DbOK(db) /\ now \in 0..MaxTime

LEMMA ClockType == IInv => now \in Int /\ now >= 0
  BY InputAssumption DEF IInv

\* Every command leaves the database in order, and makes a step of the
\* expiring map.
LEMMA CommandsGood ==
  ASSUME IInv
  PROVE  /\ \A k \in Key : StringCommand(k) \/ KeyCommand(k) => Good(db, now, db')
         /\ \A ks \in KeyLists : MGet(ks) \/ Del(ks) \/ Exists(ks) => Good(db, now, db')
         /\ MSet \/ Keys \/ DbSize \/ FlushDb => Good(db, now, db')
  <1>1. DbOK(db) /\ now \in Int
    BY ClockType DEF IInv
  <1>2. ASSUME NEW k \in Key, StringCommand(k) PROVE Good(db, now, db')
    <2>1. CASE Set(k)
      <3>1. PICK s \in Values, nx \in BOOLEAN, xx \in BOOLEAN, o \in Options :
              db' = handle_set(db, now, k, s, nx, xx, o[1], o[2]).db
        BY <2>1 DEF Set, Run
      <3>2. o[1] \in {"none", "EX", "PX"} /\ o[2] \in Number
        BY InputTypes DEF Options, Number
      <3> QED BY <1>1, <3>1, <3>2, SetGood, InputTypes
    <2>2. CASE Get(k) \/ StrLen(k)
      BY <1>1, <2>2, ReadGood DEF Get, StrLen, Run
    <2>3. CASE GetSet(k) \/ SetNx(k) \/ Append(k)
      BY <1>1, <2>3, OverwriteGood, InputTypes DEF GetSet, SetNx, Append, Run
    <2>4. CASE Incr(k) \/ Decr(k)
      <3>1. NotInt \in Number
        BY DEF Number
      <3> QED BY <1>1, <2>4, <3>1, CounterGood DEF Incr, Decr, Run
    <2>5. CASE IncrBy(k) \/ DecrBy(k)
      BY <1>1, <2>5, CounterGood, InputTypes DEF IncrBy, DecrBy, Run
    <2>6. CASE SetEx(k) \/ PSetEx(k)
      BY <1>1, <2>6, TimedGood, InputTypes DEF SetEx, PSetEx, Run
    <2> QED BY <1>2, <2>1, <2>2, <2>3, <2>4, <2>5, <2>6 DEF StringCommand
  <1>3. ASSUME NEW k \in Key, KeyCommand(k) PROVE Good(db, now, db')
    <2>1. CASE Type(k) \/ Ttl(k) \/ PTtl(k)
      BY <1>1, <2>1, ReadGood DEF Type, Ttl, PTtl, Run
    <2>2. CASE Expire(k) \/ PExpire(k) \/ ExpireAt(k)
      BY <1>1, <2>2, TimedGood, InputTypes DEF Expire, PExpire, ExpireAt, Run
    <2>3. CASE Persist(k)
      <3>1. NotInt \in Number
        BY DEF Number
      <3> QED BY <1>1, <2>3, <3>1, TimedGood DEF Persist, Run
    <2>4. CASE Rename(k)
      BY <1>1, <2>4, RenameGood DEF Rename, Run
    <2> QED BY <1>3, <2>1, <2>2, <2>3, <2>4 DEF KeyCommand
  <1>4. ASSUME NEW ks \in KeyLists, MGet(ks) \/ Del(ks) \/ Exists(ks)
        PROVE  Good(db, now, db')
    BY <1>1, <1>4, ListGood DEF MGet, Del, Exists, Run
  <1>5. CASE MSet
    BY <1>1, <1>5, MSetGood, InputTypes DEF MSet, Run
  <1>6. CASE Keys \/ DbSize \/ FlushDb
    <2>1. Good(db, now, db)
      BY <1>1 DEF Good, IdealStep
    <2> QED BY <1>1, <1>6, <2>1, FlushGood
        DEF Keys, DbSize, FlushDb, Run, handle_keys, handle_dbsize, Reply
  <1> QED BY <1>2, <1>3, <1>4, <1>5, <1>6

\* Commands take no time.
LEMMA CommandsKeepClock ==
  /\ \A k \in Key : StringCommand(k) \/ KeyCommand(k) => now' = now
  /\ \A ks \in KeyLists : MGet(ks) \/ Del(ks) \/ Exists(ks) => now' = now
  /\ MSet \/ Keys \/ DbSize \/ FlushDb => now' = now
  BY DEF StringCommand, KeyCommand, Run, Set, Get, GetSet, MSet, MGet, Append, StrLen,
         Incr, IncrBy, Decr, DecrBy, SetEx, PSetEx, SetNx, Del, Exists, Type, Expire,
         PExpire, ExpireAt, Ttl, PTtl, Persist, Keys, Rename, DbSize, FlushDb

\* The cron deletes nothing that anybody could see.
LEMMA CronUnseen ==
  ASSUME IInv, NEW S \in Samples(db), Cron(S)
  PROVE  DbOK(db') /\ Live(db', now) = Live(db, now) /\ now' = now
  <1>1. DbOK(db) /\ now \in Int
    BY ClockType DEF IInv
  <1> QED BY <1>1, CycleOK DEF Cron

LEMMA InitInv == Init => IInv
  BY EmptyOK, InputAssumption DEF Init, IInv

LEMMA StepInv == IInv /\ [Next]_vars => IInv'
  <1> SUFFICES ASSUME IInv, [Next]_vars PROVE IInv'
    OBVIOUS
  <1>1. CASE Tick
    BY <1>1, InputAssumption DEF Tick, IInv
  <1>2. ASSUME NEW S \in Samples(db), Cron(S) PROVE IInv'
    BY <1>2, CronUnseen DEF IInv
  <1>3. CASE UNCHANGED vars
    BY <1>3 DEF vars, IInv
  <1>4. ASSUME Good(db, now, db'), now' = now PROVE IInv'
    BY <1>4 DEF Good, IInv
  <1> QED BY <1>1, <1>2, <1>3, <1>4, CommandsGood, CommandsKeepClock DEF Next

LEMMA Invariance == Spec => []IInv
  BY InitInv, StepInv, PTL DEF Spec

\* The two dicts and the clock keep their types: in particular every deadline
\* that a command computes is an i64, and every stored text that reads as a number
\* is the one that to_chars gives.
THEOREM KeyspaceTypeCorrect == Spec => []TypeOK
  <1>1. IInv => TypeOK
    BY DEF IInv, TypeOK, DbOK, DbType
  <1> QED BY <1>1, Invariance, PTL

\* No command, lazy expiry or cron leaves a deadline without its key.
THEOREM DeadlinesHaveKeys == Spec => []NoOrphanDeadline
  <1>1. IInv => NoOrphanDeadline
    BY DEF IInv, NoOrphanDeadline, DbOK
  <1> QED BY <1>1, Invariance, PTL

\* A run of the cron changes nothing that a client can see.
THEOREM CronInvisible == Spec => CronKeepsLive
  <1> DEFINE Unseen == (\E S \in Samples(db) : Cron(S)) => Live(db', now') = Live(db, now)
  <1>1. IInv /\ [Next]_vars => [Unseen]_vars
    BY CronUnseen
  <1> QED BY <1>1, Invariance, PTL DEF Spec, CronKeepsLive

-----------------------------------------------------------------------------
(***************************************************************************)
(* The expiring map.                                                       *)
(***************************************************************************)
\* The clock moves: what is due at the new time drops out, nothing else.
LEMMA LiveLater ==
  ASSUME NEW d, DbOK(d), NEW t \in Int
  PROVE  Live(d, t + 1) = Unexpired(Live(d, t), t + 1)
  <1> DEFINE L == Live(d, t)
             E(x) == [val |-> d.keys[x], at |-> Lookup(d.expires, x, Nil)]
  <1>1. DOMAIN L = for_each(d, t) /\ \A x \in for_each(d, t) : L[x] = E(x)
    BY DEF Live
  <1>2. \A x \in DOMAIN d.keys : Ideal!Due(E(x), t + 1) <=> is_expired(d, x, t + 1)
    BY DeadlineType DEF Ideal!Due, is_expired, Lookup
  <1>3. for_each(d, t + 1) \subseteq for_each(d, t)
    BY DeadlineType DEF for_each, is_expired
  <1> HIDE DEF L, E
  <1>4. for_each(d, t + 1) = {x \in DOMAIN L : ~ Ideal!Due(L[x], t + 1)}
    BY <1>1, <1>2, <1>3 DEF for_each
  <1>5. Live(d, t + 1) = [x \in for_each(d, t + 1) |-> L[x]]
    BY <1>1, <1>3 DEF Live, E
  <1> QED BY <1>4, <1>5 DEF Unexpired, Ideal!Unexpired, L

LEMMA InitRefines == Init => Ideal!Init
  BY EmptyOK DEF Init, Ideal!Init, Ideal!EmptyMap, EmptyMap

LEMMA TickRefines ==
  ASSUME IInv, Tick
  PROVE  Ideal!Tick
  <1>1. DbOK(db) /\ now \in Int
    BY ClockType DEF IInv
  <1> QED BY <1>1, LiveLater DEF Tick, Ideal!Tick, Unexpired

\* The relation IdealStep is a step of the map.
LEMMA IdealStepRefines ==
  ASSUME IdealStep(Live(db, now), Live(db', now), now), now' = now
  PROVE  [Ideal!Next]_(Ideal!vars)
  <1> DEFINE L == Live(db, now)
             M == Live(db', now)
  <1>1. Live(db, now)' = M
    OBVIOUS
  <1>2. CASE M = L
    BY <1>1, <1>2 DEF Ideal!vars
  <1>3. ASSUME NEW K \in SUBSET Key, M = [k \in DOMAIN L \ K |-> L[k]]
        PROVE  Ideal!Next
    BY <1>1, <1>3 DEF Ideal!Next, Ideal!Remove
  <1>4. ASSUME NEW k \in Key, NEW v \in Text, NEW at \in i64 \cup {Nil},
               M = Written(L, k, v, at, now)
        PROVE  Ideal!Next
    <2>1. Ideal!Put(k, v, at)
      BY <1>1, <1>4 DEF Ideal!Put, Written, Unexpired, Entry, Write, Ideal!Write
    <2> QED BY <2>1 DEF Ideal!Next
  <1>5. ASSUME NEW k \in Key, NEW at \in i64 \cup {Nil}, k \in DOMAIN L,
               M = Written(L, k, L[k].val, at, now)
        PROVE  Ideal!Next
    <2>1. Ideal!Reschedule(k, at)
      BY <1>1, <1>5 DEF Ideal!Reschedule, Written, Unexpired, Entry, Write, Ideal!Write
    <2> QED BY <2>1 DEF Ideal!Next
  <1>6. ASSUME NEW j \in Key, NEW k \in Key, j \in DOMAIN L,
               M = Write(Erase(L, j), k, Entry(L[j].val, Nil))
        PROVE  Ideal!Next
    <2>1. Ideal!Move(j, k)
      BY <1>1, <1>6 DEF Ideal!Move, Entry, Write, Ideal!Write, Erase, Ideal!Erase
    <2> QED BY <2>1 DEF Ideal!Next
  <1>7. ASSUME NEW K \in SUBSET Key, NEW f \in [K -> Text],
               M = [k \in DOMAIN L \cup K |-> IF k \in K THEN Entry(f[k], Nil) ELSE L[k]]
        PROVE  Ideal!Next
    <2>1. Ideal!PutAll(f)
      BY <1>1, <1>7 DEF Ideal!PutAll, Entry
    <2> QED BY <2>1 DEF Ideal!Next
  <1> QED BY <1>2, <1>3, <1>4, <1>5, <1>6, <1>7 DEF IdealStep

LEMMA NextRefines == IInv /\ [Next]_vars => [Ideal!Next]_(Ideal!vars)
  <1> SUFFICES ASSUME IInv, [Next]_vars PROVE [Ideal!Next]_(Ideal!vars)
    OBVIOUS
  <1>1. CASE Tick
    BY <1>1, TickRefines DEF Ideal!Next
  <1>2. ASSUME NEW S \in Samples(db), Cron(S) PROVE UNCHANGED Ideal!vars
    BY <1>2, CronUnseen DEF Ideal!vars
  <1>3. CASE UNCHANGED vars
    BY <1>3 DEF vars, Ideal!vars
  <1>4. ASSUME Good(db, now, db'), now' = now PROVE [Ideal!Next]_(Ideal!vars)
    BY <1>4, IdealStepRefines DEF Good
  <1> QED BY <1>1, <1>2, <1>3, <1>4, CommandsGood, CommandsKeepClock DEF Next

\* The keyspace implements the expiring map: whatever lies about expired in
\* the two dicts, a client sees every key vanish at its deadline, and every
\* command take effect in one step.
THEOREM KeyspaceImplementsExpiringMap == Spec => ImplementsExpiringMap
  BY InitRefines, NextRefines, Invariance, PTL
     DEF Spec, ImplementsExpiringMap, Ideal!Spec
=============================================================================
