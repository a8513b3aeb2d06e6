----------------------------- MODULE DictProofs -----------------------------
(***************************************************************************)
(* Proofs about Dict, for every set of keys, every hash function and every *)
(* number of steps per cron tick.                                          *)
(***************************************************************************)
EXTENDS Dict, FiniteSetTheorems, WellFoundedInduction, TLAPS

-----------------------------------------------------------------------------
(***************************************************************************)
(* One table.                                                              *)
(***************************************************************************)
UniqueKeys(t) == \A e, f \in Entries(t) : e.key = f.key => e = f

TableOK(t) ==
  /\ TableType(t)
  /\ UniqueKeys(t)
  /\ RightBucket(t)
  /\ t.used = Cardinality(Entries(t))

\* Within the width, std::bit_ceil gives a power of two that is large enough
\* and less than twice its argument.
LEMMA BitCeil ==
  ASSUME NEW n \in Nat, 1 <= n, n <= MaxBuckets
  PROVE  /\ bit_ceil(n) \in PowersOfTwo
         /\ n <= bit_ceil(n)
         /\ bit_ceil(n) < 2 * n
  <1> DEFINE P(m) == n <= m /\ m < 2 * n
  <1>1. n \in Nat /\ 1 <= n /\ n <= 1073741824
    BY SMT DEF MaxBuckets
  <1>2. \/ P(1) \/ P(2) \/ P(4) \/ P(8) \/ P(16) \/ P(32) \/ P(64) \/
          P(128) \/ P(256) \/ P(512) \/ P(1024) \/ P(2048) \/ P(4096) \/
          P(8192) \/ P(16384) \/ P(32768) \/ P(65536) \/ P(131072) \/
          P(262144) \/ P(524288) \/ P(1048576) \/ P(2097152) \/
          P(4194304) \/ P(8388608) \/ P(16777216) \/ P(33554432) \/
          P(67108864) \/ P(134217728) \/ P(268435456) \/ P(536870912) \/
          P(1073741824)
    BY <1>1, SMT
  <1> HIDE DEF P
  <1>3. \E m \in PowersOfTwo : P(m)
    BY <1>2, SMT DEF PowersOfTwo, MaxBuckets
  <1> QED BY <1>3 DEF bit_ceil, P

LEMMA PowersArePositive == \A n \in PowersOfTwo : n \in Nat /\ n > 0
  BY SMT DEF PowersOfTwo, MaxBuckets

\* The bucket that a hash selects exists.
LEMMA IndexInRange ==
  ASSUME NEW t, TableType(t), t.size > 0, NEW k \in Key
  PROVE  Index(t, k) \in 0..(t.size - 1)
  <1>1. Hash[k] \in Nat /\ t.size \in Nat \ {0}
    BY KeysAssumption DEF TableType
  <1> QED BY <1>1, SMT DEF Index

LEMMA EntriesAreEntries ==
  ASSUME NEW t, TableType(t)
  PROVE  Entries(t) \subseteq Entry
  BY DEF TableType, Entries

\* Entries with distinct keys are no more than the keys.
LEMMA EntriesFinite ==
  ASSUME NEW E, E \subseteq Entry, \A e, f \in E : e.key = f.key => e = f
  PROVE  IsFiniteSet(E) /\ Cardinality(E) <= Cardinality(Key)
  <1> DEFINE f == [e \in E |-> e.key]
  <1>1. f \in [E -> Key]
    BY DEF Entry
  <1>2. f \in Injection(E, Key)
    BY <1>1 DEF Injection, IsInjective
  <1> QED BY <1>2, FS_Injection, KeysAssumption

\* A fresh table is empty and well formed.
LEMMA AllocateOK ==
  ASSUME NEW n \in Nat
  PROVE  /\ TableOK(allocate(n))
         /\ Entries(allocate(n)) = {}
         /\ allocate(n).size = n
         /\ allocate(n).used = 0
  <1>1. Entries(allocate(n)) = {}
    BY DEF Entries, allocate
  <1>2. TableType(allocate(n)) /\ RightBucket(allocate(n))
    BY DEF TableType, RightBucket, allocate
  <1> QED BY <1>1, <1>2, FS_EmptySet DEF TableOK, UniqueKeys, allocate

\* find_in finds an entry exactly when the table holds one with that key.
LEMMA FindIn ==
  ASSUME NEW t, TableOK(t), NEW k \in Key
  PROVE  find_in(t, k) = {e \in Entries(t) : e.key = k}
  <1>1. CASE IsNull(t) \/ t.used = 0
    <2>1. IsNull(t) => Entries(t) = {}
      BY DEF IsNull, Entries, TableOK, TableType
    <2>2. t.used = 0 => Entries(t) = {}
      BY EntriesAreEntries, EntriesFinite, FS_EmptySet DEF TableOK, UniqueKeys
    <2> QED BY <1>1, <2>1, <2>2 DEF find_in
  <1>2. CASE ~ (IsNull(t) \/ t.used = 0)
    <2>1. Index(t, k) \in 0..(t.size - 1)
      BY <1>2, IndexInRange DEF TableOK, TableType, IsNull
    <2>2. \A e \in Entries(t) : e.key = k => e \in t.bucket[Index(t, k)]
      BY DEF TableOK, RightBucket, Entries
    <2>3. t.bucket[Index(t, k)] \subseteq Entries(t)
      BY <2>1 DEF Entries
    <2> QED BY <1>2, <2>2, <2>3 DEF find_in
  <1> QED BY <1>1, <1>2

\* Insert adds one entry, to the chain of its key.
LEMMA InsertOK ==
  ASSUME NEW t, TableOK(t), t.size > 0, NEW k \in Key, NEW v \in Val,
         find_in(t, k) = {}
  PROVE  /\ TableOK(Insert(t, k, v))
         /\ Entries(Insert(t, k, v)) = Entries(t) \cup {[key |-> k, val |-> v]}
         /\ Insert(t, k, v).size = t.size
         /\ Insert(t, k, v).used = t.used + 1
  <1> DEFINE e == [key |-> k, val |-> v]
             u == Insert(t, k, v)
             b == Index(t, k)
  <1>1. b \in 0..(t.size - 1) /\ e \in Entry /\ e.key = k
    BY IndexInRange DEF TableOK, Entry
  <1>2. /\ u = [size |-> t.size, used |-> t.used + 1,
                bucket |-> [t.bucket EXCEPT ![b] = @ \cup {e}]]
    BY DEF Insert
  <1>3. \A x \in Entries(t) : x.key # k
    BY FindIn
  <1> HIDE DEF e, u, b
  <1>4. /\ u.size = t.size
        /\ u.used = t.used + 1
        /\ u.bucket = [t.bucket EXCEPT ![b] = @ \cup {e}]
    BY <1>2
  <1>5. TableType(u)
    BY <1>1, <1>2, <1>4 DEF TableOK, TableType
  <1>6. Entries(u) = Entries(t) \cup {e}
    BY <1>1, <1>4 DEF Entries, TableOK, TableType
  <1>7. UniqueKeys(u)
    BY <1>1, <1>3, <1>6 DEF UniqueKeys, TableOK
  <1>8. RightBucket(u)
    <2>1. \A x \in Key : Index(u, x) = Index(t, x)
      BY <1>4 DEF Index
    <2>2. \A i \in 0..(t.size - 1) : \A x \in t.bucket[i] :
            x.key \in Key /\ Index(t, x.key) = i
      BY DEF TableOK, TableType, RightBucket, Entry
    <2>3. Index(t, k) = b
      BY DEF b
    <2> QED BY <1>1, <1>4, <2>1, <2>2, <2>3 DEF RightBucket, TableOK, TableType
  <1>9. u.used = Cardinality(Entries(u))
    <2>1. e \notin Entries(t) /\ IsFiniteSet(Entries(t))
      BY <1>1, <1>3, EntriesAreEntries, EntriesFinite DEF TableOK, UniqueKeys
    <2>2. t.used = Cardinality(Entries(t))
      BY DEF TableOK
    <2> QED BY <1>4, <1>6, <2>1, <2>2, FS_AddElement
  <1> QED BY <1>4, <1>5, <1>6, <1>7, <1>8, <1>9 DEF TableOK, u, e

\* Update overwrites the one entry of its key where it is.
LEMMA UpdateOK ==
  ASSUME NEW t, TableOK(t), NEW k \in Key, NEW v \in Val, find_in(t, k) # {}
  PROVE  /\ TableOK(Update(t, k, v))
         /\ Entries(Update(t, k, v)) =
              {e \in Entries(t) : e.key # k} \cup {[key |-> k, val |-> v]}
         /\ Update(t, k, v).size = t.size
         /\ Update(t, k, v).used = t.used
         /\ \A i \in 0..(t.size - 1) :
              Update(t, k, v).bucket[i] = {} <=> t.bucket[i] = {}
  <1> DEFINE e == [key |-> k, val |-> v]
             u == Update(t, k, v)
             b == Index(t, k)
             Sub(x) == IF x.key = k THEN e ELSE x
  <1>1. PICK o \in Entries(t) : o.key = k
    BY FindIn
  <1>2. t.size > 0
    BY <1>1 DEF Entries, TableOK, TableType
  <1>3. b \in 0..(t.size - 1) /\ e \in Entry /\ e.key = k
    BY <1>2, IndexInRange DEF TableOK, Entry
  <1>4. o \in t.bucket[b]
    BY <1>1 DEF TableOK, RightBucket, Entries
  <1>5. /\ u = [size |-> t.size, used |-> t.used,
                bucket |-> [t.bucket EXCEPT ![b] = {Sub(x) : x \in @}]]
    BY DEF Update
  <1>6. {Sub(x) : x \in t.bucket[b]} = {x \in t.bucket[b] : x.key # k} \cup {e}
    BY <1>1, <1>4
  <1> HIDE DEF e, u, b, Sub
  <1>7. /\ u.size = t.size
        /\ u.used = t.used
        /\ u.bucket = [t.bucket EXCEPT
                         ![b] = {x \in t.bucket[b] : x.key # k} \cup {e}]
    BY <1>5, <1>6
  <1>8. TableType(u)
    BY <1>3, <1>5, <1>7 DEF TableOK, TableType
  <1>9. Entries(u) = {x \in Entries(t) : x.key # k} \cup {e}
    <2>1. \A x \in Entries(t) : x.key = k => x \in t.bucket[b]
      BY DEF TableOK, RightBucket, Entries, b
    <2>2. \A i \in 0..(t.size - 1) :
            u.bucket[i] = IF i = b
                          THEN {x \in t.bucket[b] : x.key # k} \cup {e}
                          ELSE t.bucket[i]
      BY <1>7 DEF TableOK, TableType
    <2>3. \A i \in 0..(t.size - 1) : i # b => \A x \in t.bucket[i] : x.key # k
      BY DEF TableOK, RightBucket, b
    <2>4. \A x : x \in Entries(t) <=> \E i \in 0..(t.size - 1) : x \in t.bucket[i]
      BY DEF Entries
    <2>5. \A x : x \in Entries(u) <=> \E i \in 0..(t.size - 1) : x \in u.bucket[i]
      BY <1>7 DEF Entries
    <2>6. ASSUME NEW x \in Entries(u)
          PROVE  x = e \/ (x \in Entries(t) /\ x.key # k)
      <3>1. PICK i \in 0..(t.size - 1) : x \in u.bucket[i]
        BY <2>5
      <3>2. CASE i = b
        BY <3>1, <3>2, <1>3, <2>2, <2>4
      <3>3. CASE i # b
        <4>1. x \in t.bucket[i]
          BY <3>1, <3>3, <2>2
        <4> QED BY <3>3, <4>1, <2>3, <2>4
      <3> QED BY <3>2, <3>3
    <2>7. ASSUME NEW x \in Entries(t), x.key # k
          PROVE  x \in Entries(u)
      <3>1. PICK i \in 0..(t.size - 1) : x \in t.bucket[i]
        BY <2>4
      <3>2. x \in u.bucket[i]
        BY <2>2, <2>7, <3>1
      <3> QED BY <2>5, <3>2
    <2>8. e \in Entries(u)
      BY <1>3, <2>2, <2>5
    <2> QED BY <2>6, <2>7, <2>8
  <1>10. UniqueKeys(u)
    BY <1>3, <1>9 DEF UniqueKeys, TableOK
  <1>11. RightBucket(u)
    <2>1. \A x \in Key : Index(u, x) = Index(t, x)
      BY <1>7 DEF Index
    <2>2. \A i \in 0..(t.size - 1) : \A x \in t.bucket[i] :
            x.key \in Key /\ Index(t, x.key) = i
      BY DEF TableOK, TableType, RightBucket, Entry
    <2>3. Index(t, k) = b
      BY DEF b
    <2> QED BY <1>3, <1>7, <2>1, <2>2, <2>3 DEF RightBucket, TableOK, TableType
  <1>12. u.used = Cardinality(Entries(u))
    <2>1. {x \in Entries(t) : x.key # k} = Entries(t) \ {o}
      BY <1>1 DEF TableOK, UniqueKeys
    <2>2. IsFiniteSet(Entries(t)) /\ t.used = Cardinality(Entries(t))
      BY EntriesAreEntries, EntriesFinite DEF TableOK, UniqueKeys
    <2>3. Entries(u) = (Entries(t) \ {o}) \cup {e} /\ e \notin Entries(t) \ {o}
      BY <1>3, <1>9, <2>1
    <2>4. /\ IsFiniteSet(Entries(t) \ {o})
          /\ Cardinality(Entries(t) \ {o}) = Cardinality(Entries(t)) - 1
      BY <1>1, <2>2, FS_RemoveElement
    <2>5. Cardinality(Entries(u)) = Cardinality(Entries(t) \ {o}) + 1
      BY <2>3, <2>4, FS_AddElement
    <2> QED BY <1>7, <2>2, <2>4, <2>5, FS_CardinalityType
  <1>13. \A i \in 0..(t.size - 1) : u.bucket[i] = {} <=> t.bucket[i] = {}
    BY <1>3, <1>4, <1>7 DEF TableOK, TableType
  <1> QED BY <1>7, <1>8, <1>9, <1>10, <1>11, <1>12, <1>13 DEF TableOK, u, e

\* Unlink takes the one entry of its key out.
LEMMA UnlinkOK ==
  ASSUME NEW t, TableOK(t), NEW k \in Key, find_in(t, k) # {}
  PROVE  /\ TableOK(Unlink(t, k))
         /\ Entries(Unlink(t, k)) = {e \in Entries(t) : e.key # k}
         /\ Unlink(t, k).size = t.size
         /\ \A i \in 0..(t.size - 1) : t.bucket[i] = {} => Unlink(t, k).bucket[i] = {}
  <1> DEFINE u == Unlink(t, k)
             b == Index(t, k)
  <1>1. PICK o \in Entries(t) : o.key = k
    BY FindIn
  <1>2. t.size > 0
    BY <1>1 DEF Entries, TableOK, TableType
  <1>3. b \in 0..(t.size - 1)
    BY <1>2, IndexInRange DEF TableOK
  <1>4. IsFiniteSet(Entries(t)) /\ t.used = Cardinality(Entries(t))
    BY EntriesAreEntries, EntriesFinite DEF TableOK, UniqueKeys
  <1>5. t.used \in Nat /\ t.used - 1 \in Nat
    BY <1>1, <1>4, FS_EmptySet, FS_CardinalityType
  <1>6. u = [size |-> t.size, used |-> t.used - 1,
             bucket |-> [t.bucket EXCEPT ![b] = {x \in @ : x.key # k}]]
    BY DEF Unlink
  <1> HIDE DEF u, b
  <1>7. /\ u.size = t.size
        /\ u.used = t.used - 1
        /\ u.bucket = [t.bucket EXCEPT ![b] = {x \in t.bucket[b] : x.key # k}]
    BY <1>6
  <1>8. TableType(u)
    BY <1>3, <1>5, <1>6, <1>7 DEF TableOK, TableType
  <1>9. Entries(u) = {x \in Entries(t) : x.key # k}
    <2>1. \A i \in 0..(t.size - 1) :
            u.bucket[i] = IF i = b THEN {x \in t.bucket[b] : x.key # k}
                                   ELSE t.bucket[i]
      BY <1>7 DEF TableOK, TableType
    <2>2. \A i \in 0..(t.size - 1) : i # b => \A x \in t.bucket[i] : x.key # k
      BY DEF TableOK, RightBucket, b
    <2>3. \A x : x \in Entries(t) <=> \E i \in 0..(t.size - 1) : x \in t.bucket[i]
      BY DEF Entries
    <2>4. \A x : x \in Entries(u) <=> \E i \in 0..(t.size - 1) : x \in u.bucket[i]
      BY <1>7 DEF Entries
    <2>5. ASSUME NEW x \in Entries(u)
          PROVE  x \in Entries(t) /\ x.key # k
      <3>1. PICK i \in 0..(t.size - 1) : x \in u.bucket[i]
        BY <2>4
      <3>2. x \in t.bucket[i] /\ x.key # k
        BY <1>3, <2>1, <2>2, <3>1
      <3> QED BY <2>3, <3>2
    <2>6. ASSUME NEW x \in Entries(t), x.key # k
          PROVE  x \in Entries(u)
      <3>1. PICK i \in 0..(t.size - 1) : x \in t.bucket[i]
        BY <2>3
      <3>2. x \in u.bucket[i]
        BY <2>1, <2>6, <3>1
      <3> QED BY <2>4, <3>2
    <2> QED BY <2>5, <2>6
  <1>10. UniqueKeys(u)
    BY <1>9 DEF UniqueKeys, TableOK
  <1>11. RightBucket(u)
    <2>1. \A x \in Key : Index(u, x) = Index(t, x)
      BY <1>7 DEF Index
    <2>2. \A i \in 0..(t.size - 1) : \A x \in t.bucket[i] :
            x.key \in Key /\ Index(t, x.key) = i
      BY DEF TableOK, TableType, RightBucket, Entry
    <2> QED BY <1>3, <1>7, <2>1, <2>2 DEF RightBucket, TableOK, TableType
  <1>12. u.used = Cardinality(Entries(u))
    <2>1. Entries(u) = Entries(t) \ {o}
      BY <1>1, <1>9 DEF TableOK, UniqueKeys
    <2> QED BY <1>1, <1>4, <1>7, <2>1, FS_RemoveElement
  <1>13. \A i \in 0..(t.size - 1) : t.bucket[i] = {} => u.bucket[i] = {}
    BY <1>3, <1>7 DEF TableOK, TableType
  <1> QED BY <1>7, <1>8, <1>9, <1>10, <1>11, <1>12, <1>13 DEF TableOK, u

-----------------------------------------------------------------------------
(***************************************************************************)
(* The two tables together.                                                *)
(***************************************************************************)
DictWF(d) ==
  /\ DictType(d)
  /\ UsedIsCount(d)
  /\ OneEntryPerKey(d)
  /\ InRightBuckets(d)
  /\ CursorInBounds(d)
  /\ PowerSizes(d)

\* The invariant restated: each table by itself, and what relates the two.
LEMMA DictWFParts ==
  ASSUME NEW d
  PROVE  DictWF(d) <=>
           /\ d = [ht0 |-> d.ht0, ht1 |-> d.ht1, rehashidx |-> d.rehashidx]
           /\ d.rehashidx \in Int
           /\ TableOK(d.ht0)
           /\ TableOK(d.ht1)
           /\ \A e \in Entries(d.ht0), f \in Entries(d.ht1) : e.key # f.key
           /\ CursorInBounds(d)
           /\ PowerSizes(d)
  BY DEF DictWF, DictType, UsedIsCount, OneEntryPerKey, InRightBuckets,
         TableOK, UniqueKeys, AllEntries

\* The numbers in the invariant.
LEMMA DictShape ==
  ASSUME NEW d, DictWF(d)
  PROVE  /\ d.ht0.size \in Nat /\ d.ht0.size > 0
         /\ d.ht1.size \in Nat
         /\ d.ht0.used \in Nat /\ d.ht1.used \in Nat
         /\ d.rehashidx \in Int
         /\ -1 <= d.rehashidx /\ d.rehashidx <= d.ht0.size
         /\ is_rehashing(d) => d.rehashidx >= 0 /\ d.ht1.size > 0
         /\ ~ is_rehashing(d) => d.rehashidx = -1 /\ d.ht1.size = 0
  <1>1. /\ TableType(d.ht0) /\ TableType(d.ht1)
        /\ CursorInBounds(d)
        /\ d.rehashidx \in Int
    BY DEF DictWF, DictType
  <1>2. /\ d.ht0.size \in Nat /\ d.ht1.size \in Nat
        /\ d.ht0.used \in Nat /\ d.ht1.used \in Nat
    BY <1>1 DEF TableType
  <1>3. d.ht0.size > 0 /\ -1 <= d.rehashidx /\ d.rehashidx <= d.ht0.size
    BY <1>1, <1>2 DEF CursorInBounds
  <1>4. is_rehashing(d) <=> d.ht1.size # 0
    BY <1>1 DEF CursorInBounds, IsNull
  <1> QED BY <1>1, <1>2, <1>3, <1>4 DEF is_rehashing

LEMMA EntriesOfDict ==
  ASSUME NEW d, DictWF(d)
  PROVE  /\ AllEntries(d) \subseteq Entry
         /\ IsFiniteSet(AllEntries(d))
         /\ Cardinality(AllEntries(d)) <= Cardinality(Key)
         /\ d.ht0.used <= Cardinality(Key)
         /\ size(d) = Cardinality(AllEntries(d))
  <1>1. AllEntries(d) \subseteq Entry
    BY DictWFParts, EntriesAreEntries DEF AllEntries, TableOK
  <1>2. /\ IsFiniteSet(AllEntries(d))
        /\ Cardinality(AllEntries(d)) <= Cardinality(Key)
    BY <1>1, EntriesFinite DEF DictWF, OneEntryPerKey
  <1>3. /\ IsFiniteSet(Entries(d.ht0))
        /\ IsFiniteSet(Entries(d.ht1))
        /\ Cardinality(Entries(d.ht0)) <= Cardinality(AllEntries(d))
    BY <1>2, FS_Subset DEF AllEntries
  <1>4. Cardinality(AllEntries(d)) =
          Cardinality(Entries(d.ht0)) + Cardinality(Entries(d.ht1))
    <2>1. Cardinality(Entries(d.ht0) \cap Entries(d.ht1)) = 0
      BY FS_EmptySet DEF DictWF, OneEntryPerKey
    <2>2. Cardinality(AllEntries(d)) =
            Cardinality(Entries(d.ht0)) + Cardinality(Entries(d.ht1))
              - Cardinality(Entries(d.ht0) \cap Entries(d.ht1))
      BY <1>3, FS_Union DEF AllEntries
    <2> QED BY <1>3, <2>1, <2>2, FS_CardinalityType
  <1>5. /\ d.ht0.used = Cardinality(Entries(d.ht0))
        /\ d.ht1.used = Cardinality(Entries(d.ht1))
    BY DEF DictWF, UsedIsCount
  <1>6. /\ Cardinality(Key) \in Nat
        /\ Cardinality(AllEntries(d)) \in Nat
        /\ Cardinality(Entries(d.ht0)) \in Nat
    BY <1>2, <1>3, KeysAssumption, FS_CardinalityType
  <1> QED BY <1>1, <1>2, <1>3, <1>4, <1>5, <1>6 DEF size

\* Growing and shrinking only start a rehash: no entry moves yet.
LEMMA StartRehashOK ==
  ASSUME NEW d, DictWF(d), ~ is_rehashing(d),
         NEW n \in PowersOfTwo \ {d.ht0.size}
  PROVE  /\ DictWF(StartRehash(d, n))
         /\ AllEntries(StartRehash(d, n)) = AllEntries(d)
  <1> DEFINE r == StartRehash(d, n)
  <1>1. n \in Nat /\ n > 0
    BY PowersArePositive
  <1>2. r = [ht0 |-> d.ht0, ht1 |-> allocate(n), rehashidx |-> 0]
    BY DEF StartRehash
  <1>3. r.ht0 = d.ht0 /\ r.ht1 = allocate(n) /\ r.rehashidx = 0
    BY <1>2
  <1> HIDE DEF r
  <1>4. /\ TableOK(r.ht1)
        /\ Entries(r.ht1) = {}
        /\ r.ht1.size = n
    BY <1>1, <1>3, AllocateOK
  <1>5. Entries(d.ht1) = {}
    BY DictWFParts DEF CursorInBounds, IsNull, Entries
  <1>6. CursorInBounds(r)
    <2>1. d.ht0.size \in Nat /\ d.ht0.size > 0
      BY DictWFParts DEF CursorInBounds, TableOK, TableType
    <2>2. EntriesIn(r.ht0, 0, 0) = {}
      BY DEF EntriesIn
    <2> QED BY <1>1, <1>3, <1>4, <2>1, <2>2
        DEF CursorInBounds, IsNull, is_rehashing
  <1>7. PowerSizes(r)
    BY <1>3, <1>4, DictWFParts DEF PowerSizes
  <1> QED BY <1>2, <1>3, <1>4, <1>5, <1>6, <1>7, DictWFParts DEF AllEntries, r

LEMMA MaybeExpandOK ==
  ASSUME NEW d, DictWF(d)
  PROVE  /\ DictWF(maybe_expand(d))
         /\ AllEntries(maybe_expand(d)) = AllEntries(d)
         /\ maybe_expand(d).ht0 = d.ht0
  <1>1. CASE is_rehashing(d) \/ d.ht0.used <= d.ht0.size
    BY <1>1 DEF maybe_expand
  <1>2. CASE ~ (is_rehashing(d) \/ d.ht0.used <= d.ht0.size)
    <2>1. d.ht0.used \in Nat /\ d.ht0.size \in Nat /\ d.ht0.size > 0
      BY DictWFParts DEF TableOK, TableType, CursorInBounds
    <2>2. Cardinality(Key) \in Nat /\ MaxBuckets \in Nat
      BY KeysAssumption, FS_CardinalityType, SMT DEF MaxBuckets
    <2>3. /\ 2 * d.ht0.used \in Nat
          /\ 1 <= 2 * d.ht0.used
          /\ 2 * d.ht0.used <= MaxBuckets
      BY <1>2, <2>1, <2>2, EntriesOfDict, KeysAssumption
    <2>4. /\ bit_ceil(2 * d.ht0.used) \in PowersOfTwo
          /\ bit_ceil(2 * d.ht0.used) >= 2 * d.ht0.used
      BY <2>3, BitCeil
    <2>5. bit_ceil(2 * d.ht0.used) # d.ht0.size
      BY <1>2, <2>1, <2>4
    <2> QED BY <1>2, <2>4, <2>5, StartRehashOK DEF maybe_expand, StartRehash
  <1> QED BY <1>1, <1>2

LEMMA MaybeShrinkOK ==
  ASSUME NEW d, DictWF(d)
  PROVE  /\ DictWF(maybe_shrink(d))
         /\ AllEntries(maybe_shrink(d)) = AllEntries(d)
         /\ maybe_shrink(d).ht0 = d.ht0
  <1> DEFINE Keeps == \/ is_rehashing(d)
                      \/ d.ht0.size <= InitialSize
                      \/ 10 * d.ht0.used >= d.ht0.size
             n == IF d.ht0.used < InitialSize THEN InitialSize ELSE d.ht0.used
  <1>1. CASE Keeps
    BY <1>1 DEF maybe_shrink
  <1>2. CASE ~ Keeps
    <2>1. d.ht0.used \in Nat /\ d.ht0.size \in Nat /\ d.ht0.size > 0
      BY DictWFParts DEF TableOK, TableType, CursorInBounds
    <2>2. Cardinality(Key) \in Nat /\ MaxBuckets \in Nat /\ MaxBuckets >= 4
      BY KeysAssumption, FS_CardinalityType, SMT DEF MaxBuckets
    <2>3. n \in Nat /\ 1 <= n /\ n <= MaxBuckets
      BY <2>1, <2>2, EntriesOfDict, KeysAssumption DEF InitialSize
    <2>4. bit_ceil(n) \in PowersOfTwo /\ bit_ceil(n) < 2 * n
      BY <2>3, BitCeil
    <2>5. bit_ceil(n) # d.ht0.size
      <3>1. CASE d.ht0.used < InitialSize
        <4>1. bit_ceil(n) \in PowersOfTwo /\ bit_ceil(n) < 8
          BY <3>1, <2>4 DEF InitialSize
        <4>2. d.ht0.size \in PowersOfTwo /\ d.ht0.size > 4
          BY <1>2, <2>1, DictWFParts DEF PowerSizes, InitialSize
        <4> QED BY <4>1, <4>2, SMT DEF PowersOfTwo, MaxBuckets
      <3>2. CASE ~ (d.ht0.used < InitialSize)
        <4>1. bit_ceil(n) \in Nat
          BY <2>4, PowersArePositive
        <4> QED BY <1>2, <2>1, <2>4, <3>2, <4>1 DEF InitialSize
      <3> QED BY <3>1, <3>2
    <2> QED BY <1>2, <2>4, <2>5, StartRehashOK DEF maybe_shrink, StartRehash
  <1> QED BY <1>1, <1>2

-----------------------------------------------------------------------------
(***************************************************************************)
(* The rehash.                                                             *)
(***************************************************************************)
\* A set of naturals has a least element, and Min is it.
LEMMA MinOfNaturals ==
  ASSUME NEW S, S \subseteq Nat, S # {}
  PROVE  Min(S) \in S /\ \A y \in S : Min(S) <= y
  <1> DEFINE R == {ss \in Nat \X Nat : ss[1] < ss[2]}
  <1>0. IsWellFoundedOn(R, Nat)
    BY NatLessThanWellFounded, Zenon DEF OpToRel
  <1>1. \E x \in S : \A y \in S : ~ (<<y, x>> \in R)
    BY <1>0, WFMin
  <1>2. \A x, y \in Nat : y < x => <<y, x>> \in R
    OBVIOUS
  <1> HIDE DEF R
  <1>3. \E x \in S : \A y \in S : x <= y
    <2>1. PICK x \in S : \A y \in S : ~ (<<y, x>> \in R)
      BY <1>1
    <2>2. \A y \in S : ~ (y < x) /\ x \in Nat /\ y \in Nat
      BY <1>2, <2>1
    <2> QED BY <2>2
  <1> QED BY <1>3 DEF Min

\* The entries from the cursor on are all that ht0 has.
LEMMA NothingBelowCursor ==
  ASSUME NEW d, DictWF(d), is_rehashing(d)
  PROVE  /\ d.rehashidx \in 0..d.ht0.size
         /\ d.ht0.size \in Nat
         /\ \A i \in 0..(d.ht0.size - 1) : i < d.rehashidx => d.ht0.bucket[i] = {}
         /\ EntriesIn(d.ht0, d.rehashidx, d.ht0.size) = Entries(d.ht0)
  <1>1. d.ht0.size \in Nat /\ d.rehashidx \in 0..d.ht0.size
    BY DictShape
  <1>2. \A i \in 0..(d.ht0.size - 1) : i < d.rehashidx => d.ht0.bucket[i] = {}
    BY <1>1, DictWFParts DEF CursorInBounds, EntriesIn
  <1>3. EntriesIn(d.ht0, d.rehashidx, d.ht0.size) = Entries(d.ht0)
    BY <1>1, <1>2 DEF EntriesIn, Entries
  <1> QED BY <1>1, <1>2, <1>3

\* The scan stops inside the bucket array, and it has moved on unless there
\* was nothing left to move.
LEMMA ScanEndInBounds ==
  ASSUME NEW d, DictWF(d), is_rehashing(d), NEW n \in Nat \ {0}
  PROVE  /\ ScanEnd(d, n) \in d.rehashidx..d.ht0.size
         /\ d.ht0.used > 0 => ScanEnd(d, n) > d.rehashidx
  <1> DEFINE T == {b \in d.rehashidx..d.ht0.size : ScanStops(d, n, b)}
             S == T \cup {d.ht0.size + 1}
  <1>1. d.rehashidx \in 0..d.ht0.size /\ d.ht0.size \in Nat
    BY NothingBelowCursor
  <1>2. d.ht0.size \in T
    <2>1. d.ht0.used = Cardinality(EntriesIn(d.ht0, d.rehashidx, d.ht0.size))
      BY NothingBelowCursor DEF DictWF, UsedIsCount
    <2> QED BY <1>1, <2>1 DEF ScanStops
  <1>3. S \subseteq Nat /\ S # {}
    BY <1>1
  <1>4. Min(S) \in S /\ \A y \in S : Min(S) <= y
    BY <1>3, MinOfNaturals
  <1>5. Min(S) \in T
    BY <1>1, <1>2, <1>4
  <1>6. d.ht0.used > 0 => ~ ScanStops(d, n, d.rehashidx)
    <2>1. d.rehashidx..(d.rehashidx - 1) = {}
      BY <1>1
    <2>2. EntriesIn(d.ht0, d.rehashidx, d.rehashidx) = {}
      BY <1>1 DEF EntriesIn
    <2>3. Cardinality({}) = 0
      BY FS_EmptySet
    <2>4. {i \in {} : d.ht0.bucket[i] = {}} = {}
      OBVIOUS
    <2>5. ScanStops(d, n, d.rehashidx) <=>
            0 - 0 = n \/ 0 = EmptyPerStep * n \/ d.ht0.used = 0
      BY <2>1, <2>2, <2>3, <2>4 DEF ScanStops
    <2> QED BY <2>5, DictShape DEF EmptyPerStep
  <1> QED BY <1>1, <1>5, <1>6 DEF ScanEnd

\* Migrating a run of buckets moves their entries and loses none.
LEMMA MigrateOK ==
  ASSUME NEW d, DictWF(d), is_rehashing(d), NEW b \in d.rehashidx..d.ht0.size
  PROVE  /\ DictWF(Migrate(d, b))
         /\ AllEntries(Migrate(d, b)) = AllEntries(d)
  <1> DEFINE moved == EntriesIn(d.ht0, d.rehashidx, b)
             n == Cardinality(moved)
             m == Migrate(d, b)
             src == m.ht0
             dst == m.ht1
             lo == d.rehashidx
  <1>1. lo \in 0..d.ht0.size /\ d.ht0.size \in Nat /\ b \in Nat /\ b <= d.ht0.size
    BY NothingBelowCursor
  <1>2. d.ht1.size \in Nat /\ d.ht1.size > 0
    BY DictShape
  <1>3. /\ src.size = d.ht0.size
        /\ src.used = d.ht0.used - n
        /\ src.bucket = [i \in 0..(d.ht0.size - 1) |->
                           IF lo <= i /\ i < b THEN {} ELSE d.ht0.bucket[i]]
        /\ src = [size |-> src.size, used |-> src.used, bucket |-> src.bucket]
    BY DEF Migrate
  <1>4. /\ dst.size = d.ht1.size
        /\ dst.used = d.ht1.used + n
        /\ dst.bucket = [i \in 0..(d.ht1.size - 1) |->
                           d.ht1.bucket[i]
                             \cup {e \in moved : Index(d.ht1, e.key) = i}]
        /\ dst = [size |-> dst.size, used |-> dst.used, bucket |-> dst.bucket]
    BY DEF Migrate
  <1>5. m = [ht0 |-> src, ht1 |-> dst, rehashidx |-> b] /\ m.rehashidx = b
    BY DEF Migrate
  <1>6. \A x : x \in moved <=>
          \E i \in 0..(d.ht0.size - 1) : lo <= i /\ i < b /\ x \in d.ht0.bucket[i]
    BY DEF EntriesIn
  <1> HIDE DEF moved, n, m, src, dst, lo
  <1>7. /\ TableOK(d.ht0) /\ TableOK(d.ht1)
        /\ \A e \in Entries(d.ht0), f \in Entries(d.ht1) : e.key # f.key
    BY DictWFParts
  <1>8. moved \subseteq Entries(d.ht0) /\ moved \subseteq Entry
    BY <1>6, <1>7, EntriesAreEntries DEF Entries, TableOK
  <1>9. Entries(src) = Entries(d.ht0) \ moved
    <2>1. \A x : x \in Entries(src) <=>
            \E i \in 0..(d.ht0.size - 1) : ~ (lo <= i /\ i < b) /\ x \in d.ht0.bucket[i]
      BY <1>3 DEF Entries
    <2>2. \A x : x \in Entries(d.ht0) <=>
            \E i \in 0..(d.ht0.size - 1) : x \in d.ht0.bucket[i]
      BY DEF Entries
    <2>3. \A i, j \in 0..(d.ht0.size - 1) : \A x \in d.ht0.bucket[i] :
            x \in d.ht0.bucket[j] => i = j
      BY <1>7 DEF TableOK, RightBucket
    <2>4. ASSUME NEW x \in Entries(src) PROVE x \in Entries(d.ht0) /\ x \notin moved
      BY <1>6, <2>1, <2>2, <2>3
    <2>5. ASSUME NEW x \in Entries(d.ht0), x \notin moved PROVE x \in Entries(src)
      BY <1>6, <2>1, <2>2, <2>5
    <2> QED BY <2>4, <2>5
  <1>10. Entries(dst) = Entries(d.ht1) \cup moved
    <2>1. \A x : x \in Entries(dst) <=>
            \E i \in 0..(d.ht1.size - 1) :
              x \in d.ht1.bucket[i] \/ (x \in moved /\ Index(d.ht1, x.key) = i)
      BY <1>4 DEF Entries
    <2>2. \A x : x \in Entries(d.ht1) <=>
            \E i \in 0..(d.ht1.size - 1) : x \in d.ht1.bucket[i]
      BY DEF Entries
    <2>3. \A x \in moved : Index(d.ht1, x.key) \in 0..(d.ht1.size - 1)
      BY <1>2, <1>7, <1>8, IndexInRange DEF TableOK, Entry
    <2>4. ASSUME NEW x \in Entries(dst) PROVE x \in Entries(d.ht1) \cup moved
      BY <2>1, <2>2
    <2>5. ASSUME NEW x \in Entries(d.ht1) \cup moved PROVE x \in Entries(dst)
      BY <2>1, <2>2, <2>3
    <2> QED BY <2>4, <2>5
  <1>11. /\ IsFiniteSet(moved) /\ n \in Nat
         /\ IsFiniteSet(Entries(d.ht0)) /\ IsFiniteSet(Entries(d.ht1))
         /\ Cardinality(Entries(src)) = d.ht0.used - n
         /\ Cardinality(Entries(dst)) = d.ht1.used + n
         /\ d.ht0.used - n \in Nat /\ d.ht1.used + n \in Nat
    <2>1. IsFiniteSet(Entries(d.ht0)) /\ IsFiniteSet(Entries(d.ht1))
      BY <1>7, EntriesAreEntries, EntriesFinite DEF TableOK, UniqueKeys
    <2>2. IsFiniteSet(moved) /\ IsFiniteSet(Entries(d.ht0) \ moved)
      BY <1>8, <2>1, FS_Subset
    <2>3. /\ n \in Nat
          /\ Cardinality(Entries(d.ht0) \ moved) \in Nat
          /\ Cardinality(Entries(d.ht1)) \in Nat
      BY <2>1, <2>2, FS_CardinalityType DEF n
    <2>4. /\ (Entries(d.ht0) \ moved) \cup moved = Entries(d.ht0)
          /\ (Entries(d.ht0) \ moved) \cap moved = {}
          /\ Entries(d.ht1) \cap moved = {}
      BY <1>7, <1>8
    <2>5. Cardinality(Entries(d.ht0)) = Cardinality(Entries(d.ht0) \ moved) + n - 0
      BY <2>2, <2>4, FS_Union, FS_EmptySet DEF n
    <2>6. Cardinality(Entries(d.ht1) \cup moved) = Cardinality(Entries(d.ht1)) + n - 0
      BY <2>1, <2>2, <2>4, FS_Union, FS_EmptySet DEF n
    <2>7. d.ht0.used = Cardinality(Entries(d.ht0)) /\ d.ht1.used = Cardinality(Entries(d.ht1))
      BY <1>7 DEF TableOK
    <2> QED BY <1>9, <1>10, <2>1, <2>2, <2>3, <2>5, <2>6, <2>7
  <1>12. TableOK(src)
    <2>1. TableType(src)
      <3>1. src.bucket \in [0..(d.ht0.size - 1) -> SUBSET Entry]
        BY <1>3, <1>7 DEF TableOK, TableType
      <3> QED BY <1>1, <1>3, <1>11, <3>1 DEF TableType
    <2>2. UniqueKeys(src)
      BY <1>7, <1>9 DEF UniqueKeys, TableOK
    <2>3. RightBucket(src)
      BY <1>3, <1>7 DEF RightBucket, TableOK, Index
    <2> QED BY <1>3, <1>11, <2>1, <2>2, <2>3 DEF TableOK
  <1>13. TableOK(dst)
    <2>1. TableType(dst)
      <3>1. dst.bucket \in [0..(d.ht1.size - 1) -> SUBSET Entry]
        BY <1>4, <1>7, <1>8 DEF TableOK, TableType
      <3> QED BY <1>2, <1>4, <1>11, <3>1 DEF TableType
    <2>2. UniqueKeys(dst)
      BY <1>7, <1>8, <1>10 DEF UniqueKeys, TableOK
    <2>3. RightBucket(dst)
      BY <1>4, <1>7 DEF RightBucket, TableOK, Index
    <2> QED BY <1>4, <1>11, <2>1, <2>2, <2>3 DEF TableOK
  <1>14. \A e \in Entries(src), f \in Entries(dst) : e.key # f.key
    BY <1>7, <1>8, <1>9, <1>10 DEF TableOK, UniqueKeys
  <1>15. m.ht0 = src /\ m.ht1 = dst
    BY DEF src, dst
  <1>16. CursorInBounds(m)
    <2>1. EntriesIn(src, 0, b) = {}
      <3>1. \A i \in 0..(src.size - 1) : i < b => src.bucket[i] = {}
        BY <1>1, <1>3, NothingBelowCursor DEF lo
      <3> QED BY <3>1 DEF EntriesIn
    <2> QED BY <1>1, <1>2, <1>3, <1>4, <1>5, <1>15, <2>1, DictWFParts
        DEF CursorInBounds, is_rehashing, IsNull
  <1>17. PowerSizes(m)
    BY <1>3, <1>4, <1>15, DictWFParts DEF PowerSizes
  <1>18. DictWF(m)
    BY <1>1, <1>5, <1>12, <1>13, <1>14, <1>15, <1>16, <1>17, DictWFParts
  <1>19. AllEntries(m) = AllEntries(d)
    BY <1>8, <1>9, <1>10, <1>15 DEF AllEntries
  <1> QED BY <1>18, <1>19 DEF m

\* Putting the second table in the place of a drained first one.
LEMMA SwapOK ==
  ASSUME NEW d, DictWF(d), is_rehashing(d), d.ht0.used = 0
  PROVE  DictWF(Swap(d)) /\ AllEntries(Swap(d)) = AllEntries(d)
  <1> DEFINE s == Swap(d)
  <1>1. /\ s = [ht0 |-> d.ht1, ht1 |-> NullTable, rehashidx |-> -1]
        /\ s.ht0 = d.ht1 /\ s.ht1 = NullTable /\ s.rehashidx = -1
    BY DEF Swap
  <1>2. TableOK(NullTable) /\ Entries(NullTable) = {} /\ NullTable.size = 0
    BY AllocateOK DEF NullTable
  <1>3. Entries(d.ht0) = {}
    BY DictWFParts, EntriesAreEntries, EntriesFinite, FS_EmptySet
    DEF TableOK, UniqueKeys
  <1> HIDE DEF s
  <1>4. TableOK(d.ht1) /\ d.ht1.size \in Nat /\ d.ht1.size > 0
    BY DictShape, DictWFParts
  <1>5. CursorInBounds(s)
    <2>1. EntriesIn(s.ht0, 0, -1) = {}
      BY <1>1, <1>4 DEF EntriesIn
    <2> QED BY <1>1, <1>2, <1>4, <2>1 DEF CursorInBounds, is_rehashing, IsNull
  <1>6. PowerSizes(s)
    BY <1>1, DictWFParts DEF PowerSizes, is_rehashing
  <1> QED BY <1>1, <1>2, <1>3, <1>4, <1>5, <1>6, DictWFParts DEF AllEntries, s

\* A rehash step keeps the dict well formed and every entry in it, and either
\* ends the rehash or moves its cursor on.
LEMMA RehashStepOK ==
  ASSUME NEW d, DictWF(d), NEW n \in Nat \ {0}
  PROVE  /\ DictWF(rehash_step(d, n))
         /\ AllEntries(rehash_step(d, n)) = AllEntries(d)
         /\ \/ /\ rehash_step(d, n).rehashidx = -1
               /\ is_rehashing(d) => rehash_step(d, n).ht0.size = d.ht1.size
            \/ /\ rehash_step(d, n).rehashidx > d.rehashidx
               /\ is_rehashing(d)
               /\ rehash_step(d, n).ht0.size = d.ht0.size
  <1>1. CASE ~ is_rehashing(d)
    <2>1. d.rehashidx = -1
      BY <1>1, DictShape
    <2> QED BY <1>1, <2>1 DEF rehash_step
  <1>2. CASE is_rehashing(d)
    <2> DEFINE b == ScanEnd(d, n)
               m == Migrate(d, b)
    <2>1. b \in d.rehashidx..d.ht0.size /\ (d.ht0.used > 0 => b > d.rehashidx)
      BY <1>2, ScanEndInBounds
    <2>2. d.rehashidx \in Int /\ d.rehashidx >= 0 /\ d.ht0.used \in Nat
      BY <1>2, DictWFParts DEF is_rehashing, TableOK, TableType
    <2>3. DictWF(m) /\ AllEntries(m) = AllEntries(d)
      BY <1>2, <2>1, MigrateOK
    <2>4. /\ m.rehashidx = b /\ is_rehashing(m)
          /\ m.ht0.size = d.ht0.size /\ m.ht1.size = d.ht1.size
      BY <2>1, <2>2 DEF Migrate, is_rehashing
    <2>5. rehash_step(d, n) = IF m.ht0.used = 0 THEN Swap(m) ELSE m
      BY <1>2 DEF rehash_step
    <2> HIDE DEF m, b
    <2>6. CASE m.ht0.used = 0
      BY <2>3, <2>4, <2>5, <2>6, SwapOK DEF Swap
    <2>7. CASE m.ht0.used # 0
      <3>1. d.ht0.used > 0
        <4>1. Entries(m.ht0) \subseteq Entries(d.ht0)
          BY <2>1, <2>2 DEF Migrate, Entries, m
        <4>2. TableOK(m.ht0) /\ TableOK(d.ht0)
          BY <2>3, DictWFParts
        <4>3. Entries(m.ht0) # {}
          BY <2>7, <4>2, FS_EmptySet DEF TableOK
        <4>4. IsFiniteSet(Entries(d.ht0))
          BY <4>2, EntriesAreEntries, EntriesFinite DEF TableOK, UniqueKeys
        <4> QED BY <2>2, <4>1, <4>2, <4>3, <4>4, FS_EmptySet DEF TableOK
      <3> QED BY <1>2, <2>1, <2>3, <2>4, <2>5, <2>7, <3>1
    <2> QED BY <2>6, <2>7
  <1> QED BY <1>1, <1>2

-----------------------------------------------------------------------------
(***************************************************************************)
(* The operations.                                                         *)
(***************************************************************************)
Without(E, k) == {e \in E : e.key # k}

\* Replacing a table by another with the same size and, for ht0, with nothing
\* below the cursor.
LEMMA WithHt0OK ==
  ASSUME NEW d, DictWF(d), NEW t, TableOK(t), t.size = d.ht0.size,
         \A e \in Entries(t), f \in Entries(d.ht1) : e.key # f.key,
         is_rehashing(d) =>
           \A i \in 0..(t.size - 1) : i < d.rehashidx => t.bucket[i] = {}
  PROVE  /\ DictWF(WithHt0(d, t))
         /\ AllEntries(WithHt0(d, t)) = Entries(t) \cup Entries(d.ht1)
         /\ WithHt0(d, t).rehashidx = d.rehashidx
         /\ WithHt0(d, t).ht0.size = d.ht0.size
  <1> DEFINE r == WithHt0(d, t)
  <1>1. /\ r = [ht0 |-> t, ht1 |-> d.ht1, rehashidx |-> d.rehashidx]
        /\ r.ht0 = t /\ r.ht1 = d.ht1 /\ r.rehashidx = d.rehashidx
    BY DEF WithHt0
  <1> HIDE DEF r
  <1>2. CursorInBounds(r)
    <2>1. EntriesIn(t, 0, d.rehashidx) = {}
      <3>1. CASE is_rehashing(d)
        BY <3>1 DEF EntriesIn
      <3>2. CASE ~ is_rehashing(d)
        <4>1. d.rehashidx = -1
          BY <3>2, DictShape
        <4>2. {j \in 0..(t.size - 1) : 0 <= j /\ j < -1} = {}
          BY DictShape
        <4> QED BY <4>1, <4>2 DEF EntriesIn
      <3> QED BY <3>1, <3>2
    <2> QED BY <1>1, <2>1, DictWFParts DEF CursorInBounds, is_rehashing
  <1>3. PowerSizes(r)
    BY <1>1, DictWFParts DEF PowerSizes, is_rehashing
  <1> QED BY <1>1, <1>2, <1>3, DictWFParts DEF AllEntries, r

LEMMA WithHt1OK ==
  ASSUME NEW d, DictWF(d), NEW t, TableOK(t), t.size = d.ht1.size,
         \A e \in Entries(d.ht0), f \in Entries(t) : e.key # f.key
  PROVE  /\ DictWF(WithHt1(d, t))
         /\ AllEntries(WithHt1(d, t)) = Entries(d.ht0) \cup Entries(t)
         /\ WithHt1(d, t).rehashidx = d.rehashidx
         /\ WithHt1(d, t).ht0.size = d.ht0.size
  <1> DEFINE r == WithHt1(d, t)
  <1>1. /\ r = [ht0 |-> d.ht0, ht1 |-> t, rehashidx |-> d.rehashidx]
        /\ r.ht0 = d.ht0 /\ r.ht1 = t /\ r.rehashidx = d.rehashidx
    BY DEF WithHt1
  <1> HIDE DEF r
  <1>2. CursorInBounds(r)
    BY <1>1, DictWFParts DEF CursorInBounds, is_rehashing, IsNull
  <1>3. PowerSizes(r)
    BY <1>1, DictWFParts DEF PowerSizes, is_rehashing
  <1> QED BY <1>1, <1>2, <1>3, DictWFParts DEF AllEntries, r

\* What a lookup finds is what the two tables hold, whichever table has it.
LEMMA FoundOK ==
  ASSUME NEW d, DictWF(d), NEW k \in Key
  PROVE  /\ Found(d, k) = {e \in AllEntries(d) : e.key = k}
         /\ find_in(d.ht0, k) = {e \in Entries(d.ht0) : e.key = k}
         /\ find_in(d.ht1, k) = {e \in Entries(d.ht1) : e.key = k}
         /\ ~ is_rehashing(d) => Entries(d.ht1) = {}
  <1>1. /\ find_in(d.ht0, k) = {e \in Entries(d.ht0) : e.key = k}
        /\ find_in(d.ht1, k) = {e \in Entries(d.ht1) : e.key = k}
    BY DictWFParts, FindIn
  <1>2. ~ is_rehashing(d) => Entries(d.ht1) = {}
    BY DictShape DEF Entries
  <1>3. \A e \in Entries(d.ht0), f \in Entries(d.ht1) : e.key # f.key
    BY DictWFParts
  <1> QED BY <1>1, <1>2, <1>3 DEF Found, AllEntries

\* set: the key has the new value and every other entry is as it was.
LEMMA SetInOK ==
  ASSUME NEW d, DictWF(d), NEW k \in Key, NEW v \in Val
  PROVE  /\ DictWF(SetIn(d, k, v))
         /\ AllEntries(SetIn(d, k, v)) =
              Without(AllEntries(d), k) \cup {[key |-> k, val |-> v]}
         /\ is_rehashing(d) => SetIn(d, k, v).rehashidx = d.rehashidx
         /\ SetIn(d, k, v).ht0.size = d.ht0.size
  <1> DEFINE e == [key |-> k, val |-> v]
  <1>1. /\ TableOK(d.ht0) /\ TableOK(d.ht1)
        /\ \A x \in Entries(d.ht0), y \in Entries(d.ht1) : x.key # y.key
    BY DictWFParts
  <1>2. /\ d.ht0.size > 0
        /\ is_rehashing(d) => d.ht1.size > 0
        /\ e.key = k
    BY DictShape
  <1>3. /\ find_in(d.ht0, k) = {x \in Entries(d.ht0) : x.key = k}
        /\ find_in(d.ht1, k) = {x \in Entries(d.ht1) : x.key = k}
        /\ ~ is_rehashing(d) => Entries(d.ht1) = {}
    BY FoundOK
  <1>4. is_rehashing(d) =>
          \A i \in 0..(d.ht0.size - 1) : i < d.rehashidx => d.ht0.bucket[i] = {}
    BY NothingBelowCursor
  <1>5. CASE find_in(d.ht0, k) # {}
    <2> DEFINE u == Update(d.ht0, k, v)
    <2>1. /\ TableOK(u) /\ u.size = d.ht0.size
          /\ Entries(u) = {x \in Entries(d.ht0) : x.key # k} \cup {e}
          /\ \A i \in 0..(d.ht0.size - 1) : u.bucket[i] = {} <=> d.ht0.bucket[i] = {}
      BY <1>1, <1>5, UpdateOK
    <2>2. SetIn(d, k, v) = WithHt0(d, u)
      BY <1>5 DEF SetIn
    <2> HIDE DEF u
    <2>3. \A x \in Entries(d.ht1) : x.key # k
      BY <1>1, <1>3, <1>5
    <2>4. \A x \in Entries(u), y \in Entries(d.ht1) : x.key # y.key
      BY <1>1, <1>2, <2>1, <2>3
    <2>5. is_rehashing(d) =>
            \A i \in 0..(u.size - 1) : i < d.rehashidx => u.bucket[i] = {}
      BY <1>4, <2>1
    <2>6. /\ DictWF(WithHt0(d, u))
          /\ AllEntries(WithHt0(d, u)) = Entries(u) \cup Entries(d.ht1)
          /\ WithHt0(d, u).rehashidx = d.rehashidx
          /\ WithHt0(d, u).ht0.size = d.ht0.size
      BY <2>1, <2>4, <2>5, WithHt0OK
    <2> QED BY <2>1, <2>2, <2>3, <2>6 DEF AllEntries, Without
  <1>6. CASE find_in(d.ht0, k) = {} /\ is_rehashing(d)
    <2>1. \A x \in Entries(d.ht0) : x.key # k
      BY <1>3, <1>6
    <2>2. CASE find_in(d.ht1, k) # {}
      <3> DEFINE u == Update(d.ht1, k, v)
      <3>1. /\ TableOK(u) /\ u.size = d.ht1.size
            /\ Entries(u) = {x \in Entries(d.ht1) : x.key # k} \cup {e}
        BY <1>1, <2>2, UpdateOK
      <3>2. SetIn(d, k, v) = WithHt1(d, u)
        BY <1>6, <2>2 DEF SetIn
      <3> HIDE DEF u
      <3>3. \A x \in Entries(d.ht0), y \in Entries(u) : x.key # y.key
        BY <1>1, <1>2, <2>1, <3>1
      <3>4. /\ DictWF(WithHt1(d, u))
            /\ AllEntries(WithHt1(d, u)) = Entries(d.ht0) \cup Entries(u)
            /\ WithHt1(d, u).rehashidx = d.rehashidx
            /\ WithHt1(d, u).ht0.size = d.ht0.size
        BY <3>1, <3>3, WithHt1OK
      <3> QED BY <2>1, <3>1, <3>2, <3>4 DEF AllEntries, Without
    <2>3. CASE find_in(d.ht1, k) = {}
      <3> DEFINE u == Insert(d.ht1, k, v)
                 w == WithHt1(d, u)
      <3>1. /\ TableOK(u) /\ u.size = d.ht1.size
            /\ Entries(u) = Entries(d.ht1) \cup {e}
        BY <1>1, <1>2, <1>6, <2>3, InsertOK
      <3>2. SetIn(d, k, v) = maybe_expand(w)
        BY <1>6, <2>3 DEF SetIn
      <3> HIDE DEF u
      <3>3. \A x \in Entries(d.ht0), y \in Entries(u) : x.key # y.key
        BY <1>1, <1>2, <2>1, <3>1
      <3>4. /\ DictWF(w)
            /\ AllEntries(w) = Entries(d.ht0) \cup Entries(u)
            /\ w.rehashidx = d.rehashidx
            /\ w.ht0.size = d.ht0.size
        BY <3>1, <3>3, WithHt1OK
      <3>5. maybe_expand(w) = w
        BY <1>6, <3>4 DEF maybe_expand, is_rehashing
      <3>6. \A x \in Entries(d.ht1) : x.key # k
        BY <1>3, <2>3
      <3> QED BY <2>1, <3>1, <3>2, <3>4, <3>5, <3>6 DEF AllEntries, Without
    <2> QED BY <2>2, <2>3
  <1>7. CASE find_in(d.ht0, k) = {} /\ ~ is_rehashing(d)
    <2> DEFINE u == Insert(d.ht0, k, v)
               w == WithHt0(d, u)
    <2>1. /\ TableOK(u) /\ u.size = d.ht0.size
          /\ Entries(u) = Entries(d.ht0) \cup {e}
      BY <1>1, <1>2, <1>7, InsertOK
    <2>2. SetIn(d, k, v) = maybe_expand(w)
      BY <1>7 DEF SetIn
    <2> HIDE DEF u
    <2>3. Entries(d.ht1) = {}
      BY <1>3, <1>7
    <2>4. /\ DictWF(w)
          /\ AllEntries(w) = Entries(u) \cup Entries(d.ht1)
          /\ w.ht0.size = d.ht0.size
      BY <1>7, <2>1, <2>3, WithHt0OK
    <2>5. /\ DictWF(maybe_expand(w))
          /\ AllEntries(maybe_expand(w)) = AllEntries(w)
          /\ maybe_expand(w).ht0 = w.ht0
      BY <2>4, MaybeExpandOK
    <2>6. \A x \in Entries(d.ht0) : x.key # k
      BY <1>3, <1>7
    <2> QED BY <1>7, <2>1, <2>2, <2>3, <2>4, <2>5, <2>6 DEF AllEntries, Without
  <1> QED BY <1>5, <1>6, <1>7

\* del: the key is gone and every other entry is as it was.
LEMMA DelInOK ==
  ASSUME NEW d, DictWF(d), NEW k \in Key
  PROVE  /\ DictWF(DelIn(d, k))
         /\ AllEntries(DelIn(d, k)) = Without(AllEntries(d), k)
         /\ is_rehashing(d) => DelIn(d, k).rehashidx = d.rehashidx
         /\ DelIn(d, k).ht0.size = d.ht0.size
  <1>1. /\ TableOK(d.ht0) /\ TableOK(d.ht1)
        /\ \A x \in Entries(d.ht0), y \in Entries(d.ht1) : x.key # y.key
    BY DictWFParts
  <1>2. /\ find_in(d.ht0, k) = {x \in Entries(d.ht0) : x.key = k}
        /\ find_in(d.ht1, k) = {x \in Entries(d.ht1) : x.key = k}
        /\ ~ is_rehashing(d) => Entries(d.ht1) = {}
    BY FoundOK
  <1>3. is_rehashing(d) =>
          \A i \in 0..(d.ht0.size - 1) : i < d.rehashidx => d.ht0.bucket[i] = {}
    BY NothingBelowCursor
  <1>4. \A w : /\ is_rehashing(d) /\ w.rehashidx = d.rehashidx
               => maybe_shrink(w) = w
    BY DEF maybe_shrink, is_rehashing
  <1>5. CASE find_in(d.ht0, k) # {}
    <2> DEFINE u == Unlink(d.ht0, k)
               w == WithHt0(d, u)
    <2>1. /\ TableOK(u) /\ u.size = d.ht0.size
          /\ Entries(u) = {x \in Entries(d.ht0) : x.key # k}
          /\ \A i \in 0..(d.ht0.size - 1) : d.ht0.bucket[i] = {} => u.bucket[i] = {}
      BY <1>1, <1>5, UnlinkOK
    <2>2. DelIn(d, k) = maybe_shrink(w)
      BY <1>5 DEF DelIn
    <2> HIDE DEF u
    <2>3. \A x \in Entries(d.ht1) : x.key # k
      BY <1>1, <1>2, <1>5
    <2>4. \A x \in Entries(u), y \in Entries(d.ht1) : x.key # y.key
      BY <1>1, <2>1
    <2>5. is_rehashing(d) =>
            \A i \in 0..(u.size - 1) : i < d.rehashidx => u.bucket[i] = {}
      BY <1>3, <2>1
    <2>6. /\ DictWF(w)
          /\ AllEntries(w) = Entries(u) \cup Entries(d.ht1)
          /\ w.rehashidx = d.rehashidx
          /\ w.ht0.size = d.ht0.size
      BY <2>1, <2>4, <2>5, WithHt0OK
    <2>7. /\ DictWF(maybe_shrink(w))
          /\ AllEntries(maybe_shrink(w)) = AllEntries(w)
          /\ maybe_shrink(w).ht0 = w.ht0
      BY <2>6, MaybeShrinkOK
    <2> HIDE DEF w
    <2> QED BY <1>4, <2>1, <2>2, <2>3, <2>6, <2>7 DEF AllEntries, Without
  <1>6. CASE find_in(d.ht0, k) = {} /\ is_rehashing(d) /\ find_in(d.ht1, k) # {}
    <2> DEFINE u == Unlink(d.ht1, k)
               w == WithHt1(d, u)
    <2>1. /\ TableOK(u) /\ u.size = d.ht1.size
          /\ Entries(u) = {x \in Entries(d.ht1) : x.key # k}
      BY <1>1, <1>6, UnlinkOK
    <2>2. DelIn(d, k) = maybe_shrink(w)
      BY <1>6 DEF DelIn
    <2> HIDE DEF u
    <2>3. \A x \in Entries(d.ht0) : x.key # k
      BY <1>2, <1>6
    <2>4. \A x \in Entries(d.ht0), y \in Entries(u) : x.key # y.key
      BY <1>1, <2>1
    <2>5. /\ DictWF(w)
          /\ AllEntries(w) = Entries(d.ht0) \cup Entries(u)
          /\ w.rehashidx = d.rehashidx
          /\ w.ht0.size = d.ht0.size
      BY <2>1, <2>4, WithHt1OK
    <2> HIDE DEF w
    <2> QED BY <1>4, <1>6, <2>1, <2>2, <2>3, <2>5 DEF AllEntries, Without
  <1>7. CASE find_in(d.ht0, k) = {} /\ ~ (is_rehashing(d) /\ find_in(d.ht1, k) # {})
    <2>1. \A x \in AllEntries(d) : x.key # k
      BY <1>2, <1>7 DEF AllEntries
    <2> QED BY <1>7, <2>1 DEF DelIn, Without
  <1> QED BY <1>5, <1>6, <1>7

-----------------------------------------------------------------------------
(***************************************************************************)
(* The inductive invariant and the safety theorems.                        *)
(***************************************************************************)
IInv == DictWF(dict)

LEMMA EmptyDictOK == DictWF(EmptyDict) /\ AllEntries(EmptyDict) = {}
  <1> DEFINE d == EmptyDict
  <1>1. /\ d = [ht0 |-> allocate(InitialSize), ht1 |-> NullTable, rehashidx |-> -1]
        /\ d.ht0 = allocate(InitialSize) /\ d.ht1 = NullTable /\ d.rehashidx = -1
    BY DEF EmptyDict
  <1>2. /\ TableOK(d.ht0) /\ Entries(d.ht0) = {} /\ d.ht0.size = 4
        /\ TableOK(d.ht1) /\ Entries(d.ht1) = {} /\ d.ht1.size = 0
    BY <1>1, AllocateOK DEF InitialSize, NullTable
  <1> HIDE DEF d
  <1>3. CursorInBounds(d)
    <2>1. {j \in 0..(d.ht0.size - 1) : 0 <= j /\ j < -1} = {}
      BY <1>2
    <2>2. EntriesIn(d.ht0, 0, -1) = {}
      BY <2>1 DEF EntriesIn
    <2> QED BY <1>1, <1>2, <2>2 DEF CursorInBounds, is_rehashing, IsNull
  <1>4. PowerSizes(d)
    BY <1>1, <1>2, SMT DEF PowerSizes, is_rehashing, PowersOfTwo, MaxBuckets
  <1> QED BY <1>1, <1>2, <1>3, <1>4, DictWFParts DEF AllEntries, d

LEMMA InitIInv == Init => IInv
  BY EmptyDictOK DEF Init, IInv

\* Every operation, with the rehash step it begins with, keeps the invariant.
LEMMA NextIInv == IInv /\ [Next]_vars => IInv'
  <1> SUFFICES ASSUME IInv, [Next]_vars PROVE IInv'
    OBVIOUS
  <1>1. DictWF(rehash_step(dict, 1)) /\ DictWF(rehash_step(dict, CronSteps))
    BY RehashStepOK, BoundsAssumption DEF IInv
  <1>2. ASSUME NEW k \in Key, NEW v \in Val, Set(k, v) PROVE IInv'
    BY <1>1, <1>2, SetInOK DEF Set, IInv
  <1>3. ASSUME NEW k \in Key, Get(k) PROVE IInv'
    BY <1>1, <1>3 DEF Get, IInv
  <1>4. ASSUME NEW k \in Key, Exists(k) PROVE IInv'
    BY <1>4 DEF Exists, IInv
  <1>5. ASSUME NEW k \in Key, Del(k) PROVE IInv'
    BY <1>1, <1>5, DelInOK DEF Del, IInv
  <1>6. CASE Clear
    BY <1>6, EmptyDictOK DEF Clear, IInv
  <1>7. ASSUME NEW n \in Counts, RandomSample(n) PROVE IInv'
    BY <1>7 DEF RandomSample, IInv
  <1>8. CASE ForEach
    BY <1>8 DEF ForEach, IInv
  <1>9. CASE Cron
    BY <1>1, <1>9 DEF Cron, IInv
  <1>10. CASE UNCHANGED vars
    BY <1>10 DEF vars, IInv
  <1> QED BY <1>2, <1>3, <1>4, <1>5, <1>6, <1>7, <1>8, <1>9, <1>10 DEF Next

LEMMA Invariance == Spec => []IInv
  BY InitIInv, NextIInv, PTL DEF Spec

\* Type correctness of Dict and DictHashTable; the sizes of the tables are powers
\* of two, which the mask of Index relies on, and a rehash never copies to the
\* same size.
THEOREM DictTypeCorrect == Spec => []TypeOK
  <1>1. IInv => TypeOK
    BY DEF IInv, DictWF, TypeOK
  <1> QED BY Invariance, <1>1, PTL

LEMMA ConsistentParts ==
  IInv => /\ UsedCountsEntries
          /\ NoTwinEntries
          /\ EntriesFindable
          /\ RehashInBounds
  BY DEF IInv, DictWF, UsedCountsEntries, NoTwinEntries, EntriesFindable,
         RehashInBounds

\* `used' of each table is the number of entries in its chains, over inserts,
\* deletes and the entries that a rehash step carries from one to the other.
THEOREM UsedIsExact == Spec => []UsedCountsEntries
  BY Invariance, ConsistentParts, PTL

\* No key has a second entry, in its chain or in the other table, whatever a
\* rehash has moved when the key is written.
THEOREM OneEntryForAKey == Spec => []NoTwinEntries
  BY Invariance, ConsistentParts, PTL

\* Every entry, inserted or migrated, is in the chain that its hash selects in
\* its table, where find_in searches for it.
THEOREM EntriesStayFindable == Spec => []EntriesFindable
  BY Invariance, ConsistentParts, PTL

\* The cursor of rehash_step has only drained buckets below it and never passes
\* the end of the bucket array; ht1 exists exactly while there is a cursor.
THEOREM CursorStaysInBounds == Spec => []RehashInBounds
  BY Invariance, ConsistentParts, PTL

\* Every operation that finds a rehash under way finishes it or advances it.
THEOREM RehashProgress == Spec => RehashAdvances
  <1> DEFINE Advances == /\ is_rehashing(dict)
                         /\ is_rehashing(dict')
                         /\ dict'.ht0.size = dict.ht0.size
                         => dict'.rehashidx > dict.rehashidx
  <1>1. ASSUME IInv, [Next]_vars PROVE [Advances]_dict
    <2> SUFFICES ASSUME is_rehashing(dict), is_rehashing(dict'), dict' # dict,
                        dict'.ht0.size = dict.ht0.size
                 PROVE  dict'.rehashidx > dict.rehashidx
      OBVIOUS
    <2>1. dict.ht1.size # dict.ht0.size /\ dict.rehashidx \in Int
      BY <1>1, DictShape DEF IInv, DictWF, PowerSizes
    <2> DEFINE Moved(d) ==
                 /\ DictWF(d)
                 /\ \/ d.rehashidx = -1 /\ d.ht0.size = dict.ht1.size
                    \/ d.rehashidx > dict.rehashidx /\ is_rehashing(d)
    <2>2. Moved(rehash_step(dict, 1)) /\ Moved(rehash_step(dict, CronSteps))
      BY <1>1, <2>1, RehashStepOK, DictShape, BoundsAssumption DEF IInv, is_rehashing
    <2> HIDE DEF Moved
    <2>3. ASSUME NEW k \in Key, NEW v \in Val, Set(k, v)
          PROVE  dict'.rehashidx > dict.rehashidx
      BY <2>1, <2>2, <2>3, SetInOK DEF Set, Moved
    <2>4. ASSUME NEW k \in Key, Get(k) PROVE dict'.rehashidx > dict.rehashidx
      BY <2>1, <2>2, <2>4 DEF Get, Moved
    <2>5. ASSUME NEW k \in Key, Del(k) PROVE dict'.rehashidx > dict.rehashidx
      BY <2>1, <2>2, <2>5, DelInOK DEF Del, Moved
    <2>6. CASE Clear
      BY <2>6 DEF Clear, EmptyDict, is_rehashing
    <2>7. CASE Cron
      BY <2>1, <2>2, <2>7 DEF Cron, Moved
    <2> QED BY <1>1, <2>3, <2>4, <2>5, <2>6, <2>7
        DEF Next, Exists, RandomSample, ForEach, vars
  <1> QED BY Invariance, <1>1, PTL DEF Spec, RehashAdvances

-----------------------------------------------------------------------------
(***************************************************************************)
(* Refinement: the two tables are one map.                                 *)
(***************************************************************************)
KeysOf(E) == {e.key : e \in E}

\* The map has the keys of the entries, and the value of the entry of each.
LEMMA ContentsOf ==
  ASSUME NEW d, DictWF(d)
  PROVE  /\ DOMAIN Contents(d) = KeysOf(AllEntries(d))
         /\ \A e \in AllEntries(d) : Contents(d)[e.key] = e.val
         /\ Contents(d) = [k \in KeysOf(AllEntries(d)) |-> Contents(d)[k]]
  <1> DEFINE E == AllEntries(d)
             C == [k \in KeysOf(E) |-> (CHOOSE e \in E : e.key = k).val]
  <1>1. Contents(d) = C
    BY DEF Contents, KeysOf
  <1>2. \A e, f \in E : e.key = f.key => e = f
    BY DEF DictWF, OneEntryPerKey
  <1>3. ASSUME NEW e \in E PROVE C[e.key] = e.val
    <2>1. (CHOOSE f \in E : f.key = e.key) = e
      BY <1>2
    <2> QED BY <2>1 DEF KeysOf
  <1> QED BY <1>1, <1>3

LEMMA SameEntriesSameContents ==
  ASSUME NEW d, NEW c, AllEntries(d) = AllEntries(c)
  PROVE  Contents(d) = Contents(c)
  BY DEF Contents

\* set on the tables is Write on the map, and del is Erase.
LEMMA ContentsWrite ==
  ASSUME NEW d, DictWF(d), NEW c, DictWF(c), NEW k \in Key, NEW v \in Val,
         AllEntries(c) = Without(AllEntries(d), k) \cup {[key |-> k, val |-> v]}
  PROVE  Contents(c) = Map!Write(Contents(d), k, v)
  <1> DEFINE W == Map!Write(Contents(d), k, v)
             e == [key |-> k, val |-> v]
  <1>1. e.key = k /\ e.val = v /\ e \in AllEntries(c)
    OBVIOUS
  <1>2. KeysOf(AllEntries(c)) = KeysOf(AllEntries(d)) \cup {k}
    BY <1>1 DEF KeysOf, Without
  <1>3. W = [x \in KeysOf(AllEntries(c)) |-> IF x = k THEN v ELSE Contents(d)[x]]
    BY <1>2, ContentsOf DEF Map!Write
  <1>4. ASSUME NEW x \in KeysOf(AllEntries(c)) PROVE Contents(c)[x] = W[x]
    <2>1. PICK f \in AllEntries(c) : f.key = x
      BY DEF KeysOf
    <2>2. Contents(c)[x] = f.val
      BY <2>1, ContentsOf
    <2>3. CASE x = k
      <3>1. Contents(c)[e.key] = e.val
        BY <1>1, ContentsOf
      <3> QED BY <1>1, <1>3, <2>3, <3>1
    <2>4. CASE x # k
      <3>1. f \in AllEntries(d)
        BY <2>1, <2>4 DEF Without
      <3>2. Contents(d)[x] = f.val
        BY <2>1, <3>1, ContentsOf
      <3> QED BY <1>3, <2>2, <2>4, <3>2
    <2> QED BY <2>3, <2>4
  <1> HIDE DEF W
  <1>5. Contents(c) = [x \in KeysOf(AllEntries(c)) |-> Contents(c)[x]]
    BY ContentsOf
  <1>6. W = [x \in KeysOf(AllEntries(c)) |-> W[x]]
    BY <1>3
  <1> QED BY <1>4, <1>5, <1>6 DEF W

LEMMA ContentsErase ==
  ASSUME NEW d, DictWF(d), NEW c, DictWF(c), NEW k \in Key,
         AllEntries(c) = Without(AllEntries(d), k)
  PROVE  Contents(c) = Map!Erase(Contents(d), k)
  <1> DEFINE W == Map!Erase(Contents(d), k)
  <1>1. KeysOf(AllEntries(c)) = KeysOf(AllEntries(d)) \ {k}
    BY DEF KeysOf, Without
  <1>2. W = [x \in KeysOf(AllEntries(c)) |-> Contents(d)[x]]
    BY <1>1, ContentsOf DEF Map!Erase
  <1>3. ASSUME NEW x \in KeysOf(AllEntries(c)) PROVE Contents(c)[x] = W[x]
    <2>1. PICK f \in AllEntries(c) : f.key = x
      BY DEF KeysOf
    <2>2. Contents(c)[x] = f.val
      BY <2>1, ContentsOf
    <2>3. f \in AllEntries(d)
      BY DEF Without
    <2>4. Contents(d)[x] = f.val
      BY <2>1, <2>3, ContentsOf
    <2> QED BY <1>2, <2>2, <2>4
  <1> HIDE DEF W
  <1>4. Contents(c) = [x \in KeysOf(AllEntries(c)) |-> Contents(c)[x]]
    BY ContentsOf
  <1>5. W = [x \in KeysOf(AllEntries(c)) |-> W[x]]
    BY <1>2
  <1> QED BY <1>3, <1>4, <1>5 DEF W

\* A lookup in the tables is a lookup in the map.
LEMMA FoundIsLookup ==
  ASSUME NEW d, DictWF(d), NEW k \in Key
  PROVE  /\ Found(d, k) = {} <=> k \notin DOMAIN Contents(d)
         /\ Value(Found(d, k)) = Map!Lookup(Contents(d), k, NoVal)
         /\ Value(Found(d, k)) # NoVal <=> k \in DOMAIN Contents(d)
  <1>1. Found(d, k) = {e \in AllEntries(d) : e.key = k}
    BY FoundOK
  <1>2. Found(d, k) = {} <=> k \notin DOMAIN Contents(d)
    <2>1. DOMAIN Contents(d) = KeysOf(AllEntries(d))
      BY ContentsOf
    <2>2. k \in KeysOf(AllEntries(d)) <=> \E e \in AllEntries(d) : e.key = k
      BY DEF KeysOf
    <2> QED BY <1>1, <2>1, <2>2
  <1>3. CASE Found(d, k) = {}
    BY <1>2, <1>3 DEF Value, Map!Lookup
  <1>4. CASE Found(d, k) # {}
    <2> DEFINE e == CHOOSE e \in Found(d, k) : TRUE
    <2>1. e \in AllEntries(d) /\ e.key = k
      BY <1>1, <1>4
    <2>2. Value(Found(d, k)) = e.val
      BY <1>4 DEF Value
    <2>3. Contents(d)[k] = e.val
      BY <2>1, ContentsOf
    <2>4. e.val \in Val
      BY <2>1, EntriesOfDict DEF Entry
    <2> QED BY <1>2, <1>4, <2>2, <2>3, <2>4, KeysAssumption DEF Map!Lookup
  <1> QED BY <1>3, <1>4

\* As many keys as entries.
LEMMA KeysOfCardinality ==
  ASSUME NEW E, IsFiniteSet(E)
  PROVE  /\ IsFiniteSet(KeysOf(E))
         /\ Cardinality(KeysOf(E)) <= Cardinality(E)
         /\ (\A e, f \in E : e.key = f.key => e = f)
              => Cardinality(KeysOf(E)) = Cardinality(E)
  <1> DEFINE g == [e \in E |-> e.key]
  <1>1. g \in Surjection(E, KeysOf(E))
    BY DEF Surjection, KeysOf
  <1>2. (\A e, f \in E : e.key = f.key => e = f) => g \in Injection(E, KeysOf(E))
    BY DEF Injection, IsInjective, KeysOf
  <1> HIDE DEF g
  <1> QED BY <1>1, <1>2, FS_Surjection

\* A sample is a set of entries of the dict, no larger than was asked for.
LEMMA SampleOK ==
  ASSUME NEW d, DictWF(d), NEW n \in Nat, NEW S \in random_sample(d, n)
  PROVE  S \subseteq AllEntries(d) /\ IsFiniteSet(S) /\ Cardinality(S) <= n
  <1> DEFINE count == IF n > size(d) THEN size(d) ELSE n
  <1>1. size(d) \in Nat /\ d.ht0.used \in Nat /\ d.ht1.used \in Nat
    BY DictShape DEF size
  <1>2. count \in Nat /\ count <= n
    BY <1>1
  <1>3. PICK t \in {d.ht0, d.ht1} :
          S \in IF t.used = 0 THEN {{}} ELSE SamplesOf(t, count)
    BY DEF random_sample
  <1> HIDE DEF count
  <1>4. S \subseteq Entries(t)
    BY <1>3 DEF SamplesOf
  <1>5. S \subseteq AllEntries(d)
    BY <1>3, <1>4 DEF AllEntries
  <1>6. IsFiniteSet(S)
    BY <1>5, EntriesOfDict, FS_Subset
  <1>7. CASE t.used = 0
    BY <1>2, <1>3, <1>5, <1>6, <1>7, FS_EmptySet
  <1>8. CASE t.used # 0
    <2>1. Cardinality(S) = IF count < t.used THEN count ELSE t.used
      BY <1>3, <1>8 DEF SamplesOf
    <2> QED BY <1>1, <1>2, <1>3, <1>5, <1>6, <2>1
  <1> QED BY <1>7, <1>8

\* FiniteSets as the map's module sees it.
LEMMA MapCardinality == \A S : Map!Cardinality(S) = Cardinality(S)
  BY Zenon DEF Map!Cardinality, Cardinality

LEMMA InitRefines == Init => Map!Init
  <1> SUFFICES ASSUME Init PROVE Map!Init
    OBVIOUS
  <1>1. DictWF(dict) /\ AllEntries(dict) = {}
    BY EmptyDictOK DEF Init
  <1>2. KeysOf({}) = {}
    BY DEF KeysOf
  <1>3. /\ DOMAIN Contents(dict) = {}
        /\ Contents(dict) = [k \in {} |-> Contents(dict)[k]]
    BY <1>1, <1>2, ContentsOf
  <1>4. Contents(dict) = Map!EmptyMap
    BY <1>3 DEF Map!EmptyMap
  <1> QED BY <1>4 DEF Init, Map!Init

\* Every step of the tables is a step of the map, or none that it can see.
LEMMA NextRefines ==
  ASSUME IInv, [Next]_vars
  PROVE  [Map!Next]_(Map!vars)
  <1> DEFINE d == rehash_step(dict, 1)
  <1>1. DictWF(dict)
    BY DEF IInv
  <1>2. /\ DictWF(d) /\ AllEntries(d) = AllEntries(dict)
        /\ AllEntries(rehash_step(dict, CronSteps)) = AllEntries(dict)
    BY <1>1, RehashStepOK, BoundsAssumption
  <1>3. Contents(d) = Contents(dict)
    BY <1>2, SameEntriesSameContents
  <1> HIDE DEF d
  <1>4. ASSUME NEW k \in Key, NEW v \in Val, Set(k, v) PROVE Map!Set(k, v)
    <2>1. dict' = SetIn(d, k, v) /\ reply' = <<"set", Found(d, k) = {}>>
      BY <1>4 DEF Set, d
    <2>2. Contents(dict') = Map!Write(Contents(d), k, v)
      BY <1>2, <2>1, SetInOK, ContentsWrite
    <2>3. (Found(d, k) = {}) = (k \notin DOMAIN Contents(dict))
      BY <1>2, <1>3, FoundIsLookup
    <2> QED BY <1>3, <2>1, <2>2, <2>3 DEF Map!Set
  <1>5. ASSUME NEW k \in Key, Get(k) PROVE Map!Get(k)
    <2>1. dict' = d /\ reply' = <<"get", k, Value(Found(d, k))>>
      BY <1>5 DEF Get, d
    <2>2. Value(Found(d, k)) = Map!Lookup(Contents(dict), k, NoVal)
      BY <1>2, <1>3, FoundIsLookup
    <2> QED BY <1>3, <2>1, <2>2 DEF Map!Get
  <1>6. ASSUME NEW k \in Key, Exists(k) PROVE Map!Exists(k)
    <2>1. (Value(Found(dict, k)) # NoVal) = (k \in DOMAIN Contents(dict))
      BY <1>1, FoundIsLookup
    <2> QED BY <1>6, <2>1 DEF Exists, Map!Exists
  <1>7. ASSUME NEW k \in Key, Del(k) PROVE Map!Del(k)
    <2>1. dict' = DelIn(d, k) /\ reply' = <<"del", Found(d, k) # {}>>
      BY <1>7 DEF Del, d
    <2>2. Contents(dict') = Map!Erase(Contents(d), k)
      BY <1>2, <2>1, DelInOK, ContentsErase
    <2>3. (Found(d, k) # {}) = (k \in DOMAIN Contents(dict))
      BY <1>2, <1>3, FoundIsLookup
    <2> QED BY <1>3, <2>1, <2>2, <2>3 DEF Map!Del
  <1>8. ASSUME Clear PROVE Map!Clear
    <2>1. Contents(EmptyDict) = Map!EmptyMap
      <3>1. KeysOf({}) = {}
        BY DEF KeysOf
      <3> QED BY <3>1, EmptyDictOK, ContentsOf DEF Map!EmptyMap
    <2> QED BY <1>8, <2>1 DEF Clear, Map!Clear
  <1>9. ASSUME NEW n \in Counts, RandomSample(n) PROVE Map!Sample(n)
    <2>1. PICK S \in random_sample(dict, n) : reply' = <<"sample", {e.key : e \in S}>>
      BY <1>9 DEF RandomSample
    <2>2. n \in Nat
      BY BoundsAssumption
    <2>3. S \subseteq AllEntries(dict) /\ IsFiniteSet(S) /\ Cardinality(S) <= n
      BY <1>1, <2>2, SampleOK
    <2>4. IsFiniteSet(KeysOf(S)) /\ Cardinality(KeysOf(S)) <= Cardinality(S)
      BY <2>3, KeysOfCardinality
    <2>5. Cardinality(KeysOf(S)) <= n
      BY <2>2, <2>3, <2>4, FS_CardinalityType
    <2>6. KeysOf(S) \in SUBSET DOMAIN Contents(dict)
      <3>1. DOMAIN Contents(dict) = KeysOf(AllEntries(dict))
        BY <1>1, ContentsOf
      <3> QED BY <2>3, <3>1 DEF KeysOf
    <2>7. reply' = <<"sample", KeysOf(S)>>
      BY <2>1 DEF KeysOf
    <2> QED BY <1>9, <2>5, <2>6, <2>7, MapCardinality DEF RandomSample, Map!Sample
  <1>10. ASSUME ForEach PROVE Map!ForEach
    <2> DEFINE E == AllEntries(dict)
    <2>1. Visited(dict) = E
      <3>1. ~ is_rehashing(dict) => Entries(dict.ht1) = {}
        BY <1>1, DictShape DEF Entries
      <3> QED BY <3>1 DEF Visited, AllEntries
    <2>2. {<<e.key, e.val>> : e \in E} =
            {<<k, Contents(dict)[k]>> : k \in DOMAIN Contents(dict)}
      <3> DEFINE C == Contents(dict)
      <3>1. DOMAIN C = KeysOf(E) /\ \A e \in E : C[e.key] = e.val
        BY <1>1, ContentsOf
      <3> HIDE DEF C, E
      <3>2. \A e \in E : <<e.key, e.val>> \in {<<k, C[k]>> : k \in DOMAIN C}
        BY <3>1 DEF KeysOf
      <3>3. \A k \in DOMAIN C : <<k, C[k]>> \in {<<e.key, e.val>> : e \in E}
        BY <3>1 DEF KeysOf
      <3>4. {<<e.key, e.val>> : e \in E} = {<<k, C[k]>> : k \in DOMAIN C}
        BY <3>2, <3>3
      <3> QED BY <3>4 DEF C
    <2>3. size(dict) = Cardinality(DOMAIN Contents(dict))
      <3>1. \A e, f \in E : e.key = f.key => e = f
        BY <1>1 DEF DictWF, OneEntryPerKey
      <3>2. IsFiniteSet(E) /\ size(dict) = Cardinality(E)
        BY <1>1, EntriesOfDict
      <3> QED BY <1>1, <3>1, <3>2, KeysOfCardinality, ContentsOf
    <2> QED BY <1>10, <2>1, <2>2, <2>3, MapCardinality DEF ForEach, Map!ForEach
  <1>11. ASSUME Cron PROVE UNCHANGED Map!vars
    BY <1>2, <1>11, SameEntriesSameContents DEF Cron, Map!vars
  <1>12. ASSUME UNCHANGED vars PROVE UNCHANGED Map!vars
    BY <1>12 DEF vars, Map!vars
  <1> QED BY <1>4, <1>5, <1>6, <1>7, <1>8, <1>9, <1>10, <1>11, <1>12
      DEF Next, Map!Next

\* The dict implements the map: whatever a rehash is doing, an operation gives
\* the answer, and has the effect, that it has on a plain map.
THEOREM DictImplementsKeyMap == Spec => ImplementsKeyMap
  BY InitRefines, NextRefines, Invariance, PTL DEF Spec, ImplementsKeyMap, Map!Spec
=============================================================================
