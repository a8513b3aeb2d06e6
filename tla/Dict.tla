-------------------------------- MODULE Dict --------------------------------
(***************************************************************************)
(* keva::core::Dict (src/src/core/dict.cpp): a chained hash table that     *)
(* grows and shrinks by moving its buckets, a few at a time, from the live *)
(* table ht0 to a second table ht1.  While the move is under way a key may *)
(* be in either table, every operation moves one more bucket before it     *)
(* does its own work, and the server's cron moves more.                    *)
(*                                                                         *)
(* A chain is a set of entries: the order within a chain is never visible  *)
(* to a caller.  The counter `used' is kept apart from the chains, as in   *)
(* the code, and so is the allocated size: that they agree with the chains *)
(* is a property, not a definition.                                        *)
(***************************************************************************)
EXTENDS Integers, FiniteSets, FiniteSetsExt

CONSTANTS Key,       \* the keys
          Val,       \* the values (pointers owned by the dict)
          NoVal,     \* nullptr
          Hash,      \* SipHash of a key, any function into the naturals
          Counts,    \* sample sizes that callers of random_sample ask for
          CronSteps  \* buckets per cron tick (100 in KevaDatabase)

InitialSize   == 4    \* buckets of a new dict, and the least a shrink leaves
EmptyPerStep  == 10   \* empty buckets that one step may skip

\* The powers of two that a table may have as its size.  The code computes
\* with 64 bits; TLC's integers have 32, hence the named bound.
MaxBuckets == 1073741824
PowersOfTwo ==
  {1, 2, 4, 8, 16, 32, 64, 128, 256, 512, 1024, 2048, 4096, 8192, 16384,
   32768, 65536, 131072, 262144, 524288, 1048576, 2097152, 4194304, 8388608,
   16777216, 33554432, 67108864, 134217728, 268435456, 536870912, MaxBuckets}

\* Mutant: the argument as it is.
bit_ceil_Identity(n) == n

\* std::bit_ceil, for an argument whose result the width can hold.
bit_ceil(n) == CHOOSE m \in PowersOfTwo : n <= m /\ m < 2 * n

ASSUME KeysAssumption ==
  /\ IsFiniteSet(Key)
  /\ 2 * Cardinality(Key) <= MaxBuckets  \* bit_ceil(2 * used) is defined
  /\ Hash \in [Key -> Nat]
  /\ NoVal \notin Val                    \* no caller stores a null pointer

ASSUME BoundsAssumption ==
  /\ CronSteps \in Nat \ {0}
  /\ Counts \subseteq Nat

Entry == [key : Key, val : Val]

-----------------------------------------------------------------------------
(***************************************************************************)
(* One DictHashTable.  A null table has no buckets.                        *)
(***************************************************************************)
allocate(n) == [size |-> n, used |-> 0, bucket |-> [i \in 0..(n - 1) |-> {}]]

NullTable == allocate(0)

IsNull(t) == t.size = 0

\* hash & sizemask
Index(t, k) == Hash[k] % t.size

Entries(t) == UNION {t.bucket[i] : i \in 0..(t.size - 1)}

\* The entries in buckets lo .. hi - 1.
EntriesIn(t, lo, hi) ==
  UNION {t.bucket[i] : i \in {j \in 0..(t.size - 1) : lo <= j /\ j < hi}}

\* The chain that find_in walks, cut down to the entries that match.
find_in(t, k) ==
  IF IsNull(t) \/ t.used = 0
  THEN {}
  ELSE {e \in t.bucket[Index(t, k)] : e.key = k}

\* Overwrite the value of an entry that was found, in place.
Update(t, k, v) ==
  [size   |-> t.size,
   used   |-> t.used,
   bucket |-> [t.bucket EXCEPT ![Index(t, k)] =
                 {IF e.key = k THEN [key |-> k, val |-> v] ELSE e : e \in @}]]

Insert(t, k, v) ==
  [size   |-> t.size,
   used   |-> t.used + 1,
   bucket |-> [t.bucket EXCEPT ![Index(t, k)] =
                 @ \cup {[key |-> k, val |-> v]}]]

\* Mutant: the entry goes and the counter stays.
Unlink_Uncounted(t, k) ==
  [size   |-> t.size,
   used   |-> t.used,
   bucket |-> [t.bucket EXCEPT ![Index(t, k)] = {e \in @ : e.key # k}]]

Unlink(t, k) ==
  [size   |-> t.size,
   used   |-> t.used - 1,
   bucket |-> [t.bucket EXCEPT ![Index(t, k)] = {e \in @ : e.key # k}]]

-----------------------------------------------------------------------------
(***************************************************************************)
(* A Dict: two tables and the index of the next bucket to migrate.         *)
(***************************************************************************)
EmptyDict == [ht0 |-> allocate(InitialSize), ht1 |-> NullTable,
              rehashidx |-> -1]

is_rehashing(d) == d.rehashidx >= 0

size(d) == d.ht0.used + d.ht1.used

\* The dict with another table in the place of one of its two.
WithHt0(d, t) == [ht0 |-> t, ht1 |-> d.ht1, rehashidx |-> d.rehashidx]
WithHt1(d, t) == [ht0 |-> d.ht0, ht1 |-> t, rehashidx |-> d.rehashidx]

\* A rehash begins: an empty second table and the cursor at bucket 0.
StartRehash(d, n) == [ht0 |-> d.ht0, ht1 |-> allocate(n), rehashidx |-> 0]

\* load_factor() > DICT_EXPAND_RATIO, with the ratio 1.0
maybe_expand(d) ==
  IF is_rehashing(d) \/ d.ht0.used <= d.ht0.size
  THEN d
  ELSE StartRehash(d, bit_ceil(2 * d.ht0.used))

\* load_factor() < DICT_SHRINK_RATIO, with the ratio 0.1
maybe_shrink(d) ==
  IF is_rehashing(d) \/ d.ht0.size <= InitialSize
                     \/ 10 * d.ht0.used >= d.ht0.size
  THEN d
  ELSE StartRehash(d, bit_ceil(IF d.ht0.used < InitialSize
                               THEN InitialSize ELSE d.ht0.used))

\* The scan of rehash_step has passed the buckets rehashidx .. b - 1 when it
\* has migrated `steps' chains, or skipped its limit of empty buckets, or
\* left ht0 without an entry.
ScanStops(d, steps, b) ==
  LET passed == d.rehashidx..(b - 1)
      empty  == {i \in passed : d.ht0.bucket[i] = {}}
  IN  \/ Cardinality(passed) - Cardinality(empty) = steps
      \/ Cardinality(empty) = EmptyPerStep * steps
      \/ d.ht0.used = Cardinality(EntriesIn(d.ht0, d.rehashidx, b))

\* Where the scan stops.  A scan that finds no reason to stop reads past the
\* bucket array, which is size + 1 here: RehashInBounds says it never does.
ScanEnd(d, steps) ==
  Min({b \in d.rehashidx..d.ht0.size : ScanStops(d, steps, b)}
        \cup {d.ht0.size + 1})

\* Mutant: the chains go to the buckets they had in the old table.
Migrate_OldIndex(d, b) ==
  LET moved == EntriesIn(d.ht0, d.rehashidx, b)
      n     == Cardinality(moved)
  IN  [ht0 |-> [size   |-> d.ht0.size,
                used   |-> d.ht0.used - n,
                bucket |-> [i \in 0..(d.ht0.size - 1) |->
                              IF d.rehashidx <= i /\ i < b
                              THEN {} ELSE d.ht0.bucket[i]]],
       ht1 |-> [size   |-> d.ht1.size,
                used   |-> d.ht1.used + n,
                bucket |-> [i \in 0..(d.ht1.size - 1) |->
                              d.ht1.bucket[i]
                                \cup {e \in moved : Index(d.ht0, e.key) = i}]],
       rehashidx |-> b]

\* Move the chains of the buckets rehashidx .. b - 1 to the second table.
Migrate(d, b) ==
  LET moved == EntriesIn(d.ht0, d.rehashidx, b)
      n     == Cardinality(moved)
  IN  [ht0 |-> [size   |-> d.ht0.size,
                used   |-> d.ht0.used - n,
                bucket |-> [i \in 0..(d.ht0.size - 1) |->
                              IF d.rehashidx <= i /\ i < b
                              THEN {} ELSE d.ht0.bucket[i]]],
       ht1 |-> [size   |-> d.ht1.size,
                used   |-> d.ht1.used + n,
                bucket |-> [i \in 0..(d.ht1.size - 1) |->
                              d.ht1.bucket[i]
                                \cup {e \in moved : Index(d.ht1, e.key) = i}]],
       rehashidx |-> b]

\* Mutant: the cursor is not reset.
Swap_KeepsCursor(d) ==
  [ht0 |-> d.ht1, ht1 |-> NullTable, rehashidx |-> d.rehashidx]

\* Mutant: the tables change places, and the drained one is taken for the
\* target of another rehash.
Swap_StartsOver(d) == [ht0 |-> d.ht1, ht1 |-> d.ht0, rehashidx |-> 0]

\* The second table becomes the live one.
Swap(d) == [ht0 |-> d.ht1, ht1 |-> NullTable, rehashidx |-> -1]

\* Mutant: the cursor stays where it was.
rehash_step_NoAdvance(d, steps) ==
  IF ~ is_rehashing(d)
  THEN d
  ELSE LET m == Migrate(d, ScanEnd(d, steps))
       IN  IF m.ht0.used = 0 THEN Swap(m)
           ELSE [ht0 |-> m.ht0, ht1 |-> m.ht1, rehashidx |-> d.rehashidx]

rehash_step(d, steps) ==
  IF ~ is_rehashing(d)
  THEN d
  ELSE LET m == Migrate(d, ScanEnd(d, steps))
       IN  IF m.ht0.used = 0 THEN Swap(m) ELSE m

-----------------------------------------------------------------------------
(***************************************************************************)
(* The operations, as functions of the dict.  Each takes the dict AFTER    *)
(* the rehash step that it begins with.                                    *)
(***************************************************************************)
\* Mutant: while rehashing only the second table is searched.
SetIn_NewTableOnly(d, k, v) ==
  LET t == IF is_rehashing(d) THEN d.ht1 ELSE d.ht0
      u == IF find_in(t, k) # {} THEN Update(t, k, v) ELSE Insert(t, k, v)
  IN  IF is_rehashing(d) THEN WithHt1(d, u) ELSE maybe_expand(WithHt0(d, u))

SetIn(d, k, v) ==
  IF is_rehashing(d) /\ find_in(d.ht0, k) # {}
  THEN WithHt0(d, Update(d.ht0, k, v))
  ELSE IF is_rehashing(d)
       THEN IF find_in(d.ht1, k) # {}
            THEN WithHt1(d, Update(d.ht1, k, v))
            ELSE maybe_expand(WithHt1(d, Insert(d.ht1, k, v)))
       ELSE IF find_in(d.ht0, k) # {}
            THEN WithHt0(d, Update(d.ht0, k, v))
            ELSE maybe_expand(WithHt0(d, Insert(d.ht0, k, v)))

\* Mutant: the second table is forgotten.
Found_OldTableOnly(d, k) == find_in(d.ht0, k)

\* The entries that a lookup may return: ht0 first, ht1 only while rehashing.
Found(d, k) ==
  IF find_in(d.ht0, k) # {}
  THEN find_in(d.ht0, k)
  ELSE IF is_rehashing(d) THEN find_in(d.ht1, k) ELSE {}

DelIn(d, k) ==
  IF find_in(d.ht0, k) # {}
  THEN maybe_shrink(WithHt0(d, Unlink(d.ht0, k)))
  ELSE IF is_rehashing(d) /\ find_in(d.ht1, k) # {}
       THEN maybe_shrink(WithHt1(d, Unlink(d.ht1, k)))
       ELSE d

\* The entries for_each visits: ht1 too, but only while rehashing.
Visited(d) ==
  Entries(d.ht0) \cup (IF is_rehashing(d) THEN Entries(d.ht1) ELSE {})

\* What random_sample may collect from table t: whole chains from some bucket
\* on, cyclically, and a part of the chain at which the count is reached.
SamplesOf(t, count) ==
  {S \in SUBSET Entries(t) :
     /\ Cardinality(S) = IF count < t.used THEN count ELSE t.used
     /\ \E first \in 0..(t.size - 1), n \in 0..(t.size - 1) :
          LET Nth(j) == t.bucket[(first + j) % t.size]
          IN  /\ \A j \in 0..(n - 1) : Nth(j) \subseteq S
              /\ S \subseteq UNION {Nth(j) : j \in 0..n}}

\* The table sampled: ht1 by a throw of the dice, and never when it is empty.
\* An empty ht0 gives no sample, even when ht1 has entries.
random_sample(d, n) ==
  LET count  == IF n > size(d) THEN size(d) ELSE n
      tables == {d.ht0} \cup (IF is_rehashing(d) /\ d.ht1.used > 0
                              THEN {d.ht1} ELSE {})
  IN  UNION {IF t.used = 0 THEN {{}} ELSE SamplesOf(t, count) : t \in tables}

-----------------------------------------------------------------------------
VARIABLES dict, reply

vars == <<dict, reply>>

Init == dict = EmptyDict /\ reply = <<"none">>

Set(k, v) ==
  LET d == rehash_step(dict, 1)
  IN  /\ dict' = SetIn(d, k, v)
      /\ reply' = <<"set", Found(d, k) = {}>>

Value(S) == IF S = {} THEN NoVal ELSE (CHOOSE e \in S : TRUE).val

Get(k) ==
  LET d == rehash_step(dict, 1)
  IN  /\ dict' = d
      /\ reply' = <<"get", k, Value(Found(d, k))>>

\* The const overload of get: it migrates nothing.
Exists(k) ==
  /\ reply' = <<"exists", k, Value(Found(dict, k)) # NoVal>>
  /\ UNCHANGED dict

Del(k) ==
  LET d == rehash_step(dict, 1)
  IN  /\ dict' = DelIn(d, k)
      /\ reply' = <<"del", Found(d, k) # {}>>

Clear == dict' = EmptyDict /\ reply' = <<"clear">>

RandomSample(n) ==
  /\ \E S \in random_sample(dict, n) :
       reply' = <<"sample", {e.key : e \in S}>>
  /\ UNCHANGED dict

ForEach ==
  /\ reply' = <<"for_each", {<<e.key, e.val>> : e \in Visited(dict)},
                size(dict)>>
  /\ UNCHANGED dict

Cron ==
  /\ is_rehashing(dict)
  /\ dict' = rehash_step(dict, CronSteps)
  /\ UNCHANGED reply

Next ==
  \/ \E k \in Key, v \in Val : Set(k, v)
  \/ \E k \in Key : Get(k) \/ Exists(k) \/ Del(k)
  \/ Clear
  \/ \E n \in Counts : RandomSample(n)
  \/ ForEach
  \/ Cron

Spec == Init /\ [][Next]_vars

\* The event loop runs the cron ten times a second for as long as it runs:
\* weak fairness of Cron.  A step of the cron always changes the dict (see
\* RehashAdvances), so it can be taken exactly while a rehash is under way, and
\* WF_vars(Cron) is what is written here.
FairSpec == Spec /\ ([]<>~ is_rehashing(dict) \/ []<><<Cron>>_vars)
-----------------------------------------------------------------------------
(***************************************************************************)
(* Properties.                                                             *)
(***************************************************************************)
TableType(t) ==
  /\ t.size \in Nat
  /\ t.used \in Nat
  /\ t.bucket \in [0..(t.size - 1) -> SUBSET Entry]
  /\ t = [size |-> t.size, used |-> t.used, bucket |-> t.bucket]

DictType(d) ==
  /\ d = [ht0 |-> d.ht0, ht1 |-> d.ht1, rehashidx |-> d.rehashidx]
  /\ TableType(d.ht0)
  /\ TableType(d.ht1)
  /\ d.rehashidx \in Int

AllEntries(d) == Entries(d.ht0) \cup Entries(d.ht1)

\* A table counts its own entries correctly, through inserts, deletes and
\* migrations: size(), the load factor and the end of a rehash rest on it.
UsedIsCount(d) ==
  /\ d.ht0.used = Cardinality(Entries(d.ht0))
  /\ d.ht1.used = Cardinality(Entries(d.ht1))

\* A key has at most one entry over BOTH tables, so that no operation during
\* a rehash leaves a stale twin behind in the other table.
OneEntryPerKey(d) ==
  /\ \A e, f \in AllEntries(d) : e.key = f.key => e = f
  /\ Entries(d.ht0) \cap Entries(d.ht1) = {}

RightBucket(t) == \A i \in 0..(t.size - 1) : \A e \in t.bucket[i] : Index(t, e.key) = i

\* Every entry is in the chain that its hash selects in its table: an entry
\* left elsewhere by a migration would be there and never be found.
InRightBuckets(d) == RightBucket(d.ht0) /\ RightBucket(d.ht1)

\* The cursor of a rehash: below it ht0 is drained, it never passes the end
\* of the bucket array, and ht1 exists exactly while there is a cursor.  The
\* scan of rehash_step has no bounds check of its own and relies on this.
CursorInBounds(d) ==
  /\ d.ht0.size > 0
  /\ d.rehashidx \in -1..d.ht0.size
  /\ is_rehashing(d) <=> ~ IsNull(d.ht1)
  /\ EntriesIn(d.ht0, 0, d.rehashidx) = {}

\* dict.hpp: "Number of buckets (always a power of two)", which is what makes
\* the mask of Index a remainder; and a rehash never copies to the same size.
PowerSizes(d) ==
  /\ d.ht0.size \in PowersOfTwo
  /\ is_rehashing(d) => d.ht1.size \in PowersOfTwo \ {d.ht0.size}

\* The members of Dict and DictHashTable have their types, and the sizes are such
\* that the mask of a table selects any of its buckets.
TypeOK == DictType(dict) /\ PowerSizes(dict)

\* The four other parts, of the dict that the operations change.  The counters
\* agree with the chains.
UsedCountsEntries == UsedIsCount(dict)
\* No key has entries in both tables, or two in one.
NoTwinEntries == OneEntryPerKey(dict)
\* Every entry is where find_in looks for it.
EntriesFindable == InRightBuckets(dict)
\* rehash_step never reads past the bucket array.
RehashInBounds == CursorInBounds(dict)

\* A rehash that an operation finds under way is over after it, or its cursor
\* has moved: no run of operations keeps two tables alive for ever.  Only the
\* const operations leave the dict alone.
RehashAdvances ==
  [][ /\ is_rehashing(dict)
      /\ is_rehashing(dict')
      /\ dict'.ht0.size = dict.ht0.size
      => dict'.rehashidx > dict.rehashidx ]_dict

\* With the cron running, every rehash ends.
RehashCompletes == is_rehashing(dict) ~> ~ is_rehashing(dict)

\* The map that the two tables stand for.
Contents(d) ==
  LET E == AllEntries(d)
  IN  [k \in {e.key : e \in E} |-> (CHOOSE e \in E : e.key = k).val]

\* The dict is a map, whatever the tables are doing: every answer is the one
\* that the map gives, and a rehash step changes nothing a caller can see.
Map == INSTANCE KeyMap WITH contents <- Contents(dict)

ImplementsKeyMap == Map!Spec
=============================================================================
