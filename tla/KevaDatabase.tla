---------------------------- MODULE KevaDatabase ----------------------------
(***************************************************************************)
(* keva::core::KevaDatabase (src/src/core/db.cpp): two dicts over the same *)
(* keys, one from a key to its object and one from a key to the absolute   *)
(* time at which it expires.  They are written separately, by every        *)
(* operation below, and an expired key stays in both until an operation    *)
(* looks at it or the cron samples it.                                     *)
(*                                                                         *)
(* A dict is the map that module KeyMap promises.  A database is a record  *)
(* d, t is the wall clock that the operation reads, and the operations are *)
(* functions of the two.                                                   *)
(***************************************************************************)
EXTENDS KevaObject, FiniteSets, FiniteMaps

CONSTANTS Nil,         \* nullptr: no object, or no deadline
          SampleSize   \* ACTIVE_EXPIRE_SAMPLE_SIZE, 20 in the code

ASSUME SampleAssumption ==
  /\ SampleSize \in Nat \ {0}
  /\ Nil \notin Text /\ Nil \notin Int

EmptyDb == [keys |-> EmptyMap, expires |-> EmptyMap]

\* Mutant: the deadline is left behind.
delete_key_KeysOnly(d, k) == [keys |-> Erase(d.keys, k), expires |-> d.expires]

delete_key(d, k) ==
  [keys |-> Erase(d.keys, k), expires |-> Erase(d.expires, k)]

\* Mutant: a key outlives its deadline by one tick.
is_expired_Late(d, k, t) == k \in DOMAIN d.expires /\ t > d.expires[k]

is_expired(d, k, t) == k \in DOMAIN d.expires /\ t >= d.expires[k]

\* What peek returns, and get too: the object of a key that has not expired.
peek(d, k, t) ==
  IF k \in DOMAIN d.keys /\ ~ is_expired(d, k, t) THEN d.keys[k] ELSE Nil

\* What get leaves behind: lazy expiry deletes the key that it finds expired.
AfterGet(d, k, t) ==
  IF k \in DOMAIN d.keys /\ is_expired(d, k, t) THEN delete_key(d, k) ELSE d

exists(d, k, t) == peek(d, k, t) # Nil

set(d, k, obj) == [keys |-> Write(d.keys, k, obj), expires |-> Erase(d.expires, k)]

\* The answer of del.  It asks the keys only, so an expired key still counts.
HasKey(d, k) == k \in DOMAIN d.keys

set_expire(d, k, at) == [keys |-> d.keys, expires |-> Write(d.expires, k, at)]

remove_expire(d, k) == [keys |-> d.keys, expires |-> Erase(d.expires, k)]

\* Mutant: what is left may be negative, and -1 is what permanent keys have.
pttl_Negative(d, k, t) ==
  IF k \notin DOMAIN d.keys THEN -2
  ELSE IF k \notin DOMAIN d.expires THEN -1
  ELSE Wrap(d.expires[k] - t)

pttl(d, k, t) ==
  IF k \notin DOMAIN d.keys THEN -2
  ELSE IF k \notin DOMAIN d.expires THEN -1
  ELSE LET remaining == Wrap(d.expires[k] - t)
       IN  IF remaining > 0 THEN remaining ELSE 0

\* The keys that for_each visits.
for_each(d, t) == {k \in DOMAIN d.keys : ~ is_expired(d, k, t)}

dbsize(d) == Cardinality(DOMAIN d.keys)

-----------------------------------------------------------------------------
(***************************************************************************)
(* Active expiry: up to three rounds, each over a sample of the deadlines. *)
(***************************************************************************)
\* What random_sample may return: see Sample in module KeyMap.
Samples(d) == {S \in SUBSET DOMAIN d.expires : Cardinality(S) <= SampleSize}

\* Mutant: the comparison the wrong way round.
Expired_Inverted(d, S, t) == {k \in S : t <= d.expires[k]}

Expired(d, S, t) == {k \in S : t >= d.expires[k]}

\* Mutant: the deadlines of the deleted keys stay.
Round_KeysOnly(d, S, t) ==
  [keys    |-> [k \in DOMAIN d.keys \ Expired(d, S, t) |-> d.keys[k]],
   expires |-> d.expires]

\* One round: delete_key for every expired key of the sample S.
Round(d, S, t) ==
  LET gone == Expired(d, S, t)
  IN  [keys    |-> [k \in DOMAIN d.keys \ gone |-> d.keys[k]],
       expires |-> [k \in DOMAIN d.expires \ gone |-> d.expires[k]]]

\* Another round follows unless the sample is empty or less than a quarter of
\* it had expired.
GoesOn(d, S, t) ==
  S # {} /\ 4 * Cardinality(Expired(d, S, t)) >= Cardinality(S)

\* active_expire_cycle takes database d to database e by the first sample S1
\* and, as far as the rounds go on, two more.
active_expire_cycle(d, t, S1, e) ==
  LET d1 == Round(d, S1, t)
  IN  IF ~ GoesOn(d, S1, t)
      THEN e = d1
      ELSE \E S2 \in Samples(d1) :
             LET d2 == Round(d1, S2, t)
             IN  IF ~ GoesOn(d1, S2, t)
                 THEN e = d2
                 ELSE \E S3 \in Samples(d2) : e = Round(d2, S3, t)
=============================================================================
