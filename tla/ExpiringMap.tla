---------------------------- MODULE ExpiringMap -----------------------------
(***************************************************************************)
(* What the keyspace of the server promises: a map whose entries vanish at *)
(* the very instant of their deadline.  There is no key that has expired   *)
(* and is still there, no sampling and no second dict; module Keyspace     *)
(* implements this one.                                                    *)
(***************************************************************************)
EXTENDS Integers, FiniteMaps

CONSTANTS Key, Val,
          Instants,  \* the deadlines a caller can ask for
          Nil        \* the deadline of an entry that never expires

VARIABLES store,     \* from a key to its value and its deadline
          now        \* the wall clock

vars == <<store, now>>

Due(e, t) == e.at # Nil /\ t >= e.at

Unexpired(s, t) == [k \in {j \in DOMAIN s : ~ Due(s[j], t)} |-> s[k]]

Init == store = EmptyMap /\ now = 0

\* Time passes, and the entries that are due are gone.
Tick == now' = now + 1 /\ store' = Unexpired(store, now')

\* A value is written, with a deadline or without.
Put(k, v, at) ==
  /\ store' = Unexpired(Write(store, k, [val |-> v, at |-> at]), now)
  /\ UNCHANGED now

\* Several values are written at once, and their deadlines dropped.
PutAll(f) ==
  /\ store' = [k \in DOMAIN store \cup DOMAIN f |->
                 IF k \in DOMAIN f THEN [val |-> f[k], at |-> Nil] ELSE store[k]]
  /\ UNCHANGED now

\* An entry that is there gets another deadline, or none.
Reschedule(k, at) ==
  /\ k \in DOMAIN store
  /\ store' = Unexpired(Write(store, k, [val |-> store[k].val, at |-> at]), now)
  /\ UNCHANGED now

Remove(K) == store' = [k \in DOMAIN store \ K |-> store[k]] /\ UNCHANGED now

\* A value moves to another key; its deadline does not come along.
Move(j, k) ==
  /\ j \in DOMAIN store
  /\ store' = Write(Erase(store, j), k, [val |-> store[j].val, at |-> Nil])
  /\ UNCHANGED now

Next ==
  \/ Tick
  \/ \E K \in SUBSET Key : Remove(K)
  \/ \E k \in Key, at \in Instants \cup {Nil} : Reschedule(k, at)
  \/ \E j, k \in Key : Move(j, k)
  \/ \E K \in SUBSET Key : \E f \in [K -> Val] : PutAll(f)
  \/ \E k \in Key, v \in Val, at \in Instants \cup {Nil} : Put(k, v, at)

Spec == Init /\ [][Next]_vars
=============================================================================
