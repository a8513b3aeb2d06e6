------------------------------- MODULE KeyMap -------------------------------
(***************************************************************************)
(* What a keva::core::Dict promises its callers: a finite map from keys to *)
(* values.  Nothing of the two hash tables, of the chains or of the        *)
(* progress of an incremental rehash is visible here.  Module Dict         *)
(* implements this one, and module KevaDatabase is written against it.     *)
(***************************************************************************)
EXTENDS Naturals, FiniteSets, FiniteMaps

CONSTANTS Key,      \* the keys (Buffer contents in the code)
          Val,      \* the values (void* payloads in the code)
          NoVal,    \* nullptr: the answer for a key that is absent
          Counts    \* how many entries a caller may ask random_sample for

VARIABLES contents, \* a function whose domain is the set of keys stored
          reply     \* what the last operation returned, tagged by its name

vars == <<contents, reply>>

-----------------------------------------------------------------------------
Init == contents = EmptyMap /\ reply = <<"none">>

Set(k, v) ==
  /\ contents' = Write(contents, k, v)
  /\ reply' = <<"set", k \notin DOMAIN contents>>

Get(k) ==
  /\ reply' = <<"get", k, Lookup(contents, k, NoVal)>>
  /\ UNCHANGED contents

Exists(k) ==
  /\ reply' = <<"exists", k, k \in DOMAIN contents>>
  /\ UNCHANGED contents

Del(k) ==
  /\ contents' = Erase(contents, k)
  /\ reply' = <<"del", k \in DOMAIN contents>>

Clear ==
  /\ contents' = EmptyMap
  /\ reply' = <<"clear">>

\* A sample may be short, or even empty: the callers rely only on the
\* entries being present and on there being no more than they asked for.
Sample(n) ==
  /\ \E S \in SUBSET DOMAIN contents :
       /\ Cardinality(S) <= n
       /\ reply' = <<"sample", S>>
  /\ UNCHANGED contents

\* Every entry once, and the number of visits is the size that is reported.
ForEach ==
  /\ reply' = <<"for_each", {<<k, contents[k]>> : k \in DOMAIN contents},
                Cardinality(DOMAIN contents)>>
  /\ UNCHANGED contents

Next ==
  \/ \E k \in Key, v \in Val : Set(k, v)
  \/ \E k \in Key : Get(k) \/ Exists(k) \/ Del(k)
  \/ Clear
  \/ \E n \in Counts : Sample(n)
  \/ ForEach

Spec == Init /\ [][Next]_vars
=============================================================================
