----------------------------- MODULE FiniteMaps -----------------------------
(***************************************************************************)
(* Maps with a finite domain, as the modules above the dict use them.      *)
(***************************************************************************)
EmptyMap == [x \in {} |-> x]

Write(m, k, v) == [x \in DOMAIN m \cup {k} |-> IF x = k THEN v ELSE m[x]]

Erase(m, k) == [x \in DOMAIN m \ {k} |-> m[x]]

Lookup(m, k, none) == IF k \in DOMAIN m THEN m[k] ELSE none
=============================================================================
