------------------------------- MODULE MCDict -------------------------------
(***************************************************************************)
(* An instance of Dict for TLC.  Five keys are the fewest with which a     *)
(* table of four expands to sixteen; deleting down to one key makes the    *)
(* table of sixteen shrink again, with keys to insert during the move.     *)
(* The hashes fill three buckets of the small table, so that a move has a  *)
(* beginning, a middle and an end, two keys sharing a chain in each of two *)
(* of them (1 and 5, 2 and 18).  In the large table 2 and 18 are together  *)
(* again, and 12 is beyond the ten empty buckets that one step may skip.   *)
(***************************************************************************)
EXTENDS Dict

MCHash == [k \in Key |-> CASE k = "a" -> 1  [] k = "b" -> 5  [] k = "c" -> 12
                           [] k = "d" -> 2  [] k = "e" -> 18]
=============================================================================
