----------------------------- MODULE MCNetwork ------------------------------
(***************************************************************************)
(* An instance of Network for TLC: one client's QUIT may arrive in two     *)
(* reads and is followed by another command, the other client begins with  *)
(* something that cannot be parsed.                                        *)
(***************************************************************************)
EXTENDS Network

CONSTANTS c1, c2

MCScript == [c \in Client |-> IF c = c1 THEN <<"half", "quit", "bad">>
                                        ELSE <<"junk", "cmd">>]
=============================================================================
