---------------------------- MODULE MCPersistence ---------------------------
(***************************************************************************)
(* Instances of Persistence for TLC: snapshots of two chunks, so that a    *)
(* file can be half written, and three versions after the empty one, so    *)
(* that an older snapshot and a newer one can meet.                        *)
(***************************************************************************)
EXTENDS Persistence
=============================================================================
