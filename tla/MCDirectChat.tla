---------------------------- MODULE MCDirectChat ----------------------------
(* Small instances of DirectChat for TLC. *)
EXTENDS DirectChat, TLC

CONSTANTS i1, i2

Alike == Permutations({i1, i2})
=============================================================================
