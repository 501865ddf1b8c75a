---------------------------- MODULE MCWorkQueue ----------------------------
(* A small instance of WorkQueue. *)
EXTENDS WorkQueue

CONSTANTS i1, i2
=============================================================================
