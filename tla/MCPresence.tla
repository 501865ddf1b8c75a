---------------------------- MODULE MCPresence ----------------------------
(* Small instances of Presence: a user with tabs on two instances and a    *)
(* user with two tabs on one.                                              *)
EXTENDS Presence, TLC

CONSTANTS c1, c2, c3, c4, u1, u2, i1, i2

UserOf == [c \in Conns |-> IF c \in {c1, c2} THEN u1 ELSE u2]
InstOf == [c \in Conns |-> IF c = c1 THEN i1 ELSE i2]

(* The tabs on the same instance are interchangeable. *)
Tabs == Permutations({c3, c4})
=============================================================================
