----------------------------- MODULE MCFriends -----------------------------
(* A small instance of Friends: three users of whom two start as friends. *)
EXTENDS Friends, TLC

CONSTANTS u1, u2, u3, h1, h2, h3

Seeded  == {<<u2, u3>>}
Callers == Permutations({h1, h2, h3})
=============================================================================
