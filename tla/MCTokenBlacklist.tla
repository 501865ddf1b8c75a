-------------------------- MODULE MCTokenBlacklist --------------------------
(* Small instances of TokenBlacklist: a token that expires at two. *)
EXTENDS TokenBlacklist, TLC

CONSTANTS t1, i1, i2, r1, r2, l1, l2

Lives == [t \in Tokens |-> 2]

(* Processes, requests and logouts are interchangeable. *)
Alike == Permutations({i1, i2}) \cup Permutations({r1, r2}) \cup Permutations({l1, l2})
=============================================================================
