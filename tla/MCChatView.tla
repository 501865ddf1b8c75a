----------------------------- MODULE MCChatView -----------------------------
(* A small instance of ChatView for TLC: two interchangeable peers. *)
EXTENDS ChatView, TLC

CONSTANTS p1, p2

TwoPeers == Permutations({p1, p2})
=============================================================================
