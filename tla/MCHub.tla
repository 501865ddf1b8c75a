------------------------------- MODULE MCHub -------------------------------
(* Small instances of Hub for TLC: two users with a connection each, or    *)
(* the first of them with two tabs (and the second nowhere).               *)
EXTENDS Hub, TLC

CONSTANTS c1, c2, u1, u2

TwoUsers == (c1 :> u1) @@ (c2 :> u2)
Alone    == c1 :> u1
TwoTabs  == (c1 :> u1) @@ (c2 :> u1)

(* who sends how much *)
OneSender == (c1 :> 1) @@ (c2 :> 0)
OneAlone  == c1 :> 2
TwoByOne  == (c1 :> 2) @@ (c2 :> 0)
=============================================================================
