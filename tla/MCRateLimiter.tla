---------------------------- MODULE MCRateLimiter ----------------------------
(* A small instance of RateLimiter for TLC: one address, a strict and a    *)
(* normal preset.                                                          *)
EXTENDS RateLimiter, TLC

CONSTANTS ip, strict, normal, r1, r2, r3

Limits == (strict :> 1) @@ (normal :> 2)

AnyRequest == Permutations({r1, r2, r3})
=============================================================================
