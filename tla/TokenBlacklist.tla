--------------------------- MODULE TokenBlacklist ---------------------------
(***************************************************************************)
(* Revocation of JWTs (server/internal/auth/blacklist.go): the logout      *)
(* handler enters the token, for the rest of its life, in Redis or, when   *)
(* Redis is not configured or does not answer, in the process's own map;   *)
(* every request and every WebSocket upgrade asks the blacklist first and  *)
(* then verifies the token, its expiry included.                           *)
(*                                                                         *)
(* Time is a counter that passes between any two steps.  The mutex makes   *)
(* each access to the map atomic; what lies between two accesses is not.   *)
(***************************************************************************)
EXTENDS Integers

CONSTANTS Tokens,
          Exp,        \* when each token expires (its exp claim)
          Insts,      \* server processes
          Requests,   \* bound: requests that authenticate
          Logouts,    \* bound: calls of the logout handler
          MaxTime,    \* bound: the clock
          MaxOutages  \* bound: how often Redis stops answering

ASSUME BlacklistAssumption ==
    /\ Exp \in [Tokens -> Nat \ {0}]
    /\ {MaxTime, MaxOutages} \subseteq Nat

VARIABLES now,
          useRedis,  \* was Redis there when the processes started?
          answering, \* does Redis answer?
          outages,   \* how often it has stopped to
          redis,     \* Redis: until when each token's key exists; 0 is never
          mem,       \* inMemory of each process: likewise, by token
          deletes,   \* removals that IsTokenBlacklisted has started
          logout,    \* the logout calls: [inst, tok], set at the start
          lpc,       \* where each stands
          ttl,       \* the time it computed
          req,       \* the requests: [inst, tok], set at the start
          rpc,       \* where each stands
          late,      \* those that arrived after their token was revoked
          revoked    \* logouts that have reported success: <<inst, tok>>

env == <<now, useRedis, answering, outages>>
lists == <<redis, mem, deletes>>
logouts == <<logout, lpc, ttl, revoked>>
requests == <<req, rpc, late>>
vars == <<env, lists, logouts, requests>>

Init == /\ now = 0 /\ useRedis \in BOOLEAN /\ answering = useRedis /\ outages = 0
        /\ redis = [t \in Tokens |-> 0]
        /\ mem = [i \in Insts |-> [t \in Tokens |-> 0]]
        /\ deletes = {}
        /\ logout \in [Logouts -> [inst : Insts, tok : Tokens]]
        /\ lpc = [l \in Logouts |-> "new"] /\ ttl = [l \in Logouts |-> 0]
        /\ req \in [Requests -> [inst : Insts, tok : Tokens]]
        /\ rpc = [r \in Requests |-> "new"] /\ late = {}
        /\ revoked = {}

-----------------------------------------------------------------------------
(* The environment.                                                        *)

Tick == /\ now < MaxTime
        /\ now' = now + 1
        /\ UNCHANGED <<useRedis, answering, outages, lists, logouts, requests>>

(* Redis stops answering, and answers again with the keys it had. *)
RedisDown == /\ answering /\ outages < MaxOutages
             /\ answering' = FALSE /\ outages' = outages + 1
             /\ UNCHANGED <<now, useRedis, lists, logouts, requests>>

RedisUp == /\ useRedis /\ ~answering
           /\ answering' = TRUE
           /\ UNCHANGED <<now, useRedis, outages, lists, logouts, requests>>

(* A valid signature and the claim exp in the future. *)
ValidToken(t) == now < Exp[t]

-----------------------------------------------------------------------------
(* handleLogout: verify the token, compute what is left of its life, enter *)
(* it.  A token already revoked is accepted here.                          *)

(* Mutant: neither the token nor the sign of the ttl is looked at. *)
LogoutStartUnchecked(l) ==
    /\ lpc[l] = "new"
    /\ lpc' = [lpc EXCEPT ![l] = "store"]
    /\ ttl' = [ttl EXCEPT ![l] = Exp[logout[l].tok] - now]
    /\ UNCHANGED <<env, lists, logout, revoked, requests>>

LogoutStart(l) ==
    /\ lpc[l] = "new"
    /\ IF ValidToken(logout[l].tok)
       THEN /\ lpc' = [lpc EXCEPT ![l] = "store"]
            /\ ttl' = [ttl EXCEPT ![l] = Exp[logout[l].tok] - now]
       ELSE lpc' = [lpc EXCEPT ![l] = "done"] /\ UNCHANGED ttl
    /\ UNCHANGED <<env, lists, logout, revoked, requests>>

(* Mutant: the ttl is taken for the time of expiry. *)
LogoutStoreTTL(l) ==
    LET t == logout[l].tok  until == ttl[l] IN
    /\ lpc[l] = "store"
    /\ lpc' = [lpc EXCEPT ![l] = "done"]
    /\ revoked' = revoked \cup {<<logout[l].inst, t>>}
    /\ IF answering
       THEN redis' = [redis EXCEPT ![t] = until] /\ UNCHANGED mem
       ELSE mem' = [mem EXCEPT ![logout[l].inst][t] = until] /\ UNCHANGED redis
    /\ UNCHANGED <<env, deletes, logout, ttl, requests>>

(* BlacklistToken: SET with the ttl; where Redis is absent or fails (with  *)
(* the SET done or not), the map.  Then the response.                      *)
LogoutStore(l) ==
    LET t == logout[l].tok  until == now + ttl[l] IN
    /\ lpc[l] = "store"
    /\ lpc' = [lpc EXCEPT ![l] = "done"]
    /\ revoked' = revoked \cup {<<logout[l].inst, t>>}
    /\ IF answering
       THEN redis' = [redis EXCEPT ![t] = until] /\ UNCHANGED mem
       ELSE /\ mem' = [mem EXCEPT ![logout[l].inst][t] = until]
            /\ redis' \in {redis} \cup (IF useRedis THEN {[redis EXCEPT ![t] = until]} ELSE {})
    /\ UNCHANGED <<env, deletes, logout, ttl, requests>>

-----------------------------------------------------------------------------
(* A request, or a WebSocket upgrade, that carries a token.                *)

ReqGoto(r, l) == rpc' = [rpc EXCEPT ![r] = l]

(* Where a revocation counts: everywhere, or on its own process without Redis. *)
RevokedAt(i, t) == \E j \in Insts : <<j, t>> \in revoked /\ (useRedis \/ j = i)

(* It arrives; it is late when its token was revoked before. *)
Arrive(r) ==
    /\ rpc[r] = "new"
    /\ ReqGoto(r, "ask")
    /\ late' = IF RevokedAt(req[r].inst, req[r].tok) THEN late \cup {r} ELSE late
    /\ UNCHANGED <<env, lists, logouts, req>>

(* IsTokenBlacklisted: what Redis says, when it answers. *)
AskRedis(r) ==
    /\ rpc[r] = "ask" /\ answering
    /\ ReqGoto(r, IF redis[req[r].tok] > now THEN "refused" ELSE "verify")
    /\ UNCHANGED <<env, lists, logouts, req, late>>

(* Otherwise the map: an entry whose time has passed is handed to a        *)
(* goroutine that will delete it, whatever it is by then.                  *)
AskMemory(r) ==
    LET i == req[r].inst  t == req[r].tok IN
    /\ rpc[r] = "ask" /\ ~answering
    /\ IF mem[i][t] = 0
       THEN ReqGoto(r, "verify") /\ UNCHANGED deletes
       ELSE IF now > mem[i][t]
       THEN ReqGoto(r, "verify") /\ deletes' = deletes \cup {<<i, t>>}
       ELSE ReqGoto(r, "refused") /\ UNCHANGED deletes
    /\ UNCHANGED <<env, redis, mem, logouts, req, late>>

Verify(r) ==
    /\ rpc[r] = "verify"
    /\ ReqGoto(r, IF ValidToken(req[r].tok) THEN "served" ELSE "refused")
    /\ UNCHANGED <<env, lists, logouts, req, late>>

Delete(i, t) ==
    /\ <<i, t>> \in deletes
    /\ deletes' = deletes \ {<<i, t>>}
    /\ mem' = [mem EXCEPT ![i][t] = 0]
    /\ UNCHANGED <<env, redis, logouts, requests>>

(* cleanupExpired: a sweep every ten minutes, started only without Redis. *)
CleanupExpired(i) ==
    /\ ~useRedis
    /\ mem' = [mem EXCEPT ![i] = [t \in Tokens |-> IF now > @[t] THEN 0 ELSE @[t]]]
    /\ UNCHANGED <<env, redis, deletes, logouts, requests>>

-----------------------------------------------------------------------------
Next == \/ Tick \/ RedisDown \/ RedisUp
        \/ \E l \in Logouts : LogoutStart(l) \/ LogoutStore(l)
        \/ \E r \in Requests : Arrive(r) \/ AskRedis(r) \/ AskMemory(r) \/ Verify(r)
        \/ \E i \in Insts : \/ CleanupExpired(i)
                            \/ \E t \in Tokens : Delete(i, t)

Spec == Init /\ [][Next]_vars

-----------------------------------------------------------------------------
TypeOK ==
    /\ now \in Nat /\ useRedis \in BOOLEAN /\ answering \in BOOLEAN /\ outages \in Nat
    /\ redis \in [Tokens -> Nat]
    /\ mem \in [Insts -> [Tokens -> Nat]]
    /\ deletes \subseteq Insts \X Tokens
    /\ logout \in [Logouts -> [inst : Insts, tok : Tokens]]
    /\ lpc \in [Logouts -> {"new", "store", "done"}] /\ ttl \in [Logouts -> Nat]
    /\ req \in [Requests -> [inst : Insts, tok : Tokens]]
    /\ rpc \in [Requests -> {"new", "ask", "verify", "refused", "served"}]
    /\ late \subseteq Requests
    /\ revoked \subseteq Insts \X Tokens

(* A request that arrives after a logout of its token has answered is      *)
(* refused.                                                                *)
LateAreRefused == \A r \in late : rpc[r] # "served"

(* As long as Redis has not failed, a late request is refused: by the      *)
(* blacklist while the entry lasts, and from then on because the token has *)
(* expired.  It holds on all processes with Redis, and without it on the   *)
(* process that took the logout; lookups, delayed deletions and sweeps     *)
(* must not open a gap between the two.                                    *)
RevokedIsRefused == outages = 0 => LateAreRefused

=============================================================================
