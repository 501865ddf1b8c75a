------------------------ MODULE TokenBlacklistProofs ------------------------
(***************************************************************************)
(* A revoked token is refused, with Redis on every process and without it  *)
(* on the process that took the logout, whatever the tokens, the number of *)
(* processes, requests and logouts, and however time passes between their  *)
(* steps, as long as Redis has had no outage.                              *)
(***************************************************************************)
EXTENDS TokenBlacklist, TLAPS

(* A logout on its way to the blacklist enters the token at least until it *)
(* expires.                                                                *)
TTLCovers ==
    \A l \in Logouts :
       lpc[l] = "store" => now + ttl[l] >= Exp[logout[l].tok]

(* Until it expires, a token that counts as revoked on a process has an    *)
(* entry where that process looks, and the entry lasts as long.            *)
Covered(i, t) == IF useRedis THEN redis[t] >= Exp[t] ELSE mem[i][t] >= Exp[t]

RevokedIsCovered ==
    \A i \in Insts, t \in Tokens : RevokedAt(i, t) /\ now < Exp[t] => Covered(i, t)

(* What is being deleted from the map has expired. *)
DeletesExpired == \A d \in deletes : now >= Exp[d[2]]

(* A late request that got past the blacklist carries an expired token. *)
LateIsExpired ==
    \A r \in late : /\ RevokedAt(req[r].inst, req[r].tok)
                    /\ rpc[r] = "verify" => now >= Exp[req[r].tok]

(* Entries of the map last at least as long as their tokens. *)
EntriesLast ==
    \A i \in Insts, t \in Tokens : mem[i][t] # 0 => mem[i][t] >= Exp[t]

IInv == /\ answering = useRedis
        /\ TTLCovers /\ EntriesLast /\ RevokedIsCovered
        /\ DeletesExpired /\ LateIsExpired /\ LateAreRefused

-----------------------------------------------------------------------------
(* Types.                                                                  *)

LEMMA InitType == Init => TypeOK
BY BlacklistAssumption DEF Init, TypeOK

LEMMA LogoutStartType == ASSUME TypeOK, NEW l \in Logouts, LogoutStart(l) PROVE TypeOK'
<1> USE BlacklistAssumption DEF env, lists, requests, LogoutStart
<1>1. logout[l].tok \in Tokens /\ Exp[logout[l].tok] \in Nat /\ now \in Nat
  BY DEF TypeOK
<1>2. ValidToken(logout[l].tok) => Exp[logout[l].tok] - now \in Nat
  BY <1>1 DEF ValidToken
<1>3. lpc' \in [Logouts -> {"new", "store", "done"}] /\ ttl' \in [Logouts -> Nat]
  BY <1>2 DEF TypeOK
<1> QED BY <1>3 DEF TypeOK

LEMMA LogoutStoreType == ASSUME TypeOK, NEW l \in Logouts, LogoutStore(l) PROVE TypeOK'
<1> USE BlacklistAssumption DEF env, requests, LogoutStore
<1>1. /\ logout[l].tok \in Tokens /\ logout[l].inst \in Insts
      /\ now + ttl[l] \in Nat
  BY DEF TypeOK
<1>2. redis' \in [Tokens -> Nat] /\ mem' \in [Insts -> [Tokens -> Nat]]
  <2>1. redis \in [Tokens -> Nat] /\ mem \in [Insts -> [Tokens -> Nat]]
    BY DEF TypeOK
  <2>2. redis' = redis \/ redis' = [redis EXCEPT ![logout[l].tok] = now + ttl[l]]
    OBVIOUS
  <2>3. mem' = mem \/ mem' = [mem EXCEPT ![logout[l].inst][logout[l].tok] = now + ttl[l]]
    OBVIOUS
  <2> HIDE DEF LogoutStore
  <2>4. redis' \in [Tokens -> Nat]
    BY <1>1, <2>1, <2>2
  <2>5. mem' \in [Insts -> [Tokens -> Nat]]
    BY <1>1, <2>1, <2>3
  <2> QED BY <2>4, <2>5
<1>3. lpc' \in [Logouts -> {"new", "store", "done"}] /\ revoked' \subseteq Insts \X Tokens
  BY <1>1 DEF TypeOK
<1> QED BY <1>2, <1>3 DEF TypeOK

LEMMA TypeStep == ASSUME TypeOK, [Next]_vars PROVE TypeOK'
<1> USE DEF env, lists, logouts, requests
<1>1. CASE UNCHANGED vars
  BY <1>1 DEF vars, TypeOK
<1>2. CASE Tick \/ RedisDown \/ RedisUp
  <2>1. now' \in Nat /\ outages' \in Nat
    BY <1>2 DEF Tick, RedisDown, RedisUp, TypeOK
  <2>2. answering' \in BOOLEAN /\ useRedis' \in BOOLEAN
    BY <1>2, ZenonT(30) DEF Tick, RedisDown, RedisUp, TypeOK
  <2>3. UNCHANGED <<lists, logouts, requests>>
    BY <1>2 DEF Tick, RedisDown, RedisUp
  <2> QED BY <2>1, <2>2, <2>3 DEF TypeOK
<1>3. ASSUME NEW r \in Requests, Arrive(r) \/ AskRedis(r) \/ AskMemory(r) \/ Verify(r)
      PROVE  TypeOK'
  <2>1. req[r].inst \in Insts /\ req[r].tok \in Tokens
    BY DEF TypeOK
  <2>2. rpc' \in [Requests -> {"new", "ask", "verify", "refused", "served"}]
    BY <1>3 DEF Arrive, AskRedis, AskMemory, Verify, ReqGoto, TypeOK
  <2>3. late' \subseteq Requests /\ deletes' \subseteq Insts \X Tokens
    BY <1>3, <2>1 DEF Arrive, AskRedis, AskMemory, Verify, TypeOK
  <2> QED BY <1>3, <2>2, <2>3 DEF Arrive, AskRedis, AskMemory, Verify, TypeOK
<1>4. ASSUME NEW i \in Insts, CleanupExpired(i) \/ \E t \in Tokens : Delete(i, t)
      PROVE  TypeOK'
  <2>1. mem \in [Insts -> [Tokens -> Nat]]
    BY DEF TypeOK
  <2>2. mem' \in [Insts -> [Tokens -> Nat]]
    <3>1. CASE CleanupExpired(i)
      <4>1. [t \in Tokens |-> IF now > mem[i][t] THEN 0 ELSE mem[i][t]] \in [Tokens -> Nat]
        BY <2>1
      <4> QED BY <2>1, <3>1, <4>1 DEF CleanupExpired
    <3>2. CASE \E t \in Tokens : Delete(i, t)
      BY <2>1, <3>2 DEF Delete
    <3> QED BY <1>4, <3>1, <3>2
  <2> QED BY <1>4, <2>2 DEF CleanupExpired, Delete, TypeOK
<1> QED BY <1>1, <1>2, <1>3, <1>4, LogoutStartType, LogoutStoreType DEF Next

(* Every reachable state is well typed: no ttl is negative, no logout of   *)
(* an expired token reaches the blacklist (handleLogout).                  *)
THEOREM TypeCorrect == Spec => []TypeOK
<1> QED BY InitType, TypeStep, PTL DEF Spec

-----------------------------------------------------------------------------
(* The invariant, while there is no outage.                                *)

(* Nothing has been revoked, asked or entered in the beginning. *)
LEMMA InitIInv == ASSUME Init PROVE IInv
BY DEF Init, IInv, TTLCovers, RevokedIsCovered, RevokedAt, DeletesExpired, EntriesLast,
       LateIsExpired, LateAreRefused

(* Time only takes tokens and entries closer to their end. *)
LEMMA TickStep == ASSUME TypeOK, IInv, Tick PROVE IInv'
<1> USE BlacklistAssumption DEF IInv, env, lists, logouts, requests, Tick
<1>1. TTLCovers'
  BY DEF TTLCovers, TypeOK
<1>0. \A i, t : RevokedAt(i, t)' <=> RevokedAt(i, t)
  BY DEF RevokedAt
<1>2. RevokedIsCovered'
  BY <1>0 DEF RevokedIsCovered, Covered, TypeOK
<1>3. DeletesExpired'
  BY DEF DeletesExpired, TypeOK
<1>4. LateIsExpired'
  BY <1>0 DEF LateIsExpired, TypeOK
<1> QED BY <1>1, <1>2, <1>3, <1>4 DEF EntriesLast, LateAreRefused

(* The logout handler verifies the token and computes its ttl. *)
LEMMA LogoutStartStep ==
    ASSUME TypeOK, IInv, NEW l \in Logouts, LogoutStart(l) PROVE IInv'
<1> USE BlacklistAssumption DEF IInv, env, lists, logouts, requests, LogoutStart
<1> DEFINE rest == Exp[logout[l].tok] - now
<1>1. now + rest >= Exp[logout[l].tok]
  BY DEF TypeOK
<1>2. TTLCovers'
  <2>1. CASE ValidToken(logout[l].tok)
    <3>1. ttl' = [ttl EXCEPT ![l] = rest] /\ lpc' = [lpc EXCEPT ![l] = "store"]
      BY <2>1
    <3> HIDE DEF rest
    <3> QED BY <1>1, <3>1 DEF TTLCovers, TypeOK
  <2>2. CASE ~ValidToken(logout[l].tok)
    BY <2>2 DEF TTLCovers, TypeOK
  <2> QED BY <2>1, <2>2
<1>3. RevokedIsCovered' /\ EntriesLast' /\ DeletesExpired'
  BY DEF RevokedIsCovered, RevokedAt, Covered, EntriesLast, DeletesExpired
<1> QED BY <1>2, <1>3 DEF LateIsExpired, RevokedAt, LateAreRefused

(* The entry is made: in Redis, or in the map of the process. *)
LEMMA LogoutStoreStep ==
    ASSUME TypeOK, IInv, NEW l \in Logouts, LogoutStore(l) PROVE IInv'
<1> USE BlacklistAssumption DEF IInv, env, lists, logouts, requests, LogoutStore
<1> DEFINE t == logout[l].tok
           j == logout[l].inst
           until == now + ttl[l]
<1>0. /\ t \in Tokens /\ until \in Nat /\ j \in Insts
      /\ Exp[t] \in Nat /\ until >= Exp[t] /\ answering = useRedis
      /\ mem \in [Insts -> [Tokens -> Nat]] /\ redis \in [Tokens -> Nat]
  BY DEF TypeOK, TTLCovers
<1>1. /\ useRedis  => redis' = [redis EXCEPT ![t] = until] /\ mem' = mem
      /\ ~useRedis => mem' = [mem EXCEPT ![j][t] = until]
      /\ revoked' = revoked \cup {<<j, t>>}
  BY <1>0
<1>2. TTLCovers'
  BY DEF TTLCovers, TypeOK
<1>3. EntriesLast'
  <2> SUFFICES ASSUME NEW i \in Insts, NEW s \in Tokens, mem'[i][s] # 0
               PROVE  mem'[i][s] >= Exp[s]
    BY DEF EntriesLast
  <2>1. mem'[i][s] = mem[i][s] \/ (s = t /\ mem'[i][s] = until)
    <3> HIDE DEF t, j, until, LogoutStore
    <3> QED BY <1>0, <1>1
  <2> QED BY <1>0, <2>1 DEF EntriesLast
<1>4. RevokedIsCovered'
  <2> SUFFICES ASSUME NEW i \in Insts, NEW s \in Tokens, RevokedAt(i, s)', now < Exp[s]
               PROVE  Covered(i, s)'
    BY DEF RevokedIsCovered
  <2>1. Exp[s] \in Nat /\ UNCHANGED useRedis
    OBVIOUS
  <2>2. CASE RevokedAt(i, s)
    <3>1. Covered(i, s)
      BY <2>2 DEF RevokedIsCovered
    <3> HIDE DEF t, j, until, LogoutStore
    <3> QED BY <1>0, <1>1, <2>1, <3>1 DEF Covered
  <2>3. CASE ~RevokedAt(i, s)
    <3>1. s = t /\ (useRedis \/ i = j)
      BY <1>1, <2>1, <2>3 DEF RevokedAt
    <3> HIDE DEF t, j, until, LogoutStore
    <3> QED BY <1>0, <1>1, <2>1, <3>1 DEF Covered
  <2> QED BY <2>2, <2>3
<1>5. LateIsExpired'
  BY DEF LateIsExpired, RevokedAt
<1> QED BY <1>2, <1>3, <1>4, <1>5 DEF DeletesExpired, LateAreRefused

(* A request whose token is revoked is late from its arrival on. *)
LEMMA ArriveStep == ASSUME TypeOK, IInv, NEW r \in Requests, Arrive(r) PROVE IInv'
<1> USE DEF IInv, env, lists, logouts, requests, Arrive, ReqGoto
<1>1. LateIsExpired' /\ LateAreRefused'
  BY DEF LateIsExpired, RevokedAt, LateAreRefused, TypeOK
<1> QED BY <1>1 DEF TTLCovers, EntriesLast, RevokedIsCovered, RevokedAt, Covered, DeletesExpired

(* Redis has the key of a revoked token as long as the token lives. *)
LEMMA AskRedisStep == ASSUME TypeOK, IInv, NEW r \in Requests, AskRedis(r) PROVE IInv'
<1> USE BlacklistAssumption DEF IInv, env, lists, logouts, requests, AskRedis, ReqGoto
<1>1. LateIsExpired'
  <2>1. /\ req[r].tok \in Tokens /\ req[r].inst \in Insts /\ Exp[req[r].tok] \in Nat
        /\ redis[req[r].tok] \in Nat /\ now \in Nat /\ useRedis
    BY DEF TypeOK
  <2>2. r \in late /\ now < Exp[req[r].tok] => redis[req[r].tok] >= Exp[req[r].tok]
    BY <2>1 DEF LateIsExpired, RevokedIsCovered, Covered
  <2>3. \A i, t : RevokedAt(i, t)' <=> RevokedAt(i, t)
    BY DEF RevokedAt
  <2> QED BY <2>1, <2>2, <2>3 DEF LateIsExpired, TypeOK
<1>2. LateAreRefused'
  BY DEF LateAreRefused, TypeOK
<1> QED BY <1>1, <1>2 DEF TTLCovers, EntriesLast, RevokedIsCovered, RevokedAt, Covered,
                          DeletesExpired

(* The map has it too, and lets go only of entries of expired tokens. *)
LEMMA AskMemoryStep == ASSUME TypeOK, IInv, NEW r \in Requests, AskMemory(r) PROVE IInv'
<1> USE BlacklistAssumption DEF IInv, env, lists, logouts, requests, AskMemory, ReqGoto
<1> DEFINE i == req[r].inst
           t == req[r].tok
<1>0. /\ i \in Insts /\ t \in Tokens /\ Exp[t] \in Nat /\ Exp[t] > 0
      /\ mem[i][t] \in Nat /\ now \in Nat /\ ~useRedis
  BY DEF TypeOK
<1>1. DeletesExpired'
  BY <1>0 DEF DeletesExpired, EntriesLast
<1>2. LateIsExpired'
  <2>1. r \in late /\ (mem[i][t] = 0 \/ now > mem[i][t]) => now >= Exp[t]
    <3>1. r \in late /\ now < Exp[t] => mem[i][t] >= Exp[t]
      BY <1>0 DEF LateIsExpired, RevokedIsCovered, Covered
    <3> QED BY <1>0, <3>1
  <2> QED BY <1>0, <2>1 DEF LateIsExpired, RevokedAt, TypeOK
<1>3. LateAreRefused'
  BY DEF LateAreRefused, TypeOK
<1> QED BY <1>1, <1>2, <1>3 DEF TTLCovers, EntriesLast, RevokedIsCovered, RevokedAt, Covered

(* Whoever gets here late has an expired token. *)
LEMMA VerifyStep == ASSUME TypeOK, IInv, NEW r \in Requests, Verify(r) PROVE IInv'
<1> USE BlacklistAssumption DEF IInv, env, lists, logouts, requests, Verify, ReqGoto
<1>1. LateAreRefused'
  <2>1. r \in late /\ rpc[r] = "verify" => ~ValidToken(req[r].tok)
    <3>1. Exp[req[r].tok] \in Nat /\ now \in Nat
      BY DEF TypeOK
    <3> QED BY <3>1 DEF LateIsExpired, ValidToken
  <2> QED BY <2>1 DEF LateAreRefused, TypeOK
<1>2. LateIsExpired'
  BY DEF LateIsExpired, RevokedAt, TypeOK
<1> QED BY <1>1, <1>2 DEF TTLCovers, EntriesLast, RevokedIsCovered, RevokedAt, Covered,
                          DeletesExpired

(* Removals from the map hit expired tokens only. *)
LEMMA DeleteStep ==
    ASSUME TypeOK, IInv, NEW i \in Insts, NEW t \in Tokens, Delete(i, t) PROVE IInv'
<1> USE BlacklistAssumption DEF IInv, env, lists, logouts, requests, Delete
<1>1. EntriesLast'
  BY DEF EntriesLast, TypeOK
<1>2. RevokedIsCovered'
  <2>1. now >= Exp[t]
    BY DEF DeletesExpired
  <2>2. \A j, s : RevokedAt(j, s)' <=> RevokedAt(j, s)
    BY DEF RevokedAt
  <2>3. /\ now \in Nat /\ mem \in [Insts -> [Tokens -> Nat]]
        /\ mem' = [mem EXCEPT ![i][t] = 0] /\ UNCHANGED <<now, useRedis, redis>>
    BY DEF TypeOK
  <2> SUFFICES ASSUME NEW j \in Insts, NEW s \in Tokens, RevokedAt(j, s), now < Exp[s]
               PROVE  Covered(j, s)'
    BY <2>2 DEF RevokedIsCovered
  <2>4. Covered(j, s) /\ s # t
    BY <2>1, <2>3 DEF RevokedIsCovered
  <2> HIDE DEF Delete
  <2> QED BY <2>3, <2>4 DEF Covered
<1> QED BY <1>1, <1>2 DEF TTLCovers, DeletesExpired, LateIsExpired, RevokedAt, LateAreRefused

LEMMA CleanupStep == ASSUME TypeOK, IInv, NEW i \in Insts, CleanupExpired(i) PROVE IInv'
<1> USE BlacklistAssumption DEF IInv, env, lists, logouts, requests, CleanupExpired
<1>1. EntriesLast'
  BY DEF EntriesLast, TypeOK
<1>2. RevokedIsCovered'
  <2>1. \A j, s : RevokedAt(j, s)' <=> RevokedAt(j, s)
    BY DEF RevokedAt
  <2>2. /\ now \in Nat /\ mem \in [Insts -> [Tokens -> Nat]] /\ ~useRedis
        /\ UNCHANGED <<now, useRedis>>
    BY DEF TypeOK
  <2> SUFFICES ASSUME NEW j \in Insts, NEW s \in Tokens, RevokedAt(j, s), now < Exp[s]
               PROVE  mem'[j][s] >= Exp[s]
    BY <2>1, <2>2 DEF RevokedIsCovered, Covered
  <2>3. mem[j][s] >= Exp[s] /\ mem[j][s] \in Nat /\ Exp[s] \in Nat
    BY <2>2 DEF RevokedIsCovered, Covered
  <2> QED BY <2>2, <2>3
<1> QED BY <1>1, <1>2 DEF TTLCovers, DeletesExpired, LateIsExpired, RevokedAt, LateAreRefused

(* No outage so far means none before, and then every step keeps IInv. *)
LEMMA NextStep ==
    ASSUME TypeOK, outages = 0 => IInv, [Next]_vars PROVE (outages = 0 => IInv)'
<1> SUFFICES ASSUME outages' = 0 PROVE IInv'
  OBVIOUS
<1>1. CASE UNCHANGED vars
  BY <1>1 DEF vars, env, lists, logouts, requests, IInv, TTLCovers, EntriesLast, RevokedAt,
              RevokedIsCovered, Covered, DeletesExpired, LateIsExpired, LateAreRefused
<1>2. CASE Next
  <2>1. ~RedisDown
    BY DEF RedisDown, TypeOK
  <2>2. outages = 0
    BY <1>2, <2>1 DEF Next, Tick, RedisUp, LogoutStart, LogoutStore, Arrive, AskRedis, AskMemory,
                      Verify, Delete, CleanupExpired, env
  <2>3. ~RedisUp
    BY <2>2 DEF RedisUp, IInv
  <2> QED BY <1>2, <2>1, <2>2, <2>3, TickStep, LogoutStartStep, LogoutStoreStep, ArriveStep,
             AskRedisStep, AskMemoryStep, VerifyStep, DeleteStep, CleanupStep DEF Next
<1> QED BY <1>1, <1>2

(* Revocation holds until Redis fails: no request that arrives after a     *)
(* logout of its token is served, with Redis on any process and without it *)
(* on the process of the logout (blacklist.go, handleLogout,               *)
(* AuthMiddleware).                                                        *)
THEOREM RevocationHolds == Spec => []RevokedIsRefused
<1>1. Init => TypeOK /\ (outages = 0 => IInv)
  BY InitType, InitIInv
<1>2. TypeOK /\ (outages = 0 => IInv) /\ [Next]_vars => TypeOK' /\ (outages = 0 => IInv)'
  BY TypeStep, NextStep
<1>3. (outages = 0 => IInv) => RevokedIsRefused
  BY DEF IInv, RevokedIsRefused
<1> QED BY <1>1, <1>2, <1>3, PTL DEF Spec
=============================================================================
