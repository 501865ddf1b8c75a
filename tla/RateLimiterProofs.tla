-------------------------- MODULE RateLimiterProofs --------------------------
(* Proofs about RateLimiter, for any number of requests, identifiers,      *)
(* presets and windows.                                                    *)
EXTENDS RateLimiter, TLAPS

(* What holds of one windowKey: before its window there is nothing; in its *)
(* window a missing counter has given nothing, and one that is there has   *)
(* accounted for every token.  It cannot expire in its window, because it  *)
(* was not set before it.                                                  *)
Account(wk) ==
    /\ wk[2] > now.win => store[wk] = NoCounter
    /\ wk[2] >= now.win /\ store[wk] = NoCounter => granted[wk] = 0 /\ lost[wk] = 0
    /\ wk[2] = now.win /\ store[wk] # NoCounter =>
         store[wk].left + granted[wk] + lost[wk] = Limit[store[wk].first]
    /\ store[wk] # NoCounter => store[wk].since.win >= wk[2]

(* A request was stamped in this window or an earlier one. *)
StampsPast == \A r \in Requests : req[r] = "stamped" => stamp[r] <= now.win

IInv == TypeOK /\ StampsPast /\ \A wk \in WindowKeys : Account(wk)

LEMMA InitIInv == Init => IInv
<1> SUFFICES ASSUME Init PROVE IInv
    OBVIOUS
<1>1. TypeOK
      BY RateAssumption DEF Init, TypeOK, Time, Windows
<1>2. StampsPast
      BY DEF Init, StampsPast
<1>3. \A wk \in WindowKeys : Account(wk)
      BY RateAssumption DEF Init, Account, WindowKeys, Windows
<1>4. QED BY <1>1, <1>2, <1>3 DEF IInv

(* The clock: in the window that begins now nobody has a counter yet, and  *)
(* a counter of the present window outlives the step.                      *)
LEMMA TickIInv == IInv /\ Tick => IInv'
<1> SUFFICES ASSUME IInv, Tick PROVE IInv'
    OBVIOUS
<1> USE RateAssumption DEF IInv, Windows
<1>1. /\ now \in Time /\ now' \in Time
      /\ \/ now'.win = now.win
         \/ now'.win = now.win + 1
  <2>1. CASE now.off < W - 1 /\ now' = [now EXCEPT !.off = @ + 1]
        BY <2>1 DEF TypeOK, Time
  <2>2. CASE now.off = W - 1 /\ now.win < MaxWindow /\ now' = [win |-> now.win + 1, off |-> 0]
        BY <2>2 DEF TypeOK, Time
  <2>3. QED BY <2>1, <2>2 DEF Tick
<1>2. \A wk \in WindowKeys : store'[wk] = IF Expired(store[wk], now') THEN NoCounter ELSE store[wk]
      BY DEF Tick
<1>3. TypeOK'
      BY <1>1 DEF Tick, TypeOK, request
<1>4. StampsPast'
      BY <1>1 DEF Tick, StampsPast, TypeOK, Time, request
<1>5. ASSUME NEW wk \in WindowKeys PROVE Account(wk)'
  <2>1. wk[2] \in Windows /\ granted'[wk] = granted[wk] /\ lost'[wk] = lost[wk]
        BY DEF Tick, WindowKeys
  <2>2. Account(wk)
        OBVIOUS
  <2>3. store[wk] # NoCounter => store[wk] \in Counter
        BY DEF TypeOK
  <2>4. CASE store[wk] = NoCounter
    <3>1. store'[wk] = NoCounter
          BY <1>2, <2>4
    <3>2. QED BY <1>1, <2>1, <2>2, <2>4, <3>1 DEF Account, Time
  <2>5. CASE store[wk] # NoCounter /\ wk[2] > now.win
        BY <2>2, <2>5 DEF Account
  <2>6. CASE store[wk] # NoCounter /\ wk[2] <= now.win
    <3>1. store[wk].since.win \in Nat /\ store[wk].since.win >= wk[2]
          BY <2>2, <2>3, <2>6 DEF Account, Counter, Time
    <3>2. wk[2] = now'.win => now'.win = now.win /\ ~Expired(store[wk], now')
          BY <1>1, <2>1, <2>6, <3>1 DEF Expired, Before, Time
    <3>3. QED BY <1>1, <1>2, <2>1, <2>2, <2>6, <3>1, <3>2 DEF Account, Time
  <2>7. QED BY <1>1, <2>1, <2>4, <2>5, <2>6 DEF Time
<1>6. QED BY <1>3, <1>4, <1>5

(* A script that takes a token: f stands for the history it is entered in. *)
LEMMA TokenIInv ==
    ASSUME IInv, NEW r \in Requests, req[r] = "stamped",
           TokenTaken(WindowKey(r), config[r]), UNCHANGED <<now, request>>,
           req' \in [Requests -> {"new", "stamped", "passed", "refused", "open"}],
           \A q \in Requests : req'[q] = "stamped" => req[q] = "stamped",
           \/ granted' = InTime(WindowKey(r), granted) /\ UNCHANGED lost
           \/ lost' = InTime(WindowKey(r), lost) /\ UNCHANGED granted
    PROVE  IInv'
<1> DEFINE rk == WindowKey(r)
<1> USE RateAssumption DEF IInv, Windows
<1>1. /\ rk \in WindowKeys /\ rk[2] = stamp[r] /\ rk[2] <= now.win
      /\ now \in Time /\ config[r] \in Configs /\ Limit[config[r]] \in Nat \ {0}
      BY DEF WindowKey, WindowKeys, TypeOK, StampsPast
<1>2. \/ /\ store[rk] = NoCounter
         /\ store' = [store EXCEPT ![rk] = [left |-> Limit[config[r]] - 1, first |-> config[r], since |-> now]]
      \/ /\ store[rk] # NoCounter /\ store[rk] \in Counter /\ store[rk].left > 0
         /\ store' = [store EXCEPT ![rk].left = @ - 1]
      BY <1>1 DEF TokenTaken, TypeOK
<1>3. store' \in [WindowKeys -> Counter \cup {NoCounter}]
  <2>1. CASE /\ store[rk] = NoCounter
             /\ store' = [store EXCEPT ![rk] = [left |-> Limit[config[r]] - 1, first |-> config[r], since |-> now]]
    <3>1. [left |-> Limit[config[r]] - 1, first |-> config[r], since |-> now] \in Counter
          BY <1>1 DEF Counter
    <3>2. QED BY <2>1, <3>1 DEF TypeOK
  <2>2. CASE /\ store[rk] \in Counter /\ store[rk].left > 0
             /\ store' = [store EXCEPT ![rk].left = @ - 1]
    <3>1. [store[rk] EXCEPT !.left = @ - 1] \in Counter
          BY <2>2 DEF Counter
    <3>2. QED BY <2>2, <3>1 DEF TypeOK
  <2>3. QED BY <1>2, <2>1, <2>2
<1>4. granted' \in [WindowKeys -> Nat] /\ lost' \in [WindowKeys -> Nat]
      BY <1>1 DEF InTime, TypeOK
<1>5. TypeOK'
      BY <1>3, <1>4 DEF TypeOK, request
<1>6. StampsPast'
      BY DEF StampsPast, request
<1>7. ASSUME NEW wk \in WindowKeys, wk # rk PROVE Account(wk)'
  <2>1. store'[wk] = store[wk] /\ granted'[wk] = granted[wk] /\ lost'[wk] = lost[wk]
        BY <1>1, <1>2, <1>7 DEF InTime, TypeOK
  <2>2. QED BY <2>1 DEF Account
<1>8. ASSUME NEW wk \in WindowKeys, wk = rk PROVE Account(wk)'
  <2>1. store'[rk] # NoCounter
        BY <1>1, <1>2, <1>3 DEF NoCounter, Counter, TypeOK
  <2>2. store'[rk].since.win >= rk[2]
        BY <1>1, <1>2 DEF TypeOK, Account, Counter, Time
  <2>3. ASSUME rk[2] = now.win
        PROVE  store'[rk].left + granted'[rk] + lost'[rk] = Limit[store'[rk].first]
    <3>1. granted[rk] \in Nat /\ lost[rk] \in Nat
          BY <1>1 DEF TypeOK
    <3>2. granted'[rk] + lost'[rk] = granted[rk] + lost[rk] + 1
          BY <1>1, <2>3, <3>1 DEF InTime, TypeOK
    <3>3. CASE /\ store[rk] = NoCounter
               /\ store' = [store EXCEPT ![rk] = [left |-> Limit[config[r]] - 1, first |-> config[r], since |-> now]]
      <4>1. granted[rk] = 0 /\ lost[rk] = 0
            BY <1>1, <2>3, <3>3 DEF Account
      <4>2. store'[rk].left = Limit[config[r]] - 1 /\ store'[rk].first = config[r]
            BY <1>1, <3>3 DEF TypeOK
      <4>3. granted'[rk] \in Nat /\ lost'[rk] \in Nat
            BY <1>1, <1>4
      <4>4. QED BY <1>1, <3>2, <4>1, <4>2, <4>3
    <3>4. CASE /\ store[rk] # NoCounter /\ store[rk] \in Counter
               /\ store' = [store EXCEPT ![rk].left = @ - 1]
      <4>1. store[rk].left + granted[rk] + lost[rk] = Limit[store[rk].first] /\ store[rk].left \in Nat
            BY <1>1, <2>3, <3>4 DEF Account, Counter
      <4>2. store'[rk].left = store[rk].left - 1 /\ store'[rk].first = store[rk].first
            BY <1>1, <3>4 DEF TypeOK, Counter
      <4>3. granted'[rk] \in Nat /\ lost'[rk] \in Nat
            BY <1>1, <1>4
      <4>4. QED BY <3>1, <3>2, <4>1, <4>2, <4>3
    <3>5. QED BY <1>2, <3>3, <3>4
  <2>4. now' = now /\ ~(rk[2] > now.win)
        BY <1>1 DEF Time, WindowKeys
  <2>5. QED BY <1>8, <2>1, <2>2, <2>3, <2>4 DEF Account
<1>9. QED BY <1>5, <1>6, <1>7, <1>8

LEMMA StepIInv == IInv /\ [Next]_vars => IInv'
<1> SUFFICES ASSUME IInv, [Next]_vars PROVE IInv'
    OBVIOUS
<1>1. CASE Tick
      BY <1>1, TickIInv
<1>2. ASSUME NEW r \in Requests, Stamp(r) PROVE IInv'
      BY <1>2, RateAssumption
      DEF IInv, Stamp, TypeOK, StampsPast, Account, Time, Windows
<1>3. ASSUME NEW r \in Requests, Pass(r) PROVE IInv'
  <2>1. /\ req' \in [Requests -> {"new", "stamped", "passed", "refused", "open"}]
        /\ \A q \in Requests : req'[q] = "stamped" => req[q] = "stamped"
        BY <1>3 DEF Pass, IInv, TypeOK
  <2>2. QED BY <1>3, <2>1, TokenIInv DEF Pass
<1>4. ASSUME NEW r \in Requests, AnswerLost(r) PROVE IInv'
  <2>1. /\ req' \in [Requests -> {"new", "stamped", "passed", "refused", "open"}]
        /\ \A q \in Requests : req'[q] = "stamped" => req[q] = "stamped"
        BY <1>4 DEF AnswerLost, IInv, TypeOK
  <2>2. QED BY <1>4, <2>1, TokenIInv DEF AnswerLost
<1>5. ASSUME NEW r \in Requests, Refuse(r) \/ FailOpen(r) PROVE IInv'
      BY <1>5 DEF IInv, Refuse, FailOpen, TypeOK, StampsPast, Account, request
<1>6. CASE UNCHANGED vars
      BY <1>6 DEF IInv, vars, request, TypeOK, StampsPast, Account
<1>7. QED BY <1>1, <1>2, <1>3, <1>4, <1>5, <1>6 DEF Next

LEMMA IInvariant == Spec => []IInv
  BY InitIInv, StepIInv, PTL DEF Spec

THEOREM TypeCorrect == Spec => []TypeOK
<1>1. IInv => TypeOK
      BY DEF IInv
<1>2. QED BY <1>1, IInvariant, PTL

(* No interleaving of instances, delays and lost answers gives more tokens *)
(* in a window than the limit its counter was set with.                    *)
THEOREM QuotaHolds == Spec => []QuotaPerWindow
<1>1. IInv => QuotaPerWindow
  <2> SUFFICES ASSUME IInv, NEW wk \in WindowKeys, granted[wk] > 0, now.win = wk[2]
               PROVE  store[wk] # NoCounter /\ granted[wk] <= Limit[store[wk].first]
      BY DEF QuotaPerWindow
  <2>1. store[wk] # NoCounter
        BY DEF IInv, Account, TypeOK, WindowKeys, Windows
  <2>2. store[wk].left \in Nat /\ granted[wk] \in Nat /\ lost[wk] \in Nat
        BY <2>1 DEF IInv, TypeOK, Counter
  <2>3. store[wk].left + granted[wk] + lost[wk] = Limit[store[wk].first]
        BY <2>1 DEF IInv, Account
  <2>4. QED BY <2>1, <2>2, <2>3
<1>2. QED BY <1>1, IInvariant, PTL

(* Nobody is refused in a window while the counter has a token.            *)
THEOREM RefusalsAreDue == Spec => RefusedOnlyWhenSpent
<1>1. IInv /\ [Next]_vars =>
        [\A r \in Requests :
           LET wk == WindowKey(r)
           IN req'[r] = "refused" /\ req[r] # "refused" /\ now.win = wk[2] =>
                granted[wk] + lost[wk] = Limit[store[wk].first]]_vars
  <2> SUFFICES ASSUME IInv, [Next]_vars, NEW r \in Requests,
                      req'[r] = "refused", req[r] # "refused", now.win = WindowKey(r)[2]
               PROVE  granted[WindowKey(r)] + lost[WindowKey(r)] = Limit[store[WindowKey(r)].first]
      OBVIOUS
  <2>1. Refuse(r)
        BY DEF IInv, TypeOK, Next, vars, Tick, Stamp, Pass, Refuse, AnswerLost, FailOpen
  <2>2. WindowKey(r) \in WindowKeys
        BY DEF IInv, TypeOK, WindowKey, WindowKeys
  <2>3. store[WindowKey(r)] # NoCounter /\ store[WindowKey(r)].left = 0
        BY <2>1 DEF Refuse
  <2>4. granted[WindowKey(r)] \in Nat /\ lost[WindowKey(r)] \in Nat
        BY <2>2 DEF IInv, TypeOK
  <2>5. 0 + granted[WindowKey(r)] + lost[WindowKey(r)] = Limit[store[WindowKey(r)].first]
        BY <2>2, <2>3 DEF IInv, Account
  <2>6. QED BY <2>4, <2>5
<1>2. QED BY <1>1, IInvariant, PTL DEF Spec, RefusedOnlyWhenSpent
=============================================================================
