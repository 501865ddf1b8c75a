----------------------------- MODULE RateLimiter -----------------------------
(* The request limits (middleware/ratelimit.go): any number of server      *)
(* instances share counters in Redis, one for an identifier (a client's    *)
(* address, or a user for WebSocket messages) and a window of the clock.   *)
(* A request reads the clock, runs a script in Redis that takes a token    *)
(* from the window's counter if there is one left, and is served if it got *)
(* one or if Redis did not answer.                                         *)
EXTENDS Integers

CONSTANTS
  Requests,     \* HTTP requests and WebSocket messages
  Keys,         \* what getIdentifier and CheckUserMessageRate make of them
  Configs,      \* the presets: StrictLimit, NormalLimit, ...
  Limit,        \* Limit[c]: RequestsPerMinute of the preset c
  W,            \* the length of a window in clock units (60 s)
  MaxWindow     \* bound: the last window of a behaviour

ASSUME RateAssumption ==
    /\ Limit \in [Configs -> Nat \ {0}]
    /\ W \in Nat \ {0}
    /\ MaxWindow \in Nat

Windows == 0..MaxWindow

(* A time: the window it lies in (the clock divided by W) and the rest. *)
Time == [win : Windows, off : 0..(W - 1)]
Before(s, t) == s.win < t.win \/ (s.win = t.win /\ s.off <= t.off)

Counter == [left : Nat, first : Configs, since : Time]
NoCounter == [left |-> -1]

VARIABLES
  now,      \* the clock
  store,    \* Redis: the counter of each windowKey, or NoCounter
  req,      \* "new", "stamped" (windowKey computed), "passed" (took a token),
            \* "refused" or "open" (served without an answer from Redis)
  key,      \* the identifier of each request
  config,   \* the preset its route was registered with
  stamp,    \* the window in its windowKey
  granted,  \* history: tokens given to requests, per windowKey, in its window
  lost      \* history: tokens taken by scripts nobody got an answer from

vars    == <<now, store, req, key, config, stamp, granted, lost>>
request == <<key, config, stamp>>

WindowKeys == Keys \X Windows

Init ==
    /\ now = [win |-> 0, off |-> 0]
    /\ store = [wk \in WindowKeys |-> NoCounter]
    /\ req = [r \in Requests |-> "new"]
    /\ key \in [Requests -> Keys] /\ config \in [Requests -> Configs]
    /\ stamp = [r \in Requests |-> 0]
    /\ granted = [wk \in WindowKeys |-> 0] /\ lost = [wk \in WindowKeys |-> 0]

(* Mutant: the lifetime of a counter is a fraction of the window. *)
ExpiredEarly(c, t) ==
    c # NoCounter /\ Before([win |-> c.since.win, off |-> c.since.off + 1], t)

(* EX window: a counter lives for W, counted from the script that set it. *)
Expired(c, t) ==
    c # NoCounter /\ Before([win |-> c.since.win + 1, off |-> c.since.off], t)

(* The clock goes on, and Redis drops what has expired. *)
Tick ==
    /\ \/ now.off < W - 1 /\ now' = [now EXCEPT !.off = @ + 1]
       \/ now.off = W - 1 /\ now.win < MaxWindow /\ now' = [win |-> now.win + 1, off |-> 0]
    /\ store' = [wk \in WindowKeys |-> IF Expired(store[wk], now') THEN NoCounter ELSE store[wk]]
    /\ UNCHANGED <<req, request, granted, lost>>

(* CheckLimit reads the clock and computes the windowKey. *)
Stamp(r) ==
    /\ req[r] = "new"
    /\ stamp' = [stamp EXCEPT ![r] = now.win]
    /\ req' = [req EXCEPT ![r] = "stamped"]
    /\ UNCHANGED <<now, store, key, config, granted, lost>>

WindowKey(r) == <<key[r], stamp[r]>>

(* Mutant: the script does not look whether a token is left. *)
TokenTakenUnchecked(wk, c) ==
    \/ /\ store[wk] = NoCounter
       /\ store' = [store EXCEPT ![wk] = [left |-> Limit[c] - 1, first |-> c, since |-> now]]
    \/ /\ store[wk] # NoCounter
       /\ store' = [store EXCEPT ![wk].left = @ - 1]

(* The script where it returns 1.  The limit of the preset counts only for *)
(* the request that finds no counter.                                      *)
TokenTaken(wk, c) ==
    \/ /\ store[wk] = NoCounter
       /\ store' = [store EXCEPT ![wk] = [left |-> Limit[c] - 1, first |-> c, since |-> now]]
    \/ /\ store[wk] # NoCounter /\ store[wk].left > 0
       /\ store' = [store EXCEPT ![wk].left = @ - 1]

(* A token given, or taken in vain, in the window the key names *)
InTime(wk, f) == [f EXCEPT ![wk] = IF now.win = wk[2] THEN @ + 1 ELSE @]

Pass(r) ==
    /\ req[r] = "stamped"
    /\ TokenTaken(WindowKey(r), config[r])
    /\ req' = [req EXCEPT ![r] = "passed"]
    /\ granted' = InTime(WindowKey(r), granted)
    /\ UNCHANGED <<now, request, lost>>

(* Mutant: the last token is never given. *)
RefuseOneEarly(r) ==
    /\ req[r] = "stamped"
    /\ store[WindowKey(r)] # NoCounter /\ store[WindowKey(r)].left <= 1
    /\ req' = [req EXCEPT ![r] = "refused"]
    /\ UNCHANGED <<now, store, request, granted, lost>>

(* The script where it returns 0: 429, or an error message to the sender. *)
Refuse(r) ==
    /\ req[r] = "stamped"
    /\ store[WindowKey(r)] # NoCounter /\ store[WindowKey(r)].left = 0
    /\ req' = [req EXCEPT ![r] = "refused"]
    /\ UNCHANGED <<now, store, request, granted, lost>>

(* The script ran and its answer is lost: the client runs it again, or     *)
(* gives up.                                                               *)
AnswerLost(r) ==
    /\ req[r] = "stamped"
    /\ TokenTaken(WindowKey(r), config[r])
    /\ lost' = InTime(WindowKey(r), lost)
    /\ UNCHANGED <<now, req, request, granted>>

(* Redis cannot be reached: the request is served. *)
FailOpen(r) ==
    /\ req[r] = "stamped"
    /\ req' = [req EXCEPT ![r] = "open"]
    /\ UNCHANGED <<now, store, request, granted, lost>>

Next ==
    \/ Tick
    \/ \E r \in Requests : Stamp(r) \/ Pass(r) \/ Refuse(r) \/ AnswerLost(r) \/ FailOpen(r)

Spec == Init /\ [][Next]_vars

-----------------------------------------------------------------------------
TypeOK ==
    /\ now \in Time
    /\ store \in [WindowKeys -> Counter \cup {NoCounter}]
    /\ req \in [Requests -> {"new", "stamped", "passed", "refused", "open"}]
    /\ key \in [Requests -> Keys] /\ config \in [Requests -> Configs]
    /\ stamp \in [Requests -> Windows]
    /\ granted \in [WindowKeys -> Nat] /\ lost \in [WindowKeys -> Nat]

(* Whatever the interleaving of instances, delays and lost answers: in a   *)
(* window an identifier gets no more tokens than the limit of the preset   *)
(* whose request came first there.  (Tokens that are given after the       *)
(* window's end to requests stamped in it are not counted: they may come   *)
(* from a second counter.)                                                 *)
QuotaPerWindow ==
    \A wk \in WindowKeys :
       granted[wk] > 0 /\ now.win = wk[2] =>
         /\ store[wk] # NoCounter
         /\ granted[wk] <= Limit[store[wk].first]

(* Nobody is refused in a window before its tokens are gone: given to      *)
(* requests, or taken by scripts whose answer was lost.                    *)
RefusedOnlyWhenSpent ==
    [][\A r \in Requests :
         LET wk == WindowKey(r)
         IN req'[r] = "refused" /\ req[r] # "refused" /\ now.win = wk[2] =>
              granted[wk] + lost[wk] = Limit[store[wk].first]]_vars
=============================================================================
