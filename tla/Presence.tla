------------------------------ MODULE Presence ------------------------------
(***************************************************************************)
(* Who is online.  The Redis set online_users and the keys user:online:id  *)
(* (server/internal/cache/service.go), the is_online column, and the       *)
(* statuses the hubs publish, as changed by                                *)
(*   - the hub goroutine of each server instance, when it registers,       *)
(*     unregisters and evicts connections (hub.go), and                    *)
(*   - the login and logout handlers (auth/service.go).                    *)
(* Every store command is a step of its own: two processes interleave      *)
(* between the two commands of SetUserOnline, and one of them may fail.    *)
(* A hub handles one event to its end, its commands included, before the   *)
(* next; what it does with messages is the business of module Hub.         *)
(***************************************************************************)
EXTENDS Naturals, Sequences, FiniteSets

CONSTANTS Users, Conns, Insts,
          User,       \* the user of each connection
          Inst,       \* the server instance each connection is made to
          MaxHttp,    \* bound: logins and logouts
          MaxFails,   \* bound: store commands that fail
          MaxEvicts,  \* bound: connections evicted for a full channel
          MaxCrashes  \* bound: crashes of instances

ASSUME PresenceAssumption ==
    /\ User \in [Conns -> Users]
    /\ Inst \in [Conns -> Insts]
    /\ Insts \cap Users = {}
    /\ {MaxHttp, MaxFails, MaxEvicts, MaxCrashes} \subseteq Nat

VARIABLES online,   \* Redis: the set online_users; what IsUserOnline asks
          flag,     \* Redis: users whose key user:online:id exists
          dbOnline, \* Postgres: users with is_online = true
          status,   \* last user_status published for each user, "none" before
          conn,     \* "new", "up" (in a hub's map), "evicted", "gone"
          todo,     \* commands each hub / each user's HTTP handler has ahead
          used,     \* how much of each bound is used
          spoiled   \* history: users something irregular has happened to (a
                    \* login, an eviction, a failure, a crash) since they were
                    \* last connected afresh

vars == <<online, flag, dbOnline, status, conn, todo, used, spoiled>>

Processes == Insts \cup Users

(* The commands, in the order the functions issue them. *)
Cmd(op, u) == [op |-> op, user |-> u]
SetUserOnline(u)  == <<Cmd("sadd", u), Cmd("set", u)>>
SetUserOffline(u) == <<Cmd("srem", u), Cmd("del", u)>>

Ops == {"sadd", "set", "srem", "del", "on", "off", "dbOn", "dbOff"}
Commands == [op : Ops, user : Users]

(* With no connection left and no command about to change the stores, a    *)
(* user's next connection begins a new life.                               *)
Fresh(u) == /\ \A c \in Conns : User[c] = u => conn[c] \in {"new", "gone"}
            /\ \A p \in Processes : \A k \in DOMAIN todo[p] : todo[p][k].user # u

Idle(p) == todo[p] = <<>>
Begin(p, cmds) == todo' = [todo EXCEPT ![p] = cmds]
Use(b) == used' = [used EXCEPT ![b] = @ + 1]

Init == /\ online = {} /\ flag = {} /\ dbOnline = {}
        /\ status = [u \in Users |-> "none"]
        /\ conn = [c \in Conns |-> "new"]
        /\ todo = [p \in Processes |-> <<>>]
        /\ used = [b \in {"http", "fail", "evict", "crash"} |-> 0]
        /\ spoiled = {}

-----------------------------------------------------------------------------
(* The hub of the connection's instance.                                   *)

(* Mutant: the hub takes its next event while it is still at the stores. *)
RegisterBusy(c) ==
    /\ conn[c] = "new"
    /\ conn' = [conn EXCEPT ![c] = "up"]
    /\ Begin(Inst[c], todo[Inst[c]] \o Append(SetUserOnline(User[c]), Cmd("on", User[c])))
    /\ UNCHANGED <<online, flag, dbOnline, status, used, spoiled>>

Register(c) ==
    /\ conn[c] = "new" /\ Idle(Inst[c])
    /\ conn' = [conn EXCEPT ![c] = "up"]
    /\ Begin(Inst[c], Append(SetUserOnline(User[c]), Cmd("on", User[c])))
    /\ spoiled' = IF Fresh(User[c]) THEN spoiled \ {User[c]} ELSE spoiled
    /\ UNCHANGED <<online, flag, dbOnline, status, used>>

(* A client no longer in the map is ignored. *)
Unregister(c) ==
    /\ conn[c] \in {"up", "evicted"} /\ Idle(Inst[c])
    /\ conn' = [conn EXCEPT ![c] = "gone"]
    /\ IF conn[c] = "up"
       THEN Begin(Inst[c], Append(SetUserOffline(User[c]), Cmd("off", User[c])))
       ELSE UNCHANGED todo
    /\ UNCHANGED <<online, flag, dbOnline, status, used, spoiled>>

(* Mutant: the eviction marks the user offline and tells nobody. *)
EvictSilently(c) ==
    /\ conn[c] = "up" /\ Idle(Inst[c]) /\ used["evict"] < MaxEvicts
    /\ conn' = [conn EXCEPT ![c] = "evicted"]
    /\ Begin(Inst[c], SetUserOffline(User[c]))
    /\ Use("evict") /\ spoiled' = spoiled \cup {User[c]}
    /\ UNCHANGED <<online, flag, dbOnline, status>>

(* The default branches of the broadcast and directMsg cases: close and    *)
(* delete, and nothing else.                                               *)
Evict(c) ==
    /\ conn[c] = "up" /\ Idle(Inst[c]) /\ used["evict"] < MaxEvicts
    /\ conn' = [conn EXCEPT ![c] = "evicted"]
    /\ Use("evict") /\ spoiled' = spoiled \cup {User[c]}
    /\ UNCHANGED <<online, flag, dbOnline, status, todo>>

(* The key lives 30 s from SET or from the last heartbeat: RefreshUserOnline *)
(* prolongs a key that exists and does not bring back one that is gone, so   *)
(* all that a heartbeat can do here is to put this step off.                 *)
FlagExpires(u) ==
    /\ u \in flag
    /\ flag' = flag \ {u}
    /\ UNCHANGED <<online, dbOnline, status, conn, todo, used, spoiled>>

-----------------------------------------------------------------------------
(* The HTTP handlers, one call at a time for each user.                    *)

Login(u) ==
    /\ Idle(u) /\ used["http"] < MaxHttp
    /\ Begin(u, <<Cmd("dbOn", u)>> \o SetUserOnline(u))
    /\ Use("http") /\ spoiled' = spoiled \cup {u}
    /\ UNCHANGED <<online, flag, dbOnline, status, conn>>

(* The user's connections stay. *)
Logout(u) ==
    /\ Idle(u) /\ used["http"] < MaxHttp
    /\ Begin(u, <<Cmd("dbOff", u)>> \o SetUserOffline(u))
    /\ Use("http")
    /\ UNCHANGED <<online, flag, dbOnline, status, conn, spoiled>>

-----------------------------------------------------------------------------
(* Commands.                                                               *)

(* Mutant: SREM is forgotten, only the key goes. *)
EffectKeepingMember(cmd) ==
    LET u == cmd.user IN
    /\ online' = IF cmd.op = "sadd" THEN online \cup {u} ELSE online
    /\ flag' = CASE cmd.op = "set" -> flag \cup {u}
                 [] cmd.op = "del" -> flag \ {u}
                 [] OTHER -> flag
    /\ dbOnline' = CASE cmd.op = "dbOn" -> dbOnline \cup {u}
                     [] cmd.op = "dbOff" -> dbOnline \ {u}
                     [] OTHER -> dbOnline
    /\ status' = IF cmd.op \in {"on", "off"} THEN [status EXCEPT ![u] = cmd.op] ELSE status

Effect(cmd) ==
    LET u == cmd.user IN
    /\ online' = CASE cmd.op = "sadd" -> online \cup {u}
                   [] cmd.op = "srem" -> online \ {u}
                   [] OTHER -> online
    /\ flag' = CASE cmd.op = "set" -> flag \cup {u}
                 [] cmd.op = "del" -> flag \ {u}
                 [] OTHER -> flag
    /\ dbOnline' = CASE cmd.op = "dbOn" -> dbOnline \cup {u}
                     [] cmd.op = "dbOff" -> dbOnline \ {u}
                     [] OTHER -> dbOnline
    /\ status' = IF cmd.op \in {"on", "off"} THEN [status EXCEPT ![u] = cmd.op] ELSE status

Execute(p) ==
    /\ ~Idle(p)
    /\ Effect(Head(todo[p]))
    /\ Begin(p, Tail(todo[p]))
    /\ UNCHANGED <<conn, used, spoiled>>

(* The call returns an error, with or without having been carried out.     *)
(* Login goes on after a failed UPDATE; any other error ends the function, *)
(* and a status is published only after both Redis commands succeeded.     *)
Fail(p) ==
    /\ ~Idle(p) /\ used["fail"] < MaxFails
    /\ Use("fail") /\ spoiled' = spoiled \cup {Head(todo[p]).user}
    /\ \/ Effect(Head(todo[p]))
       \/ UNCHANGED <<online, flag, dbOnline, status>>
    /\ Begin(p, IF Head(todo[p]).op = "dbOn" THEN Tail(todo[p]) ELSE <<>>)
    /\ UNCHANGED conn

(* An instance dies with its connections, its hub and the HTTP calls it    *)
(* was serving, and is restarted with an empty hub; the stores stay.       *)
Crash(i) ==
    /\ used["crash"] < MaxCrashes
    /\ Use("crash")
    /\ spoiled' = spoiled \cup {todo[i][k].user : k \in DOMAIN todo[i]}
                         \cup {User[c] : c \in {d \in Conns : Inst[d] = i /\ conn[d] = "up"}}
    /\ conn' = [c \in Conns |-> IF Inst[c] = i /\ conn[c] \in {"up", "evicted"}
                                THEN "gone" ELSE conn[c]]
    /\ \E dead \in SUBSET {u \in Users : ~Idle(u)} :
         todo' = [p \in Processes |-> IF p = i \/ p \in dead THEN <<>> ELSE todo[p]]
    /\ UNCHANGED <<online, flag, dbOnline, status>>

-----------------------------------------------------------------------------
Next == \/ \E c \in Conns : Register(c) \/ Unregister(c) \/ Evict(c)
        \/ \E u \in Users : Login(u) \/ Logout(u) \/ FlagExpires(u)
        \/ \E p \in Processes : Execute(p) \/ Fail(p)
        \/ \E i \in Insts : Crash(i)

Spec == Init /\ [][Next]_vars

-----------------------------------------------------------------------------
TypeOK ==
    /\ online \subseteq Users /\ flag \subseteq Users /\ dbOnline \subseteq Users
    /\ status \in [Users -> {"none", "on", "off"}]
    /\ conn \in [Conns -> {"new", "up", "evicted", "gone"}]
    /\ todo \in [Processes -> Seq(Commands)]
    /\ \A p \in Processes : Len(todo[p]) <= 3   \* one event, one call at a time
    /\ used \in [{"http", "fail", "evict", "crash"} -> Nat] /\ spoiled \subseteq Users

Quiet == \A p \in Processes : Idle(p)
Without(bs) == \A b \in bs : used[b] = 0    \* so far
ConnsOf(u) == {c \in Conns : User[c] = u}

(* However the tabs of a user come and go, on one instance or on several,  *)
(* and even if they log out meanwhile, once all of them have gone through  *)
(* unregister and the commands are done the user is not online and the     *)
(* last status said so: no order of the commands leaves anybody behind     *)
(* (SetUserOnline, SetUserOffline).  Whom a login, an eviction, a failure  *)
(* or a crash did leave in the set, which does not expire, the next visit  *)
(* puts right.                                                             *)
NobodyLeftBehind ==
    \A u \in Users :
       (Quiet /\ u \notin spoiled /\ \A c \in ConnsOf(u) : conn[c] \in {"new", "gone"})
       => u \notin online /\ u \notin flag /\ status[u] # "on"

(* What the clients were last told of a user whose tabs are all on one     *)
(* instance agrees with what the friends list will say (GetUserFriends     *)
(* asks the set), with several tabs and with evictions: that hub changes   *)
(* the store and publishes in the same order.                              *)
StatusFollowsStore ==
    \A u \in Users :
       (/\ Without({"http", "fail", "crash"}) /\ Quiet
        /\ \A c, d \in ConnsOf(u) : Inst[c] = Inst[d]) =>
           (u \in online <=> status[u] = "on")
=============================================================================
