--------------------------- MODULE PresenceProofs ---------------------------
(***************************************************************************)
(* Proofs about Presence, for any users, connections, instances and bounds *)
(* and any placement of the connections: the type invariant, that nobody   *)
(* is left behind online, and that what was published follows the store.   *)
(***************************************************************************)
EXTENDS Presence, SequenceTheorems, TLAPS

-----------------------------------------------------------------------------
(* The inductive invariant.                                                *)

(* Process p still has to issue that command for u. *)
Has(p, op, u) == \E k \in DOMAIN todo[p] : todo[p][k] = Cmd(op, u)

Connected(u) == \E c \in ConnsOf(u) : conn[c] = "up"

(* A call of a function concerns one user. *)
AboutOne(cmds) == \A k \in DOMAIN cmds : cmds[k].user = Head(cmds).user
OneUser == \A p \in Processes : AboutOne(todo[p])

(* A user nothing irregular has happened to is brought online by the hub   *)
(* of a connection that is up.                                             *)
BroughtByConnection ==
    \A u \in Users \ spoiled : \A p \in Processes :
       (Has(p, "sadd", u) \/ Has(p, "set", u) \/ Has(p, "on", u)) =>
          /\ p \in Insts
          /\ \E c \in ConnsOf(u) : Inst[c] = p /\ conn[c] = "up"

(* ... and such a user is online as long as a connection is up or a hub    *)
(* has yet to issue the command that ends it.                              *)
SomebodyCleansUp ==
    \A u \in Users \ spoiled :
       /\ u \in online => Connected(u) \/ \E i \in Insts : Has(i, "srem", u)
       /\ u \in flag => Connected(u) \/ \E i \in Insts : Has(i, "del", u)
       /\ status[u] = "on" => Connected(u) \/ \E i \in Insts : Has(i, "off", u)

(* Three commands for one user. *)
Call(a, b, c, u) == <<Cmd(a, u), Cmd(b, u), Cmd(c, u)>>

(* What is left of a hub's call for user u. *)
Coming(u) == {Call("sadd", "set", "on", u),
              <<Cmd("set", u), Cmd("on", u)>>, <<Cmd("on", u)>>}
Going(u)  == {Call("srem", "del", "off", u),
              <<Cmd("del", u), Cmd("off", u)>>, <<Cmd("off", u)>>}

(* ... after its first command *)
Came(u) == {<<Cmd("set", u), Cmd("on", u)>>, <<Cmd("on", u)>>}
Went(u) == {<<Cmd("del", u), Cmd("off", u)>>, <<Cmd("off", u)>>}

(* A hub acts for users who connected to its instance. *)
HubsActForTheirs ==
    \A i \in Insts : todo[i] # <<>> =>
       \E u \in Users : /\ todo[i] \in Coming(u) \cup Going(u)
                       /\ \E c \in ConnsOf(u) : Inst[c] = i

(* Before the first login or logout no handler is at work. *)
NoCallNoCommand == used["http"] = 0 => \A u \in Users : todo[u] = <<>>

OneInstance(u) == \A c, d \in ConnsOf(u) : Inst[c] = Inst[d]

(* The store and the status differ only between the first command of the   *)
(* hub's call and its last.                                                *)
DifferMidCallOnly ==
    Without({"http", "fail", "crash"}) =>
       \A u \in Users : OneInstance(u) =>
          /\ \A i \in Insts : /\ todo[i] \in Came(u) => u \in online
                              /\ todo[i] \in Went(u) => u \notin online
          /\ (\A i \in Insts : todo[i] \notin Came(u) \cup Went(u)) =>
                (u \in online <=> status[u] = "on")

LifeInv == TypeOK /\ OneUser /\ BroughtByConnection /\ SomebodyCleansUp
CallInv == HubsActForTheirs /\ NoCallNoCommand /\ DifferMidCallOnly
IInv == LifeInv /\ CallInv

USE PresenceAssumption DEF Processes, ConnsOf

-----------------------------------------------------------------------------
(* What the functions issue, and what is left of it.                       *)

LEMMA CmdType ==
    ASSUME NEW op \in Ops, NEW u \in Users
    PROVE  Cmd(op, u) \in Commands /\ Cmd(op, u).op = op /\ Cmd(op, u).user = u
  BY DEF Cmd, Commands

LEMMA Three ==
    ASSUME NEW a \in Commands, NEW b \in Commands, NEW c \in Commands
    PROVE  /\ Append(<<a, b>>, c) = <<a, b, c>> /\ <<a>> \o <<b, c>> = <<a, b, c>>
           /\ <<a, b, c>> \in Seq(Commands) /\ Len(<<a, b, c>>) = 3
<1>1. <<a, b, c>> \in Seq(Commands) /\ Len(<<a, b, c>>) = 3
  OBVIOUS
<1>2. Append(<<a, b>>, c) = <<a, b, c>>
  <2>1. <<a, b>> \in Seq(Commands) /\ Len(<<a, b>>) = 2
    OBVIOUS
  <2>2. Append(<<a, b>>, c) \in Seq(Commands) /\ Len(Append(<<a, b>>, c)) = 3
    BY <2>1, AppendProperties
  <2>3. \A k \in 1..3 : Append(<<a, b>>, c)[k] = <<a, b, c>>[k]
    BY <2>1, AppendProperties
  <2>4. QED
    BY <1>1, <2>2, <2>3, SeqEqual
<1>3. <<a>> \o <<b, c>> = <<a, b, c>>
  <2>1. /\ <<a>> \in Seq(Commands) /\ Len(<<a>>) = 1 /\ <<b, c>> \in Seq(Commands) /\ Len(<<b, c>>) = 2
    OBVIOUS
  <2>2. <<a>> \o <<b, c>> \in Seq(Commands) /\ Len(<<a>> \o <<b, c>>) = 3
    BY <2>1, ConcatProperties
  <2>3. \A k \in 1..3 : (<<a>> \o <<b, c>>)[k] = <<a, b, c>>[k]
    BY <2>1, ConcatProperties
  <2>4. QED
    BY <1>1, <2>2, <2>3, SeqEqual
<1>4. QED
  BY <1>1, <1>2, <1>3

LEMMA Calls ==
    ASSUME NEW u \in Users
    PROVE  /\ Append(SetUserOnline(u), Cmd("on", u)) = Call("sadd", "set", "on", u)
           /\ Append(SetUserOffline(u), Cmd("off", u)) = Call("srem", "del", "off", u)
           /\ <<Cmd("dbOn", u)>> \o SetUserOnline(u) = Call("dbOn", "sadd", "set", u)
           /\ <<Cmd("dbOff", u)>> \o SetUserOffline(u) = Call("dbOff", "srem", "del", u)
<1>1. \A op \in {"sadd", "set", "srem", "del", "on", "off", "dbOn", "dbOff"} : Cmd(op, u) \in Commands
  BY CmdType DEF Ops
<1>3. Append(SetUserOnline(u), Cmd("on", u)) = Call("sadd", "set", "on", u)
  BY <1>1, Three DEF SetUserOnline, Call
<1>4. Append(SetUserOffline(u), Cmd("off", u)) = Call("srem", "del", "off", u)
  BY <1>1, Three DEF SetUserOffline, Call
<1>5. <<Cmd("dbOn", u)>> \o SetUserOnline(u) = Call("dbOn", "sadd", "set", u)
  BY <1>1, Three DEF SetUserOnline, Call
<1>6. <<Cmd("dbOff", u)>> \o SetUserOffline(u) = Call("dbOff", "srem", "del", u)
  BY <1>1, Three DEF SetUserOffline, Call
<1>7. QED
  BY <1>3, <1>4, <1>5, <1>6

(* p has just been given the commands cmds. *)
LEMMA Given ==
    ASSUME TypeOK, NEW p \in Processes, NEW cmds \in Seq(Commands), Len(cmds) <= 3, Begin(p, cmds)
    PROVE  /\ todo' \in [Processes -> Seq(Commands)]
           /\ \A q \in Processes : Len(todo'[q]) <= 3
           /\ \A q \in Processes \ {p} : todo'[q] = todo[q]
           /\ todo'[p] = cmds
           /\ \A q \in Processes \ {p} : \A op, u : Has(q, op, u)' <=> Has(q, op, u)
<1>1. todo \in [Processes -> Seq(Commands)] /\ \A q \in Processes : Len(todo[q]) <= 3
  BY DEF TypeOK
<1>2. todo'[p] = cmds /\ \A q \in Processes \ {p} : todo'[q] = todo[q]
  BY <1>1 DEF Begin
<1>3. todo' \in [Processes -> Seq(Commands)] /\ \A q \in Processes : Len(todo'[q]) <= 3
  BY <1>1, <1>2 DEF Begin
<1>4. \A q \in Processes \ {p} : \A op, u : Has(q, op, u)' <=> Has(q, op, u)
  BY <1>2 DEF Has
<1>5. QED
  BY <1>2, <1>3, <1>4

(* p has issued its first command. *)
LEMMA Issued ==
    ASSUME TypeOK, NEW p \in Processes, ~Idle(p), Begin(p, Tail(todo[p]))
    PROVE  /\ Head(todo[p]) \in Commands
           /\ todo' \in [Processes -> Seq(Commands)]
           /\ \A q \in Processes : Len(todo'[q]) <= 3
           /\ \A q \in Processes \ {p} : todo'[q] = todo[q]
           /\ todo'[p] = Tail(todo[p])
           /\ \A q \in Processes : \A op, u : Has(q, op, u)' => Has(q, op, u)
           /\ \A op, u : Has(p, op, u) => Has(p, op, u)' \/ Head(todo[p]) = Cmd(op, u)
           /\ \A q \in Processes \ {p} : \A op, u : Has(q, op, u)' <=> Has(q, op, u)
           /\ Has(p, Head(todo[p]).op, Head(todo[p]).user)
<1>1. /\ todo \in [Processes -> Seq(Commands)] /\ \A q \in Processes : Len(todo[q]) <= 3
      /\ todo[p] \in Seq(Commands) /\ todo[p] # <<>>
  BY DEF TypeOK, Idle
<1>2. /\ Head(todo[p]) = todo[p][1] /\ 1 \in DOMAIN todo[p] /\ Head(todo[p]) \in Commands
      /\ Tail(todo[p]) \in Seq(Commands) /\ Len(Tail(todo[p])) = Len(todo[p]) - 1 /\ Len(todo[p]) \in Nat
      /\ \A k \in DOMAIN Tail(todo[p]) : Tail(todo[p])[k] = todo[p][k + 1] /\ k + 1 \in DOMAIN todo[p]
      /\ \A k \in DOMAIN todo[p] : k = 1 \/ (k - 1 \in DOMAIN Tail(todo[p]) /\ Tail(todo[p])[k - 1] = todo[p][k])
  BY <1>1
<1>3. todo'[p] = Tail(todo[p]) /\ \A q \in Processes \ {p} : todo'[q] = todo[q]
  BY <1>1 DEF Begin
<1>4. todo' \in [Processes -> Seq(Commands)] /\ \A q \in Processes : Len(todo'[q]) <= 3
  BY <1>1, <1>2, <1>3 DEF Begin
<1>5. ASSUME NEW op, NEW u
      PROVE  /\ Has(p, op, u)' => Has(p, op, u)
             /\ Has(p, op, u) => Has(p, op, u)' \/ Head(todo[p]) = Cmd(op, u)
  <2> DEFINE x == Cmd(op, u)
             s == todo[p]
  <2>1. /\ \A k \in DOMAIN Tail(s) : Tail(s)[k] = s[k + 1] /\ k + 1 \in DOMAIN s
        /\ \A k \in DOMAIN s : k = 1 \/ (k - 1 \in DOMAIN Tail(s) /\ Tail(s)[k - 1] = s[k])
        /\ Head(s) = s[1]
    BY <1>2
  <2>2. /\ Has(p, op, u)' <=> \E k \in DOMAIN Tail(s) : Tail(s)[k] = x
        /\ Has(p, op, u) <=> \E k \in DOMAIN s : s[k] = x
    BY <1>3 DEF Has
  <2> HIDE DEF x, s
  <2>3. (\E k \in DOMAIN Tail(s) : Tail(s)[k] = x) => \E k \in DOMAIN s : s[k] = x
    BY <2>1
  <2>4. (\E k \in DOMAIN s : s[k] = x) => Head(s) = x \/ \E k \in DOMAIN Tail(s) : Tail(s)[k] = x
    BY <2>1
  <2>5. QED
    BY <2>2, <2>3, <2>4 DEF s, x
<1>6. \A q \in Processes \ {p} : \A op, u : Has(q, op, u)' <=> Has(q, op, u)
  BY <1>3 DEF Has
<1>7. Head(todo[p]) = Cmd(Head(todo[p]).op, Head(todo[p]).user)
  BY <1>2 DEF Commands, Cmd
<1>8. Has(p, Head(todo[p]).op, Head(todo[p]).user)
  BY <1>2, <1>7 DEF Has
<1>9. ASSUME NEW q \in Processes, NEW op, NEW u PROVE Has(q, op, u)' => Has(q, op, u)
  <2>1. CASE q = p
    BY <1>5, <2>1
  <2>2. CASE q # p
    BY <1>6, <2>2
  <2>3. QED
    BY <2>1, <2>2
<1>10. QED
  BY <1>2, <1>3, <1>4, <1>5, <1>6, <1>8, <1>9

(* Some processes have lost what they had ahead. *)
LEMMA Dropped ==
    ASSUME TypeOK, NEW D \in SUBSET Processes,
           todo' = [p \in Processes |-> IF p \in D THEN <<>> ELSE todo[p]]
    PROVE  /\ todo' \in [Processes -> Seq(Commands)]
           /\ \A q \in Processes : Len(todo'[q]) <= 3
           /\ \A q \in Processes : todo'[q] = IF q \in D THEN <<>> ELSE todo[q]
           /\ \A q \in D : \A op, u : ~Has(q, op, u)'
           /\ \A q \in Processes \ D : \A op, u : Has(q, op, u)' <=> Has(q, op, u)
<1>1. todo \in [Processes -> Seq(Commands)] /\ \A q \in Processes : Len(todo[q]) <= 3
  BY DEF TypeOK
<1>2. <<>> \in Seq(Commands) /\ Len(<<>>) = 0 /\ DOMAIN <<>> = {}
  OBVIOUS
<1>3. \A q \in Processes : todo'[q] = IF q \in D THEN <<>> ELSE todo[q]
  OBVIOUS
<1>4. todo' \in [Processes -> Seq(Commands)] /\ \A q \in Processes : Len(todo'[q]) <= 3
  BY <1>1, <1>2
<1>5. \A q \in D : \A op, u : ~Has(q, op, u)'
  BY <1>2, <1>3 DEF Has
<1>6. \A q \in Processes \ D : \A op, u : Has(q, op, u)' <=> Has(q, op, u)
  BY <1>3 DEF Has
<1>7. QED
  BY <1>3, <1>4, <1>5, <1>6

(* All that p has ahead concerns the user of its next command. *)
LEMMA SameUser ==
    ASSUME TypeOK, OneUser, NEW p \in Processes, NEW op, NEW u, Has(p, op, u)
    PROVE  ~Idle(p) /\ u = Head(todo[p]).user
<1>1. todo[p] \in Seq(Commands)
  BY DEF TypeOK
<1>2. PICK k \in DOMAIN todo[p] : todo[p][k] = Cmd(op, u)
  BY DEF Has
<1>3. todo[p] # <<>> /\ 1 \in DOMAIN todo[p] /\ Head(todo[p]) = todo[p][1]
  BY <1>1, <1>2
<1>4. todo[p][k].user = Head(todo[p]).user
  BY <1>2 DEF OneUser, AboutOne
<1>5. QED
  BY <1>2, <1>3, <1>4 DEF Idle, Cmd

LEMMA IdleHasNone ==
    ASSUME NEW p, Idle(p), NEW op, NEW u
    PROVE  ~Has(p, op, u)
<1>1. DOMAIN todo[p] = {}
  BY DEF Idle
<1>2. QED
  BY <1>1 DEF Has

(* A command touches its own user only. *)
LEMMA EffectTouches ==
    ASSUME TypeOK, NEW cmd \in Commands, Effect(cmd)
    PROVE  /\ online' \subseteq Users /\ flag' \subseteq Users /\ dbOnline' \subseteq Users
           /\ status' \in [Users -> {"none", "on", "off"}]
           /\ \A u \in Users \ {cmd.user} : /\ u \in online' <=> u \in online
                                            /\ u \in flag' <=> u \in flag
                                            /\ status'[u] = status[u]
<1>1. cmd.user \in Users
  BY DEF Commands
<1>2. /\ online' \in {online, online \cup {cmd.user}, online \ {cmd.user}}
      /\ flag' \in {flag, flag \cup {cmd.user}, flag \ {cmd.user}}
      /\ dbOnline' \in {dbOnline, dbOnline \cup {cmd.user}, dbOnline \ {cmd.user}}
  BY DEF Effect
<1>3. status' = status \/ (cmd.op \in {"on", "off"} /\ status' = [status EXCEPT ![cmd.user] = cmd.op])
  BY DEF Effect
<1>4. \A u \in Users \ {cmd.user} : (u \in online' <=> u \in online) /\ (u \in flag' <=> u \in flag)
  BY <1>2
<1>5. /\ status' \in [Users -> {"none", "on", "off"}]
      /\ \A u \in Users \ {cmd.user} : status'[u] = status[u]
  BY <1>1, <1>3 DEF TypeOK
<1>6. QED
  BY <1>1, <1>2, <1>4, <1>5 DEF TypeOK

(* What a hub or a handler is given: three commands for one user.          *)
GivenCall(p, a, b, c, u) ==
    /\ todo' \in [Processes -> Seq(Commands)]
    /\ \A q \in Processes : Len(todo'[q]) <= 3
    /\ OneUser'
    /\ \A q \in Processes \ {p} : todo'[q] = todo[q]
    /\ todo'[p] = Call(a, b, c, u)
    /\ \A op, v : Has(p, op, v)' <=> v = u /\ op \in {a, b, c}
    /\ \A q \in Processes \ {p} : \A op, v : Has(q, op, v)' <=> Has(q, op, v)

LEMMA GivenThree ==
    ASSUME TypeOK, OneUser, NEW p \in Processes, NEW u \in Users,
           NEW a \in Ops, NEW b \in Ops, NEW c \in Ops,
           Begin(p, Call(a, b, c, u))
    PROVE  GivenCall(p, a, b, c, u)
<1> DEFINE cmds == Call(a, b, c, u)
<1> USE DEF Call
<1>1. cmds \in Seq(Commands) /\ Len(cmds) = 3 /\ Len(cmds) <= 3
  BY Three, CmdType
<1>2. DOMAIN cmds = 1..3 /\ \A k \in DOMAIN cmds : cmds[k] \in {Cmd(a, u), Cmd(b, u), Cmd(c, u)}
  BY <1>1
<1>3. cmds[1] = Cmd(a, u) /\ cmds[2] = Cmd(b, u) /\ cmds[3] = Cmd(c, u)
  OBVIOUS
<1>4. Begin(p, cmds)
  OBVIOUS
<1> HIDE DEF cmds, Call
<1>5. /\ todo' \in [Processes -> Seq(Commands)]
      /\ \A q \in Processes : Len(todo'[q]) <= 3
      /\ \A q \in Processes \ {p} : todo'[q] = todo[q]
      /\ todo'[p] = cmds
      /\ \A q \in Processes \ {p} : \A op, v : Has(q, op, v)' <=> Has(q, op, v)
  BY <1>1, <1>4, Given
<1>6. ASSUME NEW op, NEW v PROVE Has(p, op, v)' <=> v = u /\ op \in {a, b, c}
  <2>1. \A x : Cmd(op, v) = Cmd(x, u) <=> op = x /\ v = u
    BY DEF Cmd
  <2>2. Has(p, op, v)' <=> \E k \in 1..3 : cmds[k] = Cmd(op, v)
    BY <1>2, <1>5 DEF Has
  <2>3. QED
    BY <1>3, <2>1, <2>2
<1>7. OneUser'
  <2>1. Cmd(a, u).user = u /\ Cmd(b, u).user = u /\ Cmd(c, u).user = u
    BY DEF Cmd
  <2>2. AboutOne(cmds)
    BY <1>1, <1>2, <1>3, <2>1 DEF AboutOne
  <2>3. QED
    BY <1>5, <2>2 DEF OneUser
<1>8. QED
  BY <1>5, <1>6, <1>7 DEF cmds, GivenCall

(* The places in a hub's call. *)
LEMMA MidCall ==
    ASSUME NEW u
    PROVE  /\ \A cmds \in Came(u) : /\ cmds # <<>> /\ Head(cmds).user = u
                                    /\ Head(cmds).op \in {"set", "on"}
           /\ \A cmds \in Went(u) : /\ cmds # <<>> /\ Head(cmds).user = u
                                    /\ Head(cmds).op \in {"del", "off"}
  BY DEF Came, Went, Cmd

LEMMA FirstOfCall ==
    ASSUME NEW a, NEW b, NEW c, NEW u
    PROVE  Call(a, b, c, u) # <<>> /\ Head(Call(a, b, c, u)) = Cmd(a, u)
  BY DEF Call

LEMMA Tails ==
    ASSUME NEW a \in Commands, NEW b \in Commands, NEW c \in Commands
    PROVE  Tail(<<a, b, c>>) = <<b, c>> /\ Tail(<<a, b>>) = <<b>> /\ Tail(<<a>>) = <<>>
  OBVIOUS

LEMMA HubCalls ==
    ASSUME NEW u \in Users, NEW cmds \in Coming(u) \cup Going(u)
    PROVE  /\ cmds # <<>> /\ Head(cmds).user = u
           /\ cmds \in Coming(u) =>
                 \/ Head(cmds).op = "sadd" /\ Tail(cmds) \in Came(u)
                 \/ Head(cmds).op = "set" /\ cmds \in Came(u) /\ Tail(cmds) \in Came(u)
                 \/ Head(cmds).op = "on" /\ cmds \in Came(u) /\ Tail(cmds) = <<>>
           /\ cmds \in Going(u) =>
                 \/ Head(cmds).op = "srem" /\ Tail(cmds) \in Went(u)
                 \/ Head(cmds).op = "del" /\ cmds \in Went(u) /\ Tail(cmds) \in Went(u)
                 \/ Head(cmds).op = "off" /\ cmds \in Went(u) /\ Tail(cmds) = <<>>
<1>1. \A op \in {"sadd", "set", "on", "srem", "del", "off"} :
         Cmd(op, u) \in Commands /\ Cmd(op, u).op = op /\ Cmd(op, u).user = u
  BY CmdType DEF Ops
<1> DEFINE on3 == Call("sadd", "set", "on", u)
           on2 == <<Cmd("set", u), Cmd("on", u)>>
           on1 == <<Cmd("on", u)>>
           off3 == Call("srem", "del", "off", u)
           off2 == <<Cmd("del", u), Cmd("off", u)>>
           off1 == <<Cmd("off", u)>>
<1>2. /\ Head(on3) = Cmd("sadd", u) /\ Head(on2) = Cmd("set", u) /\ Head(on1) = Cmd("on", u)
      /\ Head(off3) = Cmd("srem", u) /\ Head(off2) = Cmd("del", u) /\ Head(off1) = Cmd("off", u)
      /\ on3 # <<>> /\ on2 # <<>> /\ on1 # <<>> /\ off3 # <<>> /\ off2 # <<>> /\ off1 # <<>>
  BY DEF Call
<1>3. Tail(on3) = on2 /\ Tail(on2) = on1 /\ Tail(on1) = <<>>
  BY <1>1, Tails DEF Call
<1>4. Tail(off3) = off2 /\ Tail(off2) = off1 /\ Tail(off1) = <<>>
  BY <1>1, Tails DEF Call
<1>5. /\ Coming(u) = {on3, on2, on1} /\ Came(u) = {on2, on1}
      /\ Going(u) = {off3, off2, off1} /\ Went(u) = {off2, off1}
  BY DEF Coming, Came, Going, Went
<1> HIDE DEF on3, on2, on1, off3, off2, off1
<1>6. QED
  BY <1>1, <1>2, <1>3, <1>4, <1>5

LEMMA TailAboutOne ==
    ASSUME NEW cmds \in Seq(Commands), cmds # <<>>, AboutOne(cmds)
    PROVE  AboutOne(Tail(cmds))
<1>1. \A k \in DOMAIN Tail(cmds) : Tail(cmds)[k] = cmds[k + 1] /\ k + 1 \in DOMAIN cmds
  OBVIOUS
<1>2. \A k \in DOMAIN Tail(cmds) : Tail(cmds)[k].user = Head(cmds).user
  BY <1>1 DEF AboutOne
<1>3. DOMAIN Tail(cmds) # {} => Head(Tail(cmds)) = Tail(cmds)[1] /\ 1 \in DOMAIN Tail(cmds)
  OBVIOUS
<1>4. QED
  BY <1>2, <1>3 DEF AboutOne

(* The rest of what p had ahead is given up. *)
LEMMA Emptied ==
    ASSUME TypeOK, NEW p \in Processes, Begin(p, <<>>)
    PROVE  /\ todo' \in [Processes -> Seq(Commands)]
           /\ \A q \in Processes : Len(todo'[q]) <= 3
           /\ \A q \in Processes \ {p} : todo'[q] = todo[q]
           /\ todo'[p] = <<>>
           /\ \A op, u : ~Has(p, op, u)'
           /\ \A q \in Processes \ {p} : \A op, u : Has(q, op, u)' <=> Has(q, op, u)
<1>1. <<>> \in Seq(Commands) /\ Len(<<>>) <= 3 /\ DOMAIN <<>> = {}
  OBVIOUS
<1>2. /\ todo' \in [Processes -> Seq(Commands)]
      /\ \A q \in Processes : Len(todo'[q]) <= 3
      /\ \A q \in Processes \ {p} : todo'[q] = todo[q]
      /\ todo'[p] = <<>>
      /\ \A q \in Processes \ {p} : \A op, u : Has(q, op, u)' <=> Has(q, op, u)
  BY <1>1, Given
<1>3. \A op, u : ~Has(p, op, u)'
  BY <1>1, <1>2 DEF Has
<1>4. QED
  BY <1>2, <1>3

-----------------------------------------------------------------------------
(* Every action keeps LifeInv.                                             *)

LEMMA InitLife == Init => LifeInv
<1> SUFFICES ASSUME Init PROVE LifeInv
  OBVIOUS
<1>1. <<>> \in Seq(Commands) /\ Len(<<>>) = 0 /\ DOMAIN <<>> = {}
  OBVIOUS
<1>2. TypeOK
  BY <1>1 DEF Init, TypeOK
<1>3. \A p \in Processes : todo[p] = <<>> /\ \A op, u : ~Has(p, op, u)
  BY <1>1 DEF Init, Has
<1>4. OneUser /\ BroughtByConnection
  BY <1>1, <1>3 DEF OneUser, AboutOne, BroughtByConnection
<1>5. SomebodyCleansUp
  BY DEF Init, SomebodyCleansUp
<1>6. QED
  BY <1>2, <1>4, <1>5 DEF LifeInv

LEMMA RegisterKeepsLife == ASSUME LifeInv, NEW c \in Conns, Register(c) PROVE LifeInv'
<1> DEFINE u == User[c]
           i == Inst[c]
<1>1. u \in Users /\ i \in Insts /\ i \in Processes
  OBVIOUS
<1>2. Begin(i, Call("sadd", "set", "on", u))
  BY <1>1, Calls DEF Register
<1>3. /\ todo' \in [Processes -> Seq(Commands)]
      /\ \A q \in Processes : Len(todo'[q]) <= 3
      /\ OneUser'
      /\ \A op, v : Has(i, op, v)' <=> v = u /\ op \in {"sadd", "set", "on"}
      /\ \A q \in Processes \ {i} : \A op, v : Has(q, op, v)' <=> Has(q, op, v)
  <2>1. TypeOK /\ OneUser /\ {"sadd", "set", "on"} \subseteq Ops
    BY DEF LifeInv, Ops
  <2>2. GivenCall(i, "sadd", "set", "on", u)
    BY <1>1, <1>2, <2>1, GivenThree
  <2>3. QED
    BY <2>2 DEF GivenCall
<1>4. /\ conn' = [conn EXCEPT ![c] = "up"] /\ conn'[c] = "up" /\ conn[c] = "new"
      /\ \A d \in Conns : conn[d] = "up" => conn'[d] = "up"
      /\ spoiled' = IF Fresh(u) THEN spoiled \ {u} ELSE spoiled
      /\ UNCHANGED <<online, flag, dbOnline, status, used>>
      /\ \A op, v : ~Has(i, op, v)
  BY <1>1, IdleHasNone DEF Register, LifeInv, TypeOK
<1>5. TypeOK'
  BY <1>3, <1>4 DEF LifeInv, TypeOK
<1>6. BroughtByConnection'
  <2> SUFFICES ASSUME NEW v \in Users \ spoiled', NEW p \in Processes, NEW op \in {"sadd", "set", "on"},
                      Has(p, op, v)'
               PROVE  p \in Insts /\ \E d \in ConnsOf(v) : Inst[d] = p /\ conn'[d] = "up"
    BY DEF BroughtByConnection
  <2>1. CASE p = i
    BY <1>1, <1>3, <1>4, <2>1
  <2>2. CASE p # i /\ v \notin spoiled
    <3>1. Has(p, op, v)
      BY <1>3, <2>2
    <3>2. QED
      BY <1>4, <2>2, <3>1 DEF LifeInv, BroughtByConnection
  <2>3. CASE p # i /\ v \in spoiled
    <3>1. v = u /\ Fresh(u) /\ Has(p, op, u)
      BY <1>3, <1>4, <2>3
    <3>2. QED
      BY <3>1 DEF Fresh, Has, Cmd
  <2>4. QED
    BY <2>1, <2>2, <2>3
<1>7. SomebodyCleansUp'
  <2>1. Connected(u)'
    BY <1>1, <1>4 DEF Connected
  <2>2. ASSUME NEW v \in Users \ spoiled', v # u
        PROVE  /\ v \notin spoiled /\ Connected(v) => Connected(v)'
               /\ \A j \in Insts : \A op : Has(j, op, v) => Has(j, op, v)'
    <3>1. v \notin spoiled /\ (Connected(v) => Connected(v)')
      BY <1>4, <2>2 DEF Connected
    <3>2. ASSUME NEW j \in Insts, NEW op, Has(j, op, v) PROVE Has(j, op, v)'
      <4>1. j # i
        BY <1>4, <3>2
      <4>2. QED
        BY <1>3, <3>2, <4>1
    <3>3. QED
      BY <3>1, <3>2
  <2>3. QED
    BY <1>4, <2>1, <2>2 DEF LifeInv, SomebodyCleansUp
<1>8. QED
  BY <1>3, <1>5, <1>6, <1>7 DEF LifeInv

LEMMA UnregisterKeepsLife == ASSUME LifeInv, NEW c \in Conns, Unregister(c) PROVE LifeInv'
<1> DEFINE u == User[c]
           i == Inst[c]
<1>1. u \in Users /\ i \in Insts /\ i \in Processes
  OBVIOUS
<1>2. /\ conn' = [conn EXCEPT ![c] = "gone"] /\ conn[c] \in {"up", "evicted"}
      /\ \A d \in Conns \ {c} : conn'[d] = conn[d]
      /\ UNCHANGED <<online, flag, dbOnline, status, used, spoiled>>
      /\ \A op, v : ~Has(i, op, v)
  BY <1>1, IdleHasNone DEF Unregister, LifeInv, TypeOK
<1>3. CASE conn[c] = "up"
  <2>1. Begin(i, Call("srem", "del", "off", u))
    BY <1>1, <1>3, Calls DEF Unregister
  <2>2. /\ todo' \in [Processes -> Seq(Commands)]
        /\ \A q \in Processes : Len(todo'[q]) <= 3
        /\ OneUser'
        /\ \A op, v : Has(i, op, v)' <=> v = u /\ op \in {"srem", "del", "off"}
        /\ \A q \in Processes \ {i} : \A op, v : Has(q, op, v)' <=> Has(q, op, v)
    <3>1. TypeOK /\ OneUser /\ {"srem", "del", "off"} \subseteq Ops
      BY DEF LifeInv, Ops
    <3>2. GivenCall(i, "srem", "del", "off", u)
      BY <1>1, <2>1, <3>1, GivenThree
    <3>3. QED
      BY <3>2 DEF GivenCall
  <2>3. TypeOK'
    BY <1>2, <2>2 DEF LifeInv, TypeOK
  <2>4. BroughtByConnection'
    <3> SUFFICES ASSUME NEW v \in Users \ spoiled', NEW p \in Processes, NEW op \in {"sadd", "set", "on"},
                        Has(p, op, v)'
                 PROVE  p \in Insts /\ \E d \in ConnsOf(v) : Inst[d] = p /\ conn'[d] = "up"
      BY DEF BroughtByConnection
    <3>1. p # i /\ Has(p, op, v) /\ v \in Users \ spoiled
      <4>1. ~Has(i, op, v)'
        BY <2>2
      <4>2. p # i
        BY <4>1
      <4>3. Has(p, op, v)
        BY <2>2, <4>2
      <4>4. QED
        BY <1>2, <4>2, <4>3
    <3>2. p \in Insts /\ \E d \in ConnsOf(v) : Inst[d] = p /\ conn[d] = "up"
      BY <3>1 DEF LifeInv, BroughtByConnection
    <3>3. QED
      BY <1>2, <3>1, <3>2
  <2>5. SomebodyCleansUp'
    <3>1. \A op \in {"srem", "del", "off"} : Has(i, op, u)'
      BY <2>2
    <3>2. ASSUME NEW v \in Users \ spoiled', v # u
          PROVE  /\ v \notin spoiled /\ Connected(v) => Connected(v)'
                 /\ \A j \in Insts : \A op : Has(j, op, v) => Has(j, op, v)'
      <4>1. v \notin spoiled /\ (Connected(v) => Connected(v)')
        BY <1>2, <3>2 DEF Connected
      <4>2. ASSUME NEW j \in Insts, NEW op, Has(j, op, v) PROVE Has(j, op, v)'
        <5>1. j # i
          BY <1>2, <4>2
        <5>2. QED
          BY <2>2, <4>2, <5>1
      <4>3. QED
        BY <4>1, <4>2
    <3>3. QED
      BY <1>1, <1>2, <3>1, <3>2 DEF LifeInv, SomebodyCleansUp
  <2>6. QED
    BY <2>2, <2>3, <2>4, <2>5 DEF LifeInv
<1>4. CASE conn[c] = "evicted"
  <2>1. todo' = todo /\ \A p, op, v : Has(p, op, v)' <=> Has(p, op, v)
    BY <1>4 DEF Unregister, Has
  <2>2. \A d \in Conns : conn[d] = "up" <=> conn'[d] = "up"
    BY <1>2, <1>4 DEF LifeInv, TypeOK
  <2>3. TypeOK' /\ OneUser'
    BY <1>2, <2>1 DEF LifeInv, TypeOK, OneUser
  <2>4. \A v : Connected(v)' <=> Connected(v)
    BY <2>2 DEF Connected
  <2>5. BroughtByConnection' /\ SomebodyCleansUp'
    BY <1>2, <2>1, <2>2, <2>4 DEF LifeInv, BroughtByConnection, SomebodyCleansUp
  <2>6. QED
    BY <2>3, <2>5 DEF LifeInv
<1>5. QED
  BY <1>2, <1>3, <1>4

LEMMA EvictKeepsLife == ASSUME LifeInv, NEW c \in Conns, Evict(c) PROVE LifeInv'
<1>1. /\ todo' = todo /\ \A p, op, v : Has(p, op, v)' <=> Has(p, op, v)
      /\ spoiled' = spoiled \cup {User[c]} /\ conn' = [conn EXCEPT ![c] = "evicted"]
      /\ UNCHANGED <<online, flag, dbOnline, status>>
      /\ used' = [used EXCEPT !["evict"] = @ + 1]
  BY DEF Evict, Has, Use
<1>2. TypeOK' /\ OneUser'
  BY <1>1 DEF LifeInv, TypeOK, OneUser
<1>3. \A v \in Users \ spoiled' : \A d \in ConnsOf(v) : conn'[d] = conn[d]
  BY <1>1 DEF LifeInv, TypeOK
<1>4. \A v \in Users \ spoiled' : Connected(v) => Connected(v)'
  BY <1>3 DEF Connected
<1>5. BroughtByConnection' /\ SomebodyCleansUp'
  BY <1>1, <1>3, <1>4 DEF LifeInv, BroughtByConnection, SomebodyCleansUp
<1>6. QED
  BY <1>2, <1>5 DEF LifeInv

LEMMA ExpiryKeepsLife == ASSUME LifeInv, NEW u \in Users, FlagExpires(u) PROVE LifeInv'
<1>1. /\ \A p, op, v : Has(p, op, v)' <=> Has(p, op, v)
      /\ flag' \subseteq flag
      /\ UNCHANGED <<online, dbOnline, status, conn, todo, used, spoiled>>
      /\ \A v : Connected(v)' <=> Connected(v)
  BY DEF FlagExpires, Has, Connected
<1>2. TypeOK' /\ OneUser'
  BY <1>1 DEF LifeInv, TypeOK, OneUser
<1>3. BroughtByConnection' /\ SomebodyCleansUp'
  BY <1>1 DEF LifeInv, BroughtByConnection, SomebodyCleansUp
<1>4. QED
  BY <1>2, <1>3 DEF LifeInv

(* A login spoils its user; a logout issues nothing that brings online.    *)
LEMMA HttpKeepsLife == ASSUME LifeInv, NEW u \in Users, Login(u) \/ Logout(u) PROVE LifeInv'
<1>1. /\ used' = [used EXCEPT !["http"] = @ + 1] /\ u \in Processes
      /\ UNCHANGED <<online, flag, dbOnline, status, conn>>
      /\ \A v : Connected(v)' <=> Connected(v)
      /\ spoiled \subseteq spoiled' /\ spoiled' \subseteq spoiled \cup {u}
  BY DEF Login, Logout, Use, Connected
<1>2. \/ u \in spoiled' /\ Begin(u, Call("dbOn", "sadd", "set", u))
      \/ Begin(u, Call("dbOff", "srem", "del", u))
  BY Calls DEF Login, Logout
<1>3. /\ todo' \in [Processes -> Seq(Commands)]
      /\ \A q \in Processes : Len(todo'[q]) <= 3
      /\ OneUser'
      /\ \A v \in Users \ spoiled' : \A op \in {"sadd", "set", "on"} : ~Has(u, op, v)'
      /\ \A q \in Processes \ {u} : \A op, v : Has(q, op, v)' <=> Has(q, op, v)
  <2>0. TypeOK /\ OneUser /\ {"dbOn", "sadd", "set", "dbOff", "srem", "del"} \subseteq Ops
    BY DEF LifeInv, Ops
  <2>1. CASE u \in spoiled' /\ Begin(u, Call("dbOn", "sadd", "set", u))
    <3>1. GivenCall(u, "dbOn", "sadd", "set", u)
      BY <1>1, <2>0, <2>1, GivenThree
    <3>2. QED
      BY <2>1, <3>1 DEF GivenCall
  <2>2. CASE Begin(u, Call("dbOff", "srem", "del", u))
    <3>1. GivenCall(u, "dbOff", "srem", "del", u)
      BY <1>1, <2>0, <2>2, GivenThree
    <3>2. QED
      BY <3>1 DEF GivenCall
  <2>3. QED
    BY <1>2, <2>1, <2>2
<1>4. TypeOK'
  <2>1. used' \in [{"http", "fail", "evict", "crash"} -> Nat] /\ spoiled' \subseteq Users
    BY <1>1 DEF LifeInv, TypeOK
  <2>2. QED
    BY <1>1, <1>3, <2>1 DEF LifeInv, TypeOK
<1>5. BroughtByConnection'
  <2> SUFFICES ASSUME NEW v \in Users \ spoiled', NEW p \in Processes, NEW op \in {"sadd", "set", "on"},
                      Has(p, op, v)'
               PROVE  p \in Insts /\ \E d \in ConnsOf(v) : Inst[d] = p /\ conn'[d] = "up"
    BY DEF BroughtByConnection
  <2>1. Has(p, op, v) /\ v \in Users \ spoiled
    BY <1>1, <1>3
  <2>2. QED
    BY <1>1, <2>1 DEF LifeInv, BroughtByConnection
<1>6. SomebodyCleansUp'
  <2>1. \A j \in Insts : \A op, v : Has(j, op, v) => Has(j, op, v)'
    BY <1>3
  <2>2. QED
    BY <1>1, <2>1 DEF LifeInv, SomebodyCleansUp
<1>7. QED
  BY <1>3, <1>4, <1>5, <1>6 DEF LifeInv

LEMMA ExecuteKeepsLife == ASSUME LifeInv, NEW p \in Processes, Execute(p) PROVE LifeInv'
<1> DEFINE h == Head(todo[p])
<1>1. /\ h \in Commands
      /\ todo' \in [Processes -> Seq(Commands)]
      /\ \A q \in Processes : Len(todo'[q]) <= 3
      /\ \A q \in Processes \ {p} : todo'[q] = todo[q]
      /\ todo'[p] = Tail(todo[p])
      /\ \A q \in Processes : \A op, u : Has(q, op, u)' => Has(q, op, u)
      /\ \A op, u : Has(p, op, u) => Has(p, op, u)' \/ h = Cmd(op, u)
      /\ \A q \in Processes \ {p} : \A op, u : Has(q, op, u)' <=> Has(q, op, u)
      /\ Has(p, h.op, h.user) /\ ~Idle(p)
  BY Issued DEF Execute, LifeInv
<1>2. UNCHANGED <<conn, used, spoiled>> /\ Effect(h)
  BY DEF Execute
<1>3. /\ online' \subseteq Users /\ flag' \subseteq Users /\ dbOnline' \subseteq Users
      /\ status' \in [Users -> {"none", "on", "off"}]
      /\ \A u \in Users \ {h.user} : /\ u \in online' <=> u \in online
                                     /\ u \in flag' <=> u \in flag
                                     /\ status'[u] = status[u]
  BY <1>1, <1>2, EffectTouches DEF LifeInv
<1>4. TypeOK'
  BY <1>1, <1>2, <1>3 DEF LifeInv, TypeOK
<1>5. OneUser'
  <2>1. todo[p] \in Seq(Commands) /\ todo[p] # <<>> /\ AboutOne(todo[p])
    BY <1>1 DEF LifeInv, TypeOK, Idle, OneUser
  <2>2. AboutOne(Tail(todo[p]))
    BY <2>1, TailAboutOne
  <2>3. QED
    BY <1>1, <2>2 DEF LifeInv, OneUser
<1> HIDE DEF h
<1>6. BroughtByConnection'
  BY <1>1, <1>2 DEF LifeInv, BroughtByConnection
<1>7. SomebodyCleansUp'
  <2> SUFFICES ASSUME NEW u \in Users \ spoiled'
               PROVE  /\ u \in online' => Connected(u) \/ \E i \in Insts : Has(i, "srem", u)'
                      /\ u \in flag' => Connected(u) \/ \E i \in Insts : Has(i, "del", u)'
                      /\ status'[u] = "on" => Connected(u) \/ \E i \in Insts : Has(i, "off", u)'
    BY <1>2 DEF SomebodyCleansUp, Connected
  <2>1. u \in Users \ spoiled
    BY <1>2
  <2>2. \A op : ~Connected(u) /\ (\E i \in Insts : Has(i, op, u)) =>
            (\E i \in Insts : Has(i, op, u)') \/ h = Cmd(op, u)
    BY <1>1
  <2>3. h.op \in {"sadd", "set", "on"} /\ h.user = u => Connected(u)
    BY <1>1, <2>1 DEF LifeInv, BroughtByConnection, Connected
  <2>4. \A op : h = Cmd(op, u) => h.op = op /\ h.user = u
    BY DEF Cmd
  <2>5. u \in online' => Connected(u) \/ \E i \in Insts : Has(i, "srem", u)'
    <3>1. u \in online' /\ u \notin online => h.op = "sadd" /\ h.user = u
      BY <1>2, <1>3 DEF Effect
    <3>2. h.op = "srem" /\ h.user = u => u \notin online'
      BY <1>2 DEF Effect
    <3>3. QED
      BY <2>1, <2>2, <2>3, <2>4, <3>1, <3>2 DEF LifeInv, SomebodyCleansUp
  <2>6. u \in flag' => Connected(u) \/ \E i \in Insts : Has(i, "del", u)'
    <3>1. u \in flag' /\ u \notin flag => h.op = "set" /\ h.user = u
      BY <1>2, <1>3 DEF Effect
    <3>2. h.op = "del" /\ h.user = u => u \notin flag'
      BY <1>2 DEF Effect
    <3>3. QED
      BY <2>1, <2>2, <2>3, <2>4, <3>1, <3>2 DEF LifeInv, SomebodyCleansUp
  <2>7. status'[u] = "on" => Connected(u) \/ \E i \in Insts : Has(i, "off", u)'
    <3>1. status'[u] = "on" /\ status[u] # "on" => h.op = "on" /\ h.user = u
      BY <1>2, <1>3 DEF Effect, LifeInv, TypeOK
    <3>2. h.op = "off" /\ h.user = u => status'[u] # "on"
      BY <1>2 DEF Effect, LifeInv, TypeOK
    <3>3. QED
      BY <2>1, <2>2, <2>3, <2>4, <3>1, <3>2 DEF LifeInv, SomebodyCleansUp
  <2>8. QED
    BY <2>5, <2>6, <2>7
<1>8. QED
  BY <1>4, <1>5, <1>6, <1>7 DEF LifeInv

LEMMA FailKeepsLife == ASSUME LifeInv, NEW p \in Processes, Fail(p) PROVE LifeInv'
<1> DEFINE h == Head(todo[p])
<1>0. /\ todo[p] \in Seq(Commands) /\ todo[p] # <<>> /\ h \in Commands
      /\ AboutOne(todo[p]) /\ TypeOK /\ ~Idle(p)
  <2>1. todo[p] \in Seq(Commands) /\ todo[p] # <<>> /\ AboutOne(todo[p]) /\ TypeOK /\ ~Idle(p)
    BY DEF LifeInv, TypeOK, OneUser, Fail, Idle
  <2>2. QED
    BY <2>1
<1>1. /\ spoiled' = spoiled \cup {h.user} /\ used' = [used EXCEPT !["fail"] = @ + 1] /\ conn' = conn
      /\ Effect(h) \/ UNCHANGED <<online, flag, dbOnline, status>>
      /\ Begin(p, Tail(todo[p])) \/ Begin(p, <<>>)
  BY DEF Fail, Use
<1>2. /\ todo' \in [Processes -> Seq(Commands)]
      /\ \A q \in Processes : Len(todo'[q]) <= 3
      /\ \A q \in Processes \ {p} : todo'[q] = todo[q]
      /\ AboutOne(todo'[p])
      /\ \A op, u : Has(p, op, u)' => Has(p, op, u)
      /\ \A q \in Processes \ {p} : \A op, u : Has(q, op, u)' <=> Has(q, op, u)
  <2>1. CASE Begin(p, Tail(todo[p]))
    BY <1>0, <2>1, Issued, TailAboutOne
  <2>2. CASE Begin(p, <<>>)
    <3>1. AboutOne(<<>>)
      BY DEF AboutOne
    <3>2. QED
      BY <1>0, <2>2, <3>1, Emptied
  <2>3. QED
    BY <1>1, <2>1, <2>2
<1>12. OneUser'
  BY <1>2 DEF OneUser, LifeInv
<1>3. /\ online' \subseteq Users /\ flag' \subseteq Users /\ dbOnline' \subseteq Users
      /\ status' \in [Users -> {"none", "on", "off"}]
      /\ \A u \in Users \ {h.user} : /\ u \in online' <=> u \in online
                                     /\ u \in flag' <=> u \in flag
                                     /\ status'[u] = status[u]
  <2>1. CASE Effect(h)
    BY <1>0, <2>1, EffectTouches
  <2>2. CASE UNCHANGED <<online, flag, dbOnline, status>>
    BY <2>2 DEF LifeInv, TypeOK
  <2>3. QED
    BY <1>1, <2>1, <2>2
<1>4. h.user \in Users
  BY <1>0 DEF Commands
<1>5. TypeOK'
  <2>1. used' \in [{"http", "fail", "evict", "crash"} -> Nat] /\ spoiled' \subseteq Users
    BY <1>1, <1>4 DEF LifeInv, TypeOK
  <2>2. QED
    BY <1>1, <1>2, <1>3, <2>1 DEF LifeInv, TypeOK
<1>6. \A u : u \notin spoiled' => \A op : ~Has(p, op, u)
  BY <1>1, SameUser DEF LifeInv
<1> HIDE DEF h
<1>7. \A q \in Processes : \A op, u : u \notin spoiled' => (Has(q, op, u)' <=> Has(q, op, u))
  BY <1>2, <1>6
<1>8. BroughtByConnection'
  BY <1>1, <1>7 DEF LifeInv, BroughtByConnection
<1>9. SomebodyCleansUp'
  <2>1. \A u \in Users \ spoiled' : u \in Users \ spoiled /\ u # h.user
    BY <1>1
  <2>2. \A u : Connected(u)' <=> Connected(u)
    BY <1>1 DEF Connected
  <2>3. QED
    BY <1>3, <1>7, <2>1, <2>2 DEF LifeInv, SomebodyCleansUp
<1>10. QED
  BY <1>5, <1>8, <1>9, <1>12 DEF LifeInv

LEMMA CrashKeepsLife == ASSUME LifeInv, NEW i \in Insts, Crash(i) PROVE LifeInv'
<1>1. PICK dead \in SUBSET Users :
         todo' = [p \in Processes |-> IF p = i \/ p \in dead THEN <<>> ELSE todo[p]]
  BY DEF Crash
<1> DEFINE D == {i} \cup dead
<1>2. /\ todo' \in [Processes -> Seq(Commands)]
      /\ \A q \in Processes : Len(todo'[q]) <= 3
      /\ \A q \in Processes : todo'[q] = IF q \in D THEN <<>> ELSE todo[q]
      /\ \A q \in D : \A op, u : ~Has(q, op, u)'
      /\ \A q \in Processes \ D : \A op, u : Has(q, op, u)' <=> Has(q, op, u)
  <2>1. D \in SUBSET Processes /\ todo' = [p \in Processes |-> IF p \in D THEN <<>> ELSE todo[p]]
    BY <1>1
  <2> HIDE DEF D
  <2>2. QED
    BY <2>1, Dropped DEF LifeInv
<1>3. OneUser'
  <2>1. DOMAIN <<>> = {}
    OBVIOUS
  <2>2. AboutOne(<<>>)
    BY <2>1 DEF AboutOne
  <2>3. QED
    BY <1>2, <2>2 DEF LifeInv, OneUser
<1>4. /\ used' = [used EXCEPT !["crash"] = @ + 1]
      /\ UNCHANGED <<online, flag, dbOnline, status>>
      /\ conn' = [c \in Conns |-> IF Inst[c] = i /\ conn[c] \in {"up", "evicted"} THEN "gone" ELSE conn[c]]
      /\ spoiled \subseteq spoiled' /\ spoiled' \subseteq Users
      /\ \A op, u : Has(i, op, u) => u \in spoiled'
      /\ \A d \in Conns : conn[d] = "up" /\ User[d] \notin spoiled' => Inst[d] # i
  <2>1. /\ spoiled' = spoiled \cup {todo[i][k].user : k \in DOMAIN todo[i]}
                         \cup {User[c] : c \in {d \in Conns : Inst[d] = i /\ conn[d] = "up"}}
        /\ spoiled \subseteq Users /\ todo[i] \in Seq(Commands)
    BY DEF Crash, LifeInv, TypeOK
  <2>2. \A k \in DOMAIN todo[i] : todo[i][k].user \in Users
    <3>1. \A k \in DOMAIN todo[i] : todo[i][k] \in Commands
      BY <2>1
    <3>2. QED
      BY <3>1 DEF Commands
  <2>3. spoiled \subseteq spoiled' /\ spoiled' \subseteq Users
    BY <2>1, <2>2
  <2>4. \A op, u : Has(i, op, u) => u \in spoiled'
    BY <2>1 DEF Has, Cmd
  <2>5. \A d \in Conns : conn[d] = "up" /\ User[d] \notin spoiled' => Inst[d] # i
    BY <2>1
  <2>6. QED
    BY <2>3, <2>4, <2>5 DEF Crash, Use
<1>5. TypeOK'
  BY <1>2, <1>4 DEF LifeInv, TypeOK
<1>6. \A j \in Insts : \A op, u : u \notin spoiled' => (Has(j, op, u)' <=> Has(j, op, u))
  BY <1>2, <1>4
<1>7. \A u \in Users \ spoiled' : \A d \in ConnsOf(u) : conn[d] = "up" => conn'[d] = "up"
  BY <1>4
<1>8. BroughtByConnection'
  <2> SUFFICES ASSUME NEW v \in Users \ spoiled', NEW p \in Processes, NEW op \in {"sadd", "set", "on"},
                      Has(p, op, v)'
               PROVE  p \in Insts /\ \E d \in ConnsOf(v) : Inst[d] = p /\ conn'[d] = "up"
    BY DEF BroughtByConnection
  <2>1. Has(p, op, v) /\ v \in Users \ spoiled
    BY <1>2, <1>4
  <2>2. QED
    BY <1>7, <2>1 DEF LifeInv, BroughtByConnection
<1>9. SomebodyCleansUp'
  <2>1. \A u \in Users \ spoiled' : u \in Users \ spoiled /\ (Connected(u) => Connected(u)')
    BY <1>4, <1>7 DEF Connected
  <2>2. QED
    BY <1>4, <1>6, <2>1 DEF LifeInv, SomebodyCleansUp
<1>10. QED
  BY <1>3, <1>5, <1>8, <1>9 DEF LifeInv

LEMMA StepKeepsLife == LifeInv /\ [Next]_vars => LifeInv'
<1> SUFFICES ASSUME LifeInv, [Next]_vars PROVE LifeInv'
  OBVIOUS
<1>1. CASE UNCHANGED vars
  BY <1>1 DEF vars, LifeInv, TypeOK, OneUser, BroughtByConnection, SomebodyCleansUp, Has, Connected
<1>2. CASE Next
  BY <1>2, RegisterKeepsLife, UnregisterKeepsLife, EvictKeepsLife, ExpiryKeepsLife, HttpKeepsLife,
     ExecuteKeepsLife, FailKeepsLife, CrashKeepsLife DEF Next
<1>3. QED
  BY <1>1, <1>2

-----------------------------------------------------------------------------
(* Every action keeps CallInv.                                             *)

LEMMA InitCall == Init => CallInv
<1> SUFFICES ASSUME Init PROVE CallInv
  OBVIOUS
<1>1. \A p \in Processes : todo[p] = <<>>
  BY DEF Init
<1>2. HubsActForTheirs /\ NoCallNoCommand
  BY <1>1 DEF HubsActForTheirs, NoCallNoCommand
<1>3. DifferMidCallOnly
  <2>1. \A i \in Insts, u \in Users : todo[i] \notin Came(u) \cup Went(u)
    BY <1>1, MidCall
  <2>2. \A u \in Users : u \notin online /\ status[u] # "on"
    BY DEF Init
  <2>3. QED
    BY <2>1, <2>2 DEF DifferMidCallOnly
<1>4. QED
  BY <1>2, <1>3 DEF CallInv

(* What leaves the store, the status and the hubs' place in a call alone. *)
LEMMA SamePlaces ==
    ASSUME DifferMidCallOnly, UNCHANGED <<online, status>>,
           Without({"http", "fail", "crash"})' => Without({"http", "fail", "crash"}),
           \A i \in Insts, u \in Users : /\ todo'[i] \in Came(u) <=> todo[i] \in Came(u)
                                         /\ todo'[i] \in Went(u) <=> todo[i] \in Went(u)
    PROVE  DifferMidCallOnly'
  BY DEF DifferMidCallOnly, OneInstance

(* A hub begins a call. *)
LEMMA BeginKeepsCall ==
    ASSUME TypeOK, OneUser, CallInv, NEW c \in Conns, Idle(Inst[c]),
           \/ Begin(Inst[c], Call("sadd", "set", "on", User[c]))
           \/ Begin(Inst[c], Call("srem", "del", "off", User[c])),
           UNCHANGED <<online, status, used>>
    PROVE  CallInv'
<1> DEFINE u == User[c]
           i == Inst[c]
<1>1. u \in Users /\ i \in Insts /\ i \in Processes /\ todo[i] = <<>> /\ c \in ConnsOf(u)
  BY DEF Idle
<1>2. /\ \A q \in Processes \ {i} : todo'[q] = todo[q]
      /\ todo'[i] \in {Call("sadd", "set", "on", u), Call("srem", "del", "off", u)}
  <2>1. {"sadd", "set", "on", "srem", "del", "off"} \subseteq Ops
    BY DEF Ops
  <2>2. GivenCall(i, "sadd", "set", "on", u) \/ GivenCall(i, "srem", "del", "off", u)
    BY <1>1, <2>1, GivenThree
  <2>3. QED
    BY <2>2 DEF GivenCall
<1> HIDE DEF u, i
<1>3. todo'[i] \in Coming(u) \cup Going(u)
  BY <1>2 DEF Coming, Going
<1>4. ASSUME NEW v \in Users
      PROVE  todo[i] \notin Came(v) \cup Went(v) /\ todo'[i] \notin Came(v) \cup Went(v)
  <2>1. Head(todo'[i]).op \in {"sadd", "srem"}
    BY <1>2, FirstOfCall DEF Cmd
  <2>2. QED
    BY <1>1, <2>1, MidCall
<1>5. HubsActForTheirs'
  BY <1>1, <1>2, <1>3 DEF CallInv, HubsActForTheirs, i
<1>6. NoCallNoCommand'
  BY <1>1, <1>2 DEF CallInv, NoCallNoCommand
<1>7. DifferMidCallOnly'
  <2>1. \A j \in Insts, v \in Users : /\ todo'[j] \in Came(v) <=> todo[j] \in Came(v)
                                      /\ todo'[j] \in Went(v) <=> todo[j] \in Went(v)
    BY <1>2, <1>4
  <2>2. Without({"http", "fail", "crash"})' <=> Without({"http", "fail", "crash"})
    BY DEF Without
  <2>3. QED
    BY <2>1, <2>2, SamePlaces DEF CallInv
<1>8. QED
  BY <1>5, <1>6, <1>7 DEF CallInv

LEMMA RegisterKeepsCall ==
    ASSUME LifeInv, CallInv, NEW c \in Conns, Register(c) PROVE CallInv'
<1>1. Begin(Inst[c], Call("sadd", "set", "on", User[c]))
  BY Calls DEF Register
<1>2. QED
  BY <1>1, BeginKeepsCall DEF Register, LifeInv

LEMMA SameTodoKeepsCall ==
    ASSUME LifeInv, CallInv, UNCHANGED <<online, status, todo>>, used["http"] = used'["http"],
           Without({"http", "fail", "crash"})' <=> Without({"http", "fail", "crash"})
    PROVE  CallInv'
<1>1. HubsActForTheirs' /\ NoCallNoCommand'
  BY DEF CallInv, HubsActForTheirs, NoCallNoCommand
<1>2. DifferMidCallOnly'
  BY SamePlaces DEF CallInv
<1>3. QED
  BY <1>1, <1>2 DEF CallInv

LEMMA UnregisterKeepsCall ==
    ASSUME LifeInv, CallInv, NEW c \in Conns, Unregister(c) PROVE CallInv'
<1>1. CASE conn[c] = "up"
  <2>1. Begin(Inst[c], Call("srem", "del", "off", User[c]))
    BY <1>1, Calls DEF Unregister
  <2>2. QED
    BY <2>1, BeginKeepsCall DEF Unregister, LifeInv
<1>2. CASE conn[c] # "up"
  <2>1. UNCHANGED <<online, status, todo, used>>
    BY <1>2 DEF Unregister
  <2>2. QED
    BY <2>1, SameTodoKeepsCall DEF Without
<1>3. QED
  BY <1>1, <1>2

LEMMA EvictKeepsCall ==
    ASSUME LifeInv, CallInv, NEW c \in Conns, Evict(c) PROVE CallInv'
<1>1. UNCHANGED <<online, status, todo>> /\ used' = [used EXCEPT !["evict"] = @ + 1]
  BY DEF Evict, Use
<1>2. \A b \in {"http", "fail", "crash"} : used'[b] = used[b]
  BY <1>1 DEF LifeInv, TypeOK
<1>3. QED
  BY <1>1, <1>2, SameTodoKeepsCall DEF Without

LEMMA ExpiryKeepsCall ==
    ASSUME LifeInv, CallInv, NEW u \in Users, FlagExpires(u) PROVE CallInv'
  BY SameTodoKeepsCall DEF FlagExpires, Without

LEMMA HttpKeepsCall ==
    ASSUME LifeInv, CallInv, NEW u \in Users, Login(u) \/ Logout(u) PROVE CallInv'
<1>1. used' = [used EXCEPT !["http"] = @ + 1] /\ \E cmds : todo' = [todo EXCEPT ![u] = cmds]
  BY DEF Login, Logout, Use, Begin
<1>2. used'["http"] # 0 /\ \A i \in Insts : todo'[i] = todo[i]
  BY <1>1 DEF LifeInv, TypeOK
<1>3. HubsActForTheirs' /\ NoCallNoCommand' /\ DifferMidCallOnly'
  BY <1>2 DEF CallInv, HubsActForTheirs, NoCallNoCommand, DifferMidCallOnly, Without
<1>4. QED
  BY <1>3 DEF CallInv

LEMMA FailKeepsCall ==
    ASSUME LifeInv, CallInv, NEW p \in Processes, Fail(p) PROVE CallInv'
<1>1. /\ used' = [used EXCEPT !["fail"] = @ + 1] /\ ~Idle(p)
      /\ \/ Begin(p, <<>>)
         \/ Begin(p, Tail(todo[p])) /\ Head(todo[p]).op = "dbOn"
  BY DEF Fail, Use
<1>2. used'["fail"] # 0 /\ used'["http"] = used["http"] /\ todo[p] # <<>>
  BY <1>1 DEF LifeInv, TypeOK, Idle
<1>3. /\ \A q \in Processes \ {p} : todo'[q] = todo[q]
      /\ p \in Insts => todo'[p] = <<>>
  <2>1. p \in Insts => Head(todo[p]).op # "dbOn"
    BY <1>2, HubCalls DEF CallInv, HubsActForTheirs
  <2>2. \A cmds : Begin(p, cmds) => todo'[p] = cmds /\ \A q \in Processes \ {p} : todo'[q] = todo[q]
    BY DEF Begin, LifeInv, TypeOK
  <2>3. QED
    BY <1>1, <2>1, <2>2
<1>4. HubsActForTheirs'
  BY <1>3 DEF CallInv, HubsActForTheirs
<1>5. NoCallNoCommand'
  BY <1>2, <1>3 DEF CallInv, NoCallNoCommand
<1>6. DifferMidCallOnly'
  BY <1>2 DEF DifferMidCallOnly, Without
<1>7. QED
  BY <1>4, <1>5, <1>6 DEF CallInv

LEMMA CrashKeepsCall ==
    ASSUME LifeInv, CallInv, NEW i \in Insts, Crash(i) PROVE CallInv'
<1>1. /\ used' = [used EXCEPT !["crash"] = @ + 1]
      /\ \A p \in Processes : todo'[p] \in {<<>>, todo[p]}
  BY DEF Crash, Use
<1>2. used'["crash"] # 0 /\ used'["http"] = used["http"]
  BY <1>1 DEF LifeInv, TypeOK
<1>3. HubsActForTheirs' /\ NoCallNoCommand'
  BY <1>1, <1>2 DEF CallInv, HubsActForTheirs, NoCallNoCommand
<1>4. DifferMidCallOnly'
  BY <1>2 DEF DifferMidCallOnly, Without
<1>5. QED
  BY <1>3, <1>4 DEF CallInv

LEMMA ExecuteKeepsCall ==
    ASSUME LifeInv, CallInv, NEW p \in Processes, Execute(p) PROVE CallInv'
<1> DEFINE h == Head(todo[p])
<1>1. /\ h \in Commands /\ Effect(h) /\ UNCHANGED <<conn, used>>
      /\ todo'[p] = Tail(todo[p]) /\ \A q \in Processes \ {p} : todo'[q] = todo[q]
      /\ todo[p] # <<>>
  BY Issued DEF Execute, LifeInv, Idle
<1>2. \A u \in Users \ {h.user} : (u \in online' <=> u \in online) /\ status'[u] = status[u]
  BY <1>1, EffectTouches DEF LifeInv
<1>3. CASE p \in Users
  <2>1. used["http"] # 0 /\ \A i \in Insts : todo'[i] = todo[i]
    BY <1>1, <1>3 DEF CallInv, NoCallNoCommand
  <2>2. HubsActForTheirs' /\ NoCallNoCommand' /\ DifferMidCallOnly'
    BY <1>1, <2>1 DEF CallInv, HubsActForTheirs, NoCallNoCommand, DifferMidCallOnly, Without
  <2>3. QED
    BY <2>2 DEF CallInv
<1>4. CASE p \in Insts
  <2>1. PICK u \in Users : /\ todo[p] \in Coming(u) \cup Going(u)
                           /\ \E c \in ConnsOf(u) : Inst[c] = p
    BY <1>1, <1>4 DEF CallInv, HubsActForTheirs
  <2>2. /\ h.user = u
        /\ todo[p] \in Coming(u) =>
              \/ h.op = "sadd" /\ todo'[p] \in Came(u)
              \/ h.op = "set" /\ todo[p] \in Came(u) /\ todo'[p] \in Came(u)
              \/ h.op = "on" /\ todo[p] \in Came(u) /\ todo'[p] = <<>>
        /\ todo[p] \in Going(u) =>
              \/ h.op = "srem" /\ todo'[p] \in Went(u)
              \/ h.op = "del" /\ todo[p] \in Went(u) /\ todo'[p] \in Went(u)
              \/ h.op = "off" /\ todo[p] \in Went(u) /\ todo'[p] = <<>>
    BY <1>1, <2>1, HubCalls
  <2>3. HubsActForTheirs'
    <3>1. todo'[p] # <<>> => todo'[p] \in Coming(u) \cup Going(u)
      BY <2>1, <2>2 DEF Came, Went, Coming, Going
    <3>2. ASSUME NEW i \in Insts, todo'[i] # <<>>
          PROVE  \E v \in Users : /\ todo'[i] \in Coming(v) \cup Going(v)
                                  /\ \E c \in ConnsOf(v) : Inst[c] = i
      <4>1. CASE i = p
        BY <2>1, <3>1, <3>2, <4>1
      <4>2. CASE i # p
        BY <1>1, <3>2, <4>2 DEF CallInv, HubsActForTheirs
      <4>3. QED
        BY <4>1, <4>2
    <3>3. QED
      BY <3>2 DEF HubsActForTheirs
  <2>4. NoCallNoCommand'
    BY <1>1, <1>4 DEF CallInv, NoCallNoCommand
  <2>5. DifferMidCallOnly'
    <3> SUFFICES ASSUME Without({"http", "fail", "crash"})', NEW v \in Users, OneInstance(v)
                 PROVE  /\ \A i \in Insts : /\ todo'[i] \in Came(v) => v \in online'
                                            /\ todo'[i] \in Went(v) => v \notin online'
                        /\ (\A i \in Insts : todo'[i] \notin Came(v) \cup Went(v)) =>
                              (v \in online' <=> status'[v] = "on")
      BY DEF DifferMidCallOnly, OneInstance
    <3>1. /\ \A i \in Insts : /\ todo[i] \in Came(v) => v \in online
                              /\ todo[i] \in Went(v) => v \notin online
          /\ (\A i \in Insts : todo[i] \notin Came(v) \cup Went(v)) =>
                (v \in online <=> status[v] = "on")
      BY <1>1 DEF CallInv, DifferMidCallOnly, Without
    <3>2. CASE v # u
      <4>1. todo[p] \notin Came(v) \cup Went(v) /\ todo'[p] \notin Came(v) \cup Went(v)
        BY <2>1, <2>2, <3>2, MidCall
      <4>2. \A i \in Insts : /\ todo'[i] \in Came(v) <=> todo[i] \in Came(v)
                             /\ todo'[i] \in Went(v) <=> todo[i] \in Went(v)
        BY <1>1, <4>1
      <4>3. (v \in online' <=> v \in online) /\ status'[v] = status[v]
        BY <1>2, <2>2, <3>2
      <4>4. QED
        BY <3>1, <4>2, <4>3
    <3>3. CASE v = u
      <4>1. ASSUME NEW i \in Insts, i # p
            PROVE  todo'[i] = todo[i] /\ todo[i] \notin Came(u) \cup Went(u)
        <5>1. todo'[i] = todo[i]
          BY <1>1, <4>1
        <5>2. ASSUME todo[i] \in Came(u) \cup Went(u) PROVE FALSE
          <6>1. todo[i] # <<>> /\ Head(todo[i]).user = u
            BY <5>2, MidCall
          <6>2. PICK w \in Users : /\ todo[i] \in Coming(w) \cup Going(w)
                                   /\ \E c \in ConnsOf(w) : Inst[c] = i
            BY <6>1 DEF CallInv, HubsActForTheirs
          <6>3. w = u
            BY <6>1, <6>2, HubCalls
          <6>4. QED
            BY <2>1, <3>3, <4>1, <6>2, <6>3 DEF OneInstance
        <5>3. QED
          BY <5>1, <5>2
      <4>2. u \in online' <=> (h.op = "sadd" \/ (u \in online /\ h.op # "srem"))
        BY <1>1, <2>2 DEF Effect
      <4>3. status'[u] = IF h.op \in {"on", "off"} THEN h.op ELSE status[u]
        BY <1>1, <2>2 DEF Effect, LifeInv, TypeOK
      <4>4. todo'[p] \in Came(u) => todo'[p] \notin Went(u) /\ todo'[p] # <<>>
        BY MidCall
      <4>5. todo'[p] \in Went(u) => todo'[p] \notin Came(u) /\ todo'[p] # <<>>
        BY MidCall
      <4>6. /\ todo'[p] \in Came(u) => u \in online'
            /\ todo'[p] \in Went(u) => u \notin online'
            /\ todo'[p] = <<>> => (u \in online' <=> status'[u] = "on")
            /\ todo'[p] \in Came(u) \cup Went(u) \cup {<<>>}
        BY <1>4, <2>1, <2>2, <3>1, <3>3, <4>2, <4>3, <4>4, <4>5
      <4>7. \A i \in Insts : /\ todo'[i] \in Came(u) => u \in online'
                             /\ todo'[i] \in Went(u) => u \notin online'
        BY <4>1, <4>6
      <4>8. (\A i \in Insts : todo'[i] \notin Came(u) \cup Went(u)) =>
               (u \in online' <=> status'[u] = "on")
        BY <1>4, <4>6
      <4>9. QED
        BY <3>3, <4>7, <4>8
    <3>4. QED
      BY <3>2, <3>3
  <2>6. QED
    BY <2>3, <2>4, <2>5 DEF CallInv
<1>5. QED
  BY <1>3, <1>4

LEMMA StepKeepsCall == LifeInv /\ CallInv /\ [Next]_vars => CallInv'
<1> SUFFICES ASSUME LifeInv, CallInv, [Next]_vars PROVE CallInv'
  OBVIOUS
<1>1. CASE UNCHANGED vars
  BY <1>1, SameTodoKeepsCall DEF vars, Without
<1>2. CASE Next
  BY <1>2, RegisterKeepsCall, UnregisterKeepsCall, EvictKeepsCall, ExpiryKeepsCall, HttpKeepsCall,
     ExecuteKeepsCall, FailKeepsCall, CrashKeepsCall DEF Next
<1>3. QED
  BY <1>1, <1>2

-----------------------------------------------------------------------------
(* The inductive invariant holds in every state. *)
THEOREM Invariance == Spec => []IInv
<1>1. Init => IInv
  BY InitLife, InitCall DEF IInv
<1>2. IInv /\ [Next]_vars => IInv'
  BY StepKeepsLife, StepKeepsCall DEF IInv
<1>3. QED
  BY <1>1, <1>2, PTL DEF Spec

(* Every variable keeps its type; a hub has one event's commands ahead,    *)
(* and a handler one call's (Hub.Run, hub.go:81-135, and auth/service.go). *)
THEOREM TypeCorrect == Spec => []TypeOK
<1>1. IInv => TypeOK
  BY DEF IInv, LifeInv
<1>2. QED
  BY <1>1, Invariance, PTL

(* Nobody is left online whose connections have all gone through           *)
(* unregister, in whatever order the instances and the handlers issue the  *)
(* commands of SetUserOnline and SetUserOffline (cache/service.go); the    *)
(* next visit repairs what a failure, a crash, an eviction or a login left.*)
THEOREM NobodyIsLeftBehind == Spec => []NobodyLeftBehind
<1>1. IInv => NobodyLeftBehind
  <2> SUFFICES ASSUME IInv, NEW u \in Users, Quiet, u \notin spoiled,
                      \A c \in ConnsOf(u) : conn[c] \in {"new", "gone"}
               PROVE  u \notin online /\ u \notin flag /\ status[u] # "on"
    BY DEF NobodyLeftBehind
  <2>1. \A p \in Insts : \A op : ~Has(p, op, u)
    BY IdleHasNone DEF Quiet
  <2>2. ~Connected(u)
    BY DEF Connected
  <2>3. QED
    BY <2>1, <2>2 DEF IInv, LifeInv, SomebodyCleansUp
<1>2. QED
  BY <1>1, Invariance, PTL

(* What the clients were last told of a user of one instance is what the   *)
(* friends list says, as the hub changes the store and publishes in the    *)
(* same order (hub.go:81-135, friends.go GetUserFriends).                  *)
THEOREM StatusAgrees == Spec => []StatusFollowsStore
<1>1. IInv => StatusFollowsStore
  <2> SUFFICES ASSUME IInv, NEW u \in Users, Without({"http", "fail", "crash"}), Quiet, OneInstance(u)
               PROVE  u \in online <=> status[u] = "on"
    BY DEF StatusFollowsStore, OneInstance
  <2>1. \A i \in Insts : todo[i] \notin Came(u) \cup Went(u)
    BY MidCall DEF Quiet, Idle
  <2>2. QED
    BY <2>1 DEF IInv, CallInv, DifferMidCallOnly
<1>2. QED
  BY <1>1, Invariance, PTL
=============================================================================
