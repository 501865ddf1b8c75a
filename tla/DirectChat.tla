----------------------------- MODULE DirectChat -----------------------------
(***************************************************************************)
(* One private conversation from end to end: what Me sees of it in the     *)
(* message pane (websocket.js), where live messages come by the socket and *)
(* stored ones by history requests.  The server runs in several instances, *)
(* each with its hub; a message is stored by its sender's reader and then  *)
(* handed to the hub of the sender's instance, which knows its own         *)
(* connections only.  A connection that has ended stays registered until   *)
(* its reader notices, beside the one that replaces it.                    *)
(*                                                                         *)
(* The capacity of channels, evictions and panics are in Hub, other        *)
(* conversations and the page's reconnections in WebSocketClient and       *)
(* ChatView.  Messages are numbered in the order their senders write them. *)
(***************************************************************************)
EXTENDS Naturals, Sequences, FiniteSets

CONSTANTS Me, Peer,   \* the two users
          Insts,      \* server instances
          Away,       \* no instance: not registered
          MaxMsgs,    \* bound: messages written
          Limit,      \* rows of a history: 50
          Unstable,   \* bound: users who lose connections
          MaxDrops,   \* bound: connections lost
          MaxAsks,    \* bound: how often the conversation is opened
          MaxTurns    \* bound: both together

Users == {Me, Peer}
Msgs  == 1..MaxMsgs
Conns == Users \X (1..(MaxDrops + 1))
Mine  == {Me} \X (1..(MaxDrops + 1))
Asks  == 1..MaxAsks
NoConn == <<Me, 0>>

ASSUME ChatAssumption ==
    /\ Me # Peer /\ Away \notin Insts
    /\ {MaxMsgs, MaxDrops, MaxAsks, MaxTurns} \subseteq Nat /\ Limit \in Nat \ {0}

VARIABLES
  made,   \* how many connections each user has made
  up,     \* the connections their pages hold open
  at,     \* the instance whose hub has a connection registered, or Away
  ended,  \* the connections whose reader has returned
  pc,     \* each message: "unsent", "wire", "saved" or "done" with
  via,    \* the connection it was sent on
  table,  \* the rows of messages, in the order of created_at
  chan,   \* each connection of Me: the messages in its send channel
  net,    \* and those on their way to the page in a frame of their own
  opened, \* the conversation is open
  pane,   \* .chat-messages
  asked,  \* history requests: state, rows and the table's length when read
  base,   \* history: the reply the pane was last filled with; n = 0: none
  late,   \* history: messages still coming when it was
  gone,   \* history: stored messages whose live copy was lost
  raced   \* history: those that came with a reply without them under way

conns == <<made, up, at, ended>>
live  == <<pc, via, chan, net>>
page  == <<opened, pane, asked, base>>
notes == <<late, gone, raced>>
vars  == <<conns, table, live, page, notes>>

Elems(s) == {s[k] : k \in DOMAIN s}
Stored   == Elems(table)
NoReply  == [st |-> "none", rows |-> <<>>, n |-> 0]

(* Messages of which a live copy may still come to the page. *)
Coming == {m \in Msgs : \/ pc[m] \in {"wire", "saved"}
                        \/ \E c \in Mine : m \in Elems(chan[c]) \cup Elems(net[c])}

Init ==
    /\ made = [u \in Users |-> 0] /\ up = {} /\ ended = {}
    /\ at = [c \in Conns |-> Away]
    /\ pc = [m \in Msgs |-> "unsent"] /\ via = [m \in Msgs |-> NoConn]
    /\ table = <<>>
    /\ chan = [c \in Mine |-> <<>>] /\ net = [c \in Mine |-> <<>>]
    /\ opened = FALSE /\ pane = <<>>
    /\ asked = [r \in Asks |-> NoReply] /\ base = NoReply
    /\ late = {} /\ gone = {} /\ raced = {}

-----------------------------------------------------------------------------
(* Connections.                                                            *)

drops == made[Me] + made[Peer] - Cardinality(up)
asks  == Cardinality({r \in Asks : asked[r].st # "none"})

(* The page connects, again after five seconds if it lost one. *)
Connect(c) ==
    /\ c[2] = made[c[1]] + 1 /\ \A d \in up : d[1] # c[1]
    /\ made' = [made EXCEPT ![c[1]] = @ + 1] /\ up' = up \cup {c}
    /\ UNCHANGED <<at, ended, live, table, page, notes>>

(* The load balancer has chosen an instance, whose hub registers it. *)
Register(c, i) ==
    /\ c[2] <= made[c[1]] /\ at[c] = Away /\ c \notin ended
    /\ at' = [at EXCEPT ![c] = i]
    /\ UNCHANGED <<made, up, ended, live, table, page, notes>>

(* The connection breaks; frames on their way are lost. *)
Drop(c) ==
    /\ c \in up /\ c[1] \in Unstable /\ drops < MaxDrops /\ drops + asks < MaxTurns
    /\ up' = up \ {c}
    /\ IF c \in Mine
       THEN net' = [net EXCEPT ![c] = <<>>] /\ gone' = gone \cup (Elems(net[c]) \cap Stored)
       ELSE UNCHANGED <<net, gone>>
    /\ UNCHANGED <<made, at, ended, pc, via, chan, table, page, late, raced>>

Busy(c) == \E m \in Msgs : via[m] = c /\ pc[m] = "saved"

(* The reader notices, at the latest by the missing pongs; what it has not *)
(* read is lost, and so is what its writer has not written.                *)
Unregister(c) ==
    /\ at[c] # Away /\ c \notin up /\ ~Busy(c)
    /\ at' = [at EXCEPT ![c] = Away] /\ ended' = ended \cup {c}
    /\ pc' = [m \in Msgs |-> IF via[m] = c /\ pc[m] = "wire" THEN "done" ELSE pc[m]]
    /\ gone' = gone \cup (IF c \in Mine THEN Elems(chan[c]) \cap Stored ELSE {})
    /\ chan' = [d \in Mine |-> IF d = c THEN <<>> ELSE chan[d]]
    /\ UNCHANGED <<made, up, via, net, table, page, late, raced>>

-----------------------------------------------------------------------------
(* A message's way through the server.                                     *)

(* sendMessage, on the open socket of the page. *)
Send(m, c) ==
    /\ pc[m] = "unsent" /\ \A k \in 1..(m - 1) : pc[k] # "unsent"
    /\ c \in up /\ (c \in Mine => opened)
    /\ pc' = [pc EXCEPT ![m] = "wire"] /\ via' = [via EXCEPT ![m] = c]
    /\ UNCHANGED <<conns, chan, net, table, page, notes>>

(* The reader of its connection gets to it. *)
Reads(m) ==
    /\ pc[m] = "wire" /\ at[via[m]] # Away /\ ~Busy(via[m])
    /\ \A k \in Msgs : k < m /\ via[k] = via[m] => pc[k] # "wire"

(* The rate limiter refuses it: an error goes to the sender. *)
Throttle(m) ==
    /\ Reads(m)
    /\ pc' = [pc EXCEPT ![m] = "done"]
    /\ UNCHANGED <<conns, via, chan, net, table, page, notes>>

(* Mutant: each message is handled in a goroutine of its own. *)
SaveBeside(m) ==
    /\ pc[m] = "wire" /\ at[via[m]] # Away
    /\ table' \in {table, Append(table, m)}
    /\ pc' = [pc EXCEPT ![m] = "saved"]
    /\ UNCHANGED <<conns, via, chan, net, page, notes>>

(* saveMessageToDB, whose failure is only logged. *)
Save(m) ==
    /\ Reads(m)
    /\ table' \in {table, Append(table, m)}
    /\ pc' = [pc EXCEPT ![m] = "saved"]
    /\ UNCHANGED <<conns, via, chan, net, page, notes>>

(* Peer's message goes to the first connection of Me that the hub of its   *)
(* instance finds; mine comes back on the connection it was sent on.  What *)
(* else the reader does with them concerns Peer's page.                    *)
Forward(m) ==
    /\ pc[m] = "saved"
    /\ pc' = [pc EXCEPT ![m] = "done"]
    /\ LET to == IF via[m] \in Mine THEN {via[m]}
                 ELSE {c \in Mine : at[c] = at[via[m]]} IN
         \/ /\ to = {} /\ gone' = gone \cup ({m} \cap Stored) /\ UNCHANGED chan
         \/ /\ \E c \in to : chan' = [chan EXCEPT ![c] = Append(@, m)]
            /\ UNCHANGED gone
    /\ UNCHANGED <<conns, via, net, table, page, late, raced>>

(* The writer puts all that is in the channel into one frame, and there    *)
(* may be other frames' texts (statuses, acknowledgements) with it.  The   *)
(* page can only parse a frame with one text.                              *)
Write(c) ==
    /\ chan[c] # <<>>
    /\ chan' = [chan EXCEPT ![c] = <<>>]
    /\ \/ /\ c \in up /\ Len(chan[c]) = 1
          /\ net' = [net EXCEPT ![c] = Append(@, Head(chan[c]))] /\ UNCHANGED gone
       \/ gone' = gone \cup (Elems(chan[c]) \cap Stored) /\ UNCHANGED net
    /\ UNCHANGED <<conns, pc, via, table, page, late, raced>>

-----------------------------------------------------------------------------
(* The page.                                                               *)

(* handleIncomingMessage: shown if the conversation is open. *)
Arrive(c) ==
    /\ net[c] # <<>>
    /\ net' = [net EXCEPT ![c] = Tail(@)]
    /\ LET m == Head(net[c]) IN
         /\ pane' = IF opened THEN Append(pane, m) ELSE pane
         /\ raced' = IF \E r \in Asks : asked[r].st = "read" /\ m \notin Elems(asked[r].rows)
                     THEN raced \cup ({m} \cap Stored) ELSE raced
    /\ UNCHANGED <<conns, pc, via, chan, table, opened, asked, base, late, gone>>

(* setActiveConversation, after a click that empties the pane (chat.js) or *)
(* does not (app.js), asks for the history.                                *)
Open(r) ==
    /\ drops + asks < MaxTurns
    /\ asked[r].st = "none" /\ \A q \in 1..(r - 1) : asked[q].st # "none"
    /\ opened' = TRUE
    /\ asked' = [asked EXCEPT ![r].st = "sent"]
    /\ \/ UNCHANGED <<pane, base, late>>
       \/ pane' = <<>> /\ base' = NoReply /\ late' = {}
    /\ UNCHANGED <<conns, live, table, gone, raced>>

(* The newest rows of the first n, oldest first. *)
Newest(n) == SubSeq(table, IF n > Limit THEN n - Limit + 1 ELSE 1, n)

(* Mutant: without DESC. *)
OldestRows(n) == SubSeq(table, 1, IF n > Limit THEN Limit ELSE n)

(* Mutant: without the loop that turns the newest-first rows round. *)
NewestFirst(n) == [k \in 1..Len(Newest(n)) |-> Newest(n)[Len(Newest(n)) + 1 - k]]

(* Mutant: without LIMIT. *)
AllRows(n) == SubSeq(table, 1, n)

(* ORDER BY created_at DESC LIMIT $3, then turned round. *)
Rows(n) == Newest(n)

(* GetDirectMessageHistory *)
ReadHistory(r) ==
    /\ asked[r].st = "sent"
    /\ asked' = [asked EXCEPT ![r] = [st |-> "read", rows |-> Rows(Len(table)),
                                      n |-> Len(table)]]
    /\ UNCHANGED <<conns, live, table, opened, pane, base, notes>>

(* Mutant: the pane is not emptied. *)
ShowOnTop(r) ==
    /\ asked[r].st = "read"
    /\ asked' = [asked EXCEPT ![r] = [NoReply EXCEPT !.st = "over"]]
    /\ IF asked[r].rows # <<>>
       THEN pane' = pane \o asked[r].rows /\ base' = asked[r] /\ late' = Coming
       ELSE UNCHANGED <<pane, base, late>>
    /\ UNCHANGED <<conns, live, table, opened, gone, raced>>

(* displayChatHistory replaces what the pane shows; an empty history is    *)
(* null and changes nothing.                                               *)
Show(r) ==
    /\ asked[r].st = "read"
    /\ asked' = [asked EXCEPT ![r] = [NoReply EXCEPT !.st = "over"]]
    /\ IF asked[r].rows # <<>>
       THEN pane' = asked[r].rows /\ base' = asked[r] /\ late' = Coming
       ELSE UNCHANGED <<pane, base, late>>
    /\ UNCHANGED <<conns, live, table, opened, gone, raced>>

(* The request fails. *)
Fail(r) ==
    /\ asked[r].st = "sent"
    /\ asked' = [asked EXCEPT ![r] = [NoReply EXCEPT !.st = "over"]]
    /\ UNCHANGED <<conns, live, table, opened, pane, base, notes>>

Next ==
    \/ \E c \in Conns : \/ Connect(c) \/ Drop(c) \/ Unregister(c)
                        \/ \E i \in Insts : Register(c, i)
    \/ \E m \in Msgs : \/ \E c \in Conns : Send(m, c)
                       \/ Throttle(m) \/ Save(m) \/ Forward(m)
    \/ \E c \in Mine : Write(c) \/ Arrive(c)
    \/ \E r \in Asks : Open(r) \/ ReadHistory(r) \/ Show(r) \/ Fail(r)

Spec == Init /\ [][Next]_vars

-----------------------------------------------------------------------------
(* Properties.                                                             *)

Reply == [st : {"none", "sent", "read", "over"}, rows : Seq(Msgs), n : Nat]

(* Types; a page holds one connection open, and a history has at most      *)
(* Limit rows.                                                             *)
TypeOK ==
    /\ made \in [Users -> 0..(MaxDrops + 1)]
    /\ up \subseteq Conns /\ \A c, d \in up : c[1] = d[1] => c = d
    /\ at \in [Conns -> Insts \cup {Away}] /\ ended \subseteq Conns
    /\ pc \in [Msgs -> {"unsent", "wire", "saved", "done"}]
    /\ via \in [Msgs -> Conns \cup {NoConn}]
    /\ table \in Seq(Msgs)
    /\ chan \in [Mine -> Seq(Msgs)] /\ net \in [Mine -> Seq(Msgs)]
    /\ opened \in BOOLEAN /\ pane \in Seq(Msgs)
    /\ asked \in [Asks -> Reply] /\ base \in Reply
    /\ late \cup gone \cup raced \subseteq Msgs
    /\ \A r \in Asks : Len(asked[r].rows) <= Limit

Places(m) == {k \in DOMAIN pane : pane[k] = m}
First(m)  == CHOOSE k \in Places(m) : \A j \in Places(m) : k <= j

(* A message is shown twice at most, and twice only if the history shown   *)
(* has it and its live copy was still on its way when that was shown.      *)
ShownTwiceOnlyIfLate ==
    \A m \in Msgs : /\ Cardinality(Places(m)) <= 2
                    /\ Cardinality(Places(m)) = 2 => m \in late \cap Elems(base.rows)

(* Two messages sent on one connection are stored in that order, and first *)
(* shown in that order, unless a history without the earlier one (not      *)
(* stored, or beyond the limit) was shown before its live copy came.       *)
SenderOrderKept ==
    \A m, k \in Msgs : m < k /\ via[m] = via[k] /\ pc[m] # "unsent" =>
      /\ \A i, j \in DOMAIN table : table[i] = m /\ table[j] = k => i < j
      /\ Places(m) # {} /\ Places(k) # {} /\ First(k) < First(m)
         => m \in late \ Elems(base.rows)

(* Nothing stored is missing from the pane without a reason: once a        *)
(* history has been shown, the newest rows it was read from are all there, *)
(* and a row stored since is shown or coming, or its live copy was lost,   *)
(* or it came while a history without it was under way.                    *)
MissingOnlyIfLost ==
    base.n > 0 =>
      /\ Elems(Newest(base.n)) \subseteq Elems(pane)
      /\ \A k \in (base.n + 1)..Len(table) :
           table[k] \in Elems(pane) \cup Coming \cup gone \cup raced
=============================================================================
