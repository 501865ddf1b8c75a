------------------------------ MODULE Friends ------------------------------
(***************************************************************************)
(* Friend requests and what they allow.  The table friendships and the     *)
(* table messages with its trigger (server/migrations/001_init.sql), as    *)
(* the HTTP handlers (internal/handlers/friends.go) and the readers of the *)
(* WebSocket connections (internal/websocket/client.go) use them.          *)
(*                                                                         *)
(* Each SQL statement is atomic; SendFriendRequest issues two of them and  *)
(* then notifies the recipient, without a transaction, so handlers of      *)
(* several server processes interleave between them, and one may die.      *)
(* The friends-list cache that the handlers invalidate is never filled and *)
(* is left out.                                                            *)
(***************************************************************************)
EXTENDS Naturals, FiniteSets

CONSTANTS Users,
          Calls,  \* bound: calls of POST /api/friends/request
          Seed    \* the friendships the migration inserts

Pairs == {p \in Users \X Users : p[1] # p[2]}   \* CHECK (user_id != friend_id)
Reverse(p) == <<p[2], p[1]>>

ASSUME FriendsAssumption ==
    /\ IsFiniteSet(Calls)
    /\ Seed \subseteq Pairs
    /\ \A p \in Seed : Reverse(p) \notin Seed

VARIABLES row,        \* friendships: the status of the row (user_id, friend_id)
          pc,         \* where each call stands
          arg,        \* its (from, to)
          notices,    \* notices of a request of p handed to the recipient's hub
          rejections, \* how often a request of p was rejected
          stored      \* direct messages in the table: their (from, to)

vars == <<row, pc, arg, notices, rejections, stored>>

(* are_friends of the schema *)
AreFriends(u, v) == \E p \in Pairs : p \in {<<u, v>>, <<v, u>>} /\ row[p] = "accepted"

Init == /\ row = [p \in Pairs |-> IF p \in Seed THEN "accepted" ELSE "none"]
        /\ pc = [h \in Calls |-> "new"]
        /\ arg \in [Calls -> Pairs]
        /\ notices = [p \in Pairs |-> 0]
        /\ rejections = [p \in Pairs |-> 0]
        /\ stored = {}

-----------------------------------------------------------------------------
(* SendFriendRequest and its handler; a request to oneself was refused.    *)

Goto(h, l) == pc' = [pc EXCEPT ![h] = l]

(* SELECT EXISTS: no row in either direction *)
CheckRequest(h) ==
    LET p == arg[h] IN
    /\ pc[h] = "new"
    /\ Goto(h, IF row[p] = "none" /\ row[Reverse(p)] = "none" THEN "insert" ELSE "done")
    /\ UNCHANGED <<row, arg, notices, rejections, stored>>

(* Mutant: an INSERT that finds the row there counts as a success. *)
InsertRequestOrIgnore(h) ==
    /\ pc[h] = "insert"
    /\ Goto(h, "notify")
    /\ row' = [row EXCEPT ![arg[h]] = IF @ = "none" THEN "pending" ELSE @]
    /\ UNCHANGED <<arg, notices, rejections, stored>>

(* Mutant: ON CONFLICT DO UPDATE SET status = 'pending'. *)
UpsertRequest(h) ==
    /\ pc[h] = "insert"
    /\ Goto(h, "notify")
    /\ row' = [row EXCEPT ![arg[h]] = "pending"]
    /\ UNCHANGED <<arg, notices, rejections, stored>>

(* INSERT; UNIQUE(user_id, friend_id) refuses a second row of one direction *)
InsertRequest(h) ==
    /\ pc[h] = "insert"
    /\ IF row[arg[h]] = "none"
       THEN Goto(h, "notify") /\ row' = [row EXCEPT ![arg[h]] = "pending"]
       ELSE Goto(h, "done") /\ UNCHANGED row
    /\ UNCHANGED <<arg, notices, rejections, stored>>

(* the recipient's hub is handed a friend_request_received *)
NotifyRequest(h) ==
    /\ pc[h] = "notify"
    /\ Goto(h, "done")
    /\ notices' = [notices EXCEPT ![arg[h]] = @ + 1]
    /\ UNCHANGED <<row, arg, rejections, stored>>

(* A statement fails, or the process dies, between two steps. *)
AbortRequest(h) ==
    /\ pc[h] \in {"new", "insert", "notify"}
    /\ Goto(h, "done")
    /\ UNCHANGED <<row, arg, notices, rejections, stored>>

-----------------------------------------------------------------------------
(* The recipient answers: one statement each; without a pending request    *)
(* nothing changes and the handler reports an error.                       *)

AcceptFriendRequest(p) ==
    /\ row[p] = "pending"
    /\ row' = [row EXCEPT ![p] = "accepted"]
    /\ UNCHANGED <<pc, arg, notices, rejections, stored>>

(* Mutant: the row stays, with a status the other queries do not know. *)
RejectKeepingRow(p) ==
    /\ row[p] = "pending"
    /\ row' = [row EXCEPT ![p] = "rejected"]
    /\ rejections' = [rejections EXCEPT ![p] = @ + 1]
    /\ UNCHANGED <<pc, arg, notices, stored>>

RejectFriendRequest(p) ==
    /\ row[p] = "pending"
    /\ row' = [row EXCEPT ![p] = "none"]
    /\ rejections' = [rejections EXCEPT ![p] = @ + 1]
    /\ UNCHANGED <<pc, arg, notices, stored>>

-----------------------------------------------------------------------------
(* A reader gets a direct message from u to v: it inserts it, which the    *)
(* trigger refuses unless the two are friends (or the database fails).     *)
(* Whatever came of that, the hub gets the message (see DirectChat).       *)

(* Mutant: any row between the two will do. *)
CanSendIfKnown(u, v) ==
    \E p \in Pairs : p \in {<<u, v>>, <<v, u>>} /\ row[p] # "none"

CanSendDirectMessage(u, v) == u # v /\ AreFriends(u, v)

DirectMessage(u, v) ==
    /\ \/ CanSendDirectMessage(u, v) /\ stored' = stored \cup {<<u, v>>}
       \/ UNCHANGED stored
    /\ UNCHANGED <<row, pc, arg, notices, rejections>>

-----------------------------------------------------------------------------
Next == \/ \E h \in Calls : \/ CheckRequest(h) \/ InsertRequest(h)
                            \/ NotifyRequest(h) \/ AbortRequest(h)
        \/ \E p \in Pairs : AcceptFriendRequest(p) \/ RejectFriendRequest(p)
        \/ \E u, v \in Users : DirectMessage(u, v)

Spec == Init /\ [][Next]_vars

-----------------------------------------------------------------------------
TypeOK ==
    /\ row \in [Pairs -> {"none", "pending", "accepted"}]
    /\ pc \in [Calls -> {"new", "insert", "notify", "done"}]
    /\ arg \in [Calls -> Pairs]
    /\ notices \in [Pairs -> Nat]
    /\ rejections \in [Pairs -> Nat]
    /\ stored \subseteq Pairs

(* Double clicks, retries and several devices: a recipient hears of one    *)
(* direction's request once, and again only after rejecting it.  EXISTS    *)
(* alone does not give this; the UNIQUE constraint has to.                 *)
RepeatsNotifyOnce == \A p \in Pairs : notices[p] <= 1 + rejections[p]

(* Every direct message in the table is between two who are friends now:   *)
(* the trigger looks only at the moment of the insert, so this needs that  *)
(* no later answer to any request, crossed ones included, takes a          *)
(* friendship back.                                                        *)
StoredAmongFriends == \A p \in stored : AreFriends(p[1], p[2])

(* No request, crossed with another or repeated, and no answer to one ends *)
(* a friendship (there is no operation that does).                         *)
FriendsForLife ==
    [][\A p \in Pairs : AreFriends(p[1], p[2]) => AreFriends(p[1], p[2])']_vars
=============================================================================
