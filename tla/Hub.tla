-------------------------------- MODULE Hub --------------------------------
(***************************************************************************)
(* One server process of the chat: the goroutines that share a Hub         *)
(* (server/internal/websocket/hub.go and client.go).                       *)
(*                                                                         *)
(*   hub         Hub.Run: one event at a time from four unbuffered         *)
(*               channels; owns the map of registered clients              *)
(*   reader(c)   serveWs, then Client.readPump of connection c             *)
(*   writer(c)   Client.writePump of connection c                          *)
(*   subscriber  Hub.subscribeToRedis, with Redis configured; iterates     *)
(*               over the hub's map without a lock                         *)
(*   handler     the HTTP handler that notifies a user of a friend request *)
(*                                                                         *)
(* The hub's channels are unbuffered, so a send is a rendezvous: a blocked *)
(* sender is a goroutine whose program counter stands at the send, and the *)
(* hub's receive moves both.  A non-blocking send (select with default)    *)
(* succeeds only while the hub is parked in its select.  Client.send has   *)
(* capacity SendCap; a send on a closed channel and a second close panic.  *)
(*                                                                         *)
(* The stores behind the calls (presence set, rate counters, the messages  *)
(* table) are other components: here a call succeeds or fails, either way. *)
(***************************************************************************)
EXTENDS Naturals, Sequences, FiniteSets

CONSTANTS Conns,    \* connections that may be made during one run of the process
          Users,    \* authenticated users
          User,     \* the user of each connection
          SendCap,  \* capacity of Client.send (256 in the code)
          MaxMsgs,  \* bound: messages read from each connection
          MaxNotices, \* bound: friend-request notices of the HTTP handlers
          MaxRedis, \* bound: published messages in flight at one time
          Redis     \* is Redis configured (presence, rate limit, pub/sub)?

ASSUME HubAssumption ==
    /\ User \in [Conns -> Users]
    /\ SendCap \in Nat \ {0}
    /\ MaxMsgs \in [Conns -> Nat] /\ MaxNotices \in Nat /\ MaxRedis \in Nat
    /\ Redis \in BOOLEAN

VARIABLES
    up,       \* the process is running (a panic outside a reader kills it)
    clients,  \* Hub.clients
    hpc,      \* hub: "loop" -> "select" (parked) -> "bcast" / "status" -> "loop"
    hmsg,     \* the message the hub is broadcasting
    hleft,    \* clients the hub's broadcast loop has still to visit
    rpc,      \* reader of each connection: the operation it is about to do
    rmsg,     \* the message that operation carries
    wpc,      \* writer of each connection
    batch,    \* messages of the frame the writer is writing
    send,     \* Client.send: the buffered messages
    closed,   \* has Client.send been closed?
    conn,     \* transport: "open", "lost" (peer gone or stalled), "closed" by us
    wire,     \* messages that reached the peer (history)
    sent,     \* messages read so far from each connection
    notices,  \* friend-request notices handed to the hub so far
    redis,    \* published messages this process has not received yet
    spc,      \* subscriber: "recv" or "loop"
    smsg,     \* the message the subscriber is handing out
    sleft     \* clients its iteration over the map has still to produce

hubVars == <<hpc, hmsg, hleft>>
rdVars  == <<rpc, rmsg, sent, notices>>
wrVars  == <<wpc, batch, wire>>
subVars == <<spc, smsg, sleft>>
vars == <<up, clients, hubVars, rdVars, wrVars, send, closed, conn, redis, subVars>>

-----------------------------------------------------------------------------
(* Messages.  A direct message names the recipient's user; n numbers what  *)
(* one connection sent.  "system" stands for what carries no chat: status   *)
(* changes, heartbeat_ack, rate-limit errors and friend-request notices.   *)

Direct(c, n, u) == [kind |-> "direct", from |-> c, n |-> n, to |-> u]
Bcast(c, n)     == [kind |-> "bcast", from |-> c, n |-> n]
System          == [kind |-> "system"]

Chat == UNION {{Direct(c, n, u) : n \in 1..MaxMsgs[c], u \in Users}
                \cup {Bcast(c, n) : n \in 1..MaxMsgs[c]} : c \in Conns}
Message == Chat \cup {System}

Init == /\ up = TRUE
        /\ clients = {}
        /\ hpc = "loop" /\ hmsg = System /\ hleft = {}
        /\ rpc = [c \in Conns |-> "register"]
        /\ rmsg = [c \in Conns |-> System]
        /\ sent = [c \in Conns |-> 0] /\ notices = 0
        /\ wpc = [c \in Conns |-> "none"]
        /\ batch = [c \in Conns |-> <<>>]
        /\ wire = [c \in Conns |-> <<>>]
        /\ send = [c \in Conns |-> <<>>]
        /\ closed = [c \in Conns |-> FALSE]
        /\ conn = [c \in Conns |-> "open"]
        /\ redis = <<>>
        /\ spc = "recv" /\ smsg = System /\ sleft = {}

-----------------------------------------------------------------------------
(* Operations on Client.send.                                              *)

(* A panic in a goroutine nobody recovers ends the process. *)
Panic == up' = FALSE /\ UNCHANGED <<clients, send, closed>>

(* Mutant: the client is closed but stays in the map. *)
CloseWithoutDelete(c) ==
    IF closed[c] THEN Panic
    ELSE closed' = [closed EXCEPT ![c] = TRUE] /\ UNCHANGED <<up, clients, send>>

(* close(c.send), by the hub, together with the deletion from the map *)
CloseAndDelete(c) ==
    IF closed[c] THEN Panic
    ELSE /\ closed' = [closed EXCEPT ![c] = TRUE]
         /\ clients' = clients \ {c}
         /\ UNCHANGED <<up, send>>

(* Mutant: a full client is skipped instead of given up. *)
OfferOrSkip(c, m) ==
    IF closed[c] THEN Panic
    ELSE /\ send' = [send EXCEPT ![c] = IF Len(@) < SendCap THEN Append(@, m) ELSE @]
         /\ UNCHANGED <<up, clients, closed>>

(* select { case c.send <- m: default: close(c.send); delete(h.clients, c) } *)
Offer(c, m) ==
    IF closed[c] THEN Panic
    ELSE IF Len(send[c]) < SendCap
    THEN send' = [send EXCEPT ![c] = Append(@, m)] /\ UNCHANGED <<up, clients, closed>>
    ELSE CloseAndDelete(c)

(* Mutant: the loop over the clients does not stop at the first match. *)
DeliverToAll(u, m) ==
    LET R == {c \in clients : User[c] = u}
        full == {c \in R : Len(send[c]) >= SendCap}
    IN /\ send' = [c \in Conns |-> IF c \in R \ full THEN Append(send[c], m) ELSE send[c]]
       /\ closed' = [c \in Conns |-> closed[c] \/ c \in full]
       /\ clients' = clients \ full
       /\ UNCHANGED up

(* The directMsg case of Hub.Run: the first registered connection of u in  *)
(* the map's (random) order, and no other, is offered the message.         *)
DeliverTo(u, m) ==
    \/ /\ \A c \in clients : User[c] # u
       /\ UNCHANGED <<up, clients, send, closed>>
    \/ \E c \in clients : User[c] = u /\ Offer(c, m)

(* append to the Redis channel, or fail to *)
Publish(m) == \/ Len(redis) < MaxRedis /\ redis' = Append(redis, m)
              \/ UNCHANGED redis

-----------------------------------------------------------------------------
(* The hub.  Between two events it can be handed a blocked sender's item;  *)
(* with none ready it parks, and only then do non-blocking senders find it.*)

HubReady == hpc \in {"loop", "select"}

HubPark == /\ hpc = "loop"
           /\ hpc' = "select"
           /\ UNCHANGED <<up, clients, hmsg, hleft, rdVars, wrVars, send, closed, conn,
                          redis, subVars>>

(* After SetUserOnline / SetUserOffline succeeded the hub publishes the    *)
(* status; without Redis, or when the call failed, it is back in its loop. *)
NextIsStatus == hpc' \in {"loop"} \cup (IF Redis THEN {"status"} ELSE {})

HubRegister(c) ==
    /\ HubReady /\ rpc[c] = "register"
    /\ clients' = clients \cup {c}
    /\ rpc' = [rpc EXCEPT ![c] = "read"]
    /\ wpc' = [wpc EXCEPT ![c] = "wait"]
    /\ NextIsStatus
    /\ UNCHANGED <<up, hmsg, hleft, rmsg, sent, notices, batch, wire, send, closed, conn, redis, subVars>>

(* Mutant: no check that the client is still in the map. *)
HubUnregisterUnchecked(c) ==
    /\ HubReady /\ rpc[c] = "unregister"
    /\ rpc' = [rpc EXCEPT ![c] = "close"]
    /\ CloseAndDelete(c) /\ NextIsStatus
    /\ UNCHANGED <<hmsg, hleft, rmsg, sent, notices, wrVars, conn, redis, subVars>>

HubUnregister(c) ==
    /\ HubReady /\ rpc[c] = "unregister"
    /\ rpc' = [rpc EXCEPT ![c] = "close"]
    /\ IF c \in clients
       THEN CloseAndDelete(c) /\ NextIsStatus
       ELSE hpc' = "loop" /\ UNCHANGED <<up, clients, send, closed>>
    /\ UNCHANGED <<hmsg, hleft, rmsg, sent, notices, wrVars, conn, redis, subVars>>

(* Mutant: the status is offered to the local hub with a blocking send. *)
HubStatusBlocking ==
    /\ hpc = "status"
    /\ Publish(System)
    /\ hpc = "select" /\ hpc' = "bcast"
    /\ UNCHANGED <<up, clients, hmsg, hleft, rdVars, wrVars, send, closed, conn, subVars>>

(* broadcastUserStatus, on the hub's goroutine: publish, and whatever came *)
(* of it offer the message to h.broadcast without blocking.  The only      *)
(* receiver of h.broadcast is the hub itself, so that offer never succeeds.*)
HubStatus ==
    /\ hpc = "status"
    /\ Publish(System)
    /\ hpc' = "loop"
    /\ UNCHANGED <<up, clients, hmsg, hleft, rdVars, wrVars, send, closed, conn, subVars>>

(* Mutant: direct messages are served while a broadcast is under way. *)
HubDirectAnyTime(c) ==
    /\ rpc[c] = "direct"
    /\ DeliverTo(rmsg[c].to, rmsg[c])
    /\ rpc' = [rpc EXCEPT ![c] = "echo"]
    /\ UNCHANGED <<hubVars, rmsg, sent, notices, wrVars, conn, redis, subVars>>

HubDirect(c) ==
    /\ HubReady /\ rpc[c] = "direct"
    /\ DeliverTo(rmsg[c].to, rmsg[c])
    /\ rpc' = [rpc EXCEPT ![c] = "echo"]
    /\ hpc' = "loop"
    /\ UNCHANGED <<hmsg, hleft, rmsg, sent, notices, wrVars, conn, redis, subVars>>

(* SendDirectMessage called by the friend-request HTTP handler *)
HubNotify(u) ==
    /\ HubReady /\ notices < MaxNotices
    /\ DeliverTo(u, System)
    /\ notices' = notices + 1
    /\ hpc' = "loop"
    /\ UNCHANGED <<hmsg, hleft, rpc, rmsg, sent, wrVars, conn, redis, subVars>>

(* Mutant: the broadcast waits for room in a full channel. *)
HubBroadcastBlocking ==
    /\ hpc = "bcast"
    /\ \E c \in hleft : /\ Len(send[c]) < SendCap
                        /\ Offer(c, hmsg) /\ hleft' = hleft \ {c}
    /\ UNCHANGED <<hpc, hmsg, rdVars, wrVars, conn, redis, subVars>>

(* One iteration of the broadcast loop; the map's order is random. *)
HubBroadcast ==
    /\ hpc = "bcast"
    /\ \E c \in hleft : Offer(c, hmsg) /\ hleft' = hleft \ {c}
    /\ UNCHANGED <<hpc, hmsg, rdVars, wrVars, conn, redis, subVars>>

HubBroadcastDone ==
    /\ hpc = "bcast" /\ hleft = {}
    /\ hpc' = "loop" /\ hmsg' = System
    /\ UNCHANGED <<up, clients, hleft, rdVars, wrVars, send, closed, conn, redis, subVars>>

-----------------------------------------------------------------------------
(* The reader: serveWs brings the connection to Register, then readPump's  *)
(* loop runs until ReadMessage fails.                                      *)

Goto(c, pc, m) == /\ rpc' = [rpc EXCEPT ![c] = pc]
                  /\ rmsg' = [rmsg EXCEPT ![c] = m]

(* A heartbeat, or with Redis a message over the rate limit, is answered   *)
(* on the connection's own channel and not processed further.              *)
ReadControl(c) ==
    /\ rpc[c] = "read" /\ conn[c] = "open" /\ sent[c] < MaxMsgs[c]
    /\ Goto(c, "reply", System)
    /\ sent' = [sent EXCEPT ![c] = @ + 1]
    /\ UNCHANGED <<up, clients, hubVars, notices, wrVars, send, closed, conn, redis, subVars>>

ReadDirect(c) ==
    /\ rpc[c] = "read" /\ conn[c] = "open" /\ sent[c] < MaxMsgs[c]
    /\ \E u \in Users : Goto(c, "direct", Direct(c, sent[c] + 1, u))
    /\ sent' = [sent EXCEPT ![c] = @ + 1]
    /\ UNCHANGED <<up, clients, hubVars, notices, wrVars, send, closed, conn, redis, subVars>>

(* no recipient, or a payload that does not parse *)
ReadBroadcast(c) ==
    /\ rpc[c] = "read" /\ conn[c] = "open" /\ sent[c] < MaxMsgs[c]
    /\ Goto(c, IF Redis THEN "publish" ELSE "offer", Bcast(c, sent[c] + 1))
    /\ sent' = [sent EXCEPT ![c] = @ + 1]
    /\ UNCHANGED <<up, clients, hubVars, notices, wrVars, send, closed, conn, redis, subVars>>

(* BroadcastViaRedis, first half *)
ReaderPublish(c) ==
    /\ rpc[c] = "publish"
    /\ Publish(rmsg[c])
    /\ Goto(c, "offer", rmsg[c])
    /\ UNCHANGED <<up, clients, hubVars, sent, notices, wrVars, send, closed, conn, subVars>>

(* Mutant: the sender gets a copy of its broadcast as well. *)
ReaderOfferAndEcho(c) ==
    /\ rpc[c] = "offer"
    /\ Goto(c, "echo", rmsg[c])
    /\ IF hpc = "select"
       THEN hpc' = "bcast" /\ hmsg' = rmsg[c] /\ hleft' = clients
       ELSE UNCHANGED hubVars
    /\ UNCHANGED <<up, clients, sent, notices, wrVars, send, closed, conn, redis, subVars>>

(* BroadcastViaRedis, second half: whether Redis is absent, refused or took *)
(* the message, it is offered to the local hub without blocking.            *)
ReaderOffer(c) ==
    /\ rpc[c] = "offer"
    /\ Goto(c, "read", System)
    /\ IF hpc = "select"
       THEN hpc' = "bcast" /\ hmsg' = rmsg[c] /\ hleft' = clients
       ELSE UNCHANGED hubVars
    /\ UNCHANGED <<up, clients, sent, notices, wrVars, send, closed, conn, redis, subVars>>

(* Mutant: the channel grows instead of making the reader wait. *)
ReaderSendUnbounded(c) ==
    /\ rpc[c] \in {"reply", "echo"} /\ ~closed[c]
    /\ send' = [send EXCEPT ![c] = Append(@, rmsg[c])]
    /\ Goto(c, "read", System)
    /\ UNCHANGED <<up, clients, hubVars, sent, notices, wrVars, closed, conn, redis, subVars>>

(* c.send <- m on the reader's own channel: the answer to a control message *)
(* or the sender's copy of a direct message.  It waits while the buffer is  *)
(* full and panics when the hub closed it; that panic unwinds into the      *)
(* deferred unregister and net/http recovers it.                            *)
ReaderSend(c) ==
    /\ rpc[c] \in {"reply", "echo"}
    /\ \/ /\ closed[c]
          /\ Goto(c, "unregister", System)
          /\ UNCHANGED send
       \/ /\ ~closed[c] /\ Len(send[c]) < SendCap
          /\ send' = [send EXCEPT ![c] = Append(@, rmsg[c])]
          /\ Goto(c, "read", System)
    /\ UNCHANGED <<up, clients, hubVars, sent, notices, wrVars, closed, conn, redis, subVars>>

(* ReadMessage fails: the peer is gone, the connection was closed by the   *)
(* writer, the message exceeds the limit, or no pong came in time.         *)
ReadFail(c) ==
    /\ rpc[c] = "read"
    /\ Goto(c, "unregister", System)
    /\ UNCHANGED <<up, clients, hubVars, sent, notices, wrVars, send, closed, conn, redis, subVars>>

ReaderClose(c) ==
    /\ rpc[c] = "close"
    /\ Goto(c, "done", System)
    /\ conn' = [conn EXCEPT ![c] = "closed"]
    /\ UNCHANGED <<up, clients, hubVars, sent, notices, wrVars, send, closed, redis, subVars>>

(* The peer disappears or stops reading. *)
Disconnect(c) ==
    /\ rpc[c] # "done" /\ conn[c] = "open"
    /\ conn' = [conn EXCEPT ![c] = "lost"]
    /\ UNCHANGED <<up, clients, hubVars, rdVars, wrVars, send, closed, redis, subVars>>

-----------------------------------------------------------------------------
(* The writer: one frame holds a message and all that queued up behind it. *)

WriterExit(c) == /\ wpc' = [wpc EXCEPT ![c] = "done"]
                 /\ batch' = [batch EXCEPT ![c] = <<>>]
                 /\ conn' = [conn EXCEPT ![c] = "closed"]

WriteTake(c) ==
    /\ wpc[c] = "wait" /\ send[c] # <<>>
    /\ send' = [send EXCEPT ![c] = Tail(@)]
    /\ \/ /\ batch' = [batch EXCEPT ![c] = <<Head(send[c])>>]
          /\ wpc' = [wpc EXCEPT ![c] = "drain"]
          /\ UNCHANGED conn
       \/ /\ conn[c] # "open"              \* NextWriter fails
          /\ WriterExit(c)
    /\ UNCHANGED <<up, clients, hubVars, rdVars, closed, wire, redis, subVars>>

(* n := len(c.send), and that many more messages for the frame: only this  *)
(* goroutine receives from the channel, so they are there.                 *)
WriteDrain(c) ==
    /\ wpc[c] = "drain"
    /\ batch' = [batch EXCEPT ![c] = @ \o send[c]]
    /\ send' = [send EXCEPT ![c] = <<>>]
    /\ wpc' = [wpc EXCEPT ![c] = "write"]
    /\ UNCHANGED <<up, clients, hubVars, rdVars, closed, conn, wire, redis, subVars>>

(* Mutant: the frame's messages are not forgotten once written. *)
WriteFrameTwice(c) ==
    /\ wpc[c] = "write" /\ conn[c] = "open"
    /\ wpc' \in {[wpc EXCEPT ![c] = "wait"], wpc}
    /\ wire' = [wire EXCEPT ![c] = @ \o batch[c]]
    /\ UNCHANGED <<up, clients, hubVars, rdVars, batch, conn, send, closed, redis, subVars>>

(* w.Close() sends the frame.  A lost peer's kernel buffer may still take  *)
(* it, and nobody reads it.                                                *)
WriteFrame(c) ==
    /\ wpc[c] = "write"
    /\ \/ /\ conn[c] # "closed"
          /\ wpc' = [wpc EXCEPT ![c] = "wait"]
          /\ wire' = [wire EXCEPT ![c] = IF conn[c] = "open"
                                         THEN @ \o batch[c] ELSE @]
          /\ batch' = [batch EXCEPT ![c] = <<>>]
          /\ UNCHANGED conn
       \/ /\ conn[c] # "open"
          /\ WriterExit(c)
          /\ UNCHANGED wire
    /\ UNCHANGED <<up, clients, hubVars, rdVars, send, closed, redis, subVars>>

(* Mutant: the end of the channel is not noticed, the writer spins. *)
WriteClosedIgnored(c) ==
    /\ wpc[c] = "wait" /\ send[c] = <<>> /\ closed[c]
    /\ UNCHANGED vars

(* The channel is closed and drained: close frame, close the connection. *)
WriteClosed(c) ==
    /\ wpc[c] = "wait" /\ send[c] = <<>> /\ closed[c]
    /\ WriterExit(c)
    /\ UNCHANGED <<up, clients, hubVars, rdVars, send, closed, wire, redis, subVars>>

PingFail(c) ==
    /\ wpc[c] = "wait" /\ conn[c] # "open"
    /\ WriterExit(c)
    /\ UNCHANGED <<up, clients, hubVars, rdVars, send, closed, wire, redis, subVars>>

-----------------------------------------------------------------------------
(* The Redis subscriber.  It iterates over Hub.clients while the hub       *)
(* changes that map: an entry deleted in time is not produced, an entry    *)
(* added meanwhile may or may not be, the client just produced may be      *)
(* closed before the send, and the runtime may detect the race and abort.  *)

SubReceive ==
    /\ Redis /\ spc = "recv" /\ redis # <<>>
    /\ smsg' = Head(redis) /\ redis' = Tail(redis)
    /\ spc' = "loop"
    /\ \E late \in SUBSET {c \in Conns : rpc[c] = "register"} :
          sleft' = clients \cup late
    /\ UNCHANGED <<up, clients, hubVars, rdVars, wrVars, send, closed, conn>>

(* Mutant: the subscriber closes a full client as the hub does. *)
SubSendOrClose(c) ==
    /\ spc = "loop" /\ c \in sleft
    /\ rpc[c] # "register"
    /\ sleft' = sleft \ {c}
    /\ \/ closed[c] /\ up' = FALSE /\ UNCHANGED <<send, closed>>
       \/ ~closed[c] /\ Len(send[c]) < SendCap
          /\ send' = [send EXCEPT ![c] = Append(@, smsg)] /\ UNCHANGED <<up, closed>>
       \/ ~closed[c] /\ Len(send[c]) >= SendCap
          /\ closed' = [closed EXCEPT ![c] = TRUE] /\ UNCHANGED <<up, send>>
    /\ UNCHANGED <<clients, hubVars, rdVars, wrVars, conn, redis, spc, smsg>>

(* the non-blocking send to a client the iteration produced: the client   *)
(* was in the map then, and need not be any more                           *)
SubSend(c) ==
    /\ spc = "loop" /\ c \in sleft
    /\ rpc[c] # "register"
    /\ sleft' = sleft \ {c}
    /\ \/ closed[c] /\ up' = FALSE /\ UNCHANGED send
       \/ /\ ~closed[c]
          /\ send' = [send EXCEPT ![c] = IF Len(@) < SendCap THEN Append(@, smsg) ELSE @]
          /\ UNCHANGED up
    /\ UNCHANGED <<clients, hubVars, rdVars, wrVars, closed, conn, redis, spc, smsg>>

(* an entry deleted before the iteration came to it, or one not added *)
SubSkip(c) ==
    /\ spc = "loop" /\ c \in sleft \ clients
    /\ sleft' = sleft \ {c}
    /\ UNCHANGED <<up, clients, hubVars, rdVars, wrVars, send, closed, conn, redis, spc, smsg>>

SubDone ==
    /\ spc = "loop" /\ sleft = {}
    /\ spc' = "recv" /\ smsg' = System
    /\ UNCHANGED <<up, clients, hubVars, rdVars, wrVars, send, closed, conn, redis, sleft>>

(* fatal error: concurrent map iteration and map write *)
MapWritePending ==
    \/ HubReady /\ \E c \in Conns : rpc[c] \in {"register", "unregister"}
    \/ hpc = "bcast" /\ \E c \in hleft : Len(send[c]) >= SendCap

SubFatal ==
    /\ spc = "loop" /\ MapWritePending
    /\ up' = FALSE
    /\ UNCHANGED <<clients, hubVars, rdVars, wrVars, send, closed, conn, redis, subVars>>

-----------------------------------------------------------------------------
HubStep == \/ HubPark \/ HubStatus \/ HubBroadcast \/ HubBroadcastDone
           \/ \E u \in Users : HubNotify(u)
           \/ \E c \in Conns : HubRegister(c) \/ HubUnregister(c) \/ HubDirect(c)

ReaderStep(c) == \/ ReadControl(c) \/ ReadDirect(c) \/ ReadBroadcast(c)
                 \/ ReaderPublish(c) \/ ReaderOffer(c) \/ ReaderSend(c)
                 \/ ReadFail(c) \/ ReaderClose(c)

WriterStep(c) == WriteTake(c) \/ WriteDrain(c) \/ WriteFrame(c) \/ WriteClosed(c) \/ PingFail(c)

SubStep == \/ SubReceive \/ SubDone \/ SubFatal
           \/ \E c \in Conns : SubSend(c) \/ SubSkip(c)

(* A crash is the end of a behaviour: the container starts a new process,  *)
(* with new connections and an empty hub, which is another behaviour.      *)
Next == /\ up
        /\ \/ HubStep
           \/ SubStep
           \/ \E c \in Conns : Disconnect(c) \/ ReaderStep(c) \/ WriterStep(c)

Spec == Init /\ [][Next]_vars

(* Fairness.  Every goroutine that can run is scheduled (WF).  Go's select *)
(* picks at random among the ready cases and a channel serves its blocked  *)
(* senders in arrival order, so a sender the hub could serve again and     *)
(* again is served, and so is a reader waiting for room (SF).  Nobody is   *)
(* obliged to connect, to send, or to hang up, but a read on a dead        *)
(* connection returns an error (60 s deadline), and a write too (10 s).    *)
Fairness ==
    /\ WF_vars(up /\ (HubPark \/ HubStatus \/ HubBroadcast \/ HubBroadcastDone))
    /\ WF_vars(up /\ (SubReceive \/ SubDone \/ \E c \in Conns : SubSend(c) \/ SubSkip(c)))
    /\ \A c \in Conns :
         /\ SF_vars(up /\ (HubRegister(c) \/ HubUnregister(c) \/ HubDirect(c)))
         /\ SF_vars(up /\ ReaderSend(c))
         /\ WF_vars(up /\ \/ ReaderPublish(c) \/ ReaderOffer(c) \/ ReaderClose(c)
                          \/ conn[c] # "open" /\ ReadFail(c))
         /\ WF_vars(up /\ WriterStep(c))

FairSpec == Spec /\ Fairness

-----------------------------------------------------------------------------
(* Invariants.                                                             *)

TypeOK ==
    /\ up \in BOOLEAN
    /\ clients \subseteq Conns
    /\ hpc \in {"loop", "select", "bcast", "status"}
    /\ hmsg \in Message /\ hleft \subseteq Conns
    /\ rpc \in [Conns -> {"register", "read", "reply", "direct", "echo",
                          "publish", "offer", "unregister", "close", "done"}]
    /\ rmsg \in [Conns -> Message]
    /\ sent \in [Conns -> Nat] /\ \A c \in Conns : sent[c] <= MaxMsgs[c]
    /\ notices \in 0..MaxNotices
    /\ wpc \in [Conns -> {"none", "wait", "drain", "write", "done"}]
    /\ batch \in [Conns -> Seq(Message)]
    /\ wire \in [Conns -> Seq(Message)]
    /\ send \in [Conns -> Seq(Message)] /\ \A c \in Conns : Len(send[c]) <= SendCap
    /\ closed \in [Conns -> BOOLEAN]
    /\ conn \in [Conns -> {"open", "lost", "closed"}]
    /\ redis \in Seq(Message)
    /\ spc \in {"recv", "loop"}
    /\ smsg \in Message /\ sleft \subseteq Conns

(* The state of a connection's channel follows the hub's map: not in the   *)
(* map before Register was taken, then in the map exactly as long as the   *)
(* channel is open, and out of it when the reader has left.  This is what  *)
(* keeps the hub from sending on, or closing, a closed channel, and what   *)
(* lets every evicted or gone connection be closed exactly once.           *)
MapMatchesChannels ==
    \A c \in Conns :
       /\ rpc[c] = "register" => c \notin clients /\ ~closed[c]
       /\ rpc[c] # "register" => (c \in clients <=> ~closed[c])
       /\ rpc[c] \in {"close", "done"} => closed[c]

(* The hub, the readers and the writers never bring the process down: only *)
(* the subscriber can, and it exists only with Redis.                      *)
OnlyRedisPanics == ~Redis => up

(* Everything handed to connection c and not lost: received by the peer,   *)
(* in the frame being written, or still in the channel.                    *)
Stream(c) == wire[c] \o batch[c] \o send[c]

Copies(c, m) == Cardinality({i \in DOMAIN Stream(c) : Stream(c)[i] = m})

(* A broadcast is handed to no connection twice (each local client gets    *)
(* one copy: BroadcastViaRedis, hub.go:202-242).                           *)
BroadcastAtMostOnce ==
    \A c, s \in Conns : \A n \in 1..MaxMsgs[s] : Copies(c, Bcast(s, n)) <= 1

(* A direct message reaches connections of its recipient and its sender's  *)
(* own connection only; of all the tabs of the recipient at most ONE gets  *)
(* it, and the sender's connection holds its confirmation at most once.    *)
DirectDelivery ==
    \A s \in Conns : \A n \in 1..MaxMsgs[s] : \A u \in Users :
       LET m == Direct(s, n, u)
           holders == {c \in Conns : Copies(c, m) > 0}
       IN /\ \A c \in holders : c = s \/ User[c] = u
          /\ Cardinality(holders \ {s}) <= 1
          /\ \A c \in holders \ {s} : Copies(c, m) = 1
          /\ Copies(s, m) <= 1 + (IF User[s] = u /\ holders \subseteq {s} THEN 1 ELSE 0)

(* What one connection sent never overtakes itself on its way to another:  *)
(* direct messages always, broadcasts too as long as the hub is their only *)
(* way (with Redis a broadcast may come again, or later, by the echo).     *)
SenderOrder ==
    \A c \in Conns : \A i, j \in DOMAIN Stream(c) :
       LET a == Stream(c)[i]  b == Stream(c)[j]
       IN (/\ i < j /\ a # System /\ b # System /\ a.from = b.from
           /\ Redis => a.kind = "direct" /\ b.kind = "direct") => a.n <= b.n

-----------------------------------------------------------------------------
(* Action properties.                                                      *)

(* When the hub takes a direct message while its recipient has a           *)
(* registered connection, that message enters a channel of the recipient   *)
(* or the connection is given up; it is never just dropped.                *)
NoSilentLoss ==
    [][\A c \in Conns :
         (rpc[c] = "direct" /\ rpc'[c] = "echo") =>
            LET R == {r \in clients : User[r] = rmsg[c].to}
            IN \/ R = {}
               \/ \E r \in R : r \notin clients' \/ send'[r] = Append(send[r], rmsg[c])
      ]_vars

(* The outgoing stream of every connection implements the abstract outbox: *)
(* gapless, in order and closed once (Outbox.tla).                         *)
OutboxOf(c) == INSTANCE Outbox WITH
    Payload <- Message,
    pending <- batch[c] \o send[c],
    received <- wire[c],
    closed <- closed[c],
    broken <- conn[c] # "open",
    alive <- up

StreamsAreOutboxes ==
    /\ \A c \in Conns : OutboxOf(c)!Init
    /\ [][\A c \in Conns : [OutboxOf(c)!Next]_(OutboxOf(c)!vars)]_vars

-----------------------------------------------------------------------------
(* Liveness.                                                               *)

(* A connection whose channel the hub closed (evicted or unregistered) is  *)
(* torn down: both its goroutines end.                                     *)
ClosedIsTornDown ==
    \A c \in Conns :
       closed[c] ~> (~up \/ (rpc[c] = "done" /\ wpc[c] = "done"))

HubOps == {"register", "direct", "unregister"}   \* blocking sends to the hub

(* A goroutine blocked on one of the hub's channels gets through: the hub  *)
(* never blocks for good, whatever state its clients are in.               *)
SenderServed ==
    \A c \in Conns :
       rpc[c] \in HubOps ~> (~up \/ rpc[c] \notin HubOps)

-----------------------------------------------------------------------------
(* What comments and documents say and the code does not do; each is       *)
(* checked by a run that expects its violation.                            *)

(* client.go:62: a connection that is lost gets unregistered. *)
LostIsUnregistered ==
    \A c \in Conns : conn[c] = "lost" ~> (~up \/ c \notin clients)
=============================================================================
